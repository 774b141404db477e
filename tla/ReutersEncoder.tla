--------------------------- MODULE ReutersEncoder ---------------------------
(***************************************************************************)
(* How the server uses the codecs (src/reuters_encoder.cpp): for each kind *)
(* of event a fixed sequence of calls of the flyweight, on a vector that   *)
(* is longer than the message and cut at the end.  An exception leaves the *)
(* encoder and nothing is returned.                                        *)
(***************************************************************************)
EXTENDS Flyweight, Sequences

CONSTANTS
  Event,        \* events to encode
  CountModulus  \* what the cast of the count wraps at, 65536 in the source

ASSUME EncoderAssumption == CountModulus \in Nat \ {0}

PriceLevel == [price : Nat, quantity : Nat]
Action == {"ADD", "CHANGE", "DELETE", "OVERLAY", "CLEAR"}

(* What sbeBlockLength of each class and of its entries is. *)
ASSUME SizesAssumption ==
  \A k \in Kind :
    <<k, Layout[k].block, Layout[k].entryBlock>> \in
      {<<"HEARTBEAT", 0, 0>>, <<"SECDEF", 106, 0>>, <<"SNAPSHOT", 46, 17>>,
       <<"QUOTE", 36, 18>>, <<"TRADE", 24, 29>>}

(* What the generator puts into an event: ids, numbers, times, quantities  *)
(* and prices are natural numbers.                                         *)
ASSUME EventAssumption ==
  \A e \in Event :
    /\ e.kind \in {"HEARTBEAT", "SECDEF", "SNAPSHOT", "QUOTE", "TRADE"}
    /\ e.kind = "SECDEF" => {e.time, e.id, e.symbol} \subseteq Nat /\ e.longSymbol \in BOOLEAN
    /\ e.kind = "SNAPSHOT" => /\ {e.id, e.time, e.seq} \subseteq Nat
                              /\ e.bids \in Seq(PriceLevel) /\ e.asks \in Seq(PriceLevel)
    /\ e.kind = "QUOTE" => /\ {e.id, e.time, e.seq, e.price, e.quantity} \subseteq Nat
                           /\ e.action \in Action
    /\ e.kind = "TRADE" => {e.id, e.time, e.price, e.quantity} \subseteq Nat

VARIABLES event, calls      \* the event and the calls that are still to make

W == INSTANCE Wire        \* lengths as the publisher's packets have them

encoderVars == <<vars, event, calls>>

Other == [kind |-> "OTHER"]    \* another user of the classes

-----------------------------------------------------------------------------
(* Core enumerations: market_core's Side and UpdateAction by their values. *)
ActionValue(action) ==
  CASE action = "ADD" -> 0 [] action = "CHANGE" -> 1 [] action = "DELETE" -> 2
    [] action = "OVERLAY" -> 3 [] action = "CLEAR" -> 4
BID == 48
OFFER == 49

(* What the typed getters of the classes know: a zero everywhere but for   *)
(* the rate term, and of what the encoder sets all but two update actions. *)
ASSUME CodesAssumption ==
  \A k \in Kind :
    LET Enums(fields) == {f \in DOMAIN fields : fields[f].type = "enum"}
        block == Layout[k].fields
        entry == Layout[k].entryFields
    IN  /\ \A f \in Enums(block) :
             /\ f \in {"securityUpdateAction", "securityType", "rateTerm"}
             /\ f # "rateTerm" => 0 \in block[f].codes
             /\ f = "securityUpdateAction" => 65 \in block[f].codes
        /\ \A f \in Enums(entry) :
             /\ f \in {"mDUpdateAction", "mDEntryType", "aggressorSide"}
             /\ 0 \in entry[f].codes
             /\ f = "mDEntryType" => {BID, OFFER} \subseteq entry[f].codes
             /\ f = "aggressorSide" => {1, 2} \subseteq entry[f].codes
             /\ f = "mDUpdateAction" => /\ k = "QUOTE"
                                       /\ entry[f].codes \cap 0..4 = 0..2
        /\ k = "QUOTE" => "mDUpdateAction" \in Enums(entry)

(* price * 1e9, cut to an integer.  Prices count tenths of that unit here. *)
Mantissa(price) == price \div 10

Call(op, field, value, tooLong) ==
  [op |-> op, field |-> field, value |-> value, tooLong |-> tooLong]
Wrap == Call("wrap", "", 0, FALSE)
Count(n) == Call("count", "", n, FALSE)
NextCall == Call("next", "", 0, FALSE)
Set(f, value) == Call("put", f, value, FALSE)
SetEntry(f, value) == Call("entry", f, value, FALSE)

Heartbeat == <<Wrap>>

(* The symbol is the instrument's, of any length; securityUpdateAction is  *)
(* ADD and the currencies are always USD and EUR.                          *)
Definition(e) ==
  <<Wrap, Set("securityUpdateAction", 65), Set("lastUpdateTime", e.time),
    Set("securityID", e.id), Call("put", "symbol", e.symbol, e.longSymbol),
    Set("currency1", 840), Set("currency2", 978)>>

LevelCalls(type, level) ==
  <<NextCall, SetEntry("mDEntryType", type),
    SetEntry("mDEntryPx.mantissa", Mantissa(level.price)),
    SetEntry("mDEntrySize", level.quantity)>>

(* The calls of one level after the other, four for each.                  *)
SideCalls(type, levels) ==
  [j \in 1..(4 * Len(levels)) |->
     LevelCalls(type, levels[((j - 1) \div 4) + 1])[((j - 1) % 4) + 1]]

Snapshot(e) ==
  <<Wrap, Set("securityID", e.id), Set("transactTime", e.time), Set("rptSeq", e.seq),
    Count((Len(e.bids) + Len(e.asks)) % CountModulus)>>
    \o SideCalls(BID, e.bids) \o SideCalls(OFFER, e.asks)

Quote(e) ==
  <<Wrap, Set("securityID", e.id), Set("rptSeq", e.seq), Set("transactTime", e.time),
    Count(1), NextCall, SetEntry("mDUpdateAction", ActionValue(e.action)),
    SetEntry("mDEntryType", IF e.side = "BID" THEN BID ELSE OFFER),
    SetEntry("mDEntryPx.mantissa", Mantissa(e.price)),
    SetEntry("mDEntrySize", e.quantity)>>

(* Mutant: the core's Side plus one, cast as the quote's action is.        *)
TradeCast(e) ==
  <<Wrap, Set("securityID", e.id), Count(1), NextCall,
    SetEntry("transactTime", e.time),
    SetEntry("mDEntryPx.mantissa", Mantissa(e.price)),
    SetEntry("mDEntrySize", e.quantity),
    SetEntry("aggressorSide", CASE e.aggressor = "absent" -> 0
                                [] e.aggressor = "BID" -> 1
                                [] e.aggressor = "ASK" -> 2
                                [] OTHER -> 3)>>

(* An aggressor that is absent is written as NONE.                         *)
Trade(e) ==
  <<Wrap, Set("securityID", e.id), Count(1), NextCall,
    SetEntry("transactTime", e.time),
    SetEntry("mDEntryPx.mantissa", Mantissa(e.price)),
    SetEntry("mDEntrySize", e.quantity),
    SetEntry("aggressorSide", CASE e.aggressor = "absent" -> 0
                                [] e.aggressor = "BID" -> 1
                                [] OTHER -> 2)>>

CallsOf(e) ==
  CASE e.kind = "HEARTBEAT" -> Heartbeat
    [] e.kind = "SECDEF"    -> Definition(e)
    [] e.kind = "SNAPSHOT"  -> Snapshot(e)
    [] e.kind = "QUOTE"     -> Quote(e)
    [] e.kind = "TRADE"     -> Trade(e)
    [] OTHER                -> << >>

-----------------------------------------------------------------------------
EncoderInit ==
  /\ Init
  /\ event \in Event \cup {Other}
  /\ event = Other \/ (kind = event.kind /\ extra = 0)
  /\ calls = CallsOf(event)

MakeCall(c) ==
  \/ c.op = "wrap"  /\ WrapForEncode
  \/ c.op = "put"   /\ Put(c.field, c.value, c.tooLong)
  \/ c.op = "count" /\ CountEntries(c.value)
  \/ c.op = "next"  /\ NextEntry
  \/ c.op = "entry" /\ PutEntry(c.field, c.value)

EncodeEvent ==
  /\ event # Other /\ pc \in {"new", "encode"}
  /\ \/ /\ calls # << >>
        /\ MakeCall(Head(calls))
        /\ calls' = Tail(calls)
     \/ /\ calls = << >>
        /\ Finish
        /\ UNCHANGED calls
  /\ UNCHANGED event

UseOtherwise ==
  /\ event = Other
  /\ Encode \/ (pc = "encode" /\ NextEntry)
  /\ UNCHANGED <<event, calls>>

Receive ==
  /\ Decode \/ (pc = "decode" /\ NextEntry)
  /\ UNCHANGED <<event, calls>>

EncoderNext == EncodeEvent \/ UseOtherwise \/ Receive

EncoderSpec == EncoderInit /\ [][EncoderNext]_encoderVars

-----------------------------------------------------------------------------
(* What a reader of the message finds in entry i, and in the block.        *)
EntryHolds(i, f, value) ==
  \E s \in mem : s.key = EntryKey(i, f) /\ s.value = value
BlockHolds(f, value) ==
  \E s \in mem : s.key = RootKey(f) /\ s.value = value

SideArrives(levels, type, before) ==
  \A i \in DOMAIN levels :
    /\ EntryHolds(before + i, "mDEntryType", type)
    /\ EntryHolds(before + i, "mDEntryPx.mantissa", Mantissa(levels[i].price))
    /\ EntryHolds(before + i, "mDEntrySize", levels[i].quantity)

(* A snapshot that leaves the encoder holds every level of the book's two  *)
(* sides, each under its side, and its count says so: whatever the count   *)
(* is cut to by the cast and wherever the vector ends, no shortened        *)
(* snapshot is sent.                                                       *)
SnapshotIsWhole ==
  (event.kind = "SNAPSHOT" /\ pc = "sent") =>
    /\ SideArrives(event.bids, BID, 0)
    /\ SideArrives(event.asks, OFFER, Len(event.bids))
    /\ Cardinality(DOMAIN placed) = Len(event.bids) + Len(event.asks)
    /\ \E s \in mem : s.key = GroupKey("numInGroup")
                        /\ s.value = Len(event.bids) + Len(event.asks)

(* The block that decodeLength() skips is this schema's, whatever the      *)
(* header says; -1 where the skip throws.                                  *)
DecodeLength ==
  LET start   == HeaderLength + Layout[kind].block
      entries == start + GroupSizeLength
      end     == entries + Read(mem, start + 2, 2).value * Read(mem, start, 2).value
  IN  IF Layout[kind].entryBlock = 0 THEN Layout[kind].block
      ELSE IF entries > size \/ end > size THEN -1
      ELSE end - HeaderLength

(* The length of a message as the encoder reckons it from its position, as *)
(* decodeLength() finds it in the bytes, and as the layout has it: the     *)
(* same, for every message whose announced entries were all opened.        *)
LengthsAgree ==
  /\ (pc = "sent" /\ event # Other) => size = W!MessageLength(kind, grp.count)
  /\ (pc = "sent" /\ extra = 0 /\ grp.index = grp.count
        /\ (grp.open \/ Layout[kind].entryBlock = 0)) =>
       DecodeLength = size - HeaderLength

(* A typed getter fails on what this server sends for two fields only: the *)
(* rate term, which no definition sets and whose zero is no RateTerm, and  *)
(* the update action of OVERLAY and CLEAR, which the cast lets through.    *)
UnreadableFields ==
  (event # Other /\ pc = "decode") =>
    /\ \A f \in DOMAIN Fields : Get(f) = Absent => f = "rateTerm"
    /\ grp.index > 0 =>
         \A f \in DOMAIN EntryFields :
           GetEntry(f) = Absent <=> /\ f = "mDUpdateAction" /\ event.kind = "QUOTE"
                                    /\ event.action \in {"OVERLAY", "CLEAR"}
=============================================================================
