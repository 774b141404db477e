------------------------------ MODULE Flyweight ------------------------------
(***************************************************************************)
(* The generated SBE codecs as the flyweights they are: an object that     *)
(* keeps an offset and a position in a buffer it does not own.  An encoder *)
(* wraps the buffer, puts fields in any order, opens the group of entries  *)
(* and goes through them; the buffer, cut to the length that was encoded,  *)
(* is then wrapped by a decoder.  Every access is by offset; only some of  *)
(* them are checked against the length of the buffer, and a check that     *)
(* fails throws and ends the use of the object.                            *)
(*                                                                         *)
(* The buffer is the set of the stretches written into it; each value      *)
(* carries the key of the field it was meant for, so that any overlap or   *)
(* confusion of two fields shows.                                          *)
(***************************************************************************)
EXTENDS Integers, FiniteSets

CONSTANTS
  Layout,       \* for each kind of message its template, block and fields
  Capacity,     \* lengths of the encoder's buffer
  Extra,        \* bytes that a later schema adds to block and entry
  Value,        \* what a field may be set to
  MaxCount,     \* the largest numInGroup, 65534 in the source
  MaxPuts       \* bound: fields set in a message

Kind == DOMAIN Layout

(* The fields of a block lie inside it and do not overlap; what a wrap     *)
(* checks contains the field.                                              *)
SoundTable(fields, block) ==
  /\ \A f \in DOMAIN fields :
       /\ fields[f].at \in Nat /\ fields[f].len \in Nat
       /\ fields[f].type # "constant" => fields[f].len > 0
       /\ fields[f].at + fields[f].len <= fields[f].end
       /\ fields[f].end \in Nat /\ fields[f].end <= block
  /\ \A f, g \in DOMAIN fields :
       f # g => \/ fields[f].at + fields[f].len <= fields[g].at
                \/ fields[g].at + fields[g].len <= fields[f].at

ASSUME LayoutAssumption ==
  \A k \in Kind :
    /\ Layout[k].template \in Nat
    /\ Layout[k].block \in Nat /\ Layout[k].entryBlock \in Nat
    /\ SoundTable(Layout[k].fields, Layout[k].block)
    /\ SoundTable(Layout[k].entryFields, Layout[k].entryBlock)

ASSUME FlyweightAssumption ==
  /\ Capacity \subseteq Nat /\ Extra \subseteq Nat /\ 0 \in Extra
  /\ Value \subseteq Nat
  /\ MaxCount \in Nat /\ MaxPuts \in Nat

VARIABLES
  pc,      \* what the buffer is being used for
  kind,    \* the class of the message
  extra,   \* the later schema's addition, 0 for this one
  size,    \* m_bufferLength
  mem,     \* the stretches that were written
  msg,     \* m_offset, m_position and m_actingBlockLength of the message
  grp,     \* the group's members, open once it is wrapped
  put,     \* history: what each field was set to
  placed   \* history: where the encoder's entries lie

vars == <<pc, kind, extra, size, mem, msg, grp, put, placed>>

Fields == Layout[kind].fields
EntryFields == Layout[kind].entryFields
HeaderLength == 8       \* MessageHeader::encodedLength()
GroupSizeLength == 4    \* GroupSize::encodedLength()

RootKey(f)     == [name |-> f, entry |-> 0]
EntryKey(i, f) == [name |-> f, entry |-> i]
HeaderKey(f)   == [name |-> f, entry |-> -1]
GroupKey(f)    == [name |-> f, entry |-> -2]

-----------------------------------------------------------------------------
(* The buffer *)

Stretch(at, len, key, value) ==
  [at |-> at, len |-> len, key |-> key, value |-> value]

Apart(s, at, len) == s.at + s.len <= at \/ at + len <= s.at

(* Bytes of which only a part is overwritten mean nothing any more.        *)
Spoilt == [name |-> "spoilt", entry |-> -3]

(* Mutant: memcpy of the whole word whatever the width of the field.       *)
WriteWide(m, at, len, key, value) ==
  {IF Apart(s, at, 8) \/ (s.at = at /\ s.len = len) THEN s ELSE [s EXCEPT !.key = Spoilt]
     : s \in {t \in m : ~(t.at = at /\ t.len = len)}}
    \cup {Stretch(at, len, key, value)}

Write(m, at, len, key, value) ==
  {IF Apart(s, at, len) THEN s ELSE [s EXCEPT !.key = Spoilt]
     : s \in {t \in m : ~(t.at = at /\ t.len = len)}}
    \cup {Stretch(at, len, key, value)}

(* The encoder's vector is zero where nothing was written.                 *)
Zero == [key |-> [name |-> "zero", entry |-> 0], value |-> 0]

Read(m, at, len) ==
  LET hit == {s \in m : ~Apart(s, at, len)}
  IN  IF hit = {} THEN Zero
      ELSE LET s == CHOOSE t \in hit : TRUE
           IN  IF hit = {s} /\ s.at = at /\ s.len = len
               THEN [key |-> s.key, value |-> s.value]
               ELSE [key |-> Spoilt, value |-> 0]

(* MessageHeader: the four setters of its wrap in the encoder.             *)
WriteHeader(m, block, template) ==
  Write(Write(Write(Write(m,
    0, 2, HeaderKey("blockLength"), block),
    2, 2, HeaderKey("templateId"), template),
    4, 2, HeaderKey("schemaId"), 101),
    6, 2, HeaderKey("version"), 1)

(* GroupSize: both setters.                                                *)
WriteGroupSize(m, at, block, count) ==
  Write(Write(m, at, 2, GroupKey("blockLength"), block),
        at + 2, 2, GroupKey("numInGroup"), count)

-----------------------------------------------------------------------------
(* Encoding *)

NoGroup == [open |-> FALSE, start |-> 0, block |-> 0, count |-> 0,
            index |-> 0, offset |-> 0]

Init ==
  /\ pc = "new"
  /\ kind \in Kind /\ extra \in Extra /\ size \in Capacity
  /\ mem = {}
  /\ msg = [offset |-> 0, position |-> 0, block |-> 0]
  /\ grp = NoGroup
  /\ put = << >> /\ placed = << >>

object == <<kind, extra, size>>
history == <<put, placed>>

Throw == pc' = "threw" /\ UNCHANGED <<object, mem, msg, grp, history>>

(* wrap of the message header and its setters [E107], then wrapForEncode   *)
(* of the message behind it [E100]; wrapAndApplyHeader is the two in one.  *)
WrapForEncode ==
  /\ pc = "new"
  /\ LET block == Layout[kind].block + extra IN
     IF HeaderLength + block > size
     THEN Throw
     ELSE /\ mem' = WriteHeader(mem, block, Layout[kind].template)
          /\ msg' = [offset |-> HeaderLength, position |-> HeaderLength + block,
                     block |-> block]
          /\ pc' = "encode"
          /\ UNCHANGED <<object, grp, history>>

(* A setter: memcpy into the block, checked for a composite only, whose    *)
(* wrap throws [E107].  tooLong is a string longer than its field [E106]   *)
(* or an index behind its end [E105].                                      *)
PutAt(base, field, key, value, tooLong) ==
  /\ field.type # "constant"
  /\ tooLong => field.type = "chars"
  /\ IF tooLong \/ (field.type = "composite" /\ base + field.end > size)
     THEN Throw
     ELSE /\ mem' = Write(mem, base + field.at, field.len, key, value)
          /\ put' = [k \in DOMAIN put \cup {key} |-> IF k = key THEN value ELSE put[k]]
          /\ UNCHANGED <<pc, object, msg, grp, placed>>

Put(f, value, tooLong) ==
  /\ pc = "encode"
  /\ f \in DOMAIN Fields
  /\ PutAt(msg.offset, Fields[f], RootKey(f), value, tooLong)

PutEntry(f, value) ==
  /\ pc = "encode"
  /\ grp.index > 0
  /\ f \in DOMAIN EntryFields
  /\ PutAt(grp.offset, EntryFields[f], EntryKey(grp.index, f), value, FALSE)

(* Mutant: the size of the group is not checked against the buffer.        *)
CountEntriesUnchecked(count) ==
  /\ pc = "encode" /\ Layout[kind].entryBlock > 0 /\ ~grp.open
  /\ IF count > MaxCount
     THEN Throw
     ELSE /\ mem' = WriteGroupSize(mem, msg.position, Layout[kind].entryBlock + extra, count)
          /\ grp' = [open |-> TRUE, start |-> msg.position, count |-> count,
                     block |-> Layout[kind].entryBlock + extra, index |-> 0, offset |-> 0]
          /\ msg' = [msg EXCEPT !.position = @ + GroupSizeLength]
          /\ UNCHANGED <<pc, object, history>>

(* noMDEntriesCount, which wraps the group for encoding: a count of 65535  *)
(* [E110] or no room for the dimensions [E107] throws.                     *)
CountEntries(count) ==
  /\ pc = "encode" /\ Layout[kind].entryBlock > 0 /\ ~grp.open
  /\ IF count > MaxCount \/ msg.position + GroupSizeLength > size
     THEN Throw
     ELSE /\ mem' = WriteGroupSize(mem, msg.position, Layout[kind].entryBlock + extra, count)
          /\ grp' = [open |-> TRUE, start |-> msg.position, count |-> count,
                     block |-> Layout[kind].entryBlock + extra, index |-> 0, offset |-> 0]
          /\ msg' = [msg EXCEPT !.position = @ + GroupSizeLength]
          /\ UNCHANGED <<pc, object, history>>

(* Mutant: next() without the check of the count.                          *)
NextEntryUncounted ==
  /\ pc \in {"encode", "decode"}
  /\ grp.open
  /\ IF msg.position + grp.block > size
     THEN Throw
     ELSE /\ grp' = [grp EXCEPT !.offset = msg.position, !.index = @ + 1]
          /\ msg' = [msg EXCEPT !.position = @ + grp.block]
          /\ placed' = IF pc = "encode"
                       THEN [i \in 1..(grp.index + 1) |->
                               IF i <= grp.index THEN placed[i] ELSE msg.position]
                       ELSE placed
          /\ UNCHANGED <<pc, object, mem, put>>

(* next() moves the message's position behind the entry it opens [E108].   *)
(* The decoder uses the same one.                                          *)
NextEntry ==
  /\ pc \in {"encode", "decode"}
  /\ grp.open
  /\ IF grp.index >= grp.count \/ msg.position + grp.block > size
     THEN Throw
     ELSE /\ grp' = [grp EXCEPT !.offset = msg.position, !.index = @ + 1]
          /\ msg' = [msg EXCEPT !.position = @ + grp.block]
          /\ placed' = IF pc = "encode"
                       THEN [i \in 1..(grp.index + 1) |->
                               IF i <= grp.index THEN placed[i] ELSE msg.position]
                       ELSE placed
          /\ UNCHANGED <<pc, object, mem, put>>

(* Mutant: the count is set to the index of the entry before.              *)
ResetCountBelowIndex ==
  /\ pc = "encode"
  /\ grp.open
  /\ grp' = [grp EXCEPT !.count = grp.index - 1]
  /\ mem' = Write(mem, grp.start + 2, 2, GroupKey("numInGroup"), grp.index - 1)
  /\ UNCHANGED <<pc, object, msg, history>>

(* resetCountToIndex: fewer entries than were announced.                   *)
ResetCountToIndex ==
  /\ pc = "encode"
  /\ grp.open
  /\ grp' = [grp EXCEPT !.count = grp.index]
  /\ mem' = Write(mem, grp.start + 2, 2, GroupKey("numInGroup"), grp.index)
  /\ UNCHANGED <<pc, object, msg, history>>

(* Mutant: the vector keeps the length it was made with.                   *)
FinishUncut ==
  /\ pc = "encode"
  /\ pc' = "sent"
  /\ UNCHANGED <<object, mem, msg, grp, history>>

(* buffer.resize(header.encodedLength() + message.encodedLength()), with   *)
(* what is behind it cut off; the message is on its way.                   *)
Finish ==
  /\ pc = "encode"
  /\ size' = msg.position
  /\ mem' = {s \in mem : s.at < msg.position}
  /\ pc' = "sent"
  /\ UNCHANGED <<kind, extra, msg, grp, history>>

-----------------------------------------------------------------------------
(* Decoding *)

(* wrapForDecode behind the header, with the block length found there.     *)
WrapForDecode ==
  /\ pc = "sent"
  /\ LET block == Read(mem, 0, 2).value IN
     IF HeaderLength + block > size
     THEN Throw
     ELSE /\ msg' = [offset |-> HeaderLength, position |-> HeaderLength + block,
                     block |-> block]
          /\ grp' = NoGroup
          /\ pc' = "decode"
          /\ UNCHANGED <<object, mem, history>>

(* A getter, which changes nothing: Absent where it throws, since the      *)
(* composite ends behind the buffer [E107] or an enumeration does not know *)
(* the value [E103].  A constant reads nothing.                            *)
Absent == [key |-> [name |-> "absent", entry |-> 0], value |-> -1]

Plain(base, field, key) ==
  IF field.type = "constant" THEN [key |-> key, value |-> 0]
  ELSE Read(mem, base + field.at, field.len)

GetAt(base, field, key) ==
  LET value == Plain(base, field, key)
  IN  IF \/ field.type = "composite" /\ base + field.end > size
         \/ field.type = "enum" /\ value.value \notin field.codes
      THEN Absent ELSE value

Get(f) == GetAt(msg.offset, Fields[f], RootKey(f))

GetEntry(f) == GetAt(grp.offset, EntryFields[f], EntryKey(grp.index, f))

(* Mutant: the entries are taken to be as long as this schema's.           *)
OpenEntriesOwnLength ==
  /\ pc = "decode" /\ Layout[kind].entryBlock > 0 /\ ~grp.open
  /\ IF msg.position + GroupSizeLength > size
     THEN Throw
     ELSE /\ grp' = [open |-> TRUE, start |-> msg.position, index |-> 0, offset |-> 0,
                     block |-> Layout[kind].entryBlock,
                     count |-> Read(mem, msg.position + 2, 2).value]
          /\ msg' = [msg EXCEPT !.position = @ + GroupSizeLength]
          /\ UNCHANGED <<pc, object, mem, history>>

(* noMDEntries(), which wraps the group for decoding where the position    *)
(* is.  Every caller takes the group once after a wrap or a rewind.        *)
OpenEntries ==
  /\ pc = "decode" /\ Layout[kind].entryBlock > 0 /\ ~grp.open
  /\ IF msg.position + GroupSizeLength > size
     THEN Throw
     ELSE /\ grp' = [open |-> TRUE, start |-> msg.position, index |-> 0, offset |-> 0,
                     block |-> Read(mem, msg.position, 2).value,
                     count |-> Read(mem, msg.position + 2, 2).value]
          /\ msg' = [msg EXCEPT !.position = @ + GroupSizeLength]
          /\ UNCHANGED <<pc, object, mem, history>>

(* sbeRewind: back to the end of the block, the group to be taken again.   *)
Rewind ==
  /\ pc = "decode"
  /\ msg' = [msg EXCEPT !.position = msg.offset + msg.block]
  /\ grp' = NoGroup
  /\ UNCHANGED <<pc, object, mem, history>>

-----------------------------------------------------------------------------
(* The setter of an enumeration takes its enumerators.                     *)
MayPut(field) == IF field.type = "enum" THEN Value \cap field.codes ELSE Value

Encode ==
  \/ WrapForEncode
  \/ /\ Cardinality(DOMAIN put) < MaxPuts
     /\ \/ \E f \in DOMAIN Fields, tooLong \in BOOLEAN :
             \E value \in MayPut(Fields[f]) : Put(f, value, tooLong)
        \/ \E f \in DOMAIN EntryFields :
             \E value \in MayPut(EntryFields[f]) : PutEntry(f, value)
  \/ \E count \in 0..(MaxCount + 1) : CountEntries(count)
  \/ ResetCountToIndex
  \/ Finish

Decode ==
  \/ WrapForDecode
  \/ OpenEntries
  \/ Rewind

Next == Encode \/ NextEntry \/ Decode

Spec == Init /\ [][Next]_vars

-----------------------------------------------------------------------------
(* Types.  The members of the three objects and of the buffer.             *)
TypeOK ==
  /\ pc \in {"new", "encode", "sent", "decode", "threw"}
  /\ kind \in Kind /\ extra \in Extra /\ size \in Nat
  /\ \A s \in mem : s.at \in Nat /\ s.len \in Nat /\ s.value \in Nat
  /\ msg \in [offset : Nat, position : Nat, block : Nat]
  /\ grp \in [open : BOOLEAN, start : Nat, block : Nat, count : Nat,
              index : Nat, offset : Nat]
  /\ \A k \in DOMAIN put : put[k] \in Nat
  /\ \A i \in DOMAIN placed : placed[i] \in Nat

(* No write is outside of the vector.  The setters of plain fields, of     *)
(* characters and of enumerations do not look at the length: what the      *)
(* wrap, the group and next() checked has to be enough for them.           *)
InBounds == \A s \in mem : s.at + s.len <= size

(* What a getter returns is what its setter was given last, in the same    *)
(* entry, and 0 where nothing was: also when the message is of a later     *)
(* schema whose blocks are longer, and after a rewind.  A getter throws    *)
(* for a code that is no enumerator and for nothing else.                  *)
Returns(base, field, key) ==
  LET set == IF key \in DOMAIN put THEN put[key] ELSE 0 IN
  GetAt(base, field, key) =
    IF field.type = "enum" /\ set \notin field.codes THEN Absent
    ELSE [key |-> IF key \in DOMAIN put \/ field.type = "constant" THEN key ELSE Zero.key,
          value |-> set]

RoundTrip ==
  pc = "decode" =>
    /\ \A f \in DOMAIN Fields : Returns(msg.offset, Fields[f], RootKey(f))
    /\ grp.index > 0 =>
         \A f \in DOMAIN EntryFields :
           Returns(grp.offset, EntryFields[f], EntryKey(grp.index, f))
=============================================================================
