----------------------------- MODULE ServerProofs -----------------------------
(***************************************************************************)
(* Theorems about Server, for every set of instruments, prices and         *)
(* quantities and every bound: the type invariant, that a subscriber's     *)
(* mirror of the book is right, and the two action properties about what   *)
(* is published and when.                                                  *)
(***************************************************************************)
EXTENDS Server, BookOpsProofs

USE DEF Side

(* What the phase of main says about the flags and the subscriber: the     *)
(* adapter listens and runs from the first definitions to the shutdown,    *)
(* before that nothing was published and no snapshot seen.                 *)
Running == pc \in {"first definitions", "while", "run_once", "definitions",
                   "update?", "update", "snapshot?", "snapshot", "shutdown"}

PhaseInv ==
  /\ Running => listening /\ adapter_running
  /\ pc = "initialize" => listening
  /\ pc \in {"initial", "initialize"} =>
       /\ ~adapter_running
       /\ \A i \in Instrument : joined[i] = "no"
  /\ pc = "initial" =>
       \A i \in todo : published[i] = 0 /\ instrument_sequences[i] = 0

MirrorInv(i) ==
  /\ joined[i] # "no" => Agrees(mirror[i], levels[i])
  /\ joined[i] = "full" => mirror[i] = levels[i]

LEMMA MirrorIsInv == MirrorRight <=> \A i \in Instrument : MirrorInv(i)
BY DEF MirrorRight, MirrorInv, Agrees

IInv == TypeOK /\ PhaseInv /\ MirrorRight

-----------------------------------------------------------------------------
(* What one generated update does *)

QuoteMessage(i) ==
  [kind |-> "QUOTE", instrument |-> i, rptSeq |-> instrument_sequences[i] + 1]

TradeMessage(i) == [kind |-> "TRADE", instrument |-> i]

Counted(i) ==
  instrument_sequences' =
    [instrument_sequences EXCEPT ![i] = instrument_sequences[i] + 1]

QuoteStep(i, quote) ==
  /\ levels' = [levels EXCEPT ![i] = ApplyQuoteEvent(levels[i], quote)]
  /\ Counted(i)
  /\ Notify(i, QuoteMessage(i), ApplyQuoteEvent(mirror[i], quote))

TradeStep(i) ==
  /\ UNCHANGED levels
  /\ Counted(i)
  /\ Notify(i, TradeMessage(i), mirror[i])

LEMMA GenerateCases ==
  ASSUME NEW i \in Instrument, TypeOK, GenerateUpdate(i)
  PROVE  \/ \E quote \in QuoteOf(Price, Quantity) : QuoteStep(i, quote)
         \/ TradeStep(i)
         \/ UNCHANGED <<genvars, subvars>>
<1>0. levels \in [Instrument -> BookType(Price, Quantity)]
  BY DEF TypeOK
<1>1. CASE GenerateQuote(i)
  <2>1. PICK s \in Side, action \in {"ADD", "CHANGE", "DELETE"},
             p \in Price, n \in Quantity :
          LET quote == [side |-> s, action |-> action,
                        price |-> QuotePrice(i, s, action, p), quantity |-> n]
              seq == instrument_sequences[i] + 1
          IN  /\ quote.price \in Price
              /\ instrument_sequences' = [instrument_sequences EXCEPT ![i] = seq]
              /\ levels' = [levels EXCEPT ![i] = ApplyQuoteEvent(@, quote)]
              /\ Notify(i, [kind |-> "QUOTE", instrument |-> i, rptSeq |-> seq],
                        ApplyQuoteEvent(mirror[i], quote))
    BY <1>1 DEF GenerateQuote
  <2> DEFINE quote == [side |-> s, action |-> action,
                       price |-> QuotePrice(i, s, action, p), quantity |-> n]
  <2>2. quote \in QuoteOf(Price, Quantity)
    <3>1. QuotePrice(i, s, action, p) \in Price BY <2>1
    <3> HIDE DEF quote
    <3> QED BY <3>1 DEF QuoteOf, quote
  <2>3. QuoteStep(i, quote)
    BY <2>1 DEF QuoteStep, Counted, QuoteMessage
  <2> QED BY <2>2, <2>3
<1>2. CASE GenerateTrade(i)
  BY <1>2 DEF GenerateTrade, TradeStep, Counted, TradeMessage
<1>3. CASE GenerateNothing(i)
  BY <1>3 DEF GenerateNothing
<1> QED BY <1>1, <1>2, <1>3 DEF GenerateUpdate

(* The variables generate_update touches keep their types, the subscriber's *)
(* only when it hears of the change.                                       *)
GenTypes ==
  /\ levels \in [Instrument -> BookType(Price, Quantity)]
  /\ instrument_sequences \in [Instrument -> Nat]
  /\ published \in [Instrument -> Nat]
  /\ mirror \in [Instrument -> BookType(Price, Quantity)]
  /\ joined \in [Instrument -> {"no", "partial", "full"}]

LEMMA GenerateTypes ==
  ASSUME NEW i \in Instrument, TypeOK, GenerateUpdate(i)
  PROVE  GenTypes' /\ joined' = joined
<1>0. GenTypes BY DEF TypeOK, GenTypes
<1>1. ASSUME NEW quote \in QuoteOf(Price, Quantity), QuoteStep(i, quote)
      PROVE  GenTypes' /\ joined' = joined
  <2>1. /\ ApplyQuoteEvent(levels[i], quote) \in BookType(Price, Quantity)
        /\ ApplyQuoteEvent(mirror[i], quote) \in BookType(Price, Quantity)
    BY <1>0, ApplyQuoteType DEF GenTypes
  <2> QED BY <1>0, <1>1, <2>1
          DEF GenTypes, QuoteStep, Counted, Notify, subvars
<1>2. CASE TradeStep(i)
  BY <1>0, <1>2 DEF GenTypes, TradeStep, Counted, Notify, subvars
<1>3. CASE UNCHANGED <<genvars, subvars>>
  BY <1>0, <1>3 DEF GenTypes, genvars, subvars
<1> QED BY <1>1, <1>2, <1>3, GenerateCases

(* While the adapter listens and runs the mirror follows the book.         *)
LEMMA GenerateMirror ==
  ASSUME NEW i \in Instrument, TypeOK, GenerateUpdate(i),
         listening, adapter_running,
         NEW j \in Instrument, MirrorInv(j)
  PROVE  MirrorInv(j)'
<1>0. GenTypes /\ joined' = joined
  BY GenerateTypes DEF TypeOK, GenTypes
<1>1. ASSUME NEW quote \in QuoteOf(Price, Quantity), QuoteStep(i, quote)
      PROVE  MirrorInv(j)'
  <2>1. /\ levels' = [levels EXCEPT ![i] = ApplyQuoteEvent(levels[i], quote)]
        /\ mirror' = [mirror EXCEPT ![i] = ApplyQuoteEvent(mirror[i], quote)]
    BY <1>1 DEF QuoteStep, Notify
  <2>2. CASE j = i
    <3>1. /\ levels'[j] = ApplyQuoteEvent(levels[j], quote)
          /\ mirror'[j] = ApplyQuoteEvent(mirror[j], quote)
      BY <1>0, <2>1, <2>2 DEF GenTypes
    <3>2. Agrees(mirror[j], levels[j]) => Agrees(mirror'[j], levels'[j])
      BY <3>1, ApplyQuoteAgrees
    <3> QED BY <1>0, <3>1, <3>2 DEF MirrorInv, Agrees
  <2>3. CASE j # i
    <3>1. levels'[j] = levels[j] /\ mirror'[j] = mirror[j]
      BY <1>0, <2>1, <2>3 DEF GenTypes
    <3> QED BY <1>0, <3>1 DEF MirrorInv, Agrees
  <2> QED BY <2>2, <2>3
<1>2. CASE TradeStep(i)
  <2>1. levels' = levels /\ mirror' = mirror
    BY <1>0, <1>2 DEF TradeStep, Notify, GenTypes
  <2> QED BY <1>0, <2>1 DEF MirrorInv, Agrees
<1>3. CASE UNCHANGED <<genvars, subvars>>
  BY <1>3 DEF MirrorInv, Agrees, genvars, subvars
<1> QED BY <1>1, <1>2, <1>3, GenerateCases

-----------------------------------------------------------------------------
(* What a snapshot shows *)

LEMMA SnapshotShows ==
  ASSUME NEW i \in Instrument, TypeOK
  PROVE  /\ SnapshotLevels(i) \in BookType(Price, Quantity)
         /\ Agrees(SnapshotLevels(i), levels[i])
         /\ (\A s \in Side : Depth(levels[i], s) <= SnapshotDepth)
              => SnapshotLevels(i) = levels[i]
<1> DEFINE lv == levels[i]
<1>1. lv \in BookType(Price, Quantity) BY DEF TypeOK
<1>2. /\ lv = [s \in Side |-> lv[s]]
      /\ \A s \in Side : /\ DOMAIN lv[s] \subseteq Price
                        /\ lv[s] \in [DOMAIN lv[s] -> LevelOf(Price, Quantity)]
  BY <1>1, SideUnfold
<1>3. /\ SnapshotLevels(i) = [s \in Side |-> SnapshotLevels(i)[s]]
      /\ \A s \in Side : SnapshotLevels(i)[s] =
           [p \in TopPrices(lv, s, SnapshotDepth) |-> lv[s][p]]
  BY DEF SnapshotLevels
<1>4. \A s \in Side : TopPrices(lv, s, SnapshotDepth) \subseteq DOMAIN lv[s]
  BY DEF TopPrices
<1> HIDE DEF lv
<1>5. SnapshotLevels(i) \in BookType(Price, Quantity)
  <2>1. \A s \in Side :
          /\ DOMAIN SnapshotLevels(i)[s] \subseteq Price
          /\ SnapshotLevels(i)[s]
               \in [DOMAIN SnapshotLevels(i)[s] -> LevelOf(Price, Quantity)]
    BY <1>2, <1>3, <1>4
  <2> QED BY <1>3, <2>1, SideUnfold
<1>6. Agrees(SnapshotLevels(i), lv)
  BY <1>3, <1>4 DEF Agrees
<1>7. ASSUME \A s \in Side : Depth(lv, s) <= SnapshotDepth
      PROVE  SnapshotLevels(i) = lv
  <2>1. \A s \in Side : TopPrices(lv, s, SnapshotDepth) = DOMAIN lv[s]
    BY <1>1, <1>7, TopPricesAll, PriceAssumption, BoundAssumption DEF lv
  <2>2. \A s \in Side : SnapshotLevels(i)[s] = lv[s]
    BY <1>2, <1>3, <2>1
  <2> QED BY <1>2, <1>3, <2>2
<1> QED BY <1>5, <1>6, <1>7 DEF lv

LEMMA SnapshotMirror ==
  ASSUME NEW i \in Instrument, TypeOK, SnapshotOne(i)
  PROVE  /\ GenTypes'
         /\ \A j \in Instrument : MirrorInv(j) => MirrorInv(j)'
<1>0. GenTypes BY DEF TypeOK, GenTypes
<1>1. /\ mirror' = [mirror EXCEPT ![i] = SnapshotLevels(i)]
      /\ joined' = [joined EXCEPT ![i] =
                      IF \A s \in Side : Depth(levels[i], s) <= SnapshotDepth
                      THEN "full" ELSE "partial"]
      /\ levels' = levels
      /\ UNCHANGED <<instrument_sequences, published>>
  BY DEF SnapshotOne, genvars
<1>2. GenTypes' BY <1>0, <1>1, SnapshotShows DEF GenTypes
<1>3. ASSUME NEW j \in Instrument, MirrorInv(j), j # i
      PROVE  MirrorInv(j)'
  BY <1>0, <1>1, <1>3 DEF GenTypes, MirrorInv, Agrees
<1>4. MirrorInv(i)'
  <2>1. mirror'[i] = SnapshotLevels(i) BY <1>0, <1>1 DEF GenTypes
  <2>2. joined'[i] = "full" => \A s \in Side : Depth(levels[i], s) <= SnapshotDepth
    BY <1>0, <1>1 DEF GenTypes
  <2> QED BY <1>1, <2>1, <2>2, SnapshotShows DEF MirrorInv, Agrees
<1> QED BY <1>2, <1>3, <1>4

-----------------------------------------------------------------------------
(* The invariant *)

LEMMA InitInv == Init => IInv
<1> SUFFICES ASSUME Init PROVE IInv OBVIOUS
<1>1. TypeOK
  <2>1. EmptyLevels \in BookType(Price, Quantity) BY EmptyLevelsType
  <2> QED BY <2>1 DEF Init, TypeOK
<1>2. PhaseInv BY DEF Init, PhaseInv, Running
<1>3. MirrorRight BY DEF Init, MirrorRight
<1> QED BY <1>1, <1>2, <1>3 DEF IInv

(* A step of main that touches neither the books nor the subscriber's view *)
(* of them keeps MirrorRight.                                              *)
LEMMA MirrorKept ==
  ASSUME MirrorRight, UNCHANGED <<levels, mirror, joined>>
  PROVE  MirrorRight'
BY DEF MirrorRight

LEMMA NextInv == IInv /\ [Next]_vars => IInv'
<1> SUFFICES ASSUME TypeOK, PhaseInv, MirrorRight, [Next]_vars
             PROVE  TypeOK' /\ PhaseInv' /\ MirrorRight'
  BY DEF IInv
<1> USE DEF mainvars, genvars, subvars, Goto, ForEach
<1>1. ASSUME NEW i \in Instrument, InitialUpdate(i)
      PROVE  TypeOK' /\ PhaseInv' /\ MirrorRight'
  <2>1. /\ pc = "initial" /\ pc' = "initial" /\ i \in todo /\ todo' = todo \ {i}
        /\ GenerateUpdate(i)
        /\ UNCHANGED <<running, listening, adapter_running, due>>
    BY <1>1 DEF InitialUpdate
  <2>2. GenTypes' /\ joined' = joined BY <2>1, GenerateTypes
  <2>3. TypeOK' BY <2>1, <2>2 DEF TypeOK, GenTypes
  <2>4. MirrorRight' BY <2>1, <2>2 DEF PhaseInv, MirrorRight
  <2>5. ASSUME NEW j \in todo'
        PROVE  published'[j] = 0 /\ instrument_sequences'[j] = 0
    <3>1. j # i /\ j \in todo /\ j \in Instrument BY <2>1, <2>5 DEF TypeOK
    <3>2. ~adapter_running BY <2>1 DEF PhaseInv
    <3>3. published' = published BY <2>1, <3>2, GenerateCases
           DEF QuoteStep, TradeStep, Notify
    <3>4. instrument_sequences'[j] = instrument_sequences[j]
      BY <2>1, <3>1, GenerateCases DEF QuoteStep, TradeStep, Counted, TypeOK
    <3> QED BY <2>1, <3>1, <3>3, <3>4 DEF PhaseInv
  <2>6. PhaseInv' BY <2>1, <2>2, <2>5 DEF PhaseInv, Running
  <2> QED BY <2>3, <2>4, <2>6
<1>2. CASE AddListener
  <2>1. TypeOK' BY <1>2 DEF AddListener, TypeOK
  <2>2. PhaseInv' BY <1>2 DEF AddListener, PhaseInv, Running
  <2> QED BY <1>2, <2>1, <2>2, MirrorKept DEF AddListener
<1>3. CASE InitializeAdapter
  <2>0. listening BY <1>3 DEF InitializeAdapter, PhaseInv
  <2>1. TypeOK' BY <1>3 DEF InitializeAdapter, TypeOK
  <2>2. PhaseInv' BY <1>3, <2>0 DEF InitializeAdapter, PhaseInv, Running
  <2> QED BY <1>3, <2>1, <2>2, MirrorKept DEF InitializeAdapter
<1>4. CASE InitializeFails
  <2>1. TypeOK' BY <1>4 DEF InitializeFails, TypeOK
  <2>2. PhaseInv' BY <1>4 DEF InitializeFails, PhaseInv, Running
  <2> QED BY <1>4, <2>1, <2>2, MirrorKept DEF InitializeFails
<1>5. ASSUME NEW i \in Instrument, SendDefinition(i)
      PROVE  TypeOK' /\ PhaseInv' /\ MirrorRight'
  <2>1. TypeOK' BY <1>5 DEF SendDefinition, Announce, TypeOK
  <2>2. PhaseInv' BY <1>5 DEF SendDefinition, Announce, PhaseInv, Running
  <2> QED BY <1>5, <2>1, <2>2, MirrorKept DEF SendDefinition, Announce
<1>6. CASE DefinitionsSent
  <2>1. TypeOK' BY <1>6 DEF DefinitionsSent, TypeOK
  <2>2. PhaseInv' BY <1>6 DEF DefinitionsSent, PhaseInv, Running
  <2> QED BY <1>6, <2>1, <2>2, MirrorKept DEF DefinitionsSent
<1>7. CASE LoopTest
  <2>1. TypeOK' BY <1>7 DEF LoopTest, TypeOK
  <2>2. PhaseInv' BY <1>7 DEF LoopTest, PhaseInv, Running
  <2> QED BY <1>7, <2>1, <2>2, MirrorKept DEF LoopTest
<1>8. CASE RunOnce
  <2>0. UNCHANGED <<levels, instrument_sequences, published, mirror, joined>>
    BY <1>8 DEF RunOnce, Announce
  <2>1. TypeOK' BY <1>8, <2>0 DEF RunOnce, TypeOK
  <2>2. PhaseInv' BY <1>8, <2>0 DEF RunOnce, PhaseInv, Running
  <2> QED BY <2>0, <2>1, <2>2, MirrorKept
<1>9. CASE TestUpdate
  <2>1. TypeOK' BY <1>9 DEF TestUpdate, TypeOK
  <2>2. PhaseInv' BY <1>9 DEF TestUpdate, PhaseInv, Running
  <2> QED BY <1>9, <2>1, <2>2, MirrorKept DEF TestUpdate
<1>10. ASSUME NEW i \in Instrument, UpdateOne(i)
       PROVE  TypeOK' /\ PhaseInv' /\ MirrorRight'
  <2>1. /\ pc = "update" /\ pc' = "update" /\ todo' = todo \ {i}
        /\ GenerateUpdate(i)
        /\ UNCHANGED <<running, listening, adapter_running, due>>
    BY <1>10 DEF UpdateOne
  <2>2. GenTypes' /\ joined' = joined BY <2>1, GenerateTypes
  <2>3. TypeOK' BY <2>1, <2>2 DEF TypeOK, GenTypes
  <2>4. listening /\ adapter_running BY <2>1 DEF PhaseInv, Running
  <2>5. PhaseInv' BY <2>1, <2>4 DEF PhaseInv, Running
  <2>6. MirrorRight'
    <3>1. \A j \in Instrument : MirrorInv(j) BY MirrorIsInv
    <3>2. \A j \in Instrument : MirrorInv(j)'
      BY <2>1, <2>4, <3>1, GenerateMirror
    <3> QED BY <3>2 DEF MirrorRight, MirrorInv, Agrees
  <2> QED BY <2>3, <2>5, <2>6
<1>11. CASE UpdatesDone
  <2>1. TypeOK' BY <1>11 DEF UpdatesDone, TypeOK
  <2>2. PhaseInv' BY <1>11 DEF UpdatesDone, PhaseInv, Running
  <2> QED BY <1>11, <2>1, <2>2, MirrorKept DEF UpdatesDone
<1>12. CASE TestSnapshot
  <2>1. TypeOK' BY <1>12 DEF TestSnapshot, TypeOK
  <2>2. PhaseInv' BY <1>12 DEF TestSnapshot, PhaseInv, Running
  <2> QED BY <1>12, <2>1, <2>2, MirrorKept DEF TestSnapshot
<1>13. ASSUME NEW i \in Instrument, SnapshotOne(i)
       PROVE  TypeOK' /\ PhaseInv' /\ MirrorRight'
  <2>1. /\ pc = "snapshot" /\ pc' = "snapshot" /\ todo' = todo \ {i}
        /\ UNCHANGED <<running, listening, adapter_running, due>>
    BY <1>13 DEF SnapshotOne
  <2>2. GenTypes' /\ \A j \in Instrument : MirrorInv(j)'
    BY <1>13, SnapshotMirror, MirrorIsInv
  <2>3. TypeOK' BY <2>1, <2>2 DEF TypeOK, GenTypes
  <2>4. PhaseInv' BY <2>1 DEF PhaseInv, Running
  <2>5. MirrorRight' BY <2>2 DEF MirrorRight, MirrorInv, Agrees
  <2> QED BY <2>3, <2>4, <2>5
<1>14. CASE SnapshotsDone
  <2>1. TypeOK' BY <1>14 DEF SnapshotsDone, TypeOK
  <2>2. PhaseInv' BY <1>14 DEF SnapshotsDone, PhaseInv, Running
  <2> QED BY <1>14, <2>1, <2>2, MirrorKept DEF SnapshotsDone
<1>15. CASE Shutdown
  <2>1. TypeOK' BY <1>15 DEF Shutdown, TypeOK
  <2>2. PhaseInv' BY <1>15 DEF Shutdown, PhaseInv, Running
  <2> QED BY <1>15, <2>1, <2>2, MirrorKept DEF Shutdown
<1>16. CASE Signal
  <2>1. TypeOK' BY <1>16 DEF Signal, TypeOK
  <2>2. PhaseInv' BY <1>16 DEF Signal, PhaseInv, Running
  <2> QED BY <1>16, <2>1, <2>2, MirrorKept DEF Signal
<1>17. ASSUME NEW t \in Timer, TimePasses(t)
       PROVE  TypeOK' /\ PhaseInv' /\ MirrorRight'
  <2>1. TypeOK' BY <1>17 DEF TimePasses, TypeOK
  <2>2. PhaseInv' BY <1>17 DEF TimePasses, PhaseInv, Running
  <2> QED BY <1>17, <2>1, <2>2, MirrorKept DEF TimePasses
<1>18. CASE UNCHANGED vars
  BY <1>18, MirrorKept DEF vars, TypeOK, PhaseInv, Running
<1> QED BY <1>1, <1>2, <1>3, <1>4, <1>5, <1>6, <1>7, <1>8, <1>9, <1>10, <1>11,
           <1>12, <1>13, <1>14, <1>15, <1>16, <1>17, <1>18 DEF Next, Main

LEMMA InvAlways == Spec => []IInv
BY InitInv, NextInv, PTL DEF Spec

(* Every variable keeps its type, whatever main, the signal handler and    *)
(* time do.                                                                *)
THEOREM ServerTypeCorrect == Spec => []TypeOK
<1>1. IInv => TypeOK BY DEF IInv
<1> QED BY <1>1, InvAlways, PTL

(* A subscriber that applies each update to its last snapshot never shows  *)
(* a level the book of the server does not have, and shows the whole book  *)
(* if the snapshot held it: main snapshots and publishes events in the     *)
(* order in which it applied them to the book.                             *)
THEOREM MirrorAlwaysRight == Spec => []MirrorRight
<1>1. IInv => MirrorRight BY DEF IInv
<1> QED BY <1>1, InvAlways, PTL

-----------------------------------------------------------------------------
(* What is published, and when *)

MissedRight(i) ==
  /\ Missed(i)' # Missed(i) => pc = "initial" /\ Missed(i) = 0 /\ Missed(i)' = 1
  /\ last'.kind = "QUOTE" /\ last' # last /\ last'.instrument = i =>
       last'.rptSeq = published'[i] + Missed(i)

(* A step that takes no sequence number publishes no quote and no trade.   *)
Quiet ==
  /\ UNCHANGED <<instrument_sequences, published>>
  /\ last' = last \/ last'.kind # "QUOTE"

LEMMA QuietMissed ==
  ASSUME Quiet, NEW i \in Instrument
  PROVE  MissedRight(i)
BY DEF Quiet, MissedRight, Missed

(* A generated event is published with the number that accounts for every  *)
(* one before it, or it is of the initial market state.                    *)
LEMMA GenerateMissed ==
  ASSUME IInv, NEW i \in Instrument, GenerateUpdate(i),
         \/ listening /\ adapter_running
         \/ pc = "initial" /\ i \in todo,
         NEW j \in Instrument
  PROVE  MissedRight(j)
<1>0. GenTypes BY DEF IInv, TypeOK, GenTypes
<1>1. instrument_sequences[j] \in Nat /\ published[j] \in Nat
  BY <1>0 DEF GenTypes
<1>2. ASSUME NEW msg \in {QuoteMessage(i), TradeMessage(i)}, Counted(i),
             published' = IF listening /\ adapter_running
                          THEN [published EXCEPT ![i] = @ + 1] ELSE published,
             last' = IF listening /\ adapter_running THEN msg ELSE last
      PROVE  MissedRight(j)
  <2>1. CASE j # i
    <3>1. instrument_sequences'[j] = instrument_sequences[j]
          /\ published'[j] = published[j]
      BY <1>0, <1>2, <2>1 DEF Counted, GenTypes
    <3>2. last' = last \/ last'.kind # "QUOTE" \/ last'.instrument # j
      BY <1>2, <2>1 DEF QuoteMessage, TradeMessage
    <3> QED BY <3>1, <3>2 DEF MissedRight, Missed
  <2>2. CASE j = i /\ listening /\ adapter_running
    <3>1. instrument_sequences'[j] = instrument_sequences[j] + 1
          /\ published'[j] = published[j] + 1
      BY <1>0, <1>2, <2>2 DEF Counted, GenTypes
    <3>2. last'.kind # "QUOTE" \/ last'.rptSeq = instrument_sequences[j] + 1
      BY <1>2, <2>2 DEF QuoteMessage, TradeMessage
    <3> QED BY <1>1, <3>1, <3>2 DEF MissedRight, Missed
  <2>3. CASE j = i /\ ~(listening /\ adapter_running)
    <3>1. pc = "initial" /\ published[j] = 0 /\ instrument_sequences[j] = 0
      BY <2>3 DEF IInv, PhaseInv
    <3>2. instrument_sequences'[j] = instrument_sequences[j] + 1
          /\ published'[j] = published[j] /\ last' = last
      BY <1>0, <1>2, <2>3 DEF Counted, GenTypes
    <3> QED BY <3>1, <3>2 DEF MissedRight, Missed
  <2> QED BY <2>1, <2>2, <2>3
<1>3. ASSUME NEW quote \in QuoteOf(Price, Quantity), QuoteStep(i, quote)
      PROVE  MissedRight(j)
  BY <1>2, <1>3 DEF QuoteStep, Notify, subvars
<1>4. CASE TradeStep(i)
  BY <1>2, <1>4 DEF TradeStep, Notify, subvars
<1>5. CASE UNCHANGED <<genvars, subvars>>
  <2>1. Quiet BY <1>5 DEF Quiet, genvars, subvars
  <2> QED BY <2>1, QuietMissed
<1> QED BY <1>3, <1>4, <1>5, GenerateCases DEF IInv

LEMMA NextMissed ==
  ASSUME IInv, [Next]_vars, NEW j \in Instrument
  PROVE  MissedRight(j)
<1>1. ASSUME NEW i \in Instrument, InitialUpdate(i) PROVE MissedRight(j)
  BY <1>1, GenerateMissed DEF InitialUpdate, ForEach
<1>2. ASSUME NEW i \in Instrument, UpdateOne(i) PROVE MissedRight(j)
  <2>1. listening /\ adapter_running
    BY <1>2 DEF UpdateOne, IInv, PhaseInv, Running
  <2> QED BY <1>2, <2>1, GenerateMissed DEF UpdateOne
<1>3. CASE \/ AddListener \/ InitializeAdapter \/ InitializeFails
           \/ DefinitionsSent \/ LoopTest \/ TestUpdate \/ UpdatesDone
           \/ TestSnapshot \/ SnapshotsDone \/ Shutdown \/ Signal
           \/ \E t \in Timer : TimePasses(t)
           \/ UNCHANGED vars
  <2>1. UNCHANGED <<genvars, subvars>>
    BY <1>3 DEF AddListener, InitializeAdapter, InitializeFails,
         DefinitionsSent, LoopTest, TestUpdate, UpdatesDone, TestSnapshot,
         SnapshotsDone, Shutdown, Signal, TimePasses, vars, genvars, subvars
  <2>2. Quiet BY <2>1 DEF Quiet, genvars, subvars
  <2> QED BY <2>2, QuietMissed
<1>4. CASE RunOnce
  <2>1. Quiet BY <1>4 DEF RunOnce, Announce, Quiet, genvars, subvars
  <2> QED BY <2>1, QuietMissed
<1>5. ASSUME NEW i \in Instrument, SendDefinition(i) \/ SnapshotOne(i)
      PROVE  MissedRight(j)
  <2>1. CASE SendDefinition(i)
    BY <2>1, QuietMissed DEF SendDefinition, Announce, Quiet, genvars, subvars
  <2>2. CASE SnapshotOne(i)
    <3>1. last'.kind = "SNAPSHOT" BY <2>2 DEF SnapshotOne
    <3>2. UNCHANGED <<instrument_sequences, published>>
      BY <2>2 DEF SnapshotOne, genvars
    <3> QED BY <3>1, <3>2, QuietMissed DEF Quiet
  <2> QED BY <1>5, <2>1, <2>2
<1> QED BY <1>1, <1>2, <1>3, <1>4, <1>5 DEF Next, Main

(* Once main is past the initial market state, an instrument's sequence    *)
(* number is taken exactly when a message that carries it is published;    *)
(* before, at most one event of each instrument goes unpublished.          *)
THEOREM OnlyInitialEverMissed == Spec => OnlyInitialMissed
<1>1. IInv /\ [Next]_vars => \A i \in Instrument : MissedRight(i)
  BY NextMissed
<1>2. IInv /\ [Next]_vars =>
        [\A i \in Instrument :
           /\ Missed(i)' # Missed(i) =>
                pc = "initial" /\ Missed(i) = 0 /\ Missed(i)' = 1
           /\ last'.kind = "QUOTE" /\ last' # last /\ last'.instrument = i =>
                last'.rptSeq = published'[i] + Missed(i)]_vars
  BY <1>1 DEF MissedRight
<1> QED BY <1>2, InvAlways, PTL DEF Spec, OnlyInitialMissed

(* A message leaves only while the adapter runs: none before it was        *)
(* initialised, none after the shutdown.                                   *)
THEOREM PublishedOnlyWhileRunning == Spec => OnlyWhileRunning
<1> DEFINE Right == last' # last => adapter_running /\ adapter_running'
<1>1. ASSUME IInv, [Next]_vars PROVE Right
  <2>1. ASSUME NEW i \in Instrument, GenerateUpdate(i),
               UNCHANGED <<listening, adapter_running>>
        PROVE  Right
    <3>1. TypeOK BY <1>1 DEF IInv
    <3> QED BY <2>1, <3>1, GenerateCases
            DEF QuoteStep, TradeStep, Notify, subvars
  <2>2. ASSUME NEW i \in Instrument, InitialUpdate(i) \/ UpdateOne(i)
        PROVE  Right
    BY <2>1, <2>2 DEF InitialUpdate, UpdateOne
  <2>3. ASSUME NEW i \in Instrument, SendDefinition(i) \/ SnapshotOne(i)
        PROVE  Right
    BY <1>1, <2>3 DEF SendDefinition, SnapshotOne, IInv, PhaseInv, Running
  <2>4. CASE RunOnce
    BY <1>1, <2>4 DEF RunOnce, IInv, PhaseInv, Running
  <2>5. CASE \/ AddListener \/ InitializeAdapter \/ InitializeFails
             \/ DefinitionsSent \/ LoopTest \/ TestUpdate \/ UpdatesDone
             \/ TestSnapshot \/ SnapshotsDone \/ Shutdown \/ Signal
             \/ \E t \in Timer : TimePasses(t)
             \/ UNCHANGED vars
    BY <2>5 DEF AddListener, InitializeAdapter, InitializeFails,
         DefinitionsSent, LoopTest, TestUpdate, UpdatesDone, TestSnapshot,
         SnapshotsDone, Shutdown, Signal, TimePasses, vars, subvars
  <2> QED BY <1>1, <2>2, <2>3, <2>4, <2>5 DEF Next, Main
<1>2. IInv /\ [Next]_vars => [last' # last => adapter_running /\ adapter_running']_vars
  BY <1>1
<1> QED BY <1>2, InvAlways, PTL DEF Spec, OnlyWhileRunning
=============================================================================
