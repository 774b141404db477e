-------------------------------- MODULE Server --------------------------------
(***************************************************************************)
(* The server process: main and its loop                                   *)
(* (src/reuters_server_multicast_main.cpp) with the generator              *)
(* (core/src/market_data_generator.cpp), the order books it updates and    *)
(* the protocol adapter (src/reuters_protocol_adapter.cpp) that hands each *)
(* message to the publisher.  One thread runs all of it; a signal handler  *)
(* clears the flag running at any moment and time makes the timers due.    *)
(*                                                                         *)
(* The publisher itself is Publisher.tla; here publishing a message is one *)
(* step, seen by an ideal subscriber that receives everything in order.    *)
(* published, mirror, joined and last are history variables of that        *)
(* subscriber: what the messages it received tell it about the books.      *)
(***************************************************************************)
EXTENDS BookOps

CONSTANTS
  Instrument,     \* instruments that main registers, each with a book
  Price,          \* prices in ticks
  Quantity,       \* quantities calculate_quantity can return
  SnapshotDepth,  \* levels of each side that main puts into a snapshot (10)
  BatchSize,      \* instruments updated when the update timer is due (2)
  MaxEvents       \* bound: events generated for one instrument

ASSUME PriceAssumption == Price \subseteq Nat \ {0} /\ IsFiniteSet(Price)
ASSUME QuantityAssumption == Quantity \subseteq Nat \ {0}
ASSUME BoundAssumption ==
  SnapshotDepth \in Nat \ {0} /\ BatchSize \in Nat \ {0} /\ MaxEvents \in Nat

VARIABLES
  pc,                    \* where main is
  todo,                  \* instruments left in the for loop main is in
  running,               \* the flag the signal handler clears
  listening,             \* the adapter is in the generator's listeners_
  adapter_running,       \* running_ of the adapter
  due,                   \* timers whose interval has passed
  levels,                \* bids_ and asks_ of the book of each instrument
  instrument_sequences,  \* instrument_sequences_ of the generator
  published,             \* history: quotes and trades published
  mirror,                \* history: the book a subscriber rebuilt
  joined,                \* history: "no", or what its last snapshot held
  last                   \* history: the last message published

mainvars == <<pc, todo>>
genvars  == <<levels, instrument_sequences>>
subvars  == <<published, mirror, joined, last>>
vars == <<pc, todo, running, listening, adapter_running, due, levels,
          instrument_sequences, published, mirror, joined, last>>

Timer == {"update", "snapshot", "heartbeat", "definitions"}

NoMessage == [kind |-> "NONE"]

(* main has added the instruments and created their books. *)
Init ==
  /\ pc = "initial" /\ todo = Instrument
  /\ running = TRUE
  /\ listening = FALSE /\ adapter_running = FALSE
  /\ due = {}
  /\ levels = [i \in Instrument |-> EmptyLevels]
  /\ instrument_sequences = [i \in Instrument |-> 0]
  /\ published = [i \in Instrument |-> 0]
  /\ mirror = [i \in Instrument |-> EmptyLevels]
  /\ joined = [i \in Instrument |-> "no"]
  /\ last = NoMessage

-----------------------------------------------------------------------------
(* Publishing, as the subscriber sees it *)

(* Mutant: nothing is published once the signal has come. *)
NotifyUntilSignal(i, msg, mirrored) ==
  IF listening /\ adapter_running /\ running
  THEN /\ published' = [published EXCEPT ![i] = @ + 1]
       /\ mirror' = [mirror EXCEPT ![i] = mirrored]
       /\ last' = msg
       /\ UNCHANGED joined
  ELSE UNCHANGED subvars

(* notify_listeners and on_market_event: a quote or trade reaches the      *)
(* publisher when the adapter listens and runs.                            *)
Notify(i, msg, mirrored) ==
  IF listening /\ adapter_running
  THEN /\ published' = [published EXCEPT ![i] = @ + 1]
       /\ mirror' = [mirror EXCEPT ![i] = mirrored]
       /\ last' = msg
       /\ UNCHANGED joined
  ELSE UNCHANGED subvars

(* A heartbeat or a security definition. *)
Announce(msg) == last' = msg /\ UNCHANGED <<published, mirror, joined>>

-----------------------------------------------------------------------------
(* generate_update *)

(* generate_quote: any tick is within reach of the random price movement;  *)
(* an ADD is held at least one tick behind the best price of its own side. *)
QuotePrice(i, s, action, p) ==
  IF action = "ADD" /\ HasBest(levels[i], s)
  THEN LET best == BestPrice(levels[i], s)
       IN  IF s = "BID" THEN (IF p < best - 1 THEN p ELSE best - 1)
                        ELSE (IF p > best + 1 THEN p ELSE best + 1)
  ELSE p

GenerateQuote(i) ==
  /\ instrument_sequences[i] < MaxEvents
  /\ \E s \in Side, action \in {"ADD", "CHANGE", "DELETE"},
        p \in Price, n \in Quantity :
       LET quote == [side |-> s, action |-> action,
                     price |-> QuotePrice(i, s, action, p), quantity |-> n]
           seq == instrument_sequences[i] + 1
       IN  /\ quote.price \in Price
           /\ instrument_sequences' = [instrument_sequences EXCEPT ![i] = seq]
           /\ levels' = [levels EXCEPT ![i] = ApplyQuoteEvent(@, quote)]
           /\ Notify(i, [kind |-> "QUOTE", instrument |-> i, rptSeq |-> seq],
                     ApplyQuoteEvent(mirror[i], quote))

(* Mutant: the trade empties the level it hits. *)
GenerateTradeFills(i) ==
  /\ HasBest(levels[i], "BID") /\ HasBest(levels[i], "ASK")
  /\ instrument_sequences[i] < MaxEvents
  /\ instrument_sequences' = [instrument_sequences EXCEPT ![i] = @ + 1]
  /\ levels' = [levels EXCEPT ![i] =
       AddLevel(@, "ASK", [price |-> BestPrice(@, "ASK"), quantity |-> 0])]
  /\ Notify(i, [kind |-> "TRADE", instrument |-> i], mirror[i])

(* generate_trade needs a bid and an ask; a trade changes no level. *)
GenerateTrade(i) ==
  /\ HasBest(levels[i], "BID") /\ HasBest(levels[i], "ASK")
  /\ instrument_sequences[i] < MaxEvents
  /\ instrument_sequences' = [instrument_sequences EXCEPT ![i] = @ + 1]
  /\ Notify(i, [kind |-> "TRADE", instrument |-> i], mirror[i])
  /\ UNCHANGED levels

(* Mutant: a number is taken before the market is looked at. *)
GenerateNothingCounts(i) ==
  /\ ~(HasBest(levels[i], "BID") /\ HasBest(levels[i], "ASK"))
  /\ instrument_sequences[i] < MaxEvents
  /\ instrument_sequences' = [instrument_sequences EXCEPT ![i] = @ + 1]
  /\ UNCHANGED <<levels, subvars>>

(* No market to trade against, or the bound of the model is reached. *)
GenerateNothing(i) ==
  /\ \/ ~(HasBest(levels[i], "BID") /\ HasBest(levels[i], "ASK"))
     \/ instrument_sequences[i] = MaxEvents
  /\ UNCHANGED <<genvars, subvars>>

GenerateUpdate(i) == GenerateQuote(i) \/ GenerateTrade(i) \/ GenerateNothing(i)

-----------------------------------------------------------------------------
(* main, up to the loop *)

Goto(next) == pc' = next /\ UNCHANGED todo

(* Take one instrument of the loop; the order is that of an unordered map. *)
ForEach(i) == i \in todo /\ todo' = todo \ {i} /\ UNCHANGED pc

(* generate_all_instruments runs before the adapter is a listener. *)
InitialUpdate(i) ==
  /\ pc = "initial" /\ ForEach(i)
  /\ GenerateUpdate(i)
  /\ UNCHANGED <<running, listening, adapter_running, due>>

AddListener ==
  /\ pc = "initial" /\ todo = {}
  /\ listening' = TRUE
  /\ Goto("initialize")
  /\ UNCHANGED <<running, adapter_running, due, genvars, subvars>>

(* initialize_with_multicast and the initial security definitions. *)
InitializeAdapter ==
  /\ pc = "initialize"
  /\ adapter_running' = TRUE
  /\ pc' = "first definitions" /\ todo' = Instrument
  /\ UNCHANGED <<running, listening, due, genvars, subvars>>

(* A socket could not be created: main returns 1. *)
InitializeFails ==
  /\ pc = "initialize"
  /\ Goto("failed")
  /\ UNCHANGED <<running, listening, adapter_running, due, genvars, subvars>>

(* send_security_definitions, from main and from run_once. *)
SendDefinition(i) ==
  /\ pc \in {"first definitions", "definitions"} /\ ForEach(i)
  /\ Announce([kind |-> "SECDEF", instrument |-> i])
  /\ UNCHANGED <<running, listening, adapter_running, due, genvars>>

DefinitionsSent ==
  /\ pc \in {"first definitions", "definitions"} /\ todo = {}
  /\ Goto(IF pc = "definitions" THEN "update?" ELSE "while")
  /\ due' = due \ {"definitions"}
  /\ UNCHANGED <<running, listening, adapter_running, genvars, subvars>>

-----------------------------------------------------------------------------
(* The loop *)

(* Mutant: the loop watches the adapter's flag. *)
LoopTestAdapter ==
  /\ pc = "while"
  /\ Goto(IF adapter_running THEN "run_once" ELSE "shutdown")
  /\ UNCHANGED <<running, listening, adapter_running, due, genvars, subvars>>

LoopTest ==
  /\ pc = "while"
  /\ Goto(IF running THEN "run_once" ELSE "shutdown")
  /\ UNCHANGED <<running, listening, adapter_running, due, genvars, subvars>>

(* Mutant: the heartbeat restarts the timer of the definitions. *)
RunOnceOneTimer ==
  /\ pc = "run_once"
  /\ IF "heartbeat" \in due THEN Announce([kind |-> "HEARTBEAT"])
                            ELSE UNCHANGED subvars
  /\ due' = IF "heartbeat" \in due THEN due \ {"heartbeat", "definitions"} ELSE due
  /\ IF "definitions" \in due'
     THEN pc' = "definitions" /\ todo' = Instrument
     ELSE Goto("update?")
  /\ UNCHANGED <<running, listening, adapter_running, genvars>>

(* run_once: a heartbeat and the security definitions when they are due. *)
RunOnce ==
  /\ pc = "run_once"
  /\ IF "heartbeat" \in due THEN Announce([kind |-> "HEARTBEAT"])
                            ELSE UNCHANGED subvars
  /\ due' = due \ {"heartbeat"}
  /\ IF "definitions" \in due
     THEN pc' = "definitions" /\ todo' = Instrument
     ELSE Goto("update?")
  /\ UNCHANGED <<running, listening, adapter_running, genvars>>

(* The update timer: a random choice of instruments. *)
TestUpdate ==
  /\ pc = "update?"
  /\ IF "update" \in due
     THEN /\ pc' = "update"
          /\ todo' \in {S \in SUBSET Instrument : Cardinality(S) =
               IF Cardinality(Instrument) < BatchSize THEN Cardinality(Instrument)
                                                      ELSE BatchSize}
     ELSE Goto("snapshot?")
  /\ UNCHANGED <<running, listening, adapter_running, due, genvars, subvars>>

UpdateOne(i) ==
  /\ pc = "update" /\ ForEach(i)
  /\ GenerateUpdate(i)
  /\ UNCHANGED <<running, listening, adapter_running, due>>

UpdatesDone ==
  /\ pc = "update" /\ todo = {}
  /\ Goto("snapshot?")
  /\ due' = due \ {"update"}
  /\ UNCHANGED <<running, listening, adapter_running, genvars, subvars>>

TestSnapshot ==
  /\ pc = "snapshot?"
  /\ IF "snapshot" \in due THEN pc' = "snapshot" /\ todo' = Instrument
                           ELSE Goto("while")
  /\ UNCHANGED <<running, listening, adapter_running, due, genvars, subvars>>

(* main builds the snapshot itself from get_bids(10) and get_asks(10): its *)
(* sequence number stays 0.  A subscriber starts over from its levels.     *)
SnapshotLevels(i) ==
  [s \in Side |-> [p \in TopPrices(levels[i], s, SnapshotDepth) |-> levels[i][s][p]]]

SnapshotOne(i) ==
  /\ pc = "snapshot" /\ ForEach(i)
  /\ mirror' = [mirror EXCEPT ![i] = SnapshotLevels(i)]
  /\ joined' = [joined EXCEPT ![i] =
                 IF \A s \in Side : Depth(levels[i], s) <= SnapshotDepth
                 THEN "full" ELSE "partial"]
  /\ last' = [kind |-> "SNAPSHOT", instrument |-> i, rptSeq |-> 0]
  /\ UNCHANGED <<running, listening, adapter_running, due, genvars, published>>

SnapshotsDone ==
  /\ pc = "snapshot" /\ todo = {}
  /\ Goto("while")
  /\ due' = due \ {"snapshot"}
  /\ UNCHANGED <<running, listening, adapter_running, genvars, subvars>>

(* Mutant: a last message goes out after the adapter has stopped. *)
ShutdownThenSend ==
  /\ pc = "shutdown"
  /\ adapter_running' = FALSE
  /\ Announce([kind |-> "END"])
  /\ Goto("exit")
  /\ UNCHANGED <<running, listening, due, genvars>>

Shutdown ==
  /\ pc = "shutdown"
  /\ adapter_running' = FALSE
  /\ Goto("exit")
  /\ UNCHANGED <<running, listening, due, genvars, subvars>>

-----------------------------------------------------------------------------
(* The environment *)

Signal ==
  /\ running
  /\ running' = FALSE
  /\ UNCHANGED <<mainvars, listening, adapter_running, due, genvars, subvars>>

(* An interval has passed.  The timers count from the start of the loop;   *)
(* that one runs out between the reading of the clock and the test of the  *)
(* timer is the same as its running out before.                            *)
InLoop == pc \in {"while", "run_once", "definitions", "update?", "update",
                  "snapshot?", "snapshot"}

TimePasses(t) ==
  /\ InLoop
  /\ t \notin due
  /\ due' = due \cup {t}
  /\ UNCHANGED <<mainvars, running, listening, adapter_running, genvars, subvars>>

Main ==
  \/ \E i \in Instrument : InitialUpdate(i)
  \/ AddListener
  \/ InitializeAdapter
  \/ InitializeFails
  \/ \E i \in Instrument : SendDefinition(i)
  \/ DefinitionsSent
  \/ LoopTest
  \/ RunOnce
  \/ TestUpdate
  \/ \E i \in Instrument : UpdateOne(i)
  \/ UpdatesDone
  \/ TestSnapshot
  \/ \E i \in Instrument : SnapshotOne(i)
  \/ SnapshotsDone
  \/ Shutdown

Next == Main \/ Signal \/ \E t \in Timer : TimePasses(t)

Spec == Init /\ [][Next]_vars

(* The thread runs and time goes on. *)
Fairness == WF_vars(Main) /\ \A t \in Timer : WF_vars(TimePasses(t))

FairSpec == Spec /\ Fairness

-----------------------------------------------------------------------------
(* Correctness *)

(* Every variable stays in its type. *)
TypeOK ==
  /\ pc \in {"initial", "initialize", "first definitions", "while", "run_once",
             "definitions", "update?", "update", "snapshot?", "snapshot",
             "shutdown", "exit", "failed"}
  /\ todo \subseteq Instrument
  /\ running \in BOOLEAN /\ listening \in BOOLEAN /\ adapter_running \in BOOLEAN
  /\ due \subseteq Timer
  /\ levels \in [Instrument -> BookType(Price, Quantity)]
  /\ instrument_sequences \in [Instrument -> Nat]
  /\ published \in [Instrument -> Nat]
  /\ mirror \in [Instrument -> BookType(Price, Quantity)]
  /\ joined \in [Instrument -> {"no", "partial", "full"}]

(* A subscriber that starts from a snapshot and applies every update after *)
(* it never shows a level the server's book does not have, with that       *)
(* quantity; after a snapshot that left nothing out it shows the book      *)
(* itself.  The events were applied to the book before they were           *)
(* published, and the snapshot was taken between two events.               *)
MirrorRight ==
  \A i \in Instrument :
    /\ joined[i] # "no" =>
         \A s \in Side :
           /\ DOMAIN mirror[i][s] \subseteq DOMAIN levels[i][s]
           /\ \A p \in DOMAIN mirror[i][s] : mirror[i][s][p] = levels[i][s][p]
    /\ joined[i] = "full" => mirror[i] = levels[i]

(* Generated sequence numbers that no message carried. *)
Missed(i) == instrument_sequences[i] - published[i]

(* Only the market state generated before the adapter listens goes         *)
(* unpublished, at most one event of each instrument: once main is past    *)
(* it, a sequence number is taken exactly when a message is published.     *)
OnlyInitialMissed ==
  [][\A i \in Instrument :
       /\ Missed(i)' # Missed(i) => pc = "initial" /\ Missed(i) = 0 /\ Missed(i)' = 1
       /\ last'.kind = "QUOTE" /\ last' # last /\ last'.instrument = i =>
            last'.rptSeq = published'[i] + Missed(i)]_vars

(* A message leaves only while the adapter runs: nothing of the initial    *)
(* market state, nothing after a failed start, nothing after the shutdown. *)
OnlyWhileRunning == [][last' # last => adapter_running /\ adapter_running']_vars

(* A signal stops the server, whatever it is doing. *)
SignalStops == ~running ~> pc \in {"exit", "failed"}

(* Whoever joins late hears everything again: heartbeats, the definition   *)
(* and the snapshot of every instrument recur as long as the server runs   *)
(* (run_once: "for late-joining clients").                                 *)
Recurs(kind, i) ==
  []<>(~running \/ pc = "failed" \/
       (last.kind = kind /\ (kind # "HEARTBEAT" => last.instrument = i)))

LateJoinersServed ==
  \A i \in Instrument, kind \in {"SECDEF", "SNAPSHOT", "HEARTBEAT"} : Recurs(kind, i)
=============================================================================
