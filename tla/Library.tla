------------------------------- MODULE Library -------------------------------
(***************************************************************************)
(* The core library as it is offered to programs with several threads: the *)
(* order book manager, whose every method locks mutex_, and the generator, *)
(* which keeps its listeners under listeners_mutex_ and everything else    *)
(* without a lock, so that one thread generates.                           *)
(*                                                                         *)
(* A critical section that nobody without the lock can look into is one    *)
(* step, taken when the lock is free.  What touches the inside of a book   *)
(* takes time: books are handed out as shared pointers, and those who hold *)
(* one read it without the lock.                                           *)
(***************************************************************************)
EXTENDS Integers, Sequences, FiniteSets

CONSTANTS
  Instrument, Listener,
  User,          \* threads besides the generator's
  MaxCalls       \* bound: calls made, by all threads together

Generator == "generator"
Thread == {Generator} \cup User
Free == "free"

ASSUME LibraryAssumption ==
  /\ Generator \notin User /\ Free \notin Thread
  /\ MaxCalls \in Nat

VARIABLES
  instruments,  \* instruments_
  books,        \* order_books_: the object of an instrument, 0 without
  created,      \* objects created
  content,      \* events in each object
  mutex,        \* the manager's
  sequences,    \* instrument_sequences_
  epoch,        \* history: resets of the statistics
  stats,        \* Statistics
  listeners,    \* listeners_, weak pointers
  owned,        \* listeners whose owner still has them
  listenersMutex,
  call,         \* what each thread is doing
  calls,        \* bound: calls made
  heard,        \* what each listener was called with
  settled,      \* history: the same, up to the last complete notification
  published,    \* history: events whose notification is complete
  unapplied     \* history: those of them that no book took, with the reason

manager == <<instruments, books, created, content, mutex>>
generator == <<sequences, epoch, stats>>
registry == <<listeners, owned, listenersMutex>>
history == <<heard, settled, published, unapplied>>
vars == <<manager, generator, registry, call, calls, history>>

Events == [epoch : 0..MaxCalls, instrument : Instrument, number : 1..MaxCalls]

Bus == INSTANCE EventBus WITH
         Event <- Events, registered <- listeners, log <- published,
         heard <- settled

NoEvent == [epoch |-> -1]
Idle == [step |-> "idle", instrument |-> 0, book |-> 0, event |-> NoEvent,
         trade |-> FALSE, index |-> 0, asks |-> FALSE, reset |-> FALSE]

NoStatistics == [updates |-> 0, trades |-> 0, quotes |-> 0, snapshots |-> 0]

Init ==
  /\ instruments = {} /\ books = [i \in Instrument |-> 0]
  /\ created = 0 /\ content = << >> /\ mutex = Free
  /\ sequences = [i \in Instrument |-> 0] /\ epoch = 0 /\ stats = NoStatistics
  /\ listeners = << >> /\ owned = Listener /\ listenersMutex = Free
  /\ call = [t \in Thread |-> Idle] /\ calls = 0
  /\ heard = [l \in Listener |-> << >>]
  /\ settled = [l \in Listener |-> << >>]
  /\ published = << >> /\ unapplied = {}

At(t, step) == call[t].step = step
Become(t, c) == call' = [call EXCEPT ![t] = c]
Proceed(t, step) == call' = [call EXCEPT ![t].step = step]

-----------------------------------------------------------------------------
(* OrderBookManager, by any thread                                         *)

Called == calls < MaxCalls /\ calls' = calls + 1

AddInstrument(i) ==
  /\ mutex = Free /\ i \notin instruments
  /\ instruments' = instruments \cup {i}
  /\ UNCHANGED <<books, created, content, mutex, generator, registry, call, calls, history>>

CreateOrderBook(i) ==
  /\ mutex = Free
  /\ i \in instruments /\ books[i] = 0
  /\ created' = created + 1
  /\ books' = [books EXCEPT ![i] = created + 1]
  /\ content' = Append(content, << >>)
  /\ UNCHANGED <<instruments, mutex, generator, registry, call, calls, history>>

(* The objects themselves live on while somebody reads them.               *)
ResetAllBooks ==
  /\ Called /\ mutex = Free
  /\ books' = [i \in Instrument |-> 0]
  /\ call' = [call EXCEPT ![Generator].reset = TRUE]
  /\ UNCHANGED <<instruments, created, content, mutex, generator, registry, history>>

BeginClearAllBooks(t) ==
  /\ Called /\ At(t, "idle") /\ mutex = Free
  /\ mutex' = t
  /\ Proceed(t, "clearing")
  /\ UNCHANGED <<instruments, books, created, content, generator, registry, history>>

(* Mutant: order_books_ is cleared, not each book.                         *)
EndClearAllBooksErasing(t) ==
  /\ At(t, "clearing")
  /\ books' = [i \in Instrument |-> 0]
  /\ mutex' = Free
  /\ Become(t, Idle)
  /\ UNCHANGED <<instruments, created, content, generator, registry, calls, history>>

(* Mutant: the listeners are told of it before the books' lock is given    *)
(* back, for which theirs is taken: the two locks in the other order.      *)
EndClearAllBooksTelling(t) ==
  /\ At(t, "clearing") /\ listenersMutex = Free
  /\ content' = [b \in DOMAIN content |->
                   IF \E i \in Instrument : books[i] = b THEN << >> ELSE content[b]]
  /\ mutex' = Free
  /\ Become(t, Idle)
  /\ UNCHANGED <<instruments, books, created, generator, registry, calls, history>>

EndClearAllBooks(t) ==
  /\ At(t, "clearing")
  /\ content' = [b \in DOMAIN content |->
                   IF \E i \in Instrument : books[i] = b THEN << >> ELSE content[b]]
  /\ mutex' = Free
  /\ Become(t, Idle)
  /\ UNCHANGED <<instruments, books, created, generator, registry, calls, history>>

(* Mutant: the snapshot is made of the shared pointer, out of the lock.    *)
BeginCreateSnapshotUnlocked(t, i) ==
  /\ Called /\ At(t, "idle") /\ mutex = Free
  /\ books[i] # 0
  /\ Become(t, [Idle EXCEPT !.step = "snapshot", !.book = books[i]])
  /\ UNCHANGED <<manager, generator, registry, history>>

BeginCreateSnapshot(t, i) ==
  /\ Called /\ At(t, "idle") /\ mutex = Free
  /\ books[i] # 0
  /\ mutex' = t
  /\ Become(t, [Idle EXCEPT !.step = "snapshot", !.book = books[i]])
  /\ UNCHANGED <<instruments, books, created, content, generator, registry, history>>

EndCreateSnapshot(t) ==
  /\ At(t, "snapshot")
  /\ mutex' = IF mutex = t THEN Free ELSE mutex
  /\ Become(t, Idle)
  /\ UNCHANGED <<instruments, books, created, content, generator, registry, calls, history>>

(* get_order_book, and what its caller reads in the book.                  *)
GetOrderBook(t, i) ==
  /\ Called /\ At(t, "idle") /\ mutex = Free
  /\ books[i] # 0
  /\ Become(t, [Idle EXCEPT !.step = "reading", !.book = books[i]])
  /\ UNCHANGED <<manager, generator, registry, history>>

EndReading(t) ==
  /\ At(t, "reading")
  /\ Become(t, Idle)
  /\ UNCHANGED <<manager, generator, registry, calls, history>>

-----------------------------------------------------------------------------
(* The listeners of the generator, by any thread                           *)

AddListener(l) ==
  /\ Called /\ listenersMutex = Free
  /\ l \in owned
  /\ listeners' = Append(listeners, l)
  /\ UNCHANGED <<manager, generator, owned, listenersMutex, call, history>>

RemoveListener(l) ==
  /\ Called /\ listenersMutex = Free
  /\ l \in owned
  /\ listeners' = Bus!Kept(listeners, owned \ {l})
  /\ UNCHANGED <<manager, generator, owned, listenersMutex, call, history>>

ClearListeners ==
  /\ Called /\ listenersMutex = Free
  /\ listeners' = << >>
  /\ UNCHANGED <<manager, generator, owned, listenersMutex, call, history>>

(* The owner lets go: weak pointers to it expire.                          *)
DropListener(l) ==
  /\ Called /\ l \in owned
  /\ owned' = owned \ {l}
  /\ UNCHANGED <<manager, generator, listeners, listenersMutex, call, history>>

-----------------------------------------------------------------------------
(* The generator's thread                                                  *)

G == call[Generator]

NextSequence(i) == sequences' = [sequences EXCEPT ![i] = @ + 1]
EventOf(i) == [epoch |-> epoch, instrument |-> i, number |-> sequences[i] + 1]

(* generate_update: the lookup that decides whether there is anything to   *)
(* generate; then a trade or a quote.                                      *)
BeginUpdate(i, trade) ==
  /\ Called /\ G.step = "idle" /\ mutex = Free
  /\ i \in instruments /\ books[i] # 0
  /\ Become(Generator, [Idle EXCEPT !.step = "lookup", !.instrument = i, !.trade = trade])
  /\ UNCHANGED <<manager, generator, registry, history>>

(* generate_quote, generate_trade: the second lookup.  The books may have  *)
(* been reset since; a quote takes its number before it reads the book.    *)
Lookup ==
  /\ G.step = "lookup" /\ mutex = Free
  /\ IF books[G.instrument] = 0
     THEN /\ Become(Generator, Idle)
          /\ stats' = [stats EXCEPT !.updates = @ + 1]
          /\ UNCHANGED <<sequences, epoch>>
     ELSE /\ IF G.trade
             THEN UNCHANGED sequences /\ Become(Generator,
                    [G EXCEPT !.step = "generate", !.book = books[G.instrument],
                              !.reset = FALSE])
             ELSE NextSequence(G.instrument) /\ Become(Generator,
                    [G EXCEPT !.step = "generate", !.book = books[G.instrument],
                              !.event = EventOf(G.instrument), !.reset = FALSE])
          /\ UNCHANGED <<epoch, stats>>
  /\ UNCHANGED <<manager, registry, calls, history>>

(* The event is complete, from what was read of the book without a lock;   *)
(* a trade that finds no two sides is none, and takes no number.           *)
Generated ==
  /\ G.step = "generate"
  /\ \/ /\ G.trade
        /\ NextSequence(G.instrument)
        /\ Become(Generator, [G EXCEPT !.step = "apply", !.event = EventOf(G.instrument)])
        /\ UNCHANGED stats
     \/ /\ G.trade
        /\ stats' = [stats EXCEPT !.updates = @ + 1]
        /\ Become(Generator, Idle)
        /\ UNCHANGED sequences
     \/ /\ ~G.trade
        /\ Proceed(Generator, "apply")
        /\ UNCHANGED <<sequences, stats>>
  /\ UNCHANGED <<manager, epoch, registry, calls, history>>

(* notify_listeners: apply_event of the manager first, which finds the     *)
(* book again ...                                                          *)
BeginApply ==
  /\ G.step = "apply" /\ mutex = Free
  /\ mutex' = Generator
  /\ Become(Generator, [G EXCEPT !.step = "applying", !.book = books[G.instrument]])
  /\ UNCHANGED <<instruments, books, created, content, generator, registry, calls, history>>

EndApply ==
  /\ G.step = "applying"
  /\ mutex' = Free
  /\ IF G.book = 0
     THEN /\ unapplied' = unapplied \cup {[event |-> G.event, reset |-> G.reset]}
          /\ UNCHANGED content
     ELSE /\ content' = [content EXCEPT ![G.book] = Append(@, G.event)]
          /\ UNCHANGED unapplied
  /\ Proceed(Generator, "notify")
  /\ UNCHANGED <<instruments, books, created, generator, registry, calls,
                 heard, settled, published>>

(* ... then the listeners, under their own lock.                           *)
BeginNotify ==
  /\ G.step = "notify" /\ listenersMutex = Free
  /\ listenersMutex' = Generator
  /\ Become(Generator, [G EXCEPT !.step = "calling", !.index = 1])
  /\ UNCHANGED <<manager, generator, listeners, owned, calls, history>>

(* A listener that is still owned is called; it may ask the manager for a  *)
(* snapshot, and once it does it returns no sooner than it has one.        *)
CallListener(asks) ==
  /\ G.step = "calling" /\ ~G.asks /\ G.index <= Len(listeners)
  /\ LET l == listeners[G.index] IN
       IF l \in owned
       THEN heard' = [heard EXCEPT ![l] = Append(@, G.event)]
       ELSE ~asks /\ UNCHANGED heard
  /\ Become(Generator, [G EXCEPT !.index = @ + 1, !.asks = asks])
  /\ UNCHANGED <<manager, generator, registry, calls, settled, published, unapplied>>

(* The manager's lock must be free for it, whoever waits for the listeners. *)
AnswerListener ==
  /\ G.step = "calling" /\ G.asks /\ mutex = Free
  /\ Become(Generator, [G EXCEPT !.asks = FALSE])
  /\ UNCHANGED <<manager, generator, registry, calls, history>>

(* Mutant: the expired pointers stay and the lock is given back before the *)
(* last listener was called.                                               *)
EndNotifyEarly ==
  /\ G.step = "calling" /\ ~G.asks /\ G.index >= Len(listeners)
  /\ listeners' = Bus!Kept(listeners, owned)
  /\ listenersMutex' = Free
  /\ stats' = [stats EXCEPT !.updates = @ + 1,
                            !.trades = IF G.trade THEN @ + 1 ELSE @,
                            !.quotes = IF G.trade THEN @ ELSE @ + 1]
  /\ settled' = heard /\ published' = Append(published, G.event)
  /\ Become(Generator, Idle)
  /\ UNCHANGED <<manager, sequences, epoch, owned, calls, heard, unapplied>>

(* The expired pointers are removed; the counters are the caller's.        *)
EndNotify ==
  /\ G.step = "calling" /\ ~G.asks /\ G.index > Len(listeners)
  /\ listeners' = Bus!Kept(listeners, owned)
  /\ listenersMutex' = Free
  /\ stats' = [stats EXCEPT !.updates = @ + 1,
                            !.trades = IF G.trade THEN @ + 1 ELSE @,
                            !.quotes = IF G.trade THEN @ ELSE @ + 1]
  /\ settled' = heard /\ published' = Append(published, G.event)
  /\ Become(Generator, Idle)
  /\ UNCHANGED <<manager, sequences, epoch, owned, calls, heard, unapplied>>

(* generate_snapshot: the manager's snapshot, with a number of the same    *)
(* sequence; nobody is notified of it.                                     *)
GenerateSnapshot(i) ==
  /\ Called /\ G.step = "idle" /\ mutex = Free
  /\ books[i] # 0
  /\ NextSequence(i)
  /\ stats' = [stats EXCEPT !.snapshots = @ + 1]
  /\ UNCHANGED <<manager, epoch, registry, call, history>>

(* generate_statistics: a number of that sequence too, for an event made   *)
(* of what is read in the book without the lock; nobody is notified.       *)
GenerateStatistics(i) ==
  /\ Called /\ G.step = "idle" /\ mutex = Free
  /\ i \in instruments /\ books[i] # 0
  /\ NextSequence(i)
  /\ Become(Generator, [Idle EXCEPT !.step = "reading", !.book = books[i]])
  /\ UNCHANGED <<manager, epoch, stats, registry, history>>

ResetStatistics ==
  /\ Called /\ G.step = "idle"
  /\ stats' = NoStatistics
  /\ sequences' = [i \in Instrument |-> 0]
  /\ epoch' = epoch + 1
  /\ UNCHANGED <<manager, registry, call, history>>

-----------------------------------------------------------------------------
UserStep(t) ==
  \/ \E i \in Instrument : BeginCreateSnapshot(t, i) \/ GetOrderBook(t, i)
  \/ BeginClearAllBooks(t)

UserReturn(t) == EndClearAllBooks(t) \/ EndCreateSnapshot(t) \/ EndReading(t)

Administer ==
  \/ \E i \in Instrument : AddInstrument(i) \/ CreateOrderBook(i)
  \/ \E l \in Listener : AddListener(l) \/ RemoveListener(l) \/ DropListener(l)
  \/ ResetAllBooks \/ ClearListeners

GeneratorCalls ==
  \/ \E i \in Instrument : \E trade \in BOOLEAN : BeginUpdate(i, trade)
  \/ \E i \in Instrument : GenerateSnapshot(i) \/ GenerateStatistics(i)
  \/ ResetStatistics

GeneratorReturns ==
  \/ Lookup \/ Generated \/ BeginApply \/ EndApply
  \/ BeginNotify \/ (\E asks \in BOOLEAN : CallListener(asks)) \/ AnswerListener
  \/ EndNotify \/ EndReading(Generator)

Next ==
  \/ \E t \in User : UserStep(t) \/ UserReturn(t)
  \/ Administer \/ GeneratorCalls \/ GeneratorReturns

(* A call that was begun goes on.                                          *)
Fairness ==
  /\ WF_vars(GeneratorReturns)
  /\ \A t \in User : WF_vars(UserReturn(t))

Spec == Init /\ [][Next]_vars /\ Fairness

-----------------------------------------------------------------------------
UserSteps == {"idle", "clearing", "snapshot", "reading"}
GeneratorSteps ==
  {"idle", "lookup", "generate", "apply", "applying", "notify", "calling", "reading"}

(* Every variable stays in its type, a user in the steps of a user's calls. *)
TypeOK ==
  /\ instruments \subseteq Instrument
  /\ created \in Nat /\ books \in [Instrument -> 0..created]
  /\ content \in Seq(Seq(Events)) /\ Len(content) = created
  /\ mutex \in Thread \cup {Free} /\ listenersMutex \in {Generator, Free}
  /\ sequences \in [Instrument -> 0..MaxCalls]
  /\ epoch \in 0..MaxCalls /\ calls \in 0..MaxCalls
  /\ stats \in [updates : Nat, trades : Nat, quotes : Nat, snapshots : Nat]
  /\ listeners \in Seq(Listener) /\ owned \subseteq Listener
  /\ call \in [Thread ->
       [step : UserSteps \cup GeneratorSteps, instrument : Instrument \cup {0},
        book : 0..created, event : Events \cup {NoEvent}, trade : BOOLEAN,
        index : Nat, asks : BOOLEAN, reset : BOOLEAN]]
  /\ \A t \in User : call[t].step \in UserSteps
  /\ G.step \in GeneratorSteps
  /\ heard \in [Listener -> Seq(Events)] /\ settled \in [Listener -> Seq(Events)]
  /\ published \in Seq(Events)

(* Who is inside which books. *)
Writing(t) ==
  IF At(t, "clearing") THEN {books[i] : i \in Instrument} \ {0}
  ELSE IF At(t, "applying") THEN {call[t].book} \ {0}
  ELSE {}

(* Nobody changes a book while another thread changes it, nor while a      *)
(* snapshot of it is made.  The generator, which looks into the book it    *)
(* quotes without the lock, meets nobody there but clear_all_books: that   *)
(* call, and a book from get_order_book, are what another thread cannot    *)
(* use while the generator runs.                                           *)
Isolation ==
  \A t, u \in Thread : t # u =>
    /\ Writing(t) \cap Writing(u) = {}
    /\ At(t, "snapshot") => call[t].book \notin Writing(u)
    /\ (At(t, "generate") /\ call[t].book \in Writing(u)) => At(u, "clearing")

(* An event is published though no book took it only when the books were   *)
(* reset between the generator's look at the book and apply_event: in any  *)
(* other order of the threads' calls the book and the listeners get the    *)
(* same events.                                                            *)
UnappliedOnlyAfterReset == \A u \in unapplied : u.reset

(* To the listeners the generator is the bus of EventBus. *)
BusImplemented == Bus!BusSpec

(* A call returns: a listener that asks the manager waits for its lock     *)
(* with the lock of the listeners held, and nobody who has the former ever *)
(* waits for the latter (notify_listeners, and every method of the         *)
(* manager).                                                               *)
CallsReturn == \A t \in Thread : (~At(t, "idle")) ~> At(t, "idle")
=============================================================================
