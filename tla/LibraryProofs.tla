---------------------------- MODULE LibraryProofs ----------------------------
(***************************************************************************)
(* For every set of instruments, listeners and threads and any number of   *)
(* calls: no two threads are in one book in a way the locks are there to   *)
(* prevent, only a reset of the books makes an event that is published and *)
(* in no book, and the listeners hear what a bus would let them hear.      *)
(***************************************************************************)
EXTENDS Library, FiniteSetTheorems, WellFoundedInduction, TLAPS

Calls ==
  [step : UserSteps \cup GeneratorSteps, instrument : Instrument \cup {0},
   book : 0..created, event : Events \cup {NoEvent}, trade : BOOLEAN,
   index : Nat, asks : BOOLEAN, reset : BOOLEAN]

(* Every number was taken by a call that was counted; one that has still   *)
(* to take its number is counted too.                                      *)
TakesNumber == G.step = "lookup" \/ (G.step = "generate" /\ G.trade)

Counted ==
  /\ epoch <= calls
  /\ \A i \in Instrument :
       sequences[i] <= calls /\ (TakesNumber => sequences[i] < calls)

(* Whoever writes into a book or copies one has the manager's lock.        *)
Locked ==
  \A t \in Thread :
    call[t].step \in {"clearing", "snapshot", "applying"} => mutex = t

(* The generator works for an instrument that had a book, and goes on to   *)
(* apply its event without one only after a reset.                         *)
Worked(c) ==
  /\ c.step \notin {"idle", "reading"} => c.instrument \in Instrument
  /\ c.step \in {"apply", "applying", "notify", "calling"} => c.event \in Events
  /\ c.step = "generate" /\ ~c.trade => c.event \in Events
  /\ c.step \in {"generate", "apply"} => books[c.instrument] # 0 \/ c.reset
  /\ c.step = "applying" => c.book # 0 \/ c.reset

Working == Worked(G)

IInv == TypeOK /\ Counted /\ Locked /\ Working /\ UnappliedOnlyAfterReset

-----------------------------------------------------------------------------
(* Kept, the filter of a sequence *)

Less == {p \in Nat \X Nat : p[1] < p[2]}

(* Every set of natural numbers that is not empty has a least.             *)
LEMMA LeastExists ==
  ASSUME NEW S \in SUBSET Nat, S # {} PROVE \E x \in S : \A y \in S : x <= y
<1>1. IsWellFoundedOn(Less, Nat)
  BY NatLessThanWellFounded DEF OpToRel, Less
<1>2. PICK x \in S : \A y \in S : ~(<<y, x>> \in Less)
  BY <1>1, WFMin
<1>3. ASSUME NEW y \in S PROVE x <= y
  <2>1. x \in Nat /\ y \in Nat OBVIOUS
  <2>2. ~(y < x) BY <1>2, <2>1 DEF Less
  <2> QED BY <2>1, <2>2
<1> QED BY <1>3

Before(D, i) == {j \in D : j < i}

LEMMA BeforeFinite ==
  ASSUME NEW D, IsFiniteSet(D), NEW i
  PROVE  IsFiniteSet(Before(D, i)) /\ Cardinality(Before(D, i)) \in Nat
<1>1. Before(D, i) \in SUBSET D BY DEF Before
<1> QED BY <1>1, FS_Subset, FS_CardinalityType

(* A finite set of numbers has an n-th: the least of those after the one   *)
(* before it.                                                              *)
LEMMA NthExists ==
  ASSUME NEW D \in SUBSET Nat, IsFiniteSet(D), NEW n \in 1..Cardinality(D)
  PROVE  \E i \in D : Cardinality(Before(D, i)) = n - 1
<1> DEFINE Bad == {m \in 1..Cardinality(D) :
                     \A i \in D : Cardinality(Before(D, i)) # m - 1}
<1>1. Cardinality(D) \in Nat BY FS_CardinalityType
<1>2. SUFFICES ASSUME Bad # {} PROVE FALSE
  OBVIOUS
<1>3. PICK m \in Bad : \A k \in Bad : m <= k
  <2>1. Bad \in SUBSET Nat BY <1>1
  <2> HIDE DEF Bad
  <2> QED BY <1>2, <2>1, LeastExists
<1>4. m \in 1..Cardinality(D) /\ \A i \in D : Cardinality(Before(D, i)) # m - 1
  BY <1>3
<1>5. CASE m = 1
  <2>1. D # {} BY <1>1, <1>4, FS_EmptySet
  <2>2. PICK i \in D : \A j \in D : i <= j BY <2>1, LeastExists
  <2>3. \A j \in D : j \in Nat /\ i \in Nat /\ ~(j < i) BY <2>2
  <2>4. Before(D, i) = {} BY <2>3 DEF Before
  <2> QED BY <1>4, <1>5, <2>4, FS_EmptySet
<1>6. CASE m # 1
  <2>1. m - 1 \in 1..Cardinality(D) /\ m \in Nat BY <1>1, <1>4, <1>6
  <2>2. m - 1 \notin Bad BY <1>3, <2>1
  <2>3. PICK i \in D : Cardinality(Before(D, i)) = (m - 1) - 1 BY <2>1, <2>2
  <2> HIDE DEF Bad
  <2> DEFINE After == {j \in D : i < j}
             Upto == Before(D, i) \cup {i}
  <2>4. Cardinality(Upto) = m - 1
    <3>1. i \notin Before(D, i) BY DEF Before
    <3>2. Cardinality(Upto) = Cardinality(Before(D, i)) + 1
      BY <3>1, BeforeFinite, FS_AddElement
    <3> QED BY <2>1, <2>3, <3>2
  <2>5. \A j \in D : j \in Upto \/ j \in After
    <3>1. \A j \in D : j < i \/ j = i \/ i < j OBVIOUS
    <3> QED BY <3>1 DEF Before
  <2>6. After # {}
    <3>1. SUFFICES ASSUME After = {} PROVE FALSE OBVIOUS
    <3>2. D = Upto BY <2>5, <3>1 DEF Before
    <3>3. Cardinality(D) = m - 1 BY <2>4, <3>2
    <3> QED BY <1>1, <1>4, <2>1, <3>3
  <2>7. PICK j \in After : \A k \in After : j <= k BY <2>6, LeastExists
  <2>8. j \in Nat /\ i \in Nat /\ i < j /\ j \in D BY <2>7
  <2>9. ASSUME NEW h \in D PROVE h < j <=> (h < i \/ h = i)
    <3>1. h \in Nat OBVIOUS
    <3>2. CASE i < h
      <4>1. j <= h BY <2>7, <3>2
      <4> QED BY <2>8, <3>1, <3>2, <4>1
    <3>3. CASE h <= i BY <2>8, <3>1, <3>3
    <3> QED BY <2>8, <3>1, <3>2, <3>3
  <2>10. Before(D, j) = Upto BY <2>9 DEF Before
  <2> QED BY <1>4, <2>4, <2>8, <2>10
<1> QED BY <1>5, <1>6

LEMMA AppendTyped ==
  ASSUME NEW S, NEW s \in Seq(S), NEW x \in S PROVE Append(s, x) \in Seq(S)
OBVIOUS

LEMMA SameCardinality == \A S : Bus!Cardinality(S) = Cardinality(S)
BY DEF Bus!Cardinality, Cardinality

(* What is kept of a sequence is a sequence of the same things.            *)
LEMMA KeptTyped ==
  ASSUME NEW T, NEW s \in Seq(T), NEW S PROVE Bus!Kept(s, S) \in Seq(T)
<1> DEFINE D == {i \in DOMAIN s : s[i] \in S}
           Nth(n) == CHOOSE i \in D : Bus!Cardinality({j \in D : j < i}) = n - 1
<1>1. DOMAIN s = 1..Len(s) /\ Len(s) \in Nat /\ \A i \in DOMAIN s : s[i] \in T
  OBVIOUS
<1>2. D \in SUBSET Nat /\ D \in SUBSET (1..Len(s)) BY <1>1
<1>3. IsFiniteSet(D)
  <2> HIDE DEF D
  <2>1. IsFiniteSet(1..Len(s)) BY <1>1, FS_Interval
  <2> QED BY <1>2, <2>1, FS_Subset
<1>4. Cardinality(D) \in Nat BY <1>3, FS_CardinalityType
<1>5. ASSUME NEW n \in 1..Cardinality(D) PROVE s[Nth(n)] \in T
  <2>1. D \subseteq DOMAIN s OBVIOUS
  <2> HIDE DEF D
  <2>2. \E i \in D : Bus!Cardinality({j \in D : j < i}) = n - 1
    BY <1>2, <1>3, NthExists, SameCardinality DEF Before
  <2>3. Nth(n) \in D BY <2>2
  <2> QED BY <1>1, <2>1, <2>3
<1>6. Bus!Kept(s, S) = [n \in 1..Cardinality(D) |-> s[Nth(n)]]
  <2>1. Bus!Kept(s, S) = [n \in 1..Bus!Cardinality(D) |-> s[Nth(n)]]
    BY DEF Bus!Kept
  <2> HIDE DEF D, Nth
  <2> QED BY <2>1, SameCardinality
<1> HIDE DEF D, Nth
<1> QED BY <1>4, <1>5, <1>6

-----------------------------------------------------------------------------
LEMMA GeneratorIsThread ==
  Generator \in Thread /\ (\A t \in User : t \in Thread /\ t # Generator)
BY LibraryAssumption DEF Thread

LEMMA IdleIsCall ==
  TypeOK => /\ Idle \in Calls /\ Idle.step = "idle"
            /\ Idle.book = 0 /\ Idle.instrument = 0 /\ Idle.event = NoEvent
            /\ Idle.trade = FALSE /\ Idle.index = 0 /\ Idle.reset = FALSE
BY DEF TypeOK, Idle, Calls, UserSteps, GeneratorSteps

LEMMA EventIsEvent ==
  ASSUME IInv, TakesNumber, NEW i \in Instrument
  PROVE  /\ EventOf(i) \in Events
         /\ sequences[i] + 1 \in 0..MaxCalls /\ sequences[i] + 1 <= calls
<1>1. /\ sequences[i] \in Nat /\ epoch \in 0..MaxCalls /\ calls \in 0..MaxCalls
      /\ sequences[i] < calls /\ MaxCalls \in Nat
  BY LibraryAssumption DEF IInv, TypeOK, Counted
<1>2. sequences[i] + 1 \in 1..MaxCalls /\ sequences[i] + 1 <= calls
  BY <1>1
<1> QED BY <1>1, <1>2 DEF EventOf, Events

LEMMA CallAssigned ==
  ASSUME TypeOK, NEW t \in Thread, NEW c \in Calls, call' = [call EXCEPT ![t] = c],
         created' = created
  PROVE  /\ call' \in [Thread -> Calls] /\ Calls' = Calls
         /\ call'[t] = c /\ \A u \in Thread \ {t} : call'[u] = call[u]
BY DEF TypeOK, Calls

(* The types of what is not about the books.                               *)
ListenersTyped ==
  /\ listeners \in Seq(Listener)
  /\ listenersMutex \in {Generator, Free} /\ owned \subseteq Listener
  /\ heard \in [Listener -> Seq(Events)] /\ settled \in [Listener -> Seq(Events)]
  /\ published \in Seq(Events)

NumbersTyped ==
  /\ sequences \in [Instrument -> 0..MaxCalls] /\ epoch \in 0..MaxCalls
  /\ calls \in 0..MaxCalls
  /\ stats \in [updates : Nat, trades : Nat, quotes : Nat, snapshots : Nat]

ContentTyped == content \in Seq(Seq(Events)) /\ Len(content) = created

(* Nobody loses the lock to another.                                       *)
LockKept(t) == \A u \in Thread \ {t} : mutex = u => mutex' = u

LEMMA UserKeeps ==
  ASSUME IInv, NEW t \in User, NEW c \in Calls, c.step \in UserSteps,
         call' = [call EXCEPT ![t] = c],
         UNCHANGED <<instruments, books, created>>, UNCHANGED generator,
         UNCHANGED registry, UNCHANGED history,
         ContentTyped', calls' = calls \/ Called,
         mutex' \in {Free, t, mutex}, LockKept(t),
         c.step \in {"clearing", "snapshot"} => mutex' = t
  PROVE  IInv'
<1>1. TypeOK /\ Counted /\ Locked /\ Working /\ UnappliedOnlyAfterReset
  BY DEF IInv
<1>2. t \in Thread /\ t # Generator /\ Generator \in Thread BY GeneratorIsThread
<1>3. /\ call' \in [Thread -> Calls] /\ Calls' = Calls
      /\ call'[t] = c /\ \A u \in Thread \ {t} : call'[u] = call[u]
  BY <1>1, <1>2, CallAssigned
<1>4. G' = G BY <1>2, <1>3 DEF G
<1>5. calls \in 0..MaxCalls /\ MaxCalls \in Nat /\ calls' \in 0..MaxCalls /\ calls <= calls'
  BY <1>1, LibraryAssumption DEF TypeOK, Called
<1>6. Counted'
  <2>1. /\ \A i \in Instrument : sequences[i] \in 0..MaxCalls
        /\ epoch \in 0..MaxCalls /\ UNCHANGED <<sequences, epoch>>
    BY <1>1 DEF TypeOK, generator
  <2>2. TakesNumber' = TakesNumber BY <1>4 DEF TakesNumber
  <2> QED BY <1>1, <1>5, <2>1, <2>2 DEF Counted
<1>7. TypeOK'
  <2>1. mutex' \in Thread \cup {Free} BY <1>1, <1>2 DEF TypeOK
  <2>2. \A u \in User : call'[u].step \in UserSteps
    BY <1>1, <1>3, GeneratorIsThread DEF TypeOK
  <2> QED BY <1>1, <1>3, <1>4, <1>5, <2>1, <2>2
          DEF TypeOK, Calls, ContentTyped, generator, registry, history
<1>8. Locked'
  <2> SUFFICES ASSUME NEW u \in Thread,
                      call'[u].step \in {"clearing", "snapshot", "applying"}
               PROVE  mutex' = u
    BY DEF Locked
  <2>1. CASE u = t
    <3>1. c.step # "applying" BY DEF UserSteps
    <3> QED BY <1>3, <2>1, <3>1
  <2>2. CASE u # t
    BY <1>1, <1>3, <2>2 DEF Locked, LockKept
  <2> QED BY <2>1, <2>2
<1>9. Working' BY <1>1, <1>4 DEF Working, Worked
<1>10. UnappliedOnlyAfterReset' BY <1>1 DEF UnappliedOnlyAfterReset, history
<1> QED BY <1>6, <1>7, <1>8, <1>9, <1>10 DEF IInv

LEMMA GeneratorKeeps ==
  ASSUME IInv, NEW c \in Calls, c.step \in GeneratorSteps, Worked(c),
         call' = [call EXCEPT ![Generator] = c],
         UNCHANGED <<instruments, books, created>>,
         ListenersTyped', NumbersTyped', ContentTyped', Counted',
         UnappliedOnlyAfterReset',
         mutex' \in {Free, Generator, mutex}, LockKept(Generator),
         c.step = "applying" => mutex' = Generator
  PROVE  IInv'
<1>1. TypeOK /\ Locked BY DEF IInv
<1>2. Generator \in Thread BY GeneratorIsThread
<1>3. /\ call' \in [Thread -> Calls] /\ Calls' = Calls
      /\ call'[Generator] = c /\ \A u \in Thread \ {Generator} : call'[u] = call[u]
  BY <1>1, <1>2, CallAssigned
<1>4. G' = c BY <1>3 DEF G
<1>5. TypeOK'
  <2>1. mutex' \in Thread \cup {Free} BY <1>1, <1>2 DEF TypeOK
  <2>2. \A u \in User : call'[u].step \in UserSteps
    BY <1>1, <1>3, GeneratorIsThread DEF TypeOK
  <2> QED BY <1>1, <1>3, <1>4, <2>1, <2>2
          DEF TypeOK, Calls, ContentTyped, ListenersTyped, NumbersTyped
<1>6. Locked'
  <2> SUFFICES ASSUME NEW u \in Thread,
                      call'[u].step \in {"clearing", "snapshot", "applying"}
               PROVE  mutex' = u
    BY DEF Locked
  <2>1. CASE u = Generator
    <3>1. c.step \notin {"clearing", "snapshot"} BY DEF GeneratorSteps
    <3> QED BY <1>3, <2>1, <3>1
  <2>2. CASE u # Generator
    BY <1>1, <1>3, <2>2 DEF Locked, LockKept
  <2> QED BY <2>1, <2>2
<1>7. Working' BY <1>4 DEF Working, Worked
<1> QED BY <1>5, <1>6, <1>7 DEF IInv

-----------------------------------------------------------------------------
(* The users *)

LEMMA UserStepKeeps ==
  ASSUME IInv, NEW t \in User, UserStep(t) \/ UserReturn(t) PROVE IInv'
<1>1. TypeOK /\ Locked BY DEF IInv
<1>2. t \in Thread /\ t # Free /\ t # Generator
  BY LibraryAssumption, GeneratorIsThread
<1>3. /\ Idle \in Calls /\ Idle.step = "idle"
  BY <1>1, IdleIsCall
<1>4. call[t] \in Calls /\ ContentTyped BY <1>1, <1>2 DEF TypeOK, Calls, ContentTyped
<1>5. ASSUME NEW i \in Instrument, BeginCreateSnapshot(t, i) PROVE IInv'
  <2>1. PICK c : c = [Idle EXCEPT !.step = "snapshot", !.book = books[i]] OBVIOUS
  <2>2. c \in Calls /\ c.step = "snapshot"
    BY <1>1, <1>3, <2>1 DEF TypeOK, Calls, UserSteps
  <2>3. /\ Called /\ mutex = Free /\ mutex' = t
        /\ call' = [call EXCEPT ![t] = c]
        /\ UNCHANGED <<instruments, books, created, content, generator, registry, history>>
    BY <1>5, <2>1 DEF BeginCreateSnapshot, Become
  <2>4. LockKept(t) BY <1>2, <2>3, LibraryAssumption DEF LockKept
  <2>5. ContentTyped' BY <1>4, <2>3 DEF ContentTyped
  <2> QED BY <2>2, <2>3, <2>4, <2>5, UserKeeps DEF UserSteps
<1>6. ASSUME NEW i \in Instrument, GetOrderBook(t, i) PROVE IInv'
  <2>1. PICK c : c = [Idle EXCEPT !.step = "reading", !.book = books[i]] OBVIOUS
  <2>2. c \in Calls /\ c.step = "reading"
    BY <1>1, <1>3, <2>1 DEF TypeOK, Calls, UserSteps
  <2>3. /\ Called /\ mutex' = mutex
        /\ call' = [call EXCEPT ![t] = c]
        /\ UNCHANGED <<instruments, books, created, content, generator, registry, history>>
    BY <1>6, <2>1 DEF GetOrderBook, Become, manager
  <2>4. LockKept(t) BY <2>3 DEF LockKept
  <2>5. ContentTyped' BY <1>4, <2>3 DEF ContentTyped
  <2> QED BY <2>2, <2>3, <2>4, <2>5, UserKeeps DEF UserSteps
<1>7. ASSUME BeginClearAllBooks(t) PROVE IInv'
  <2>1. PICK c : c = [call[t] EXCEPT !.step = "clearing"] OBVIOUS
  <2>2. c \in Calls /\ c.step = "clearing"
    BY <1>4, <2>1 DEF Calls, UserSteps
  <2>3. /\ Called /\ mutex = Free /\ mutex' = t
        /\ call' = [call EXCEPT ![t] = c]
        /\ UNCHANGED <<instruments, books, created, content, generator, registry, history>>
    BY <1>7, <2>1 DEF BeginClearAllBooks, Proceed
  <2>4. LockKept(t) BY <1>2, <2>3, LibraryAssumption DEF LockKept
  <2>5. ContentTyped' BY <1>4, <2>3 DEF ContentTyped
  <2> QED BY <2>2, <2>3, <2>4, <2>5, UserKeeps DEF UserSteps
<1>8. ASSUME EndClearAllBooks(t) PROVE IInv'
  <2>1. /\ call[t].step = "clearing" /\ mutex' = Free
        /\ call' = [call EXCEPT ![t] = Idle] /\ calls' = calls
        /\ UNCHANGED <<instruments, books, created, generator, registry, history>>
        /\ content' = [b \in DOMAIN content |->
                         IF \E i \in Instrument : books[i] = b THEN << >> ELSE content[b]]
    BY <1>8 DEF EndClearAllBooks, Become, At
  <2>2. LockKept(t) BY <1>1, <1>2, <2>1 DEF LockKept, Locked
  <2>3. ContentTyped'
    <3>1. /\ content \in Seq(Seq(Events)) /\ Len(content) = created
          /\ DOMAIN content = 1..created /\ created \in Nat
      BY <1>1 DEF TypeOK
    <3>2. \A b \in 1..created : content'[b] \in Seq(Events) BY <2>1, <3>1
    <3> QED BY <2>1, <3>1, <3>2 DEF ContentTyped
  <2> QED BY <1>3, <2>1, <2>2, <2>3, UserKeeps DEF UserSteps
<1>9. ASSUME EndCreateSnapshot(t) PROVE IInv'
  <2>1. /\ call[t].step = "snapshot" /\ mutex' = (IF mutex = t THEN Free ELSE mutex)
        /\ call' = [call EXCEPT ![t] = Idle] /\ calls' = calls
        /\ UNCHANGED <<instruments, books, created, content, generator, registry, history>>
    BY <1>9 DEF EndCreateSnapshot, Become, At
  <2>2. LockKept(t) BY <2>1 DEF LockKept
  <2>3. ContentTyped' BY <1>4, <2>1 DEF ContentTyped
  <2> QED BY <1>3, <2>1, <2>2, <2>3, UserKeeps DEF UserSteps
<1>10. ASSUME EndReading(t) PROVE IInv'
  <2>1. /\ call' = [call EXCEPT ![t] = Idle] /\ calls' = calls /\ mutex' = mutex
        /\ UNCHANGED <<instruments, books, created, content, generator, registry, history>>
    BY <1>10 DEF EndReading, Become, manager
  <2>2. LockKept(t) BY <2>1 DEF LockKept
  <2>3. ContentTyped' BY <1>4, <2>1 DEF ContentTyped
  <2> QED BY <1>3, <2>1, <2>2, <2>3, UserKeeps DEF UserSteps
<1> QED BY <1>5, <1>6, <1>7, <1>8, <1>9, <1>10 DEF UserStep, UserReturn

-----------------------------------------------------------------------------
(* Calls that are one step, by any thread *)

LEMMA CalledCounts ==
  ASSUME IInv, Called, G' = G, UNCHANGED <<sequences, epoch>>
  PROVE  Counted' /\ calls' \in 0..MaxCalls
<1>1. calls \in 0..MaxCalls /\ MaxCalls \in Nat /\ epoch \in 0..MaxCalls
      /\ sequences \in [Instrument -> 0..MaxCalls]
  BY LibraryAssumption DEF IInv, TypeOK
<1>2. calls' = calls + 1 /\ calls < MaxCalls BY DEF Called
<1>3. Counted /\ TakesNumber' = TakesNumber BY DEF IInv, TakesNumber
<1>4. \A i \in Instrument : sequences[i] \in Nat BY <1>1
<1> QED BY <1>1, <1>2, <1>3, <1>4 DEF Counted

LEMMA ListenersKeep ==
  ASSUME IInv, Called, owned' \subseteq Listener, listeners' \in Seq(Listener),
         UNCHANGED <<manager, generator, listenersMutex, call, history>>
  PROVE  IInv'
<1>1. TypeOK /\ Locked /\ Working /\ UnappliedOnlyAfterReset BY DEF IInv
<1>2. G' = G BY DEF G
<1>3. Counted' /\ calls' \in 0..MaxCalls BY <1>2, CalledCounts DEF generator
<1>4. TypeOK' BY <1>1, <1>2, <1>3 DEF TypeOK, manager, generator, history
<1>5. Locked' BY <1>1 DEF Locked, manager
<1>6. Working' BY <1>1, <1>2 DEF Working, Worked, manager
<1>7. UnappliedOnlyAfterReset' BY <1>1 DEF UnappliedOnlyAfterReset, history
<1> QED BY <1>3, <1>4, <1>5, <1>6, <1>7 DEF IInv

LEMMA AddInstrumentKeeps ==
  ASSUME IInv, NEW i \in Instrument, AddInstrument(i) PROVE IInv'
<1>1. /\ instruments' = instruments \cup {i}
      /\ UNCHANGED <<books, created, content, mutex, call, calls>>
      /\ UNCHANGED generator /\ UNCHANGED registry /\ UNCHANGED history
  BY DEF AddInstrument
<1>2. G' = G BY <1>1 DEF G
<1>3. TypeOK' BY <1>1, <1>2 DEF IInv, TypeOK, generator, registry, history
<1>4. Counted' BY <1>1, <1>2 DEF IInv, Counted, TakesNumber, generator
<1>5. Locked' BY <1>1 DEF IInv, Locked
<1>6. Working' BY <1>1, <1>2 DEF IInv, Working, Worked
<1>7. UnappliedOnlyAfterReset' BY <1>1 DEF IInv, UnappliedOnlyAfterReset, history
<1> QED BY <1>3, <1>4, <1>5, <1>6, <1>7 DEF IInv

LEMMA CreateOrderBookKeeps ==
  ASSUME IInv, NEW i \in Instrument, CreateOrderBook(i) PROVE IInv'
<1>1. /\ created' = created + 1
      /\ books' = [books EXCEPT ![i] = created + 1]
      /\ content' = Append(content, << >>)
      /\ UNCHANGED <<instruments, mutex, call, calls>>
      /\ UNCHANGED generator /\ UNCHANGED registry /\ UNCHANGED history
  BY DEF CreateOrderBook
<1>2. G' = G BY <1>1 DEF G
<1>3. TypeOK BY DEF IInv
<1>4. PICK n : n \in Nat /\ n = created BY <1>3 DEF TypeOK
<1>5. /\ n + 1 \in Nat /\ n + 1 # 0 /\ 0..n \subseteq 0..(n + 1) /\ n + 1 \in 0..(n + 1)
  BY <1>4
<1>6. /\ books' \in [Instrument -> 0..created'] /\ created' \in Nat
      /\ \A j \in Instrument : books[j] # 0 => books'[j] # 0
  BY <1>1, <1>3, <1>4, <1>5 DEF TypeOK
<1>7. content' \in Seq(Seq(Events)) /\ Len(content') = created'
  BY <1>1, <1>3, <1>4 DEF TypeOK
<1>8. Calls \subseteq Calls'
  BY <1>1, <1>4, <1>5 DEF Calls
<1>9. call' \in [Thread -> Calls'] BY <1>1, <1>3, <1>8 DEF TypeOK, Calls
<1>10. TypeOK'
  BY <1>1, <1>2, <1>3, <1>6, <1>7, <1>9
     DEF TypeOK, Calls, generator, registry, history
<1>11. Counted' BY <1>1, <1>2 DEF IInv, Counted, TakesNumber, generator
<1>12. Locked' BY <1>1 DEF IInv, Locked
<1>13. Working'
  <2>1. Working BY DEF IInv
  <2>2. G.step \in {"generate", "apply"} => books'[G.instrument] # 0 \/ G.reset
    BY <1>6, <2>1 DEF Working, Worked
  <2> QED BY <1>2, <2>1, <2>2 DEF Working, Worked
<1>14. UnappliedOnlyAfterReset' BY <1>1 DEF IInv, UnappliedOnlyAfterReset, history
<1> QED BY <1>10, <1>11, <1>12, <1>13, <1>14 DEF IInv

(* The lock is free: the generator is not applying an event.               *)
LEMMA ResetAllBooksKeeps ==
  ASSUME IInv, ResetAllBooks PROVE IInv'
<1>1. /\ Called /\ mutex = Free
      /\ books' = [i \in Instrument |-> 0]
      /\ call' = [call EXCEPT ![Generator].reset = TRUE]
      /\ UNCHANGED <<instruments, created, content, mutex>>
      /\ UNCHANGED generator /\ UNCHANGED registry /\ UNCHANGED history
  BY DEF ResetAllBooks
<1>2. TypeOK /\ Counted /\ Locked /\ Working /\ UnappliedOnlyAfterReset
  BY DEF IInv
<1>3. Generator \in Thread /\ Generator # Free
  BY LibraryAssumption DEF Thread
<1>4. G \in Calls BY <1>2, <1>3 DEF TypeOK, Calls, G
<1>5. PICK c : c = [G EXCEPT !.reset = TRUE] OBVIOUS
<1>6. /\ c \in Calls /\ c.step = G.step /\ c.instrument = G.instrument
      /\ c.trade = G.trade /\ c.event = G.event /\ c.book = G.book /\ c.reset = TRUE
  BY <1>4, <1>5 DEF Calls
<1>7. call' = [call EXCEPT ![Generator] = c] BY <1>1, <1>5 DEF G
<1>8. /\ call' \in [Thread -> Calls] /\ Calls' = Calls
      /\ call'[Generator] = c /\ \A u \in Thread \ {Generator} : call'[u] = call[u]
  BY <1>1, <1>2, <1>3, <1>6, <1>7, CallAssigned
<1>9. G' = c BY <1>8 DEF G
<1>10. Counted' /\ calls' \in 0..MaxCalls
  <2>1. calls \in 0..MaxCalls /\ MaxCalls \in Nat /\ epoch \in 0..MaxCalls
        /\ sequences \in [Instrument -> 0..MaxCalls]
    BY <1>2, LibraryAssumption DEF TypeOK
  <2>2. calls' = calls + 1 /\ calls < MaxCalls /\ UNCHANGED <<sequences, epoch>>
    BY <1>1 DEF Called, generator
  <2>3. TakesNumber' = TakesNumber BY <1>6, <1>9 DEF TakesNumber
  <2>4. \A i \in Instrument : sequences[i] \in Nat BY <2>1
  <2> QED BY <1>2, <2>1, <2>2, <2>3, <2>4 DEF Counted
<1>11. books' \in [Instrument -> 0..created]
  <2>1. created \in Nat BY <1>2 DEF TypeOK
  <2> QED BY <1>1, <2>1
<1>12. TypeOK'
  <2>1. \A u \in User : call'[u].step \in UserSteps
    BY <1>2, <1>8, GeneratorIsThread DEF TypeOK
  <2> QED BY <1>1, <1>2, <1>6, <1>8, <1>9, <1>10, <1>11, <2>1
          DEF TypeOK, Calls, generator, registry, history
<1>13. Locked'
  <2> SUFFICES ASSUME NEW u \in Thread,
                      call'[u].step \in {"clearing", "snapshot", "applying"}
               PROVE  mutex' = u
    BY DEF Locked
  <2>1. call'[u].step = call[u].step BY <1>6, <1>8 DEF G
  <2> QED BY <1>1, <1>2, <2>1 DEF Locked
<1>14. Working' BY <1>2, <1>6, <1>9 DEF Working, Worked
<1>15. UnappliedOnlyAfterReset' BY <1>1, <1>2 DEF UnappliedOnlyAfterReset, history
<1> QED BY <1>10, <1>12, <1>13, <1>14, <1>15 DEF IInv

LEMMA AdministerKeeps == ASSUME IInv, Administer PROVE IInv'
<1>1. ASSUME NEW l \in Listener, AddListener(l) \/ RemoveListener(l) \/ DropListener(l)
      PROVE  IInv'
  <2>1. /\ Called /\ UNCHANGED <<manager, generator, listenersMutex, call, history>>
        /\ owned' \in {owned, owned \ {l}}
    BY <1>1 DEF AddListener, RemoveListener, DropListener
  <2>2. owned' \subseteq Listener BY <2>1 DEF IInv, TypeOK
  <2>3. listeners \in Seq(Listener) BY DEF IInv, TypeOK
  <2>4. \/ listeners' = listeners \/ listeners' = Append(listeners, l)
        \/ listeners' = Bus!Kept(listeners, owned \ {l})
    BY <1>1 DEF AddListener, RemoveListener, DropListener
  <2>5. listeners' \in Seq(Listener) BY <2>3, <2>4, AppendTyped, KeptTyped
  <2> QED BY <2>1, <2>2, <2>5, ListenersKeep
<1>2. ASSUME ClearListeners PROVE IInv'
  <2>1. /\ Called /\ UNCHANGED <<manager, generator, listenersMutex, call, history>>
        /\ owned' = owned /\ listeners' = << >>
    BY <1>2 DEF ClearListeners
  <2>2. owned' \subseteq Listener BY <2>1 DEF IInv, TypeOK
  <2>3. listeners' \in Seq(Listener) BY <2>1
  <2> QED BY <2>1, <2>2, <2>3, ListenersKeep
<1> QED BY <1>1, <1>2, AddInstrumentKeeps, CreateOrderBookKeeps, ResetAllBooksKeeps
        DEF Administer

-----------------------------------------------------------------------------
(* The generator *)

(* A number is taken in the call that was counted for it.                  *)
LEMMA NumberTaken ==
  ASSUME IInv, NEW i \in Instrument, NextSequence(i), epoch' = epoch,
         ~TakesNumber', Called \/ (TakesNumber /\ calls' = calls)
  PROVE  /\ Counted' /\ sequences' \in [Instrument -> 0..MaxCalls]
         /\ calls' \in 0..MaxCalls
<1>1. /\ calls \in 0..MaxCalls /\ MaxCalls \in Nat /\ epoch \in 0..MaxCalls
      /\ sequences \in [Instrument -> 0..MaxCalls]
      /\ epoch <= calls
      /\ \A j \in Instrument : sequences[j] <= calls /\ (TakesNumber => sequences[j] < calls)
  BY LibraryAssumption DEF IInv, TypeOK, Counted
<1>2. \A j \in Instrument : sequences[j] \in Nat BY <1>1
<1>3. calls' \in 0..MaxCalls /\ calls <= calls' /\ \A j \in Instrument : sequences[j] + 1 <= calls'
  <2>1. CASE Called BY <1>1, <1>2, <2>1 DEF Called
  <2>2. CASE TakesNumber /\ calls' = calls BY <1>1, <1>2, <2>2
  <2> QED BY <2>1, <2>2
<1>4. PICK n : n \in 0..MaxCalls /\ n = sequences[i] + 1
  <2>1. sequences[i] + 1 \in 0..MaxCalls BY <1>1, <1>2, <1>3
  <2> QED BY <2>1
<1>5. sequences' = [sequences EXCEPT ![i] = n] BY <1>4 DEF NextSequence
<1>6. /\ sequences' \in [Instrument -> 0..MaxCalls]
      /\ \A j \in Instrument : sequences'[j] = n \/ sequences'[j] = sequences[j]
  BY <1>1, <1>4, <1>5
<1>7. n <= calls' BY <1>3, <1>4
<1>8. \A j \in Instrument : sequences'[j] <= calls'
  BY <1>1, <1>2, <1>3, <1>6, <1>7
<1>9. epoch' <= calls' BY <1>1, <1>3
<1> QED BY <1>3, <1>6, <1>8, <1>9 DEF Counted

(* Nothing is taken: the count stays right.                                *)
LEMMA NothingTaken ==
  ASSUME IInv, UNCHANGED <<sequences, epoch, calls>>, TakesNumber' => TakesNumber
  PROVE  Counted'
BY DEF IInv, Counted

LEMMA GeneratorCallsKeep == ASSUME IInv, GeneratorCalls PROVE IInv'
<1>1. TypeOK /\ Counted /\ Working /\ UnappliedOnlyAfterReset BY DEF IInv
<1>2. Generator \in Thread BY GeneratorIsThread
<1>3. /\ Idle \in Calls /\ Idle.step = "idle" BY <1>1, IdleIsCall
<1>4. G \in Calls /\ call = [call EXCEPT ![Generator] = G]
  BY <1>1, <1>2 DEF TypeOK, Calls, G
<1>5. ListenersTyped /\ NumbersTyped /\ ContentTyped
  BY <1>1 DEF TypeOK, ListenersTyped, NumbersTyped, ContentTyped
<1>6. ASSUME NEW i \in Instrument, NEW trade \in BOOLEAN, BeginUpdate(i, trade)
      PROVE  IInv'
  <2>1. PICK c : c = [Idle EXCEPT !.step = "lookup", !.instrument = i, !.trade = trade]
    OBVIOUS
  <2>2. c \in Calls /\ c.step = "lookup" /\ c.instrument = i
    BY <1>3, <2>1 DEF Calls, GeneratorSteps
  <2>3. /\ Called /\ call' = [call EXCEPT ![Generator] = c]
        /\ UNCHANGED manager /\ UNCHANGED generator /\ UNCHANGED registry
        /\ UNCHANGED history
    BY <1>6, <2>1 DEF BeginUpdate, Become
  <2>4. calls \in 0..MaxCalls /\ MaxCalls \in Nat /\ epoch \in 0..MaxCalls
        /\ sequences \in [Instrument -> 0..MaxCalls]
    BY <1>1, LibraryAssumption DEF TypeOK
  <2>5. calls' = calls + 1 /\ calls < MaxCalls BY <2>3 DEF Called
  <2>6. \A j \in Instrument : sequences[j] \in Nat BY <2>4
  <2>7. Counted' /\ calls' \in 0..MaxCalls
    BY <1>1, <2>3, <2>4, <2>5, <2>6 DEF Counted, generator
  <2>8. ListenersTyped' /\ NumbersTyped' /\ ContentTyped'
    BY <1>5, <2>3, <2>7
       DEF ListenersTyped, NumbersTyped, ContentTyped, manager, generator, registry, history
  <2>9. Worked(c) BY <2>2 DEF Worked
  <2>10. UnappliedOnlyAfterReset' BY <1>1, <2>3 DEF UnappliedOnlyAfterReset, history
  <2> QED BY <2>2, <2>3, <2>7, <2>8, <2>9, <2>10, GeneratorKeeps
          DEF GeneratorSteps, LockKept, manager
<1>7. ASSUME NEW i \in Instrument, GenerateSnapshot(i) PROVE IInv'
  <2>1. /\ Called /\ NextSequence(i) /\ G.step = "idle"
        /\ stats' = [stats EXCEPT !.snapshots = @ + 1] /\ epoch' = epoch
        /\ call' = call /\ UNCHANGED manager /\ UNCHANGED registry /\ UNCHANGED history
    BY <1>7 DEF GenerateSnapshot
  <2>2. ~TakesNumber' BY <2>1 DEF TakesNumber, G
  <2>3. /\ Counted' /\ sequences' \in [Instrument -> 0..MaxCalls] /\ calls' \in 0..MaxCalls
    BY <2>1, <2>2, NumberTaken
  <2>4. stats' \in [updates : Nat, trades : Nat, quotes : Nat, snapshots : Nat]
    <3>1. stats \in [updates : Nat, trades : Nat, quotes : Nat, snapshots : Nat]
      BY <1>5 DEF NumbersTyped
    <3> QED BY <2>1, <3>1
  <2>5. ListenersTyped' /\ NumbersTyped' /\ ContentTyped'
    BY <1>5, <2>1, <2>3, <2>4
       DEF ListenersTyped, NumbersTyped, ContentTyped, manager, registry, history
  <2>6. UnappliedOnlyAfterReset' BY <1>1, <2>1 DEF UnappliedOnlyAfterReset, history
  <2> QED BY <1>1, <1>4, <2>1, <2>3, <2>5, <2>6, GeneratorKeeps
          DEF GeneratorSteps, LockKept, manager, Working
<1>8. ASSUME NEW i \in Instrument, GenerateStatistics(i) PROVE IInv'
  <2>1. PICK c : c = [Idle EXCEPT !.step = "reading", !.book = books[i]] OBVIOUS
  <2>2. c \in Calls /\ c.step = "reading"
    BY <1>1, <1>3, <2>1 DEF TypeOK, Calls, GeneratorSteps
  <2>3. /\ Called /\ NextSequence(i) /\ UNCHANGED <<epoch, stats>>
        /\ call' = [call EXCEPT ![Generator] = c]
        /\ UNCHANGED manager /\ UNCHANGED registry /\ UNCHANGED history
    BY <1>8, <2>1 DEF GenerateStatistics, Become
  <2>4. ~TakesNumber'
    <3>1. call'[Generator] = c
      BY <1>1, <1>2, <2>2, <2>3, CallAssigned DEF manager
    <3> QED BY <2>2, <3>1 DEF TakesNumber, G
  <2>5. /\ Counted' /\ sequences' \in [Instrument -> 0..MaxCalls] /\ calls' \in 0..MaxCalls
    BY <2>3, <2>4, NumberTaken
  <2>6. ListenersTyped' /\ NumbersTyped' /\ ContentTyped'
    BY <1>5, <2>3, <2>5
       DEF ListenersTyped, NumbersTyped, ContentTyped, manager, registry, history
  <2>7. Worked(c) BY <2>2 DEF Worked
  <2>8. UnappliedOnlyAfterReset' BY <1>1, <2>3 DEF UnappliedOnlyAfterReset, history
  <2> QED BY <2>2, <2>3, <2>5, <2>6, <2>7, <2>8, GeneratorKeeps
          DEF GeneratorSteps, LockKept, manager
<1>9. ASSUME ResetStatistics PROVE IInv'
  <2>1. /\ Called /\ G.step = "idle" /\ stats' = NoStatistics
        /\ sequences' = [i \in Instrument |-> 0] /\ epoch' = epoch + 1
        /\ call' = call /\ UNCHANGED manager /\ UNCHANGED registry /\ UNCHANGED history
    BY <1>9 DEF ResetStatistics
  <2>2. ~TakesNumber' BY <2>1 DEF TakesNumber, G
  <2>3. calls \in 0..MaxCalls /\ MaxCalls \in Nat /\ epoch \in 0..MaxCalls
        /\ epoch <= calls /\ calls' = calls + 1 /\ calls < MaxCalls
    BY <1>1, <2>1, LibraryAssumption DEF TypeOK, Counted, Called
  <2>4. epoch' \in 0..MaxCalls /\ epoch' <= calls' /\ calls' \in 0..MaxCalls /\ 0 <= calls'
        /\ 0 \in 0..MaxCalls
    BY <2>1, <2>3
  <2>5. sequences' \in [Instrument -> 0..MaxCalls] BY <2>1, <2>4
  <2>6. Counted' BY <2>1, <2>2, <2>4 DEF Counted
  <2>7. stats' \in [updates : Nat, trades : Nat, quotes : Nat, snapshots : Nat]
    BY <2>1 DEF NoStatistics
  <2>8. ListenersTyped' /\ NumbersTyped' /\ ContentTyped'
    BY <1>5, <2>1, <2>4, <2>5, <2>7
       DEF ListenersTyped, NumbersTyped, ContentTyped, manager, registry, history
  <2>9. UnappliedOnlyAfterReset' BY <1>1, <2>1 DEF UnappliedOnlyAfterReset, history
  <2> QED BY <1>1, <1>4, <2>1, <2>6, <2>8, <2>9, GeneratorKeeps
          DEF GeneratorSteps, LockKept, manager, Working
<1> QED BY <1>6, <1>7, <1>8, <1>9 DEF GeneratorCalls

(* What the steps of one call of the generator have in common.             *)
LEMMA GeneratorTypes ==
  ASSUME IInv
  PROVE  /\ TypeOK /\ Counted /\ Locked /\ Working /\ UnappliedOnlyAfterReset
         /\ Generator \in Thread /\ Generator # Free
         /\ Idle \in Calls /\ Worked(Idle) /\ Idle.step = "idle"
         /\ G \in Calls /\ Worked(G)
         /\ ListenersTyped /\ NumbersTyped /\ ContentTyped
         /\ stats \in [updates : Nat, trades : Nat, quotes : Nat, snapshots : Nat]
<1>1. TypeOK /\ Counted /\ Locked /\ Working /\ UnappliedOnlyAfterReset
  BY DEF IInv
<1>2. Generator \in Thread /\ Generator # Free BY LibraryAssumption DEF Thread
<1>3. Idle \in Calls /\ Idle.step = "idle" BY <1>1, IdleIsCall
<1>4. Worked(Idle) BY <1>3 DEF Worked
<1>5. G \in Calls /\ Worked(G) BY <1>1, <1>2 DEF TypeOK, Calls, G, Working
<1>6. ListenersTyped /\ NumbersTyped /\ ContentTyped
  BY <1>1 DEF TypeOK, ListenersTyped, NumbersTyped, ContentTyped
<1> QED BY <1>1, <1>2, <1>3, <1>4, <1>5, <1>6 DEF NumbersTyped

LEMMA UpdateCounted ==
  ASSUME NEW s \in [updates : Nat, trades : Nat, quotes : Nat, snapshots : Nat]
  PROVE  /\ [s EXCEPT !.updates = @ + 1]
              \in [updates : Nat, trades : Nat, quotes : Nat, snapshots : Nat]
         /\ [s EXCEPT !.updates = @ + 1, !.trades = @ + 1]
              \in [updates : Nat, trades : Nat, quotes : Nat, snapshots : Nat]
         /\ [s EXCEPT !.updates = @ + 1, !.quotes = @ + 1]
              \in [updates : Nat, trades : Nat, quotes : Nat, snapshots : Nat]
<1>1. PICK u \in Nat : u = s.updates + 1 OBVIOUS
<1>2. PICK t \in Nat : t = s.trades + 1 OBVIOUS
<1>3. PICK q \in Nat : q = s.quotes + 1 OBVIOUS
<1> QED BY <1>1, <1>2, <1>3

(* After the assignment of c the generator is where c says.                *)
LEMMA GeneratorMoved ==
  ASSUME IInv, NEW c \in Calls, call' = [call EXCEPT ![Generator] = c],
         created' = created
  PROVE  G' = c
BY CallAssigned, GeneratorTypes DEF G

LEMMA LookupKeeps == ASSUME IInv, Lookup PROVE IInv'
<1> USE GeneratorTypes
<1>1. /\ G.step = "lookup" /\ G.instrument \in Instrument
      /\ calls' = calls /\ UNCHANGED manager /\ UNCHANGED registry /\ UNCHANGED history
  BY DEF Lookup, Working, Worked
<1>2. PICK i \in Instrument : i = G.instrument BY <1>1
<1>3. TakesNumber BY <1>1 DEF TakesNumber
<1>4. created' = created BY <1>1 DEF manager
<1>5. UnappliedOnlyAfterReset' BY <1>1 DEF UnappliedOnlyAfterReset, history
<1>6. ListenersTyped' /\ ContentTyped'
  BY <1>1 DEF ListenersTyped, ContentTyped, manager, registry, history
<1>7. CASE books[i] = 0
  <2>1. /\ call' = [call EXCEPT ![Generator] = Idle]
        /\ stats' = [stats EXCEPT !.updates = @ + 1]
        /\ UNCHANGED <<sequences, epoch>>
    BY <1>2, <1>7 DEF Lookup, Become
  <2>2. stats' \in [updates : Nat, trades : Nat, quotes : Nat, snapshots : Nat]
    BY <2>1, UpdateCounted
  <2>3. ~TakesNumber' BY <1>4, <2>1, GeneratorMoved DEF TakesNumber
  <2>4. Counted' BY <1>1, <2>1, <2>3, NothingTaken
  <2>5. NumbersTyped' BY <1>1, <2>1, <2>2 DEF NumbersTyped
  <2> QED BY <1>1, <1>5, <1>6, <2>1, <2>4, <2>5, GeneratorKeeps
          DEF GeneratorSteps, LockKept, manager
<1>8. CASE books[i] # 0 /\ G.trade
  <2>1. PICK c : c = [G EXCEPT !.step = "generate", !.book = books[i], !.reset = FALSE]
    OBVIOUS
  <2>2. /\ c \in Calls /\ c.step = "generate" /\ c.instrument = i /\ c.trade = TRUE
        /\ c.reset = FALSE
    <3>1. books[i] \in 0..created BY DEF TypeOK
    <3>2. G.trade = TRUE BY <1>8 DEF Calls
    <3> QED BY <1>2, <2>1, <3>1, <3>2 DEF Calls, GeneratorSteps
  <2>3. call' = [call EXCEPT ![Generator] = c] /\ UNCHANGED <<sequences, epoch, stats>>
    BY <1>2, <1>8, <2>1 DEF Lookup, Become
  <2>4. Counted' BY <1>1, <1>3, <2>3, NothingTaken
  <2>5. NumbersTyped' BY <1>1, <2>3 DEF NumbersTyped
  <2>6. Worked(c) BY <1>8, <2>2 DEF Worked
  <2> QED BY <1>1, <1>5, <1>6, <2>2, <2>3, <2>4, <2>5, <2>6, GeneratorKeeps
          DEF GeneratorSteps, LockKept, manager
<1>9. CASE books[i] # 0 /\ ~G.trade
  <2>1. PICK c : c = [G EXCEPT !.step = "generate", !.book = books[i],
                               !.event = EventOf(i), !.reset = FALSE]
    OBVIOUS
  <2>2. EventOf(i) \in Events BY <1>3, EventIsEvent
  <2>3. /\ c \in Calls /\ c.step = "generate" /\ c.instrument = i /\ c.trade = FALSE
        /\ c.reset = FALSE /\ c.event \in Events
    <3>1. books[i] \in 0..created BY DEF TypeOK
    <3>2. G.trade = FALSE BY <1>9 DEF Calls
    <3>3. PICK e \in Events : e = EventOf(i) BY <2>2
    <3> QED BY <1>2, <2>1, <3>1, <3>2, <3>3 DEF Calls, GeneratorSteps
  <2>4. /\ call' = [call EXCEPT ![Generator] = c] /\ NextSequence(i)
        /\ UNCHANGED <<epoch, stats>>
    BY <1>2, <1>9, <2>1 DEF Lookup, Become
  <2>5. ~TakesNumber' BY <1>4, <2>3, <2>4, GeneratorMoved DEF TakesNumber
  <2>6. /\ Counted' /\ sequences' \in [Instrument -> 0..MaxCalls] /\ calls' \in 0..MaxCalls
    BY <1>1, <1>3, <2>4, <2>5, NumberTaken
  <2>7. NumbersTyped' BY <2>4, <2>6 DEF NumbersTyped
  <2>8. Worked(c) BY <1>9, <2>3 DEF Worked
  <2> QED BY <1>1, <1>5, <1>6, <2>3, <2>4, <2>6, <2>7, <2>8, GeneratorKeeps
          DEF GeneratorSteps, LockKept, manager
<1> QED BY <1>7, <1>8, <1>9

LEMMA GeneratedKeeps == ASSUME IInv, Generated PROVE IInv'
<1> USE GeneratorTypes
<1>1. /\ G.step = "generate" /\ G.instrument \in Instrument
      /\ calls' = calls /\ epoch' = epoch
      /\ UNCHANGED manager /\ UNCHANGED registry /\ UNCHANGED history
  BY DEF Generated, Working, Worked
<1>2. PICK i \in Instrument : i = G.instrument BY <1>1
<1>3. created' = created BY <1>1 DEF manager
<1>4. UnappliedOnlyAfterReset' BY <1>1 DEF UnappliedOnlyAfterReset, history
<1>5. ListenersTyped' /\ ContentTyped'
  BY <1>1 DEF ListenersTyped, ContentTyped, manager, registry, history
<1>6. CASE G.trade /\ NextSequence(i) /\ stats' = stats
           /\ Become(Generator, [G EXCEPT !.step = "apply", !.event = EventOf(i)])
  <2>1. TakesNumber BY <1>1, <1>6 DEF TakesNumber
  <2>2. PICK e \in Events : e = EventOf(i) BY <2>1, EventIsEvent
  <2>3. PICK c : c = [G EXCEPT !.step = "apply", !.event = e] OBVIOUS
  <2>4. /\ c \in Calls /\ c.step = "apply" /\ c.instrument = i /\ c.event = e
        /\ c.reset = G.reset
    BY <1>2, <2>3 DEF Calls, GeneratorSteps
  <2>5. call' = [call EXCEPT ![Generator] = c]
    BY <1>6, <2>2, <2>3 DEF Become
  <2>6. ~TakesNumber' BY <1>3, <2>4, <2>5, GeneratorMoved DEF TakesNumber
  <2>7. /\ Counted' /\ sequences' \in [Instrument -> 0..MaxCalls] /\ calls' \in 0..MaxCalls
    BY <1>1, <1>6, <2>1, <2>6, NumberTaken
  <2>8. NumbersTyped' BY <1>1, <1>6, <2>7 DEF NumbersTyped
  <2>9. Worked(c) BY <1>1, <1>2, <2>4 DEF Worked
  <2> QED BY <1>1, <1>4, <1>5, <2>4, <2>5, <2>7, <2>8, <2>9, GeneratorKeeps
          DEF GeneratorSteps, LockKept, manager
<1>7. CASE stats' = [stats EXCEPT !.updates = @ + 1] /\ Become(Generator, Idle)
           /\ sequences' = sequences
  <2>1. stats' \in [updates : Nat, trades : Nat, quotes : Nat, snapshots : Nat]
    BY <1>7, UpdateCounted
  <2>2. call' = [call EXCEPT ![Generator] = Idle] BY <1>7 DEF Become
  <2>3. ~TakesNumber' BY <1>3, <2>2, GeneratorMoved DEF TakesNumber
  <2>4. Counted' BY <1>1, <1>7, <2>3, NothingTaken
  <2>5. NumbersTyped' BY <1>1, <1>7, <2>1 DEF NumbersTyped
  <2> QED BY <1>1, <1>4, <1>5, <2>2, <2>4, <2>5, GeneratorKeeps
          DEF GeneratorSteps, LockKept, manager
<1>8. CASE ~G.trade /\ Proceed(Generator, "apply") /\ UNCHANGED <<sequences, stats>>
  <2>1. PICK c : c = [G EXCEPT !.step = "apply"] OBVIOUS
  <2>2. /\ c \in Calls /\ c.step = "apply" /\ c.instrument = i /\ c.event = G.event
        /\ c.reset = G.reset
    BY <1>2, <2>1 DEF Calls, GeneratorSteps
  <2>3. call' = [call EXCEPT ![Generator] = c]
    BY <1>8, <2>1 DEF Proceed, G
  <2>4. ~TakesNumber' BY <1>3, <2>2, <2>3, GeneratorMoved DEF TakesNumber
  <2>5. Counted' BY <1>1, <1>8, <2>4, NothingTaken
  <2>6. NumbersTyped' BY <1>1, <1>8 DEF NumbersTyped
  <2>7. Worked(c) BY <1>1, <1>2, <1>8, <2>2 DEF Worked
  <2> QED BY <1>1, <1>4, <1>5, <2>2, <2>3, <2>5, <2>6, <2>7, GeneratorKeeps
          DEF GeneratorSteps, LockKept, manager
<1> QED BY <1>2, <1>6, <1>7, <1>8 DEF Generated

LEMMA BeginApplyKeeps == ASSUME IInv, BeginApply PROVE IInv'
<1> USE GeneratorTypes
<1>1. /\ G.step = "apply" /\ mutex = Free /\ mutex' = Generator
      /\ calls' = calls /\ UNCHANGED <<instruments, books, created, content>>
      /\ UNCHANGED generator /\ UNCHANGED registry /\ UNCHANGED history
  BY DEF BeginApply
<1>2. PICK i \in Instrument : i = G.instrument BY <1>1 DEF Worked
<1>3. books[i] \in 0..created BY DEF TypeOK
<1>4. PICK c : c = [G EXCEPT !.step = "applying", !.book = books[i]] OBVIOUS
<1>5. /\ c \in Calls /\ c.step = "applying" /\ c.instrument = i /\ c.event = G.event
      /\ c.reset = G.reset /\ c.book = books[i]
  BY <1>2, <1>3, <1>4 DEF Calls, GeneratorSteps
<1>6. call' = [call EXCEPT ![Generator] = c]
  BY <1>2, <1>4 DEF BeginApply, Become
<1>7. ~TakesNumber' BY <1>1, <1>5, <1>6, GeneratorMoved DEF TakesNumber
<1>8. Counted' BY <1>1, <1>7, NothingTaken DEF generator
<1>9. ListenersTyped' /\ NumbersTyped' /\ ContentTyped'
  BY <1>1 DEF ListenersTyped, NumbersTyped, ContentTyped, generator, registry, history
<1>10. Worked(c) BY <1>1, <1>2, <1>5 DEF Worked
<1>11. UnappliedOnlyAfterReset' BY <1>1 DEF UnappliedOnlyAfterReset, history
<1>12. LockKept(Generator) BY <1>1, LibraryAssumption DEF LockKept
<1> QED BY <1>1, <1>5, <1>6, <1>8, <1>9, <1>10, <1>11, <1>12, GeneratorKeeps
        DEF GeneratorSteps

LEMMA EndApplyKeeps == ASSUME IInv, EndApply PROVE IInv'
<1> USE GeneratorTypes
<1>1. /\ G.step = "applying" /\ mutex' = Free
      /\ calls' = calls /\ UNCHANGED <<instruments, books, created>>
      /\ UNCHANGED generator /\ UNCHANGED registry
      /\ UNCHANGED <<heard, settled, published>>
      /\ IF G.book = 0
         THEN /\ unapplied' = unapplied \cup {[event |-> G.event, reset |-> G.reset]}
              /\ content' = content
         ELSE /\ content' = [content EXCEPT ![G.book] = Append(@, G.event)]
              /\ unapplied' = unapplied
  BY DEF EndApply
<1>2. PICK c : c = [G EXCEPT !.step = "notify"] OBVIOUS
<1>3. /\ c \in Calls /\ c.step = "notify" /\ c.instrument = G.instrument
      /\ c.event = G.event
  BY <1>2 DEF Calls, GeneratorSteps
<1>4. call' = [call EXCEPT ![Generator] = c] BY <1>2 DEF EndApply, Proceed, G
<1>5. ~TakesNumber' BY <1>1, <1>3, <1>4, GeneratorMoved DEF TakesNumber
<1>6. Counted' BY <1>1, <1>5, NothingTaken DEF generator
<1>7. G.event \in Events /\ G.instrument \in Instrument /\ (G.book # 0 \/ G.reset)
  BY <1>1 DEF Worked
<1>8. Worked(c) BY <1>3, <1>7 DEF Worked
<1>9. mutex = Generator BY <1>1 DEF Locked, G
<1>10. LockKept(Generator) BY <1>9 DEF LockKept
<1>11. ListenersTyped' /\ NumbersTyped'
  BY <1>1 DEF ListenersTyped, NumbersTyped, generator, registry
<1>12. UnappliedOnlyAfterReset'
  <2>1. CASE G.book = 0
    <3>1. \A u \in unapplied' : u \in unapplied \/ u.reset = G.reset
      BY <1>1, <2>1
    <3> QED BY <1>7, <2>1, <3>1 DEF UnappliedOnlyAfterReset
  <2>2. CASE G.book # 0 BY <1>1, <2>2 DEF UnappliedOnlyAfterReset
  <2> QED BY <2>1, <2>2
<1>13. ContentTyped'
  <2>1. CASE G.book = 0 BY <1>1, <2>1 DEF ContentTyped
  <2>2. CASE G.book # 0
    <3>1. PICK b : b = G.book OBVIOUS
    <3>2. created \in Nat /\ G.book \in 0..created BY DEF TypeOK, Calls
    <3>3. b \in 1..created BY <2>2, <3>1, <3>2
    <3>4. content \in Seq(Seq(Events)) /\ Len(content) = created BY DEF ContentTyped
    <3>5. PICK s \in Seq(Events) : s = Append(content[b], G.event)
      <4>1. PICK h \in Seq(Events) : h = content[b] BY <3>3, <3>4
      <4>2. PICK e \in Events : e = G.event BY <1>7
      <4> QED BY <4>1, <4>2, AppendTyped
    <3>6. content' = [content EXCEPT ![b] = s] BY <1>1, <2>2, <3>1, <3>5
    <3> QED BY <1>1, <3>3, <3>4, <3>5, <3>6 DEF ContentTyped
  <2> QED BY <2>1, <2>2
<1> QED BY <1>1, <1>3, <1>4, <1>6, <1>8, <1>10, <1>11, <1>12, <1>13, GeneratorKeeps
        DEF GeneratorSteps

LEMMA BeginNotifyKeeps == ASSUME IInv, BeginNotify PROVE IInv'
<1> USE GeneratorTypes
<1>1. /\ G.step = "notify" /\ listenersMutex' = Generator /\ calls' = calls
      /\ UNCHANGED manager /\ UNCHANGED generator /\ UNCHANGED <<listeners, owned>>
      /\ UNCHANGED history
  BY DEF BeginNotify
<1>2. PICK c : c = [G EXCEPT !.step = "calling", !.index = 1] OBVIOUS
<1>3. /\ c \in Calls /\ c.step = "calling" /\ c.instrument = G.instrument
      /\ c.event = G.event
  BY <1>2 DEF Calls, GeneratorSteps
<1>4. call' = [call EXCEPT ![Generator] = c] BY <1>2 DEF BeginNotify, Become
<1>5. ~TakesNumber' BY <1>1, <1>3, <1>4, GeneratorMoved DEF TakesNumber, manager
<1>6. Counted' BY <1>1, <1>5, NothingTaken DEF generator
<1>7. Worked(c) BY <1>1, <1>3 DEF Worked
<1>8. ListenersTyped' /\ NumbersTyped' /\ ContentTyped'
  BY <1>1 DEF ListenersTyped, NumbersTyped, ContentTyped, manager, generator, history
<1>9. UnappliedOnlyAfterReset' BY <1>1 DEF UnappliedOnlyAfterReset, history
<1> QED BY <1>1, <1>3, <1>4, <1>6, <1>7, <1>8, <1>9, GeneratorKeeps
        DEF GeneratorSteps, LockKept, manager

LEMMA CallListenerKeeps ==
  ASSUME IInv, NEW asks \in BOOLEAN, CallListener(asks) PROVE IInv'
<1> USE GeneratorTypes
<1>1. /\ G.step = "calling" /\ calls' = calls
      /\ UNCHANGED manager /\ UNCHANGED generator /\ UNCHANGED registry
      /\ UNCHANGED <<settled, published, unapplied>>
  BY DEF CallListener
<1>2. PICK l : l = listeners[G.index] OBVIOUS
<1>3. PICK e \in Events : e = G.event BY <1>1 DEF Worked
<1>4. \/ l \in owned /\ heard' = [heard EXCEPT ![l] = Append(@, e)]
      \/ heard' = heard
  BY <1>2, <1>3 DEF CallListener
<1>5. PICK k \in Nat : k = G.index + 1 BY DEF Calls
<1>6. PICK c : c = [G EXCEPT !.index = k, !.asks = asks] OBVIOUS
<1>7. /\ c \in Calls /\ c.step = "calling" /\ c.instrument = G.instrument
      /\ c.event = G.event
  BY <1>1, <1>6 DEF Calls, GeneratorSteps
<1>8. call' = [call EXCEPT ![Generator] = c]
  BY <1>5, <1>6 DEF CallListener, Become
<1>9. ~TakesNumber' BY <1>1, <1>7, <1>8, GeneratorMoved DEF TakesNumber, manager
<1>10. Counted' BY <1>1, <1>9, NothingTaken DEF generator
<1>11. Worked(c) BY <1>1, <1>7 DEF Worked
<1>12. heard' \in [Listener -> Seq(Events)]
  <2>1. heard \in [Listener -> Seq(Events)] /\ owned \subseteq Listener
    BY DEF ListenersTyped
  <2>2. CASE l \in owned /\ heard' = [heard EXCEPT ![l] = Append(@, e)]
    <3>1. PICK s \in Seq(Events) : s = Append(heard[l], e)
      <4>1. PICK h \in Seq(Events) : h = heard[l] BY <2>1, <2>2
      <4> QED BY <4>1, AppendTyped
    <3>2. heard' = [heard EXCEPT ![l] = s] BY <2>2, <3>1
    <3> QED BY <2>1, <3>2
  <2>3. CASE heard' = heard BY <2>1, <2>3
  <2> QED BY <1>4, <2>2, <2>3
<1>13. ListenersTyped' /\ NumbersTyped' /\ ContentTyped'
  BY <1>1, <1>12 DEF ListenersTyped, NumbersTyped, ContentTyped, manager, generator, registry
<1>14. UnappliedOnlyAfterReset' BY <1>1 DEF UnappliedOnlyAfterReset
<1> QED BY <1>1, <1>7, <1>8, <1>10, <1>11, <1>13, <1>14, GeneratorKeeps
        DEF GeneratorSteps, LockKept, manager

LEMMA AnswerListenerKeeps == ASSUME IInv, AnswerListener PROVE IInv'
<1> USE GeneratorTypes
<1>1. /\ G.step = "calling" /\ calls' = calls
      /\ UNCHANGED manager /\ UNCHANGED generator /\ UNCHANGED registry
      /\ UNCHANGED history
  BY DEF AnswerListener
<1>2. PICK c : c = [G EXCEPT !.asks = FALSE] OBVIOUS
<1>3. /\ c \in Calls /\ c.step = "calling" /\ c.instrument = G.instrument
      /\ c.event = G.event
  BY <1>1, <1>2 DEF Calls, GeneratorSteps
<1>4. call' = [call EXCEPT ![Generator] = c] BY <1>2 DEF AnswerListener, Become
<1>5. ~TakesNumber' BY <1>1, <1>3, <1>4, GeneratorMoved DEF TakesNumber, manager
<1>6. Counted' BY <1>1, <1>5, NothingTaken DEF generator
<1>7. Worked(c) BY <1>1, <1>3 DEF Worked
<1>8. ListenersTyped' /\ NumbersTyped' /\ ContentTyped'
  BY <1>1 DEF ListenersTyped, NumbersTyped, ContentTyped, manager, generator, registry, history
<1>9. UnappliedOnlyAfterReset' BY <1>1 DEF UnappliedOnlyAfterReset, history
<1> QED BY <1>1, <1>3, <1>4, <1>6, <1>7, <1>8, <1>9, GeneratorKeeps
        DEF GeneratorSteps, LockKept, manager

LEMMA EndNotifyKeeps == ASSUME IInv, EndNotify PROVE IInv'
<1> USE GeneratorTypes
<1>1. /\ G.step = "calling" /\ listenersMutex' = Free /\ calls' = calls
      /\ settled' = heard /\ published' = Append(published, G.event)
      /\ call' = [call EXCEPT ![Generator] = Idle]
      /\ UNCHANGED manager /\ UNCHANGED <<sequences, epoch, owned, heard, unapplied>>
  BY DEF EndNotify, Become
<1>2. PICK e \in Events : e = G.event BY <1>1 DEF Worked
<1>4. stats' \in [updates : Nat, trades : Nat, quotes : Nat, snapshots : Nat]
  <2>1. CASE G.trade
    <3>1. stats' = [stats EXCEPT !.updates = @ + 1, !.trades = @ + 1]
      BY <2>1 DEF EndNotify
    <3> QED BY <3>1, UpdateCounted
  <2>2. CASE ~G.trade
    <3>1. stats' = [stats EXCEPT !.updates = @ + 1, !.quotes = @ + 1]
      BY <2>2 DEF EndNotify
    <3> QED BY <3>1, UpdateCounted
  <2> QED BY <2>1, <2>2
<1>3. listeners' \in Seq(Listener) BY KeptTyped DEF EndNotify, ListenersTyped
<1>5. published' \in Seq(Events) BY <1>1, <1>2 DEF ListenersTyped
<1>6. ~TakesNumber' BY <1>1, GeneratorMoved DEF TakesNumber, manager
<1>7. Counted' BY <1>1, <1>6, NothingTaken
<1>8. ListenersTyped' BY <1>1, <1>3, <1>5 DEF ListenersTyped
<1>9. NumbersTyped' /\ ContentTyped' BY <1>1, <1>4 DEF NumbersTyped, ContentTyped, manager
<1>10. UnappliedOnlyAfterReset' BY <1>1 DEF UnappliedOnlyAfterReset
<1> QED BY <1>1, <1>7, <1>8, <1>9, <1>10, GeneratorKeeps
        DEF GeneratorSteps, LockKept, manager

LEMMA EndReadingKeeps == ASSUME IInv, EndReading(Generator) PROVE IInv'
<1> USE GeneratorTypes
<1>1. /\ calls' = calls /\ call' = [call EXCEPT ![Generator] = Idle]
      /\ UNCHANGED manager /\ UNCHANGED generator /\ UNCHANGED registry
      /\ UNCHANGED history
  BY DEF EndReading, Become
<1>2. ~TakesNumber' BY <1>1, GeneratorMoved DEF TakesNumber, manager
<1>3. Counted' BY <1>1, <1>2, NothingTaken DEF generator
<1>4. ListenersTyped' /\ NumbersTyped' /\ ContentTyped'
  BY <1>1 DEF ListenersTyped, NumbersTyped, ContentTyped, manager, generator, registry, history
<1>5. UnappliedOnlyAfterReset' BY <1>1 DEF UnappliedOnlyAfterReset, history
<1> QED BY <1>1, <1>3, <1>4, <1>5, GeneratorKeeps
        DEF GeneratorSteps, LockKept, manager

-----------------------------------------------------------------------------
(* The whole *)

LEMMA NextKeeps == IInv /\ [Next]_vars => IInv'
<1> SUFFICES ASSUME IInv, [Next]_vars PROVE IInv'
  OBVIOUS
<1>1. ASSUME UNCHANGED vars PROVE IInv'
  BY <1>1 DEF vars, manager, generator, registry, history, IInv, TypeOK, Counted,
     TakesNumber, Locked, Working, Worked, G, UnappliedOnlyAfterReset
<1>2. ASSUME GeneratorReturns PROVE IInv'
  BY <1>2, LookupKeeps, GeneratedKeeps, BeginApplyKeeps, EndApplyKeeps,
     BeginNotifyKeeps, CallListenerKeeps, AnswerListenerKeeps, EndNotifyKeeps,
     EndReadingKeeps
     DEF GeneratorReturns
<1> QED BY <1>1, <1>2, UserStepKeeps, AdministerKeeps, GeneratorCallsKeep DEF Next

LEMMA InitKeeps == Init => IInv
<1> SUFFICES ASSUME Init PROVE IInv
  OBVIOUS
<1>1. /\ instruments = {} /\ books = [i \in Instrument |-> 0]
      /\ created = 0 /\ content = << >> /\ mutex = Free
      /\ sequences = [i \in Instrument |-> 0] /\ epoch = 0 /\ stats = NoStatistics
      /\ listeners = << >> /\ owned = Listener /\ listenersMutex = Free
      /\ call = [t \in Thread |-> Idle] /\ calls = 0
      /\ heard = [l \in Listener |-> << >>] /\ settled = [l \in Listener |-> << >>]
      /\ published = << >> /\ unapplied = {}
  BY DEF Init
<1>2. Generator \in Thread /\ G = Idle BY <1>1, GeneratorIsThread DEF G
<1>3. 0 \in 0..MaxCalls /\ 0 \in 0..created /\ MaxCalls \in Nat
  BY <1>1, LibraryAssumption
<1>4. Idle \in Calls /\ Idle.step = "idle"
  BY <1>3 DEF Idle, Calls, UserSteps, GeneratorSteps
<1>5. TypeOK
  <2>1. stats \in [updates : Nat, trades : Nat, quotes : Nat, snapshots : Nat]
    BY <1>1 DEF NoStatistics
  <2>2. \A t \in User : call[t].step \in UserSteps
    BY <1>1, <1>4, GeneratorIsThread DEF UserSteps
  <2>3. call \in [Thread -> Calls] BY <1>1, <1>4
  <2>4. G.step \in GeneratorSteps BY <1>2, <1>4 DEF GeneratorSteps
  <2> QED BY <1>1, <1>3, <2>1, <2>2, <2>3, <2>4 DEF TypeOK, Calls
<1>6. Counted BY <1>1, <1>2, <1>3, <1>4 DEF Counted, TakesNumber
<1>7. Locked BY <1>1, <1>4 DEF Locked
<1>8. Working BY <1>2, <1>4 DEF Working, Worked
<1>9. UnappliedOnlyAfterReset BY <1>1 DEF UnappliedOnlyAfterReset
<1> QED BY <1>5, <1>6, <1>7, <1>8, <1>9 DEF IInv

LEMMA LibraryInvariant == Spec => []IInv
BY InitKeeps, NextKeeps, PTL DEF Spec

(* The bookkeeping of the manager and the generator stays in its types: no *)
(* number is taken outside of a call, and each user's thread is in a step  *)
(* of a user's call.                                                       *)
THEOREM LibraryTyped == Spec => []TypeOK
<1>1. IInv => TypeOK BY DEF IInv
<1> QED BY <1>1, LibraryInvariant, PTL

(* However many threads call the manager and whatever they hold: no two    *)
(* change a book at once, none changes one that is being copied, and the   *)
(* generator's unlocked look into a book meets only clear_all_books.       *)
THEOREM BooksIsolated == Spec => []Isolation
<1>1. IInv => Isolation
  <2> SUFFICES ASSUME IInv, NEW t \in Thread, NEW u \in Thread, t # u
               PROVE  /\ Writing(t) \cap Writing(u) = {}
                      /\ At(t, "snapshot") => call[t].book \notin Writing(u)
                      /\ (At(t, "generate") /\ call[t].book \in Writing(u)) =>
                           At(u, "clearing")
    BY DEF Isolation
  <2>1. Locked /\ TypeOK BY DEF IInv
  <2>2. ASSUME NEW v \in Thread, mutex # v PROVE Writing(v) = {}
    BY <2>1, <2>2 DEF Locked, Writing, At
  <2>3. Writing(t) = {} \/ Writing(u) = {} BY <2>2
  <2>4. At(t, "snapshot") => mutex = t BY <2>1 DEF Locked, At
  <2>5. At(t, "snapshot") => Writing(u) = {} BY <2>2, <2>4
  <2>6. At(t, "generate") => t = Generator
    BY <2>1 DEF TypeOK, Thread, At, UserSteps
  <2>7. At(u, "applying") => u = Generator
    BY <2>1 DEF TypeOK, Thread, At, UserSteps
  <2>8. Writing(u) # {} => At(u, "clearing") \/ At(u, "applying")
    BY DEF Writing
  <2> QED BY <2>3, <2>5, <2>6, <2>7, <2>8
<1> QED BY <1>1, LibraryInvariant, PTL

(* The book and the listeners get the same events, unless reset_all_books  *)
(* comes between the generator's look at the book and its apply_event.     *)
THEOREM UnappliedAfterReset == Spec => []UnappliedOnlyAfterReset
<1>1. IInv => UnappliedOnlyAfterReset BY DEF IInv
<1> QED BY <1>1, LibraryInvariant, PTL
-----------------------------------------------------------------------------
(* The bus: what of the state the listeners can tell                       *)

(* The generator has an event whose number is taken, not yet published.    *)
InFlight ==
  \/ G.step \in {"apply", "applying", "notify", "calling"}
  \/ G.step = "generate" /\ ~G.trade

(* What is published has numbers that were taken, and the event in flight  *)
(* is newer than all of it.                                                *)
Ordered ==
  /\ \A i \in DOMAIN published :
       /\ published[i].epoch <= epoch
       /\ published[i].epoch = epoch =>
            published[i].number <= sequences[published[i].instrument]
  /\ InFlight =>
       /\ G.event.epoch = epoch
       /\ G.event.number <= sequences[G.event.instrument]
       /\ Bus!Follows(G.event)

CallsTo(l, n) == Cardinality({i \in 1..(n - 1) : listeners[i] = l})

(* While the listeners are called nobody else has their lock, and each has *)
(* heard the event as often as it was passed, if its owner kept it.        *)
HeardSoFar(l) ==
  \E k \in 0..CallsTo(l, G.index) :
    /\ l \in owned => k = CallsTo(l, G.index)
    /\ heard[l] = settled[l] \o [i \in 1..k |-> G.event]

Delivered ==
  IF G.step = "calling"
  THEN /\ listenersMutex = Generator /\ G.index \in 1..(Len(listeners) + 1)
       /\ \A l \in Listener : HeardSoFar(l)
  ELSE heard = settled /\ listenersMutex = Free

BusInv == IInv /\ Ordered /\ Delivered
BusStep == [Bus!BusNext]_(Bus!busVars)

(* A step the listeners cannot tell from none: the event in flight stays   *)
(* the same or is given up.                                                *)
Unheard ==
  /\ UNCHANGED registry /\ UNCHANGED <<heard, settled, published>>
  /\ \/ UNCHANGED <<G.step, G.event, G.index, G.trade>>
     \/ /\ G.step # "calling" /\ G'.step # "calling"
        /\ InFlight' => InFlight /\ G'.event = G.event

LEMMA PublishedTyped ==
  ASSUME IInv
  PROVE  /\ \A i \in DOMAIN published : published[i] \in Events
         /\ sequences \in [Instrument -> Nat] /\ epoch \in Nat
         /\ InFlight => G.event \in Events
<1>1. TypeOK /\ Worked(G) /\ MaxCalls \in Nat
  BY LibraryAssumption DEF IInv, Working
<1>2. published \in Seq(Events) BY <1>1 DEF TypeOK
<1>3. \A i \in DOMAIN published : published[i] \in Events BY <1>2
<1>4. sequences \in [Instrument -> 0..MaxCalls] /\ epoch \in 0..MaxCalls
  BY <1>1 DEF TypeOK
<1>5. 0..MaxCalls \subseteq Nat BY <1>1
<1>6. InFlight => G.event \in Events BY <1>1 DEF InFlight, Worked
<1> QED BY <1>3, <1>4, <1>5, <1>6

LEMMA EventFields ==
  ASSUME NEW e \in Events
  PROVE  e.epoch \in Nat /\ e.number \in Nat /\ e.instrument \in Instrument
BY LibraryAssumption DEF Events

LEMMA UnheardKeeps ==
  ASSUME BusInv, Unheard, UNCHANGED <<sequences, epoch>>
  PROVE  Ordered' /\ Delivered' /\ BusStep
<1>1. /\ UNCHANGED <<listeners, owned, listenersMutex, heard, settled, published>>
  BY DEF Unheard, registry
<1>2. BusStep BY <1>1 DEF BusStep, Bus!busVars
<1>3. CASE UNCHANGED <<G.step, G.event, G.index, G.trade>>
  <2>1. InFlight' = InFlight BY <1>3 DEF InFlight
  <2>2. Ordered' BY <1>1, <1>3, <2>1 DEF BusInv, Ordered, Bus!Follows
  <2>3. \A l, n : CallsTo(l, n)' = CallsTo(l, n) BY <1>1 DEF CallsTo
  <2>4. \A l : HeardSoFar(l)' = HeardSoFar(l)
    BY <1>1, <1>3 DEF HeardSoFar, CallsTo
  <2>5. Delivered' BY <1>1, <1>3, <2>4 DEF BusInv, Delivered
  <2> QED BY <1>2, <2>2, <2>5
<1>4. CASE /\ G.step # "calling" /\ G'.step # "calling"
           /\ InFlight' => InFlight /\ G'.event = G.event
  <2>1. Ordered' BY <1>1, <1>4 DEF BusInv, Ordered, Bus!Follows
  <2>2. Delivered' BY <1>1, <1>4 DEF BusInv, Delivered
  <2> QED BY <1>2, <2>1, <2>2
<1> QED BY <1>3, <1>4 DEF Unheard

(* A number is taken, perhaps for an event that is now in flight.          *)
LEMMA NumberKeeps ==
  ASSUME BusInv, NEW i \in Instrument, NextSequence(i), epoch' = epoch,
         UNCHANGED registry, UNCHANGED history, ~InFlight,
         G.step # "calling", G'.step # "calling",
         InFlight' => G'.event = EventOf(i)
  PROVE  Ordered' /\ Delivered' /\ BusStep
<1>1. UNCHANGED <<listeners, owned, listenersMutex, heard, settled, published>>
  BY DEF registry, history
<1>2. BusStep BY <1>1 DEF BusStep, Bus!busVars
<1>3. Delivered' BY <1>1 DEF BusInv, Delivered
<1>4. /\ \A j \in DOMAIN published : published[j] \in Events
      /\ sequences \in [Instrument -> Nat] /\ epoch \in Nat
  BY PublishedTyped DEF BusInv
<1>5. PICK n \in Nat : n = sequences[i] + 1 BY <1>4
<1>6. sequences' = [sequences EXCEPT ![i] = n] BY <1>5 DEF NextSequence
<1>7. \A j \in Instrument : sequences[j] <= sequences'[j] /\ sequences'[j] \in Nat
  BY <1>4, <1>5, <1>6
<1>8. ASSUME NEW j \in DOMAIN published
      PROVE  /\ published[j].epoch <= epoch
             /\ published[j].epoch = epoch =>
                  published[j].number <= sequences'[published[j].instrument]
  <2>1. PICK p \in Events : p = published[j] BY <1>4
  <2>2. p.epoch <= epoch /\ (p.epoch = epoch => p.number <= sequences[p.instrument])
    BY <2>1 DEF BusInv, Ordered
  <2>3. p.number \in Nat /\ p.instrument \in Instrument BY EventFields
  <2>4. sequences[p.instrument] \in Nat BY <1>4, <2>3
  <2> QED BY <1>7, <2>1, <2>2, <2>3, <2>4
<1>9. ASSUME InFlight'
      PROVE  /\ G'.event.epoch = epoch
             /\ G'.event.number <= sequences'[G'.event.instrument]
             /\ Bus!Follows(G'.event)
  <2>1. G'.event = [epoch |-> epoch, instrument |-> i, number |-> n]
    BY <1>5, <1>9 DEF EventOf
  <2>2. ASSUME NEW j \in DOMAIN published
        PROVE  \/ published[j].epoch < epoch
               \/ published[j].epoch = epoch /\ (published[j].instrument = i =>
                                                   published[j].number < n)
    <3>1. PICK p \in Events : p = published[j] BY <1>4
    <3>2. p.epoch <= epoch /\ (p.epoch = epoch => p.number <= sequences[p.instrument])
      BY <3>1 DEF BusInv, Ordered
    <3>3. p.epoch \in Nat /\ p.number \in Nat BY EventFields
    <3>4. sequences[i] \in Nat BY <1>4
    <3> QED BY <1>4, <1>5, <3>1, <3>2, <3>3, <3>4
  <2>3. sequences'[i] = n BY <1>4, <1>6
  <2> QED BY <2>1, <2>2, <2>3 DEF Bus!Follows
<1>10. Ordered'
  <2>1. Bus!Follows(G.event)' = Bus!Follows(G'.event) BY <1>1 DEF Bus!Follows
  <2> QED BY <1>1, <1>8, <1>9, <2>1 DEF Ordered
<1> QED BY <1>2, <1>3, <1>10

LEMMA ResetKeeps ==
  ASSUME BusInv, ResetStatistics PROVE Ordered' /\ Delivered' /\ BusStep
<1>1. /\ UNCHANGED <<listeners, owned, listenersMutex, heard, settled, published>>
      /\ epoch' = epoch + 1 /\ call' = call /\ G.step = "idle"
  BY DEF ResetStatistics, registry, history
<1>2. BusStep BY <1>1 DEF BusStep, Bus!busVars
<1>3. G' = G BY <1>1 DEF G
<1>4. Delivered' BY <1>1, <1>3 DEF BusInv, Delivered
<1>5. ~InFlight' BY <1>1, <1>3 DEF InFlight
<1>6. \A j \in DOMAIN published : published[j].epoch < epoch'
  <2>1. ASSUME NEW j \in DOMAIN published PROVE published[j].epoch < epoch + 1
    <3>1. PICK p \in Events : p = published[j] BY PublishedTyped DEF BusInv
    <3>2. p.epoch <= epoch BY <3>1 DEF BusInv, Ordered
    <3>3. p.epoch \in Nat /\ epoch \in Nat BY EventFields, PublishedTyped DEF BusInv
    <3> QED BY <3>1, <3>2, <3>3
  <2> QED BY <1>1, <2>1
<1>7. Ordered'
  <2>1. ASSUME NEW j \in DOMAIN published
        PROVE  published[j].epoch <= epoch' /\ published[j].epoch # epoch'
    <3>1. published[j].epoch \in Nat /\ epoch' \in Nat
      BY <1>1, EventFields, PublishedTyped DEF BusInv
    <3> QED BY <1>6, <3>1
  <2> QED BY <1>1, <1>5, <2>1 DEF Ordered
<1> QED BY <1>2, <1>4, <1>7

(* The listeners change only while none of them is being called.           *)
LEMMA RegistryKeeps ==
  ASSUME BusInv, NEW l \in Listener,
         AddListener(l) \/ RemoveListener(l) \/ DropListener(l) \/ ClearListeners
  PROVE  Ordered' /\ Delivered' /\ BusStep
<1>1. /\ UNCHANGED <<sequences, epoch, listenersMutex, call, heard, settled, published>>
      /\ owned' \subseteq owned
      /\ listeners' = listeners \/ listenersMutex = Free
  BY DEF AddListener, RemoveListener, DropListener, ClearListeners, generator, history
<1>2. G' = G BY <1>1 DEF G
<1>3. Ordered' BY <1>1, <1>2 DEF BusInv, Ordered, InFlight, Bus!Follows
<1>4. BusStep
  <2>1. AddListener(l) => Bus!Register(l)
    BY DEF AddListener, Bus!Register, history
  <2>2. RemoveListener(l) => Bus!Unregister(l)
    BY DEF RemoveListener, Bus!Unregister, history
  <2>3. DropListener(l) => Bus!Drop(l)
    BY DEF DropListener, Bus!Drop, history
  <2>4. ClearListeners => Bus!UnregisterAll
    BY DEF ClearListeners, Bus!UnregisterAll, history
  <2> QED BY <2>1, <2>2, <2>3, <2>4 DEF BusStep, Bus!BusNext
<1>5. Delivered'
  <2>1. CASE G.step = "calling"
    <3>1. listenersMutex = Generator /\ Generator # Free
      BY <2>1, GeneratorTypes DEF BusInv, Delivered
    <3>2. listeners' = listeners BY <1>1, <3>1
    <3>3. \A m, n : CallsTo(m, n)' = CallsTo(m, n) BY <3>2 DEF CallsTo
    <3>4. ASSUME NEW m \in Listener PROVE HeardSoFar(m)'
      <4>1. HeardSoFar(m) BY <2>1 DEF BusInv, Delivered
      <4>2. PICK k \in 0..CallsTo(m, G.index) :
              /\ m \in owned => k = CallsTo(m, G.index)
              /\ heard[m] = settled[m] \o [i \in 1..k |-> G.event]
        BY <4>1 DEF HeardSoFar
      <4>3. CallsTo(m, G.index)' = CallsTo(m, G.index) BY <1>2, <3>2 DEF CallsTo
      <4> QED BY <1>1, <1>2, <4>2, <4>3 DEF HeardSoFar
    <3> QED BY <1>1, <1>2, <2>1, <3>1, <3>2, <3>4 DEF BusInv, Delivered
  <2>2. CASE G.step # "calling" BY <1>1, <1>2, <2>2 DEF BusInv, Delivered
  <2> QED BY <2>1, <2>2
<1> QED BY <1>3, <1>4, <1>5

-----------------------------------------------------------------------------
(* A notification *)

(* The registrations among the first n - 1: a finite number, none at first *)
(* and one more with every registration passed.                            *)
LEMMA CallsCounted ==
  ASSUME NEW l, NEW n \in Nat \ {0}
  PROVE  /\ CallsTo(l, n) \in Nat
         /\ CallsTo(l, 1) = 0
         /\ CallsTo(l, n + 1) = (IF listeners[n] = l THEN CallsTo(l, n) + 1 ELSE CallsTo(l, n))
<1> DEFINE C(m) == {i \in 1..(m - 1) : listeners[i] = l}
<1>1. \A m \in Nat \ {0} : IsFiniteSet(C(m))
  <2> TAKE m \in Nat \ {0}
  <2>1. IsFiniteSet(1..(m - 1)) BY FS_Interval
  <2>2. C(m) \in SUBSET (1..(m - 1)) OBVIOUS
  <2> QED BY <2>1, <2>2, FS_Subset
<1>2. C(1) = {} OBVIOUS
<1>3. n \notin C(n) OBVIOUS
<1>4. C(n + 1) = (IF listeners[n] = l THEN C(n) \cup {n} ELSE C(n)) OBVIOUS
<1>5. \A m : CallsTo(l, m) = Cardinality(C(m)) BY DEF CallsTo
<1> HIDE DEF C
<1>6. CallsTo(l, n) \in Nat BY <1>1, <1>5, FS_CardinalityType
<1>7. CallsTo(l, 1) = 0 BY <1>2, <1>5, FS_EmptySet
<1>8. Cardinality(C(n) \cup {n}) = Cardinality(C(n)) + 1 BY <1>1, <1>3, FS_AddElement
<1> QED BY <1>4, <1>5, <1>6, <1>7, <1>8

Repeat(e, k) == [i \in 1..k |-> e]

LEMMA RepeatOneMore ==
  ASSUME NEW S, NEW s \in Seq(S), NEW e \in S, NEW k \in Nat
  PROVE  /\ s \o Repeat(e, 0) = s
         /\ Append(s \o Repeat(e, k), e) = s \o Repeat(e, k + 1)
<1>1. Repeat(e, 0) = << >> BY DEF Repeat
<1>2. s \o << >> = s OBVIOUS
<1>3. Repeat(e, k) \in Seq(S) BY DEF Repeat
<1>4. Repeat(e, k + 1) = Append(Repeat(e, k), e) BY DEF Repeat
<1>5. PICK a \in Seq(S) : a = Repeat(e, k) BY <1>3
<1>6. Append(s \o a, e) = s \o Append(a, e) OBVIOUS
<1> QED BY <1>1, <1>2, <1>4, <1>5, <1>6

LEMMA HeardOnceMore ==
  \A s \in Seq(Events), e \in Events, k \in Nat :
    Append(s \o Repeat(e, k), e) = s \o Repeat(e, k + 1)
BY RepeatOneMore

LEMMA BeginNotifyHeard ==
  ASSUME BusInv, BeginNotify PROVE Ordered' /\ Delivered' /\ BusStep
<1> USE GeneratorTypes DEF BusInv
<1>1. /\ G.step = "notify" /\ listenersMutex' = Generator
      /\ UNCHANGED <<listeners, owned, sequences, epoch, created>>
      /\ UNCHANGED <<heard, settled, published>>
  BY DEF BeginNotify, manager, generator, history
<1>2. PICK c : c = [G EXCEPT !.step = "calling", !.index = 1] OBVIOUS
<1>3. /\ c \in Calls /\ c.step = "calling" /\ c.event = G.event /\ c.index = 1
      /\ c.trade = G.trade
  BY <1>2 DEF Calls, GeneratorSteps
<1>4. call' = [call EXCEPT ![Generator] = c] BY <1>2 DEF BeginNotify, Become
<1>5. G' = c BY <1>1, <1>3, <1>4, GeneratorMoved
<1>6. BusStep BY <1>1 DEF BusStep, Bus!busVars
<1>7. InFlight BY <1>1 DEF InFlight
<1>8. Ordered' BY <1>1, <1>3, <1>5, <1>7 DEF Ordered, Bus!Follows
<1>9. G.event \in Events BY <1>7, PublishedTyped
<1>10. heard = settled BY <1>1 DEF Delivered
<1>11. ASSUME NEW l \in Listener PROVE HeardSoFar(l)'
  <2>1. CallsTo(l, 1)' = 0
    <3>1. CallsTo(l, 1)' = CallsTo(l, 1) BY <1>1 DEF CallsTo
    <3> QED BY <3>1, CallsCounted
  <2>2. settled[l] \in Seq(Events) BY DEF ListenersTyped
  <2>3. PICK s \in Seq(Events) : s = settled[l] BY <2>2
  <2>4. PICK e \in Events : e = G.event BY <1>9
  <2>5. s \o Repeat(e, 0) = s BY RepeatOneMore
  <2>6. heard'[l] = settled'[l] \o [i \in 1..0 |-> G'.event]
    BY <1>1, <1>3, <1>5, <1>10, <2>3, <2>4, <2>5 DEF Repeat
  <2>7. CallsTo(l, G.index)' = 0 BY <1>3, <1>5, <2>1
  <2> QED BY <2>6, <2>7 DEF HeardSoFar
<1>12. Delivered'
  <2>1. Len(listeners) \in Nat BY DEF ListenersTyped
  <2>2. 1 \in 1..(Len(listeners') + 1) BY <1>1, <2>1
  <2> QED BY <1>1, <1>3, <1>5, <1>11, <2>2 DEF Delivered
<1> QED BY <1>6, <1>8, <1>12

LEMMA CallListenerHeard ==
  ASSUME BusInv, NEW asks \in BOOLEAN, CallListener(asks)
  PROVE  Ordered' /\ Delivered' /\ BusStep
<1> USE GeneratorTypes DEF BusInv
<1>1. /\ G.step = "calling" /\ G.index <= Len(listeners)
      /\ UNCHANGED <<listeners, owned, listenersMutex, sequences, epoch, created>>
      /\ UNCHANGED <<settled, published>>
  BY DEF CallListener, manager, generator, registry
<1>2. /\ listenersMutex = Generator /\ G.index \in 1..(Len(listeners) + 1)
      /\ \A l \in Listener : HeardSoFar(l)
  BY <1>1 DEF Delivered
<1>3. PICK n \in Nat \ {0} : n = G.index BY <1>2
<1>4. PICK e \in Events : e = G.event BY <1>1, PublishedTyped DEF InFlight
<1>5. PICK c : c = [G EXCEPT !.index = n + 1, !.asks = asks] OBVIOUS
<1>6. /\ c \in Calls /\ c.step = "calling" /\ c.event = e /\ c.index = n + 1
      /\ c.trade = G.trade
  <2>1. PICK k \in Nat : k = n + 1 OBVIOUS
  <2>2. c = [G EXCEPT !.index = k, !.asks = asks] BY <1>5, <2>1
  <2>3. c \in Calls BY <2>2 DEF Calls
  <2>4. /\ c.step = "calling" /\ c.event = e /\ c.index = k /\ c.trade = G.trade
    BY <1>1, <1>4, <2>2 DEF Calls
  <2> QED BY <2>1, <2>3, <2>4
<1>7. call' = [call EXCEPT ![Generator] = c]
  BY <1>3, <1>5 DEF CallListener, Become
<1>8. G' = c BY <1>1, <1>6, <1>7, GeneratorMoved
<1>9. BusStep BY <1>1 DEF BusStep, Bus!busVars
<1>10. InFlight BY <1>1 DEF InFlight
<1>11. Ordered' BY <1>1, <1>4, <1>6, <1>8, <1>10 DEF Ordered, Bus!Follows
<1>12. heard \in [Listener -> Seq(Events)] /\ settled \in [Listener -> Seq(Events)]
  BY DEF ListenersTyped
<1>13. IF listeners[n] \in owned
       THEN heard' = [heard EXCEPT ![listeners[n]] = Append(@, e)]
       ELSE heard' = heard
  BY <1>3, <1>4 DEF CallListener
<1>14. ASSUME NEW l \in Listener PROVE HeardSoFar(l)'
  <2>1. PICK k \in 0..CallsTo(l, n) :
          /\ l \in owned => k = CallsTo(l, n)
          /\ heard[l] = settled[l] \o Repeat(e, k)
    BY <1>2, <1>3, <1>4 DEF HeardSoFar, Repeat
  <2>2. /\ CallsTo(l, n) \in Nat
        /\ CallsTo(l, n + 1) =
             (IF listeners[n] = l THEN CallsTo(l, n) + 1 ELSE CallsTo(l, n))
    BY CallsCounted
  <2>3. CallsTo(l, G.index)' = CallsTo(l, n + 1) BY <1>1, <1>6, <1>8 DEF CallsTo
  <2>4. PICK s \in Seq(Events) : s = settled[l] BY <1>12
  <2>5. k \in Nat /\ k + 1 \in Nat BY <2>1, <2>2
  <2>6. SUFFICES \E q \in 0..CallsTo(l, n + 1) :
                   /\ l \in owned => q = CallsTo(l, n + 1)
                   /\ heard'[l] = s \o Repeat(e, q)
    BY <1>1, <1>6, <1>8, <2>3, <2>4 DEF HeardSoFar, Repeat
  <2>7. CASE listeners[n] = l /\ l \in owned
    <3>1. heard'[l] = Append(heard[l], e) BY <1>12, <1>13, <2>7
    <3>2. Append(s \o Repeat(e, k), e) = s \o Repeat(e, k + 1)
      BY <2>5, HeardOnceMore
    <3>3. heard'[l] = s \o Repeat(e, k + 1) BY <2>1, <2>4, <3>1, <3>2
    <3>4. k = CallsTo(l, n) /\ CallsTo(l, n + 1) = k + 1 BY <2>1, <2>2, <2>7
    <3>5. k + 1 \in 0..(k + 1) BY <2>5
    <3> QED BY <3>3, <3>4, <3>5
  <2>8. CASE ~(listeners[n] = l /\ l \in owned)
    <3>1. heard'[l] = heard[l] BY <1>12, <1>13, <2>8
    <3>2. k \in 0..CallsTo(l, n + 1) BY <2>2, <2>5, <2>1
    <3>3. l \in owned => k = CallsTo(l, n + 1) BY <2>1, <2>2, <2>8
    <3> QED BY <2>1, <2>4, <3>1, <3>2, <3>3
  <2> QED BY <2>7, <2>8
<1>15. Delivered'
  <2>1. Len(listeners) \in Nat BY DEF ListenersTyped
  <2>2. n + 1 \in 1..(Len(listeners') + 1) BY <1>1, <1>3, <2>1
  <2> QED BY <1>1, <1>2, <1>6, <1>8, <1>14, <2>2 DEF Delivered
<1> QED BY <1>9, <1>11, <1>15

(* The last step of a notification publishes the event on the bus.         *)
LEMMA EndNotifyHeard ==
  ASSUME BusInv, EndNotify PROVE Ordered' /\ Delivered' /\ BusStep
<1> USE GeneratorTypes DEF BusInv
<1>1. /\ G.step = "calling" /\ G.index > Len(listeners)
      /\ listeners' = Bus!Kept(listeners, owned) /\ listenersMutex' = Free
      /\ settled' = heard /\ published' = Append(published, G.event)
      /\ call' = [call EXCEPT ![Generator] = Idle]
      /\ UNCHANGED <<created, sequences, epoch, owned, heard>>
  BY DEF EndNotify, Become, manager
<1>2. \A l \in Listener : HeardSoFar(l) BY <1>1 DEF Delivered
<1>3. InFlight BY <1>1 DEF InFlight
<1>4. PICK e \in Events : e = G.event BY <1>3, PublishedTyped
<1>5. G' = Idle BY <1>1, GeneratorMoved
<1>6. Delivered' BY <1>1, <1>5 DEF Delivered
<1>7. /\ e.epoch = epoch /\ e.number <= sequences[e.instrument] /\ Bus!Follows(e)
  BY <1>3, <1>4 DEF Ordered
<1>8. published \in Seq(Events) BY DEF ListenersTyped
<1>9. Ordered'
  <2>1. ~InFlight' BY <1>5 DEF InFlight
  <2>2. ASSUME NEW j \in DOMAIN published'
        PROVE  /\ published'[j].epoch <= epoch'
               /\ published'[j].epoch = epoch' =>
                    published'[j].number <= sequences'[published'[j].instrument]
    <3>1. \/ j \in DOMAIN published /\ published'[j] = published[j]
          \/ published'[j] = e
      BY <1>1, <1>4, <1>8
    <3>2. epoch \in Nat BY PublishedTyped
    <3> QED BY <1>1, <1>7, <3>1, <3>2 DEF Ordered
  <2> QED BY <2>1, <2>2 DEF Ordered
<1>10. Len(listeners) \in Nat /\ DOMAIN listeners = 1..Len(listeners)
  BY DEF ListenersTyped
<1>11. G.index = Len(listeners) + 1
  <2>1. G.index \in 1..(Len(listeners) + 1) BY <1>1 DEF Delivered
  <2> QED BY <1>1, <1>10, <2>1
<1>12. \A l : CallsTo(l, G.index) = Bus!Copies(l)
  <2>1. 1..(G.index - 1) = DOMAIN listeners BY <1>10, <1>11
  <2> QED BY <2>1, SameCardinality DEF CallsTo, Bus!Copies
<1>13. ASSUME NEW l \in Listener
       PROVE  \E k \in (IF l \in owned THEN {Bus!Copies(l)} ELSE 0..Bus!Copies(l)) :
                heard[l] = settled[l] \o [i \in 1..k |-> e]
  <2>1. PICK k \in 0..Bus!Copies(l) :
          /\ l \in owned => k = Bus!Copies(l)
          /\ heard[l] = settled[l] \o [i \in 1..k |-> e]
    BY <1>2, <1>4, <1>12 DEF HeardSoFar
  <2>2. k \in (IF l \in owned THEN {Bus!Copies(l)} ELSE 0..Bus!Copies(l)) BY <2>1
  <2> QED BY <2>1, <2>2
<1>14. DOMAIN settled' = Listener BY <1>1 DEF ListenersTyped
<1>15. Bus!Publish(e) BY <1>1, <1>4, <1>7, <1>13, <1>14 DEF Bus!Publish
<1>16. BusStep BY <1>15 DEF BusStep, Bus!BusNext
<1> QED BY <1>6, <1>9, <1>16

-----------------------------------------------------------------------------
(* The steps the listeners cannot tell, and those that take a number       *)

LEMMA OthersUnheard ==
  ASSUME BusInv,
         \/ \E t \in User : UserStep(t) \/ UserReturn(t)
         \/ \E i \in Instrument : AddInstrument(i) \/ CreateOrderBook(i)
         \/ ResetAllBooks
  PROVE  Unheard /\ UNCHANGED <<sequences, epoch>>
<1>1. G \in Calls /\ Generator \in Thread /\ call \in [Thread -> Calls]
  BY GeneratorTypes DEF BusInv, TypeOK, Calls
<1>2. ASSUME NEW t \in User, UserStep(t) \/ UserReturn(t)
      PROVE  Unheard /\ UNCHANGED <<sequences, epoch>>
  <2>1. t \in Thread /\ t # Generator BY GeneratorIsThread
  <2>2. /\ UNCHANGED generator /\ UNCHANGED registry /\ UNCHANGED history
        /\ \E c : call' = [call EXCEPT ![t] = c]
    BY <1>2 DEF UserStep, UserReturn, BeginCreateSnapshot, GetOrderBook,
       BeginClearAllBooks, EndClearAllBooks, EndCreateSnapshot, EndReading,
       Become, Proceed
  <2>3. G' = G BY <1>1, <2>1, <2>2 DEF G
  <2> QED BY <2>2, <2>3 DEF Unheard, generator, history
<1>3. ASSUME NEW i \in Instrument, AddInstrument(i) \/ CreateOrderBook(i)
      PROVE  Unheard /\ UNCHANGED <<sequences, epoch>>
  <2>1. UNCHANGED generator /\ UNCHANGED registry /\ UNCHANGED history /\ call' = call
    BY <1>3 DEF AddInstrument, CreateOrderBook
  <2>2. G' = G BY <2>1 DEF G
  <2> QED BY <2>1, <2>2 DEF Unheard, generator, history
<1>4. ASSUME ResetAllBooks PROVE Unheard /\ UNCHANGED <<sequences, epoch>>
  <2>1. /\ UNCHANGED generator /\ UNCHANGED registry /\ UNCHANGED history
        /\ call' = [call EXCEPT ![Generator].reset = TRUE]
    BY <1>4 DEF ResetAllBooks
  <2>2. UNCHANGED <<G.step, G.event, G.index, G.trade>>
    BY <1>1, <2>1 DEF G, Calls
  <2> QED BY <2>1, <2>2 DEF Unheard, generator, history
<1> QED BY <1>2, <1>3, <1>4

LEMMA CallsHeard ==
  ASSUME BusInv, GeneratorCalls PROVE Ordered' /\ Delivered' /\ BusStep
<1>1. /\ Idle \in Calls /\ Idle.step = "idle" BY GeneratorTypes DEF BusInv
<1>2. ASSUME NEW i \in Instrument, NEW trade \in BOOLEAN, BeginUpdate(i, trade)
      PROVE  Unheard /\ UNCHANGED <<sequences, epoch>>
  <2>1. PICK c : c = [Idle EXCEPT !.step = "lookup", !.instrument = i, !.trade = trade]
    OBVIOUS
  <2>2. c \in Calls /\ c.step = "lookup" BY <1>1, <2>1 DEF Calls, GeneratorSteps
  <2>3. /\ call' = [call EXCEPT ![Generator] = c] /\ created' = created
        /\ G.step = "idle"
        /\ UNCHANGED generator /\ UNCHANGED registry /\ UNCHANGED history
    BY <1>2, <2>1 DEF BeginUpdate, Become, manager
  <2>4. G' = c BY <2>2, <2>3, GeneratorMoved DEF BusInv
  <2>5. ~InFlight' BY <2>2, <2>4 DEF InFlight
  <2> QED BY <2>2, <2>3, <2>4, <2>5 DEF Unheard, generator, history
<1>3. ASSUME NEW i \in Instrument, GenerateSnapshot(i)
      PROVE  Ordered' /\ Delivered' /\ BusStep
  <2>1. /\ NextSequence(i) /\ epoch' = epoch /\ call' = call /\ G.step = "idle"
        /\ UNCHANGED registry /\ UNCHANGED history
    BY <1>3 DEF GenerateSnapshot
  <2>2. G' = G BY <2>1 DEF G
  <2>3. ~InFlight /\ ~InFlight' BY <2>1, <2>2 DEF InFlight
  <2>4. G.step # "calling" /\ G'.step # "calling" BY <2>1, <2>2
  <2> QED BY <2>1, <2>3, <2>4, NumberKeeps
<1>4. ASSUME NEW i \in Instrument, GenerateStatistics(i)
      PROVE  Ordered' /\ Delivered' /\ BusStep
  <2>1. PICK c : c = [Idle EXCEPT !.step = "reading", !.book = books[i]] OBVIOUS
  <2>2. c \in Calls /\ c.step = "reading"
    <3>1. books[i] \in 0..created BY GeneratorTypes DEF BusInv, TypeOK
    <3> QED BY <1>1, <2>1, <3>1 DEF Calls, GeneratorSteps
  <2>3. /\ NextSequence(i) /\ epoch' = epoch /\ G.step = "idle"
        /\ call' = [call EXCEPT ![Generator] = c] /\ created' = created
        /\ UNCHANGED registry /\ UNCHANGED history
    BY <1>4, <2>1 DEF GenerateStatistics, Become, manager
  <2>4. G' = c BY <2>2, <2>3, GeneratorMoved DEF BusInv
  <2>5. ~InFlight /\ ~InFlight' BY <2>2, <2>3, <2>4 DEF InFlight
  <2>6. G.step # "calling" /\ G'.step # "calling" BY <2>2, <2>3, <2>4
  <2> QED BY <2>3, <2>5, <2>6, NumberKeeps
<1> QED BY <1>2, <1>3, <1>4, UnheardKeeps, ResetKeeps DEF GeneratorCalls

LEMMA ReturnsHeard ==
  ASSUME BusInv, GeneratorReturns PROVE Ordered' /\ Delivered' /\ BusStep
<1> USE GeneratorTypes DEF BusInv
<1>1. ASSUME Lookup PROVE Ordered' /\ Delivered' /\ BusStep
  <2>1. /\ G.step = "lookup" /\ UNCHANGED registry /\ UNCHANGED history
        /\ created' = created /\ epoch' = epoch
    BY <1>1 DEF Lookup, manager
  <2>2. PICK i \in Instrument : i = G.instrument BY <2>1 DEF Worked
  <2>3. ~InFlight BY <2>1 DEF InFlight
  <2>4. CASE books[i] = 0
    <3>1. call' = [call EXCEPT ![Generator] = Idle] /\ sequences' = sequences
      BY <1>1, <2>2, <2>4 DEF Lookup, Become
    <3>2. G' = Idle BY <2>1, <3>1, GeneratorMoved
    <3>3. ~InFlight' BY <3>2 DEF InFlight
    <3>4. Unheard BY <2>1, <3>2, <3>3 DEF Unheard, history
    <3> QED BY <2>1, <3>1, <3>4, UnheardKeeps
  <2>5. CASE books[i] # 0 /\ G.trade
    <3>1. PICK c : c = [G EXCEPT !.step = "generate", !.book = books[i], !.reset = FALSE]
      OBVIOUS
    <3>2. c \in Calls /\ c.step = "generate" /\ c.trade
      <4>1. books[i] \in 0..created BY DEF TypeOK
      <4> QED BY <2>5, <3>1, <4>1 DEF Calls, GeneratorSteps
    <3>3. call' = [call EXCEPT ![Generator] = c] /\ sequences' = sequences
      BY <1>1, <2>2, <2>5, <3>1 DEF Lookup, Become
    <3>4. G' = c BY <2>1, <3>2, <3>3, GeneratorMoved
    <3>5. ~InFlight' BY <3>2, <3>4 DEF InFlight
    <3>6. Unheard BY <2>1, <3>2, <3>4, <3>5 DEF Unheard, history
    <3> QED BY <2>1, <3>3, <3>6, UnheardKeeps
  <2>6. CASE books[i] # 0 /\ ~G.trade
    <3>1. PICK c : c = [G EXCEPT !.step = "generate", !.book = books[i],
                                 !.event = EventOf(i), !.reset = FALSE]
      OBVIOUS
    <3>2. PICK e \in Events : e = EventOf(i) BY <2>1, EventIsEvent DEF TakesNumber
    <3>3. c \in Calls /\ c.step = "generate" /\ c.event = e
      <4>1. books[i] \in 0..created BY DEF TypeOK
      <4> QED BY <3>1, <3>2, <4>1 DEF Calls, GeneratorSteps
    <3>4. call' = [call EXCEPT ![Generator] = c] /\ NextSequence(i)
      BY <1>1, <2>2, <2>6, <3>1 DEF Lookup, Become
    <3>5. G' = c BY <2>1, <3>3, <3>4, GeneratorMoved
    <3>6. G.step # "calling" /\ G'.step # "calling" /\ G'.event = EventOf(i)
      BY <2>1, <3>2, <3>3, <3>5
    <3> QED BY <2>1, <2>3, <3>4, <3>6, NumberKeeps
  <2> QED BY <2>4, <2>5, <2>6
<1>2. ASSUME Generated PROVE Ordered' /\ Delivered' /\ BusStep
  <2>1. /\ G.step = "generate" /\ UNCHANGED registry /\ UNCHANGED history
        /\ created' = created /\ epoch' = epoch
    BY <1>2 DEF Generated, manager
  <2>2. PICK i \in Instrument : i = G.instrument BY <2>1 DEF Worked
  <2>3. CASE G.trade /\ NextSequence(i)
             /\ Become(Generator, [G EXCEPT !.step = "apply", !.event = EventOf(i)])
    <3>1. PICK e \in Events : e = EventOf(i) BY <2>1, <2>3, EventIsEvent DEF TakesNumber
    <3>2. PICK c : c = [G EXCEPT !.step = "apply", !.event = e] OBVIOUS
    <3>3. c \in Calls /\ c.step = "apply" /\ c.event = e
      BY <3>2 DEF Calls, GeneratorSteps
    <3>4. call' = [call EXCEPT ![Generator] = c] BY <2>3, <3>1, <3>2 DEF Become
    <3>5. G' = c BY <2>1, <3>3, <3>4, GeneratorMoved
    <3>6. G.step # "calling" /\ G'.step # "calling" /\ G'.event = EventOf(i)
      BY <2>1, <3>1, <3>3, <3>5
    <3>7. ~InFlight BY <2>1, <2>3 DEF InFlight
    <3> QED BY <2>1, <2>3, <3>6, <3>7, NumberKeeps
  <2>4. CASE Become(Generator, Idle) /\ sequences' = sequences
    <3>1. G' = Idle BY <2>1, <2>4, GeneratorMoved DEF Become
    <3>2. ~InFlight' BY <3>1 DEF InFlight
    <3>3. Unheard BY <2>1, <3>1, <3>2 DEF Unheard, history
    <3> QED BY <2>1, <2>4, <3>3, UnheardKeeps
  <2>5. CASE ~G.trade /\ Proceed(Generator, "apply") /\ sequences' = sequences
    <3>1. PICK c : c = [G EXCEPT !.step = "apply"] OBVIOUS
    <3>2. c \in Calls /\ c.step = "apply" /\ c.event = G.event
      BY <3>1 DEF Calls, GeneratorSteps
    <3>3. call' = [call EXCEPT ![Generator] = c] BY <2>5, <3>1 DEF Proceed, G
    <3>4. G' = c BY <2>1, <3>2, <3>3, GeneratorMoved
    <3>5. InFlight BY <2>1, <2>5 DEF InFlight
    <3>6. Unheard BY <2>1, <3>2, <3>4, <3>5 DEF Unheard, history
    <3> QED BY <2>1, <2>5, <3>6, UnheardKeeps
  <2> QED BY <1>2, <2>2, <2>3, <2>4, <2>5 DEF Generated
<1>3. ASSUME BeginApply PROVE Ordered' /\ Delivered' /\ BusStep
  <2>1. /\ G.step = "apply" /\ UNCHANGED registry /\ UNCHANGED history
        /\ created' = created /\ UNCHANGED <<sequences, epoch>>
    BY <1>3 DEF BeginApply, generator
  <2>2. PICK i \in Instrument : i = G.instrument BY <2>1 DEF Worked
  <2>3. PICK c : c = [G EXCEPT !.step = "applying", !.book = books[i]] OBVIOUS
  <2>4. c \in Calls /\ c.step = "applying" /\ c.event = G.event
    <3>1. books[i] \in 0..created BY DEF TypeOK
    <3> QED BY <2>3, <3>1 DEF Calls, GeneratorSteps
  <2>5. call' = [call EXCEPT ![Generator] = c] BY <1>3, <2>2, <2>3 DEF BeginApply, Become
  <2>6. G' = c BY <2>1, <2>4, <2>5, GeneratorMoved
  <2>7. InFlight BY <2>1 DEF InFlight
  <2>8. Unheard BY <2>1, <2>4, <2>6, <2>7 DEF Unheard, history
  <2> QED BY <2>1, <2>8, UnheardKeeps
<1>4. ASSUME EndApply PROVE Ordered' /\ Delivered' /\ BusStep
  <2>1. /\ G.step = "applying" /\ UNCHANGED registry
        /\ UNCHANGED <<heard, settled, published>>
        /\ created' = created /\ UNCHANGED <<sequences, epoch>>
    BY <1>4 DEF EndApply, generator
  <2>2. PICK c : c = [G EXCEPT !.step = "notify"] OBVIOUS
  <2>3. c \in Calls /\ c.step = "notify" /\ c.event = G.event
    BY <2>2 DEF Calls, GeneratorSteps
  <2>4. call' = [call EXCEPT ![Generator] = c] BY <1>4, <2>2 DEF EndApply, Proceed, G
  <2>5. G' = c BY <2>1, <2>3, <2>4, GeneratorMoved
  <2>6. InFlight BY <2>1 DEF InFlight
  <2>7. Unheard BY <2>1, <2>3, <2>5, <2>6 DEF Unheard
  <2> QED BY <2>1, <2>7, UnheardKeeps
<1>5. ASSUME EndReading(Generator) PROVE Ordered' /\ Delivered' /\ BusStep
  <2>1. /\ G.step = "reading" /\ UNCHANGED registry /\ UNCHANGED history
        /\ created' = created /\ UNCHANGED <<sequences, epoch>>
        /\ call' = [call EXCEPT ![Generator] = Idle]
    BY <1>5 DEF EndReading, Become, At, G, manager, generator
  <2>2. G' = Idle BY <2>1, GeneratorMoved
  <2>3. ~InFlight' BY <2>2 DEF InFlight
  <2>4. Unheard BY <2>1, <2>2, <2>3 DEF Unheard, history
  <2> QED BY <2>1, <2>4, UnheardKeeps
<1>6. ASSUME AnswerListener PROVE Ordered' /\ Delivered' /\ BusStep
  <2>1. /\ G.step = "calling" /\ UNCHANGED registry /\ UNCHANGED history
        /\ created' = created /\ UNCHANGED <<sequences, epoch>>
    BY <1>6 DEF AnswerListener, manager, generator
  <2>2. PICK c : c = [G EXCEPT !.asks = FALSE] OBVIOUS
  <2>3. /\ c \in Calls /\ c.step = G.step /\ c.event = G.event
        /\ c.index = G.index /\ c.trade = G.trade
    BY <2>1, <2>2 DEF Calls, GeneratorSteps
  <2>4. call' = [call EXCEPT ![Generator] = c] BY <1>6, <2>2 DEF AnswerListener, Become
  <2>5. G' = c BY <2>1, <2>3, <2>4, GeneratorMoved
  <2>6. Unheard BY <2>1, <2>3, <2>5 DEF Unheard, history
  <2> QED BY <2>1, <2>6, UnheardKeeps
<1> QED BY <1>1, <1>2, <1>3, <1>4, <1>5, <1>6, BeginNotifyHeard, CallListenerHeard,
           EndNotifyHeard
        DEF GeneratorReturns

LEMMA NextHeard ==
  ASSUME BusInv, [Next]_vars PROVE Ordered' /\ Delivered' /\ BusStep
<1>1. CASE UNCHANGED vars
  <2>1. Unheard /\ UNCHANGED <<sequences, epoch>>
    BY <1>1 DEF vars, generator, history, Unheard, G
  <2> QED BY <2>1, UnheardKeeps
<1>2. CASE \/ \E t \in User : UserStep(t) \/ UserReturn(t)
           \/ \E i \in Instrument : AddInstrument(i) \/ CreateOrderBook(i)
           \/ ResetAllBooks
  BY <1>2, OthersUnheard, UnheardKeeps
<1>3. CASE \E l \in Listener : AddListener(l) \/ RemoveListener(l) \/ DropListener(l)
  BY <1>3, RegistryKeeps
<1>4. CASE ClearListeners
  <2>1. CASE Listener = {}
    <3>1. listeners = << >>
      <4>1. listeners \in Seq(Listener) BY GeneratorTypes DEF BusInv, ListenersTyped
      <4> QED BY <2>1, <4>1
    <3>2. Unheard /\ UNCHANGED <<sequences, epoch>>
      BY <1>4, <3>1 DEF ClearListeners, Unheard, G, registry, generator, history
    <3> QED BY <3>2, UnheardKeeps
  <2>2. CASE Listener # {} BY <1>4, <2>2, RegistryKeeps
  <2> QED BY <2>1, <2>2
<1> QED BY <1>1, <1>2, <1>3, <1>4, CallsHeard, ReturnsHeard DEF Next, Administer

LEMMA InitHeard == Init => BusInv /\ Bus!BusInit
<1> SUFFICES ASSUME Init PROVE BusInv /\ Bus!BusInit
  OBVIOUS
<1>1. IInv BY InitKeeps
<1>2. /\ listeners = << >> /\ owned = Listener /\ published = << >>
      /\ settled = [l \in Listener |-> << >>] /\ heard = settled
      /\ listenersMutex = Free /\ call = [t \in Thread |-> Idle]
  BY DEF Init
<1>3. G = Idle /\ Idle.step = "idle"
  BY <1>1, <1>2, GeneratorTypes DEF G
<1>4. Delivered BY <1>2, <1>3 DEF Delivered
<1>5. Ordered BY <1>2, <1>3 DEF Ordered, InFlight
<1>6. Bus!BusInit BY <1>2 DEF Bus!BusInit
<1> QED BY <1>1, <1>4, <1>5, <1>6 DEF BusInv

(* To its listeners the generator is the bus of EventBus, whatever other   *)
(* threads do to the books and the listeners between its steps: events in  *)
(* the order of their numbers, each heard once for each registration.      *)
THEOREM ImplementsBus == Spec => BusImplemented
<1>1. BusInv /\ [Next]_vars => BusInv' /\ [Bus!BusNext]_(Bus!busVars)
  BY NextKeeps, NextHeard DEF BusInv, BusStep
<1>2. Spec => [][Bus!BusNext]_(Bus!busVars)
  BY <1>1, InitHeard, PTL DEF Spec
<1>3. Spec => Bus!BusInit BY InitHeard DEF Spec
<1> QED BY <1>2, <1>3, PTL DEF BusImplemented, Bus!BusSpec
=============================================================================
