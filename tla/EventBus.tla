------------------------------- MODULE EventBus -------------------------------
(***************************************************************************)
(* What the generator promises to its listeners, whatever threads call it: *)
(* events are published one after the other, in the order of their         *)
(* numbers, and each is heard at once by everybody who is registered, once *)
(* for each registration.  Who is destroyed meanwhile may hear it or not.  *)
(***************************************************************************)
EXTENDS Integers, Sequences, FiniteSets

CONSTANTS Listener, Event     \* events have an epoch, an instrument, a number

VARIABLES
  registered,   \* the registrations, one listener perhaps several times
  owned,        \* listeners that somebody still owns
  log,          \* the events published
  heard         \* what each listener was called with

busVars == <<registered, owned, log, heard>>

(* SelectSeq(s, LAMBDA m : m \in S) in a form that can be reasoned about:   *)
(* what is n-th of those that stay has n - 1 of them before it.            *)
Kept(s, S) ==
  LET stays == {i \in DOMAIN s : s[i] \in S}
      Nth(n) == CHOOSE i \in stays : Cardinality({j \in stays : j < i}) = n - 1
  IN [n \in 1..Cardinality(stays) |-> s[Nth(n)]]

Copies(l) == Cardinality({i \in DOMAIN registered : registered[i] = l})

Follows(e) ==
  \A i \in DOMAIN log :
    \/ log[i].epoch < e.epoch
    \/ log[i].epoch = e.epoch
         /\ (log[i].instrument = e.instrument => log[i].number < e.number)

BusInit ==
  /\ registered = << >> /\ owned = Listener
  /\ log = << >> /\ heard = [l \in Listener |-> << >>]

Publish(e) ==
  /\ Follows(e)
  /\ log' = Append(log, e)
  /\ DOMAIN heard' = Listener
  /\ \A l \in Listener :
       \E k \in (IF l \in owned THEN {Copies(l)} ELSE 0..Copies(l)) :
         heard'[l] = heard[l] \o [i \in 1..k |-> e]
  /\ registered' = Kept(registered, owned)
  /\ UNCHANGED owned

Register(l) ==
  /\ l \in owned
  /\ registered' = Append(registered, l)
  /\ UNCHANGED <<owned, log, heard>>

Unregister(l) ==
  /\ registered' = Kept(registered, owned \ {l})
  /\ UNCHANGED <<owned, log, heard>>

UnregisterAll ==
  /\ registered' = << >>
  /\ UNCHANGED <<owned, log, heard>>

Drop(l) ==
  /\ owned' = owned \ {l}
  /\ UNCHANGED <<registered, log, heard>>

BusNext ==
  \/ \E e \in Event : Publish(e)
  \/ \E l \in Listener : Register(l) \/ Unregister(l) \/ Drop(l)
  \/ UnregisterAll

BusSpec == BusInit /\ [][BusNext]_busVars
=============================================================================
