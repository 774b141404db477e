----------------------------- MODULE Descriptors -----------------------------
(***************************************************************************)
(* The table of descriptors of one process and the delivery of datagrams   *)
(* on its host, as the transports and the client use them.  A new socket   *)
(* gets the lowest free descriptor.  Descriptors that the rest of the      *)
(* process keeps open throughout are left out.                             *)
(***************************************************************************)
EXTENDS Integers, Sequences, FiniteSets

CONSTANTS
  Descriptor,   \* descriptors that may be free
  Group,        \* multicast groups, each with a port of its own
  MaxCalls      \* bound: calls made

ASSUME DescriptorAssumption == Descriptor \subseteq Nat /\ MaxCalls \in Nat

VARIABLES
  table,        \* what each descriptor refers to
  abandoned,    \* history: descriptors that are open and that no object knows
  calls

kernel == <<table, abandoned, calls>>

None == -1
Closed == [is |-> "closed"]
StandardInput == [is |-> "stdin"]
Sender == [is |-> "sender"]
Receiver(g) == [is |-> "receiver", group |-> g, inbox |-> 0]
Listener == [is |-> "listener"]
Connection == [is |-> "connection"]

(* A process may be started with its standard input closed. *)
KernelInit ==
  /\ \/ table = [fd \in Descriptor |-> Closed]
     \/ table = [fd \in Descriptor |-> IF fd = 0 THEN StandardInput ELSE Closed]
  /\ abandoned = {}
  /\ calls = 0

Called == calls < MaxCalls /\ calls' = calls + 1

Available == {fd \in Descriptor : table[fd] = Closed}
Lowest == CHOOSE fd \in Available : \A other \in Available : fd <= other

(* Mutant: a socket that could not be set up is left open. *)
MakeAndLeave(ok, what) ==
  /\ Available # {}
  /\ table' = [table EXCEPT ![Lowest] = what]

(* A function that makes a socket and may fail: whatever fails, the socket *)
(* it made is closed when it returns.                                      *)
Made(ok) == IF ok THEN Lowest ELSE None
Make(ok, what) ==
  /\ ok => Available # {}
  /\ table' = IF ok THEN [table EXCEPT ![Lowest] = what] ELSE table

Abandon(fd, class) ==
  abandoned' = abandoned \cup {[fd |-> f, class |-> class] : f \in {fd} \ {None}}

CloseDescriptor(fd) == table' = [table EXCEPT ![fd] = Closed]

(* Whoever joined the group may get a datagram or lose it; an inbox counts *)
(* what waits.                                                             *)
Deliver(g) ==
  \E hearers \in SUBSET {fd \in Descriptor :
                           table[fd].is = "receiver" /\ table[fd].group = g} :
    table' = [fd \in Descriptor |->
                IF fd \in hearers THEN [table[fd] EXCEPT !.inbox = @ + 1]
                ELSE table[fd]]

TakeDatagram(fd) == table' = [table EXCEPT ![fd].inbox = @ - 1]
=============================================================================
