------------------------------ MODULE Endpoints ------------------------------
(***************************************************************************)
(* One process that uses every kind of socket of the code: its objects     *)
(* share the table of descriptors and each number is soon used again.      *)
(***************************************************************************)
EXTENDS UdpEndpoints, TcpTransport

(* Those that hold a descriptor: the objects and the caller of TCPTransport. *)
Users == {"plain", "client", "listening", "connection"}
Holder == Transport \cup Users

ASSUME HolderAssumption == Transport \cap Users = {} /\ Group # {}

vars == <<kernel, udp, tcp>>

Init == KernelInit /\ UdpInit /\ TcpInit

Next ==
  \/ UdpCall /\ UNCHANGED tcp
  \/ RunnerStep /\ UNCHANGED tcp
  \/ runner # "crashed" /\ (TcpCall \/ SendDataStep) /\ UNCHANGED udp
  \/ PeerStep /\ UNCHANGED udp

(* The threads in run and send_data are scheduled, and the peer reads what *)
(* it is sent or closes.                                                   *)
Spec ==
  /\ Init /\ [][Next]_vars
  /\ WF_vars(RunnerStep /\ UNCHANGED tcp)
  /\ WF_vars(runner # "crashed" /\ SendDataStep /\ UNCHANGED udp)
  /\ WF_vars((PeerReads \/ PeerCloses) /\ UNCHANGED udp)

Holds(h) ==
  CASE h = "plain"      -> plain
    [] h = "client"     -> client.fd
    [] h = "listening"  -> listening
    [] h = "connection" -> connection
    [] OTHER            -> transport[h].fd

Lost == {a.fd : a \in abandoned}
InUse == {fd \in Descriptor : table[fd] \notin {Closed, StandardInput}}

(* Every variable stays in its type. *)
TypeOK ==
  /\ \A fd \in Descriptor :
       table[fd].is \in {"closed", "stdin", "sender", "receiver", "listener", "connection"}
  /\ \A h \in Holder : Holds(h) \in Descriptor \cup {None}
  /\ runner \in {"idle", "entered", "test", "check", "select", "read", "crashed"}
  /\ peer \in {"away", "pending", "connected", "closed", "reset"}

(* Through failed set-ups, repeated set-ups and closes, every open         *)
(* descriptor has one owner: the object that made it, standard input, or   *)
(* nobody any more.  So no close of one object closes a socket of another. *)
Accounted ==
  /\ \A fd \in InUse : fd \in Lost \/ \E h \in Holder : Holds(h) = fd
  /\ Lost \subseteq InUse
  /\ \A h \in Holder : Holds(h) # None =>
       /\ Holds(h) \in InUse \ Lost
       /\ \A other \in Holder : Holds(other) = Holds(h) => other = h

(* The plain transport loses a socket only if it has descriptor 0.         *)
PlainLosesOnlyZero == \A a \in abandoned : a.class = "plain" => a.fd = 0

(* The thread that runs the client waits 100 ms at most: what select has   *)
(* seen is still there for recvfrom.  A client that says it is connected   *)
(* has a socket to wait for, unless a connect failed while it was          *)
(* connected; only then can FD_SET get -1.                                 *)
RunnerNeverBlocks ==
  /\ runner \in {"select", "read"} =>
       client.fd \in Descriptor /\ table[client.fd].is = "receiver"
  /\ runner = "read" => table[client.fd].inbox > 0
  /\ (client.connected /\ client.fd = None) = client.overwritten
  /\ runner = "crashed" => client.overwritten

(* The bytes on a connection are those of the messages in their order,     *)
(* each from its first byte on and none twice, however the sends are       *)
(* split.  A message is there to its last byte exactly if send_data        *)
(* returned true for it: what the peer reads is whole messages up to the   *)
(* first false.  After a failure that passes, a later message follows the  *)
(* cut one, and only the result of send_data tells.                        *)
StreamWhole ==
  /\ arrived \o wire =
       FlattenSeq([i \in DOMAIN told |-> Bytes(told[i].message, 0, told[i].sent)])
         \o Bytes(task.message, 0, task.sent)
  /\ \A i \in DOMAIN told : told[i].ok <=> told[i].sent = told[i].length

(* A stop that comes after run has set its flag ends run, whatever         *)
(* arrives; one that comes before is lost.                                 *)
StopHeeded == client.stopped ~> runner \in {"idle", "crashed"}
=============================================================================
