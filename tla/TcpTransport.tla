---------------------------- MODULE TcpTransport ----------------------------
(***************************************************************************)
(* TCPTransport (src/tcp_transport.cpp), a server that accepts one         *)
(* connection from a peer in another process, sends it messages and reads  *)
(* what it writes.  The functions are static: the caller keeps the two     *)
(* descriptors and closes them with close_socket.                          *)
(***************************************************************************)
EXTENDS Descriptors, SequencesExt

CONSTANTS
  Length,       \* lengths of messages, in bytes
  Room          \* what the send buffer of the connection holds

ASSUME TcpAssumption == Length \subseteq Nat \ {0} /\ Room \in Nat \ {0}

VARIABLES
  listening,    \* the caller's server socket
  connection,   \* the caller's connection
  peer,         \* "away", "pending", "connected", "closed" or, seen, "reset"
  wire,         \* bytes in the send buffer
  arrived,      \* bytes that the peer has read
  task,         \* send_data: the message and total_sent
  told          \* history: the calls of send_data that have returned

tcp == <<listening, connection, peer, wire, arrived, task, told>>

NoTask == [message |-> None, length |-> 0, sent |-> 0]

TcpInit ==
  /\ listening = None /\ connection = None
  /\ peer = "away"
  /\ wire = << >> /\ arrived = << >>
  /\ task = NoTask
  /\ told = << >>

Bytes(message, from, to) ==
  [i \in 1..(to - from) |-> [message |-> message, at |-> from + i]]

KeepStream == UNCHANGED <<wire, arrived, task, told>>

CreateServerSocket(ok) ==
  /\ Called
  /\ listening = None
  /\ Make(ok, Listener)
  /\ listening' = Made(ok)
  /\ UNCHANGED <<abandoned, connection, peer>> /\ KeepStream

AcceptConnection ==
  /\ Called
  /\ listening # None /\ connection = None
  /\ peer = "pending"
  /\ Make(TRUE, Connection)
  /\ connection' = Made(TRUE)
  /\ peer' = "connected"
  /\ UNCHANGED <<abandoned, listening>> /\ KeepStream

CloseListener ==
  /\ Called
  /\ listening # None
  /\ CloseDescriptor(listening)
  /\ listening' = None
  /\ peer' = IF peer = "pending" THEN "reset" ELSE peer
  /\ UNCHANGED <<abandoned, connection>> /\ KeepStream

CloseConnection ==
  /\ Called
  /\ connection # None /\ task = NoTask
  /\ CloseDescriptor(connection)
  /\ connection' = None
  /\ UNCHANGED <<abandoned, listening, peer>> /\ KeepStream

-----------------------------------------------------------------------------
(* send_data *)

KeepSockets == UNCHANGED <<table, abandoned, listening, connection>>

BeginSendData(length) ==
  /\ Called
  /\ connection # None /\ task = NoTask
  /\ task' = [message |-> calls, length |-> length, sent |-> 0]
  /\ UNCHANGED <<peer, wire, arrived, told>> /\ KeepSockets

SendDataReturns(sent, ok) ==
  /\ told' = Append(told, [message |-> task.message, length |-> task.length,
                           sent |-> sent, ok |-> ok])
  /\ task' = NoTask

(* Mutant: every send starts from the first byte. *)
SendFromStart(n) ==
  /\ task # NoTask
  /\ peer \in {"connected", "closed"}
  /\ n <= task.length - task.sent /\ Len(wire) + n <= Room
  /\ wire' = wire \o Bytes(task.message, 0, n)
  /\ IF task.sent + n = task.length
     THEN SendDataReturns(task.sent + n, TRUE)
     ELSE task' = [task EXCEPT !.sent = @ + n] /\ UNCHANGED told
  /\ UNCHANGED <<calls, peer, arrived>> /\ KeepSockets

(* One send of the loop takes n bytes of the rest.  Without room it is     *)
(* repeated; after the peer has closed it may still succeed.               *)
SendSome(n) ==
  /\ task # NoTask
  /\ peer \in {"connected", "closed"}
  /\ n <= task.length - task.sent /\ Len(wire) + n <= Room
  /\ wire' = wire \o Bytes(task.message, task.sent, task.sent + n)
  /\ IF task.sent + n = task.length
     THEN SendDataReturns(task.sent + n, TRUE)
     ELSE task' = [task EXCEPT !.sent = @ + n] /\ UNCHANGED told
  /\ UNCHANGED <<calls, peer, arrived>> /\ KeepSockets

(* Any error but a full buffer ends the call: the peer that has closed     *)
(* resets the connection, or the system fails for a moment (EINTR,         *)
(* ENOBUFS, ENOMEM) and the connection goes on.                            *)
SendFails ==
  /\ task # NoTask
  /\ \/ peer \in {"closed", "reset"} /\ peer' = "reset"
     \/ UNCHANGED peer
  /\ SendDataReturns(task.sent, FALSE)
  /\ UNCHANGED <<calls, wire, arrived>> /\ KeepSockets

-----------------------------------------------------------------------------
(* The peer *)

PeerConnects ==
  /\ peer = "away" /\ listening # None
  /\ peer' = "pending"
  /\ UNCHANGED <<calls>> /\ KeepStream /\ KeepSockets

PeerReads ==
  /\ peer = "connected" /\ wire # << >>
  /\ arrived' = Append(arrived, Head(wire)) /\ wire' = Tail(wire)
  /\ UNCHANGED <<calls, peer, task, told>> /\ KeepSockets

PeerCloses ==
  /\ peer = "connected"
  /\ peer' = "closed"
  /\ UNCHANGED calls /\ KeepStream /\ KeepSockets

TcpCall ==
  \/ \E ok \in BOOLEAN : CreateServerSocket(ok)
  \/ AcceptConnection \/ CloseListener \/ CloseConnection
  \/ \E length \in Length : BeginSendData(length)

SendDataStep == (\E n \in 1..Room : SendSome(n)) \/ SendFails
PeerStep == PeerConnects \/ PeerReads \/ PeerCloses
=============================================================================
