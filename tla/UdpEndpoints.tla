---------------------------- MODULE UdpEndpoints ----------------------------
(***************************************************************************)
(* The users of UDP sockets: the publisher's UDPTransport                  *)
(* (src/udp_multicast_transport.cpp), the plain UDPTransport               *)
(* (src/udp_transport.cpp) and UTPClient (utp_client/UTPClient.cpp) with   *)
(* the thread that runs it.  A call that would only return an error is     *)
(* left out.                                                               *)
(*                                                                         *)
(* m_socket is not protected, so its users connect and disconnect only     *)
(* while no thread is in run or process_single_message; stop comes at any  *)
(* time.                                                                   *)
(***************************************************************************)
EXTENDS Descriptors

CONSTANT Transport    \* objects of the publisher's class

VARIABLES
  transport,   \* socket_fd_, is_sender_ and multicast_ip_ of each
  plain,       \* socket_fd_ of the plain transport
  client,      \* m_socket, m_multicast_group, m_is_connected and
               \* m_is_running; history: stopped (a stop while run is in
               \* its loop) and overwritten (a connect failed while connected)
  runner,      \* where run or process_single_message is
  once         \* it is process_single_message

udp == <<transport, plain, client, runner, once>>

UdpInit ==
  /\ transport = [t \in Transport |->
       [fd |-> None, sender |-> FALSE, group |-> None]]
  /\ plain = None
  /\ \E g \in Group :
       client = [fd |-> None, group |-> g, connected |-> FALSE, running |-> FALSE,
                 stopped |-> FALSE, overwritten |-> FALSE]
  /\ runner = "idle" /\ once = FALSE

-----------------------------------------------------------------------------
(* UDPTransport of udp_multicast_transport.cpp *)

KeepClient == UNCHANGED <<client, runner, once>>

(* create_multicast_sender and create_multicast_receiver; neither looks at *)
(* the socket that the object may have.                                    *)
Create(t, sender, g, ok) ==
  /\ Called
  /\ Abandon(transport[t].fd, "multicast")
  /\ Make(ok, IF sender THEN Sender ELSE Receiver(g))
  /\ transport' = [transport EXCEPT ![t] =
       [fd |-> Made(ok), sender |-> sender, group |-> g]]
  /\ UNCHANGED plain /\ KeepClient

Send(t) ==
  /\ Called
  /\ transport[t].fd # None /\ transport[t].sender
  /\ Deliver(transport[t].group)
  /\ UNCHANGED <<abandoned, udp>>

Receive(t) ==
  /\ Called
  /\ transport[t].fd # None /\ ~transport[t].sender
  /\ table[transport[t].fd].inbox > 0
  /\ TakeDatagram(transport[t].fd)
  /\ UNCHANGED <<abandoned, transport, plain>> /\ KeepClient

(* Mutant: the object still names the socket it closed. *)
CloseKeepsDescriptor(t) ==
  /\ Called
  /\ transport[t].fd # None
  /\ CloseDescriptor(transport[t].fd)
  /\ UNCHANGED <<abandoned, transport, plain>> /\ KeepClient

(* close, also by the destructor. *)
Close(t) ==
  /\ Called
  /\ transport[t].fd # None
  /\ CloseDescriptor(transport[t].fd)
  /\ transport' = [transport EXCEPT ![t].fd = None]
  /\ UNCHANGED <<abandoned, plain>> /\ KeepClient

-----------------------------------------------------------------------------
(* UDPTransport of udp_transport.cpp: it compares its descriptor with zero *)
(* in two ways.                                                            *)

KeepTransports == UNCHANGED transport /\ KeepClient

Initialize(ok) ==
  /\ Called
  /\ ~(plain > 0)
  /\ Abandon(plain, "plain")
  /\ Make(ok, Sender)
  /\ plain' = Made(ok)
  /\ KeepTransports

(* send_message opens the socket when there is none, after close as well.  *)
(* Loopback is off: nobody on the host hears it.                           *)
SendMessage(ok) ==
  /\ Called
  /\ plain < 0
  /\ Make(ok, Sender)
  /\ plain' = Made(ok)
  /\ UNCHANGED abandoned /\ KeepTransports

(* Mutant: every descriptor below 2 is taken for none. *)
ClosePlainAboveOne ==
  /\ Called
  /\ plain # None
  /\ IF plain > 1
     THEN CloseDescriptor(plain) /\ plain' = None /\ UNCHANGED abandoned
     ELSE plain' = None /\ Abandon(plain, "plain") /\ UNCHANGED table
  /\ KeepTransports

(* close, and the destructor after it: 0 is not closed. *)
DestroyPlain ==
  /\ Called
  /\ plain # None
  /\ IF plain > 0
     THEN CloseDescriptor(plain) /\ plain' = None /\ UNCHANGED abandoned
     ELSE plain' = None /\ Abandon(plain, "plain") /\ UNCHANGED table
  /\ KeepTransports

-----------------------------------------------------------------------------
(* UTPClient *)

KeepOthers == UNCHANGED <<transport, plain>>

Connect(ok) ==
  /\ Called
  /\ runner = "idle"
  /\ Abandon(client.fd, "client")
  /\ Make(ok, Receiver(client.group))
  /\ client' = [client EXCEPT
       !.fd = Made(ok),
       !.connected = @ \/ ok,
       !.overwritten = ~ok /\ (@ \/ client.connected)]
  /\ UNCHANGED <<runner, once>> /\ KeepOthers

(* Mutant: the flag is left as it is. *)
DisconnectKeepsFlag ==
  /\ Called
  /\ runner = "idle"
  /\ IF client.fd # None THEN CloseDescriptor(client.fd) ELSE UNCHANGED table
  /\ client' = [client EXCEPT !.fd = None, !.overwritten = FALSE]
  /\ UNCHANGED <<abandoned, runner, once>> /\ KeepOthers

Disconnect ==
  /\ Called
  /\ runner = "idle"
  /\ IF client.fd # None THEN CloseDescriptor(client.fd) ELSE UNCHANGED table
  /\ client' = [client EXCEPT !.fd = None, !.connected = FALSE, !.overwritten = FALSE]
  /\ UNCHANGED <<abandoned, runner, once>> /\ KeepOthers

(* A thread calls run, or process_single_message. *)
Enter(single) ==
  /\ Called
  /\ runner = "idle"
  /\ once' = single
  /\ runner' = IF single THEN "check" ELSE "entered"
  /\ client' = [client EXCEPT !.stopped = FALSE]
  /\ UNCHANGED <<table, abandoned>> /\ KeepOthers

InLoop == ~once /\ runner \in {"test", "check", "select", "read"}

Stop ==
  /\ Called
  /\ client' = [client EXCEPT !.running = FALSE, !.stopped = @ \/ InLoop]
  /\ UNCHANGED <<table, abandoned, runner, once>> /\ KeepOthers

Elsewhere == UNCHANGED <<abandoned, calls, once>> /\ KeepOthers

SetRunning ==
  /\ runner = "entered" /\ runner' = "test"
  /\ client' = [client EXCEPT !.running = TRUE]
  /\ UNCHANGED table /\ Elsewhere

(* Mutant: the loop ends only with the connection. *)
LoopTestConnected ==
  /\ runner = "test"
  /\ runner' = IF client.connected THEN "check" ELSE "idle"
  /\ UNCHANGED <<table, client>> /\ Elsewhere

LoopTest ==
  /\ runner = "test"
  /\ runner' = IF client.running /\ client.connected THEN "check" ELSE "idle"
  /\ UNCHANGED <<table, client>> /\ Elsewhere

Return == runner' = IF once THEN "idle" ELSE "test"

(* receive_data up to select.  FD_SET of -1 is undefined: it kills the     *)
(* process or sets a bit that select does not look at.                     *)
Check ==
  /\ runner = "check"
  /\ IF client.connected /\ client.fd # None
     THEN runner' = "select"
     ELSE \/ Return
          \/ client.connected /\ runner' = "crashed"
  /\ UNCHANGED <<table, client>> /\ Elsewhere

(* 100 ms pass, or there is something to read. *)
Select ==
  /\ runner = "select"
  /\ IF table[client.fd].inbox = 0 THEN Return ELSE runner' = "read"
  /\ UNCHANGED <<table, client>> /\ Elsewhere

(* recvfrom blocks when there is nothing. *)
ReadDatagram ==
  /\ runner = "read"
  /\ table[client.fd].inbox > 0
  /\ TakeDatagram(client.fd)
  /\ Return
  /\ UNCHANGED client /\ Elsewhere

RunnerStep == SetRunning \/ LoopTest \/ Check \/ Select \/ ReadDatagram

UdpCall ==
  /\ runner # "crashed"
  /\ \/ \E t \in Transport, g \in Group, sender, ok \in BOOLEAN : Create(t, sender, g, ok)
     \/ \E t \in Transport : Send(t) \/ Receive(t) \/ Close(t)
     \/ \E ok \in BOOLEAN : Initialize(ok) \/ SendMessage(ok)
     \/ DestroyPlain
     \/ \E ok \in BOOLEAN : Connect(ok)
     \/ Disconnect
     \/ \E single \in BOOLEAN : Enter(single)
     \/ Stop
=============================================================================
