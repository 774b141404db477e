-------------------------------- MODULE Client --------------------------------
(***************************************************************************)
(* The client process: main of utp_client/utp_client_main.cpp and the      *)
(* UTPClient it drives (utp_client/UTPClient.cpp).  It joins one multicast *)
(* group and handles one packet in each round of its loop until a signal   *)
(* clears g_running.                                                       *)
(*                                                                         *)
(* The network loses, repeats and reorders: net holds every packet that    *)
(* was sent to the group and the client may receive any of them, any       *)
(* number of times, or none.                                               *)
(***************************************************************************)
EXTENDS Wire, Sequences, FiniteSets

CONSTANTS
  FirstNumbers,   \* numbers from which the server's counter is watched
  Times,          \* sending times, as words
  Depths,         \* numbers of entries in a snapshot
  MaxPackets      \* bound: packets sent

ASSUME FirstNumbersAssumption == FirstNumbers \subseteq Nat \ {0}
(* The last word of a time later than June 1970 is above 50. *)
ASSUME TimesAssumption ==
  Times \subseteq [1..4 -> Word] /\ \A t \in Times : t[4] > 50
ASSUME DepthsAssumption == Depths \subseteq Nat /\ MaxPackets \in Nat

VARIABLES
  pc,              \* where main is
  g_running,       \* the flag the signal handler clears
  m_socket,        \* -1 or a descriptor
  m_is_connected,
  feed,            \* the kind of group that was joined
  next_number,     \* the server's counter for that group
  net,             \* packets sent to the group
  handled          \* history: the last packet and what became of it

vars == <<pc, g_running, m_socket, m_is_connected, feed, next_number, net, handled>>
server == <<feed, next_number, net>>

(* What the publisher sends to each kind of group. *)
Carries == [INCREMENTAL |-> {"HEARTBEAT", "QUOTE", "TRADE", "EOC"},
            DEFINITIONS |-> {"SECDEF"},
            SNAPSHOTS   |-> {"SNAPSHOT"}]

Nothing == [kind |-> "NONE"]

Init ==
  /\ pc = "connect"
  /\ g_running = TRUE
  /\ m_socket = -1 /\ m_is_connected = FALSE
  /\ feed \in DOMAIN Carries
  /\ next_number \in FirstNumbers
  /\ net = {}
  /\ handled = Nothing

-----------------------------------------------------------------------------
(* main *)

Connect ==
  /\ pc = "connect"
  /\ m_socket' = 3 /\ m_is_connected' = TRUE
  /\ pc' = "while"
  /\ UNCHANGED <<g_running, server, handled>>

(* No socket, or an option, the bind or the join fails: connect closes the *)
(* socket and main returns 1.                                              *)
ConnectFails ==
  /\ pc = "connect"
  /\ m_socket' = -1
  /\ pc' = "failed"
  /\ UNCHANGED <<g_running, m_is_connected, server, handled>>

(* Mutant: the flag keeps its value. *)
DisconnectKeepsFlag == m_socket' = -1 /\ UNCHANGED m_is_connected

(* disconnect, here from the destructor. *)
Disconnect == m_socket' = -1 /\ m_is_connected' = FALSE

(* Mutant: the loop watches the connection, as UTPClient::run does. *)
LoopTestConnected ==
  /\ pc = "while"
  /\ IF m_is_connected
     THEN pc' = "process" /\ UNCHANGED <<m_socket, m_is_connected>>
     ELSE pc' = "exit" /\ Disconnect
  /\ UNCHANGED <<g_running, server, handled>>

LoopTest ==
  /\ pc = "while"
  /\ IF g_running
     THEN pc' = "process" /\ UNCHANGED <<m_socket, m_is_connected>>
     ELSE pc' = "exit" /\ Disconnect
  /\ UNCHANGED <<g_running, server, handled>>

(* receive_data waits at most 100 ms. *)
ReceiveNothing ==
  /\ pc = "process"
  /\ pc' = "while"
  /\ UNCHANGED <<g_running, m_socket, m_is_connected, server, handled>>

(* process_single_message.  A read that runs beyond the buffer ends the    *)
(* process: it goes on through the stack until the end of the mapping.     *)
Receive(p) ==
  /\ pc = "process"
  /\ m_is_connected
  /\ handled' = [kind |-> p.kind, packet |-> p, result |-> Parse(p)]
  /\ pc' = IF handled'.result.parser = "OVERRUN" THEN "crashed" ELSE "while"
  /\ UNCHANGED <<g_running, m_socket, m_is_connected, server>>

-----------------------------------------------------------------------------
(* The environment *)

(* The server's next packet on the group; a global group also misses the   *)
(* numbers that went to the other global groups.                           *)
Transmit(packet) ==
  /\ packet.kind \in Carries[feed]
  /\ Cardinality(net) < MaxPackets
  /\ Fits(packet.seq)                   \* bound of Wire
  /\ next_number' = packet.seq + 1
  /\ net' = net \cup {packet}
  /\ UNCHANGED <<pc, g_running, m_socket, m_is_connected, feed, handled>>

Send(kind, time, entries, missed) ==
  /\ kind # "EOC"
  /\ Transmit(Packet(kind, next_number + missed, time, entries))

(* The marker's own header takes the number before that of its packet.     *)
SendEndOfConflation(made, time, missed) ==
  Transmit(Marker(next_number + missed + 1, made, time))

Signal ==
  /\ g_running
  /\ g_running' = FALSE
  /\ UNCHANGED <<pc, m_socket, m_is_connected, server, handled>>

Main ==
  \/ Connect
  \/ ConnectFails
  \/ LoopTest
  \/ ReceiveNothing
  \/ \E p \in net : Receive(p)

Next ==
  \/ Main
  \/ \E kind \in Kind, time \in Times, entries \in Depths, missed \in {0, 1} :
       Send(kind, time, entries, missed)
  \/ \E made, time \in Times, missed \in {0, 1} :
       SendEndOfConflation(made, time, missed)
  \/ Signal

Spec == Init /\ [][Next]_vars

(* The thread of main runs; nothing is asked of the server or the network. *)
FairSpec == Spec /\ WF_vars(Main)

-----------------------------------------------------------------------------
(* Correctness *)

Parser == {"HEARTBEAT", "SECDEF", "FULL", "INCREMENTAL", "RAW", "OVERRUN"}

(* Every variable stays in its type; what became of a packet is one of the *)
(* cases of parse_sbe_message or the raw decode.                           *)
TypeOK ==
  /\ pc \in {"connect", "while", "process", "exit", "failed", "crashed"}
  /\ g_running \in BOOLEAN /\ m_is_connected \in BOOLEAN
  /\ m_socket \in {-1, 3}
  /\ feed \in DOMAIN Carries /\ next_number \in Nat
  /\ \A p \in net : p.kind \in Kind
  /\ handled # Nothing => handled.packet \in net /\ handled.result.parser \in Parser

(* The numbers that read as an SBE header at the start of the packet: in   *)
(* every 65536 numbers, those whose remainder is 1 to 999, between 2^16    *)
(* and 51 * 2^16.                                                          *)
NumberReadsAsHeader(n) ==
  65536 <= n /\ n < 51 * 65536 /\ n % 65536 \in 1..999

TimeReadsAsHeader(t) == t[1] \in 1..999 /\ t[2] \in 1..50 /\ t[3] < 1000

Misread(p) == NumberReadsAsHeader(p.seq) \/ TimeReadsAsHeader(p.time)

(* The marker's own time reads as one, and nothing before it does: neither *)
(* the packet's header nor its length, with the number behind it for a     *)
(* schema.                                                                 *)
MarkerMisread(p) ==
  /\ p.kind = "EOC" /\ ~Misread(p)
  /\ (p.seq - 1) % 65536 >= 1000
  /\ TimeReadsAsHeader(p.made)

(* The search of parse_message finds the header of a definition, snapshot  *)
(* or quote where the encoder put it, except in a packet whose number or   *)
(* sending time reads as a header: a number only from 65536 on, a time     *)
(* whenever its low words happen to.                                       *)
HeaderFound ==
  handled # Nothing /\ handled.kind \in {"SECDEF", "SNAPSHOT", "QUOTE"} =>
    (handled.result.offset = 20 <=> ~Misread(handled.packet))

(* The raw decode runs beyond the packet for two messages only.  Each      *)
(* heartbeat does it whose number and time do not read as a header: the    *)
(* length in its packet header reads as a template.  And the end of        *)
(* conflation does when its own time reads as a header: that is eleven     *)
(* bytes before the end, three behind such a header.                       *)
OverrunExplained ==
  handled # Nothing =>
    LET p == handled.packet IN
    handled.result.parser = "OVERRUN" <=>
      \/ p.kind = "HEARTBEAT" /\ ~Misread(p)
      \/ MarkerMisread(p) /\ p.made[2] \notin {1, 12, 13, 14}

(* A parser is given a message only by accident: the templates that the    *)
(* dispatch knows are not those that the server sends.                     *)
ParsersGetMisreads ==
  handled # Nothing /\ handled.result.parser \notin {"RAW", "OVERRUN"} =>
    Misread(handled.packet) \/ MarkerMisread(handled.packet)

(* The socket lives exactly as long as the connection, and main leaves     *)
(* neither behind, however it ends.                                        *)
SocketReleased ==
  /\ m_is_connected <=> m_socket # -1
  /\ pc \in {"exit", "failed"} => m_socket = -1

(* A signal ends the client, whatever the network does, unless a packet    *)
(* ended it before.                                                        *)
SignalStops == ~g_running ~> pc \in {"exit", "failed", "crashed"}

(* README.md:59, of the client: "Receive and parse UTP SBE messages".      *)
RightParser == [HEARTBEAT |-> "HEARTBEAT", SECDEF |-> "SECDEF",
                SNAPSHOT |-> "FULL", QUOTE |-> "INCREMENTAL",
                TRADE |-> "INCREMENTAL"]

ServerMessagesParsed ==
  handled.kind \in DOMAIN RightParser =>
    handled.result.parser = RightParser[handled.kind]

(* README.md:27: "AdminHeartbeat (ID=10) - Keep-alive messages".  A client *)
(* survives the message that tells it the server is alive.                 *)
KeepAliveSurvived == handled.kind = "HEARTBEAT" => pc # "crashed"
=============================================================================
