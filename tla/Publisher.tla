------------------------------ MODULE Publisher ------------------------------
(***************************************************************************)
(* ReutersMulticastPublisher (src/reuters_multicast_publisher.cpp): it      *)
(* numbers every message on a channel and sends it on the feeds of that     *)
(* channel.  Channel 0 is global: the incremental pair A and B, the        *)
(* security definition feed and the snapshot feed share its numbers.        *)
(* A feed is a pair <<name, channel>>.                                      *)
(*                                                                         *)
(* stream is a history variable: the messages in the order in which their   *)
(* numbers were taken, one sequence per channel.                            *)
(***************************************************************************)
EXTENDS Integers, Sequences, FiniteSets

CONSTANTS
  Instrument,     \* instruments the publisher is asked to publish
  ChannelsA,      \* channel ids of channel_feeds_a, in configuration order
  ChannelsB,      \* channel ids of channel_feeds_b
  StrayChannels,  \* other ids a caller of enable_channel may name
  ChannelOf,      \* get_channel_for_instrument, 0 for an unmapped instrument
  Conflation,     \* conflation_interval_ms > 0
  SendMayFail,    \* whether a send on an open socket may return false
  MaxSeq          \* bound: numbers taken on any one channel before shutdown

IdsOf(channels) == {channels[i] : i \in DOMAIN channels}
Channel == IdsOf(ChannelsA) \cup IdsOf(ChannelsB) \cup StrayChannels

ASSUME ChannelAssumption ==
  /\ ChannelsA \in Seq(Nat \ {0}) /\ ChannelsB \in Seq(Nat \ {0})
  /\ StrayChannels \subseteq Nat \ {0}
ASSUME ChannelOfAssumption == ChannelOf \in [Instrument -> IdsOf(ChannelsA) \cup {0}]
ASSUME FlagAssumption == Conflation \in BOOLEAN /\ SendMayFail \in BOOLEAN
ASSUME MaxSeqAssumption == MaxSeq \in Nat

VARIABLES
  phase,             \* "new", "ready", "failed", "closed" or "destroyed"
  open,              \* the feeds whose transport exists and has a socket
  sequence_numbers,  \* sequence_numbers_, 0 where the map has no entry
  channel_enabled,   \* channel_enabled_, FALSE where the map has no entry
  pub_stats,         \* stats_
  sent,              \* the packets each feed was handed to the network
  stream             \* history: the numbered messages of each channel

pubvars == <<phase, open, sequence_numbers, channel_enabled, pub_stats, sent,
             stream>>

-----------------------------------------------------------------------------
(* Feeds and messages *)

IncA == <<"INC_A", 0>>
IncB == <<"INC_B", 0>>
SecDef == <<"SECDEF", 0>>
Snap == <<"SNAP", 0>>
ChanA(c) == <<"CHAN_A", c>>
ChanB(c) == <<"CHAN_B", c>>

Feed == {IncA, IncB, SecDef, Snap} \cup {ChanA(c) : c \in Channel}
                                   \cup {ChanB(c) : c \in Channel}
ChannelNumber == {0} \cup Channel

ChannelOfFeed(f) == f[2]

(* The order in which initialize creates the transports. *)
FeedOrder == <<IncA, IncB, SecDef, Snap>>
               \o [i \in DOMAIN ChannelsA |-> ChanA(ChannelsA[i])]
               \o [i \in DOMAIN ChannelsB |-> ChanB(ChannelsB[i])]

(* "EOC_HEADER" stands for the number that send_end_of_conflation takes    *)
(* for the header it builds itself, before the packet gets one of its own. *)
InstrumentKind == {"QUOTE", "TRADE", "SNAPSHOT", "SECDEF"}
Message == [kind : InstrumentKind, instrument : Instrument]
             \cup [kind : {"HEARTBEAT", "EOC_HEADER", "EOC"}]
Packet == [seq : Nat, msg : Message]

NoStatsYet == [messages_sent_a |-> 0, messages_sent_b |-> 0,
               snapshots_sent |-> 0, definitions_sent |-> 0,
               heartbeats_sent |-> 0]

PubInit ==
  /\ phase = "new"
  /\ open = {}
  /\ sequence_numbers = [c \in ChannelNumber |-> 0]
  /\ channel_enabled = [c \in Channel |-> FALSE]
  /\ pub_stats = NoStatsYet
  /\ sent = [f \in Feed |-> << >>]
  /\ stream = [c \in ChannelNumber |-> << >>]

-----------------------------------------------------------------------------
(* initialize and shutdown *)

(* The sockets are created one by one; n of them succeed.  A channel of    *)
(* channel_feeds_a is enabled as soon as its A socket exists.              *)
Initialize(n) ==
  /\ phase = "new"
  /\ open' = {FeedOrder[i] : i \in 1..n}
  /\ channel_enabled' = [c \in Channel |-> ChanA(c) \in open']
  /\ phase' = IF n = Len(FeedOrder) THEN "ready" ELSE "failed"
  /\ UNCHANGED <<sequence_numbers, pub_stats, sent, stream>>

(* Which of the sends on these feeds reach the network. *)
Outcome(feeds) == IF SendMayFail THEN SUBSET (feeds \cap open)
                                 ELSE {feeds \cap open}

(* Mutant: the number is read before it is incremented. *)
SendPostIncrement(channels, feeds, msg) ==
  /\ \A c \in channels : sequence_numbers[c] < MaxSeq
  /\ sequence_numbers' = [c \in ChannelNumber |->
       IF c \in channels THEN sequence_numbers[c] + 1 ELSE sequence_numbers[c]]
  /\ stream' = [c \in ChannelNumber |->
       IF c \in channels THEN Append(stream[c], msg) ELSE stream[c]]
  /\ \E out \in Outcome(feeds) :
       sent' = [f \in Feed |->
         IF f \in out
         THEN Append(sent[f], [seq |-> sequence_numbers[ChannelOfFeed(f)],
                               msg |-> msg])
         ELSE sent[f]]

(* send_to_both_feeds, send_to_channel_feeds and the single-feed sends:    *)
(* each of the channels takes its next number for msg, and the packet goes *)
(* to those of the feeds that are on the channel.  The result of a send is *)
(* ignored.                                                                *)
Send(channels, feeds, msg) ==
  /\ \A c \in channels : sequence_numbers[c] < MaxSeq
  /\ sequence_numbers' = [c \in ChannelNumber |->
       IF c \in channels THEN sequence_numbers[c] + 1 ELSE sequence_numbers[c]]
  /\ stream' = [c \in ChannelNumber |->
       IF c \in channels THEN Append(stream[c], msg) ELSE stream[c]]
  /\ \E out \in Outcome(feeds) :
       sent' = [f \in Feed |->
         IF f \in out
         THEN Append(sent[f], [seq |-> sequence_numbers'[ChannelOfFeed(f)],
                               msg |-> msg])
         ELSE sent[f]]

Count(counters) ==
  pub_stats' = [s \in DOMAIN pub_stats |->
                  IF s \in counters THEN pub_stats[s] + 1 ELSE pub_stats[s]]

(* send_end_of_conflation takes two numbers of channel 0. *)
SendEndOfConflation ==
  IF Conflation
  THEN /\ sequence_numbers' = [sequence_numbers EXCEPT ![0] = @ + 2]
       /\ stream' = [stream EXCEPT ![0] =
            Append(Append(@, [kind |-> "EOC_HEADER"]), [kind |-> "EOC"])]
       /\ \E out \in Outcome({IncA, IncB}) :
            sent' = [f \in Feed |->
              IF f \in out
              THEN Append(sent[f], [seq |-> sequence_numbers[0] + 2,
                                    msg |-> [kind |-> "EOC"]])
              ELSE sent[f]]
  ELSE UNCHANGED <<sequence_numbers, stream, sent>>

(* Mutant: the transports are not reset. *)
ShutdownKeepsSockets ==
  /\ \/ phase \in {"ready", "failed"} /\ phase' = "closed"
     \/ phase = "closed" /\ phase' = "destroyed"
  /\ SendEndOfConflation
  /\ UNCHANGED <<open, channel_enabled, pub_stats>>

(* shutdown, called by the adapter after a successful or failed start and  *)
(* again by the destructor, when every transport is gone.  Its markers are *)
(* not under the bound, so that it can run whatever was sent before.       *)
Shutdown ==
  /\ \/ phase \in {"ready", "failed"} /\ phase' = "closed"
     \/ phase = "closed" /\ phase' = "destroyed"
  /\ SendEndOfConflation
  /\ open' = {}
  /\ UNCHANGED <<channel_enabled, pub_stats>>

-----------------------------------------------------------------------------
(* Publishing; the adapter calls these only between the two *)

Keep == UNCHANGED <<phase, open, channel_enabled>>

(* Mutant: a channel's update takes a number of the global channel too. *)
PublishIncrementalTwoNumbers(kind, i) ==
  LET c == ChannelOf[i]
      msg == [kind |-> kind, instrument |-> i]
  IN  /\ phase = "ready"
      /\ IF c > 0 /\ channel_enabled[c]
         THEN Send({0, c}, {ChanA(c), ChanB(c)}, msg)
         ELSE Send({0}, {IncA, IncB}, msg)
      /\ Count({"messages_sent_a", "messages_sent_b"})
      /\ Keep

(* Mutant: only the A side is counted for a channel feed. *)
PublishIncrementalCountsGlobal(kind, i) ==
  LET c == ChannelOf[i]
      msg == [kind |-> kind, instrument |-> i]
  IN  /\ phase = "ready"
      /\ IF c > 0 /\ channel_enabled[c]
         THEN /\ Send({c}, {ChanA(c), ChanB(c)}, msg)
              /\ Count({"messages_sent_a"})
         ELSE /\ Send({0}, {IncA, IncB}, msg)
              /\ Count({"messages_sent_a", "messages_sent_b"})
      /\ Keep

(* Both overloads of publish_incremental. *)
PublishIncremental(kind, i) ==
  LET c == ChannelOf[i]
      msg == [kind |-> kind, instrument |-> i]
  IN  /\ phase = "ready"
      /\ IF c > 0 /\ channel_enabled[c]
         THEN Send({c}, {ChanA(c), ChanB(c)}, msg)
         ELSE Send({0}, {IncA, IncB}, msg)
      /\ Count({"messages_sent_a", "messages_sent_b"})
      /\ Keep

PublishSnapshot(i) ==
  /\ phase = "ready"
  /\ Send({0}, {Snap}, [kind |-> "SNAPSHOT", instrument |-> i])
  /\ Count({"snapshots_sent"})
  /\ Keep

PublishSecurityDefinition(i) ==
  /\ phase = "ready"
  /\ Send({0}, {SecDef}, [kind |-> "SECDEF", instrument |-> i])
  /\ Count({"definitions_sent"})
  /\ Keep

EnabledChannels == {c \in Channel : channel_enabled[c]}

(* Mutant: the channels' B feeds get no heartbeat. *)
SendHeartbeatOnA ==
  /\ phase = "ready"
  /\ Send({0} \cup EnabledChannels,
          {IncA, IncB} \cup {ChanA(c) : c \in EnabledChannels},
          [kind |-> "HEARTBEAT"])
  /\ Count({"heartbeats_sent"})
  /\ Keep

SendHeartbeat ==
  /\ phase = "ready"
  /\ Send({0} \cup EnabledChannels,
          {IncA, IncB} \cup {ChanA(c) : c \in EnabledChannels}
                       \cup {ChanB(c) : c \in EnabledChannels},
          [kind |-> "HEARTBEAT"])
  /\ Count({"heartbeats_sent"})
  /\ Keep

(* A caller may mark the end of a conflation interval while it publishes. *)
EndOfConflation ==
  /\ phase = "ready"
  /\ Conflation => sequence_numbers[0] + 1 < MaxSeq
  /\ SendEndOfConflation
  /\ UNCHANGED pub_stats
  /\ Keep

EnableChannel(c, enabled) ==
  /\ phase = "ready"
  /\ channel_enabled' = [channel_enabled EXCEPT ![c] = enabled]
  /\ UNCHANGED <<phase, open, sequence_numbers, pub_stats, sent, stream>>

PubNext ==
  \/ \E n \in 0..Len(FeedOrder) : Initialize(n)
  \/ \E kind \in {"QUOTE", "TRADE"}, i \in Instrument : PublishIncremental(kind, i)
  \/ \E i \in Instrument : PublishSnapshot(i)
  \/ \E i \in Instrument : PublishSecurityDefinition(i)
  \/ SendHeartbeat
  \/ EndOfConflation
  \/ \E c \in Channel, enabled \in BOOLEAN : EnableChannel(c, enabled)
  \/ Shutdown

PubSpec == PubInit /\ [][PubNext]_pubvars

-----------------------------------------------------------------------------
(* Correctness *)

(* Every variable of the publisher stays in its type. *)
PubTypeOK ==
  /\ phase \in {"new", "ready", "failed", "closed", "destroyed"}
  /\ open \subseteq Feed
  /\ sequence_numbers \in [ChannelNumber -> Nat]
  /\ channel_enabled \in [Channel -> BOOLEAN]
  /\ pub_stats \in [DOMAIN NoStatsYet -> Nat]
  /\ sent \in [Feed -> Seq(Packet)]
  /\ stream \in [ChannelNumber -> Seq(Message)]

(* What a receiver may rely on when it joins the A and the B feed or       *)
(* orders the global feeds by number: on every feed the numbers strictly   *)
(* increase, and a number names one message, the same on every feed of the *)
(* channel (send_to_both_feeds sends one packet twice).                    *)
FeedFaithful ==
  \A f \in Feed :
    /\ \A i \in 1..Len(sent[f]) :
         /\ sent[f][i].seq \in 1..Len(stream[ChannelOfFeed(f)])
         /\ sent[f][i].msg = stream[ChannelOfFeed(f)][sent[f][i].seq]
    /\ \A i, j \in 1..Len(sent[f]) : i < j => sent[f][i].seq < sent[f][j].seq

Carries(f, n) == \E i \in 1..Len(sent[f]) : sent[f][i].seq = n

(* The feeds that were set up for channel c. *)
FeedsOf(c) == {f \in Feed : ChannelOfFeed(f) = c}

(* While the publisher runs and no send fails, a number missing on every   *)
(* feed of a configured channel is one that send_end_of_conflation took    *)
(* for its inner header: a gap seen on all the feeds of a channel together *)
(* means loss in the network, and the numbers missing on one global feed   *)
(* are on another (the shared counter of channel 0).                       *)
NoUnexplainedGap ==
  ~SendMayFail /\ phase = "ready" =>
    \A c \in {0} \cup IdsOf(ChannelsA) : \A n \in 1..Len(stream[c]) :
      \/ stream[c][n].kind = "EOC_HEADER"
      \/ \E f \in FeedsOf(c) : Carries(f, n)

(* A and B carry the same packets as long as no send fails, through        *)
(* disabling and enabling channels.                                        *)
MirrorFeeds ==
  ~SendMayFail /\ phase = "ready" =>
    /\ sent[IncA] = sent[IncB]
    /\ \A c \in IdsOf(ChannelsA) \cap IdsOf(ChannelsB) :
         sent[ChanA(c)] = sent[ChanB(c)]

(* Total number of packets of these kinds on these feeds. *)
PacketsOf(feeds, kinds) ==
  Cardinality({x \in feeds \X (1..MaxSeq) :
                 /\ x[2] <= Len(sent[x[1]])
                 /\ sent[x[1]][x[2]].msg.kind \in kinds})

(* The statistics count what was sent: updates on the A and B sides,       *)
(* whichever channel they were routed to, snapshots and definitions.       *)
StatsAccount ==
  ~SendMayFail =>
    /\ pub_stats.messages_sent_a =
         PacketsOf({f \in Feed : f[1] \in {"INC_A", "CHAN_A"}}, {"QUOTE", "TRADE"})
    /\ IdsOf(ChannelsA) \subseteq IdsOf(ChannelsB) =>
         pub_stats.messages_sent_b =
           PacketsOf({f \in Feed : f[1] \in {"INC_B", "CHAN_B"}}, {"QUOTE", "TRADE"})
    /\ pub_stats.snapshots_sent = PacketsOf({Snap}, {"SNAPSHOT"})
    /\ pub_stats.definitions_sent = PacketsOf({SecDef}, {"SECDEF"})
    /\ pub_stats.heartbeats_sent = PacketsOf({IncA}, {"HEARTBEAT"})

(* Once shut down the publisher hands nothing more to the network, however *)
(* often shutdown runs, and no feed of a failed start ever carries data    *)
(* other than the end-of-conflation marker of its shutdown.                *)
ClosedIsSilent ==
  [][/\ phase \in {"closed", "destroyed"} => sent' = sent /\ open' = {}
     /\ phase = "failed" =>
          \A f \in Feed : sent'[f] # sent[f] =>
            sent'[f][Len(sent'[f])].msg.kind = "EOC"]_pubvars

(* The comment of shutdown: "Send end-of-stream messages".  A publisher    *)
(* that was running ends its incremental feeds with such a message.        *)
EndOfStreamSent ==
  phase \in {"closed", "destroyed"} /\ ~SendMayFail /\ sent[IncA] # << >> =>
    sent[IncA][Len(sent[IncA])].msg.kind = "EOC"
=============================================================================
