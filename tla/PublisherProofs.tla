--------------------------- MODULE PublisherProofs ---------------------------
(***************************************************************************)
(* Theorems about Publisher, for every set of channels and instruments,    *)
(* every mapping of instruments to channels, with or without conflation    *)
(* and failing sends: the type invariant, that every feed is faithful to   *)
(* the stream of its channel, and that a closed publisher is silent.  For  *)
(* sends that do not fail: gaps, mirrors and statistics.                   *)
(***************************************************************************)
EXTENDS Publisher, SequenceTheorems, FiniteSetTheorems, TLAPS

-----------------------------------------------------------------------------
(* Logs and streams *)

(* One feed's packets against the messages of its channel. *)
FaithfulLog(log, str) ==
  /\ \A i \in 1..Len(log) : /\ log[i].seq \in 1..Len(str)
                            /\ log[i].msg = str[log[i].seq]
  /\ \A i, j \in 1..Len(log) : i < j => log[i].seq < log[j].seq

LEMMA FaithfulByFeed ==
  FeedFaithful <=> \A f \in Feed : FaithfulLog(sent[f], stream[ChannelOfFeed(f)])
BY DEF FeedFaithful, FaithfulLog

(* A log stays faithful when its channel numbers one more message. *)
LEMMA FaithfulExtend ==
  ASSUME NEW log \in Seq(Packet), NEW str \in Seq(Message), NEW m \in Message,
         FaithfulLog(log, str)
  PROVE  FaithfulLog(log, Append(str, m))
<1>1. Len(Append(str, m)) = Len(str) + 1 /\ Len(str) \in Nat
  OBVIOUS
<1>2. \A n \in 1..Len(str) : Append(str, m)[n] = str[n]
  OBVIOUS
<1> QED BY <1>1, <1>2 DEF FaithfulLog

(* ... and when it carries that message under the new number. *)
LEMMA FaithfulAppend ==
  ASSUME NEW log \in Seq(Packet), NEW str \in Seq(Message), NEW m \in Message,
         FaithfulLog(log, str)
  PROVE  FaithfulLog(Append(log, [seq |-> Len(str) + 1, msg |-> m]),
                     Append(str, m))
<1> DEFINE p == [seq |-> Len(str) + 1, msg |-> m]
           new == Append(log, p)
           longer == Append(str, m)
<1>1. Len(str) \in Nat /\ Len(longer) = Len(str) + 1
      /\ longer[Len(str) + 1] = m
  OBVIOUS
<1>2. /\ Len(log) \in Nat /\ Len(new) = Len(log) + 1
      /\ new[Len(log) + 1] = p
      /\ \A i \in 1..Len(log) : new[i] = log[i]
  BY <1>1 DEF Packet
<1>3. FaithfulLog(log, longer) BY FaithfulExtend
<1>4. p.seq = Len(str) + 1 /\ p.msg = m OBVIOUS
<1>5. \A i \in 1..Len(log) : log[i].seq \in 1..Len(str)
  BY DEF FaithfulLog
<1> HIDE DEF p, new, longer
<1>6. ASSUME NEW i \in 1..Len(new)
      PROVE  new[i].seq \in 1..Len(longer) /\ new[i].msg = longer[new[i].seq]
  <2>1. CASE i \in 1..Len(log) BY <1>2, <1>3, <2>1 DEF FaithfulLog
  <2>2. CASE i = Len(log) + 1 BY <1>1, <1>2, <1>4, <2>2
  <2> QED BY <1>2, <2>1, <2>2
<1>7. ASSUME NEW i \in 1..Len(new), NEW j \in 1..Len(new), i < j
      PROVE  new[i].seq < new[j].seq
  <2>1. i \in 1..Len(log) BY <1>2, <1>7
  <2>2. CASE j \in 1..Len(log)
    BY <1>2, <1>3, <1>7, <2>1, <2>2 DEF FaithfulLog
  <2>3. CASE j = Len(log) + 1
    BY <1>1, <1>2, <1>4, <1>5, <2>1, <2>3
  <2> QED BY <1>2, <2>2, <2>3
<1>8. FaithfulLog(new, longer) BY <1>6, <1>7 DEF FaithfulLog
<1> QED BY <1>8 DEF new, longer, p

-----------------------------------------------------------------------------
(* Feeds *)

LEMMA FeedChannel == \A f \in Feed : ChannelOfFeed(f) \in ChannelNumber
BY DEF Feed, ChannelOfFeed, ChannelNumber, IncA, IncB, SecDef, Snap, ChanA, ChanB

LEMMA GlobalFeeds ==
  /\ {IncA, IncB, SecDef, Snap} \subseteq Feed
  /\ \A f \in {IncA, IncB, SecDef, Snap} : ChannelOfFeed(f) = 0
BY DEF Feed, ChannelOfFeed, IncA, IncB, SecDef, Snap

LEMMA ChannelFeeds ==
  ASSUME NEW c \in Channel
  PROVE  /\ ChanA(c) \in Feed /\ ChanB(c) \in Feed
         /\ ChannelOfFeed(ChanA(c)) = c /\ ChannelOfFeed(ChanB(c)) = c
BY DEF Feed, ChannelOfFeed, ChanA, ChanB

LEMMA ChannelPositive == Channel \subseteq Nat \ {0}
<1>1. \A s \in Seq(Nat \ {0}) : IdsOf(s) \subseteq Nat \ {0}
  BY DEF IdsOf
<1> QED BY <1>1, ChannelAssumption DEF Channel

(* Every transport initialize creates is that of a feed. *)
LEMMA FeedOrderType ==
  /\ Len(FeedOrder) \in Nat
  /\ \A i \in 1..Len(FeedOrder) : FeedOrder[i] \in Feed
<1> DEFINE as == [i \in DOMAIN ChannelsA |-> ChanA(ChannelsA[i])]
           bs == [i \in DOMAIN ChannelsB |-> ChanB(ChannelsB[i])]
<1>1. as \in Seq(Feed)
  <2>1. \A i \in DOMAIN ChannelsA : ChanA(ChannelsA[i]) \in Feed
    BY ChannelFeeds DEF Channel, IdsOf
  <2>2. DOMAIN ChannelsA = 1..Len(ChannelsA) /\ Len(ChannelsA) \in Nat
    BY ChannelAssumption
  <2> QED BY <2>1, <2>2
<1>2. bs \in Seq(Feed)
  <2>1. \A i \in DOMAIN ChannelsB : ChanB(ChannelsB[i]) \in Feed
    BY ChannelFeeds DEF Channel, IdsOf
  <2>2. DOMAIN ChannelsB = 1..Len(ChannelsB) /\ Len(ChannelsB) \in Nat
    BY ChannelAssumption
  <2> QED BY <2>1, <2>2
<1> DEFINE base == <<IncA, IncB, SecDef, Snap>>
<1>3. base \in Seq(Feed)
  BY GlobalFeeds
<1>4. FeedOrder = (base \o as) \o bs
  BY DEF FeedOrder
<1> HIDE DEF base, as, bs
<1>5. base \o as \in Seq(Feed)
  BY <1>1, <1>3, ConcatProperties
<1>6. FeedOrder \in Seq(Feed)
  BY <1>2, <1>4, <1>5, ConcatProperties
<1> QED BY <1>6

-----------------------------------------------------------------------------
(* The inductive invariant *)

(* FeedFaithful needs to know that the next number of a channel is the one *)
(* after the last message of its stream.                                   *)
NumbersMatch == \A c \in ChannelNumber : sequence_numbers[c] = Len(stream[c])

PubInv == PubTypeOK /\ NumbersMatch /\ FeedFaithful

LEMMA OutcomeType ==
  ASSUME PubTypeOK, NEW feeds, NEW out \in Outcome(feeds)
  PROVE  out \subseteq feeds /\ out \subseteq Feed
BY DEF PubTypeOK, Outcome

(* Numbering a message on some channels and sending it on feeds of those   *)
(* channels preserves the types and the invariant.                         *)
LEMMA SendPreserves ==
  ASSUME PubInv, NEW channels \in SUBSET ChannelNumber,
         NEW feeds \in SUBSET Feed, NEW msg \in Message,
         \A f \in feeds : ChannelOfFeed(f) \in channels,
         Send(channels, feeds, msg)
  PROVE  /\ sequence_numbers' \in [ChannelNumber -> Nat]
         /\ stream' \in [ChannelNumber -> Seq(Message)]
         /\ sent' \in [Feed -> Seq(Packet)]
         /\ NumbersMatch'
         /\ FeedFaithful'
<1> USE DEF PubInv, PubTypeOK
<1>1. /\ sequence_numbers' \in [ChannelNumber -> Nat]
      /\ \A c \in ChannelNumber : sequence_numbers'[c] =
           IF c \in channels THEN sequence_numbers[c] + 1 ELSE sequence_numbers[c]
  BY DEF Send
<1>2. /\ stream' \in [ChannelNumber -> Seq(Message)]
      /\ \A c \in ChannelNumber : stream'[c] =
           IF c \in channels THEN Append(stream[c], msg) ELSE stream[c]
  BY DEF Send
<1>3. PICK out \in Outcome(feeds) :
        sent' = [f \in Feed |->
          IF f \in out
          THEN Append(sent[f], [seq |-> sequence_numbers'[ChannelOfFeed(f)],
                                msg |-> msg])
          ELSE sent[f]]
  BY DEF Send
<1>4. out \subseteq feeds BY OutcomeType
<1>5. sent' \in [Feed -> Seq(Packet)]
  <2>1. \A f \in Feed : [seq |-> sequence_numbers'[ChannelOfFeed(f)],
                         msg |-> msg] \in Packet
    BY <1>1, FeedChannel DEF Packet
  <2>2. \A f \in Feed :
          (IF f \in out
           THEN Append(sent[f], [seq |-> sequence_numbers'[ChannelOfFeed(f)],
                                 msg |-> msg])
           ELSE sent[f]) \in Seq(Packet)
    BY <2>1
  <2> QED BY <1>3, <2>2
<1>6. NumbersMatch'
  <2> SUFFICES ASSUME NEW c \in ChannelNumber
               PROVE  sequence_numbers'[c] = Len(stream'[c])
    BY DEF NumbersMatch
  <2>1. sequence_numbers[c] = Len(stream[c]) BY DEF NumbersMatch
  <2>2. stream[c] \in Seq(Message) OBVIOUS
  <2>3. Len(Append(stream[c], msg)) = Len(stream[c]) + 1 BY <2>2
  <2> QED BY <1>1, <1>2, <2>1, <2>3
<1>7. FeedFaithful'
  <2> SUFFICES ASSUME NEW f \in Feed
               PROVE  FaithfulLog(sent'[f], stream'[ChannelOfFeed(f)])
    BY DEF FeedFaithful, FaithfulLog
  <2> DEFINE c == ChannelOfFeed(f)
  <2>1. c \in ChannelNumber BY FeedChannel
  <2>2. FaithfulLog(sent[f], stream[c]) BY FaithfulByFeed
  <2>3. sent[f] \in Seq(Packet) /\ stream[c] \in Seq(Message) BY <2>1
  <2>4. sequence_numbers[c] = Len(stream[c]) BY <2>1 DEF NumbersMatch
  <2>5. CASE f \in out
    <3>1. c \in channels BY <1>4, <2>5
    <3>2. sent'[f] = Append(sent[f], [seq |-> Len(stream[c]) + 1, msg |-> msg])
      BY <1>1, <1>3, <2>1, <2>4, <2>5, <3>1
    <3>3. stream'[c] = Append(stream[c], msg) BY <1>2, <2>1, <3>1
    <3> QED BY <2>2, <2>3, <3>2, <3>3, FaithfulAppend
  <2>6. CASE f \notin out
    <3>1. sent'[f] = sent[f] BY <1>3, <2>6
    <3>2. stream'[c] = Append(stream[c], msg) \/ stream'[c] = stream[c]
      BY <1>2, <2>1
    <3> QED BY <2>2, <2>3, <3>1, <3>2, FaithfulExtend
  <2> QED BY <2>5, <2>6
<1> QED BY <1>1, <1>2, <1>5, <1>6, <1>7

(* So does the end-of-conflation marker, whose packet has the second of    *)
(* the two numbers it takes.                                               *)
LEMMA EndOfConflationPreserves ==
  ASSUME PubInv, SendEndOfConflation
  PROVE  /\ sequence_numbers' \in [ChannelNumber -> Nat]
         /\ stream' \in [ChannelNumber -> Seq(Message)]
         /\ sent' \in [Feed -> Seq(Packet)]
         /\ NumbersMatch'
         /\ FeedFaithful'
<1> USE DEF PubInv, PubTypeOK
<1> DEFINE head == [kind |-> "EOC_HEADER"]
           eoc == [kind |-> "EOC"]
           packet == [seq |-> sequence_numbers[0] + 2, msg |-> eoc]
<1>0. 0 \in ChannelNumber BY DEF ChannelNumber
<1>1. CASE ~Conflation
  BY <1>1 DEF SendEndOfConflation, NumbersMatch, FeedFaithful
<1>2. CASE Conflation
  <2>0. /\ sequence_numbers' = [sequence_numbers EXCEPT ![0] = @ + 2]
        /\ stream' = [stream EXCEPT ![0] = Append(Append(@, head), eoc)]
    BY <1>2 DEF SendEndOfConflation
  <2>1. PICK out \in Outcome({IncA, IncB}) :
          sent' = [f \in Feed |->
            IF f \in out THEN Append(sent[f], packet) ELSE sent[f]]
    BY <1>2 DEF SendEndOfConflation
  <2>2. head \in Message /\ eoc \in Message BY DEF Message
  <2>3. packet \in Packet BY <1>0, <2>2 DEF Packet
  <2>4. out \subseteq {IncA, IncB} BY OutcomeType
  <2>5. sent' \in [Feed -> Seq(Packet)]
    <3> HIDE DEF packet
    <3>1. \A f \in Feed : (IF f \in out THEN Append(sent[f], packet) ELSE sent[f])
                            \in Seq(Packet)
      BY <2>3
    <3> QED BY <2>1, <3>1
  <2>6. stream[0] \in Seq(Message) /\ Len(stream[0]) \in Nat BY <1>0
  <2> DEFINE one == Append(stream[0], head)
             two == Append(one, eoc)
  <2>7. /\ one \in Seq(Message) /\ Len(one) = Len(stream[0]) + 1
        /\ two \in Seq(Message) /\ Len(two) = Len(stream[0]) + 2
    <3>1. one \in Seq(Message) /\ Len(one) = Len(stream[0]) + 1
      BY <2>2, <2>6
    <3> HIDE DEF one
    <3>2. two \in Seq(Message) /\ Len(two) = Len(one) + 1
      BY <2>2, <3>1
    <3> QED BY <2>6, <3>1, <3>2
  <2>8. stream' = [stream EXCEPT ![0] = two] BY <2>0
  <2>9. sequence_numbers' \in [ChannelNumber -> Nat] BY <1>0, <2>0
  <2>10. stream' \in [ChannelNumber -> Seq(Message)]
    <3> HIDE DEF two
    <3> QED BY <1>0, <2>7, <2>8
  <2>11. NumbersMatch'
    <3> SUFFICES ASSUME NEW c \in ChannelNumber
                 PROVE  sequence_numbers'[c] = Len(stream'[c])
      BY DEF NumbersMatch
    <3>1. sequence_numbers[c] = Len(stream[c]) BY DEF NumbersMatch
    <3> HIDE DEF two
    <3> QED BY <1>0, <2>0, <2>7, <2>8, <3>1
  <2>12. FeedFaithful'
    <3> SUFFICES ASSUME NEW f \in Feed
                 PROVE  FaithfulLog(sent'[f], stream'[ChannelOfFeed(f)])
      BY DEF FeedFaithful, FaithfulLog
    <3>1. ChannelOfFeed(f) \in ChannelNumber BY FeedChannel
    <3>2. FaithfulLog(sent[f], stream[ChannelOfFeed(f)]) BY FaithfulByFeed
    <3>3. sent[f] \in Seq(Packet) OBVIOUS
    <3>4. CASE ChannelOfFeed(f) # 0
      <4>1. f \notin out BY <2>4, <3>4, GlobalFeeds
      <4>2. sent'[f] = sent[f] BY <2>1, <4>1
      <4>3. stream'[ChannelOfFeed(f)] = stream[ChannelOfFeed(f)]
        BY <2>8, <3>1, <3>4
      <4> QED BY <3>2, <4>2, <4>3
    <3>5. CASE ChannelOfFeed(f) = 0
      <4>1. FaithfulLog(sent[f], one)
        BY <2>2, <2>6, <3>2, <3>3, <3>5, FaithfulExtend
      <4>2. stream'[0] = two BY <1>0, <2>8
      <4>3. Len(one) + 1 = sequence_numbers[0] + 2
        BY <1>0, <2>6, <2>7 DEF NumbersMatch
      <4>4. packet = [seq |-> Len(one) + 1, msg |-> eoc] BY <4>3
      <4>5. FaithfulLog(sent[f], two) /\ FaithfulLog(Append(sent[f], packet), two)
        <5> HIDE DEF one, packet, eoc
        <5> QED BY <2>2, <2>7, <3>3, <4>1, <4>4, FaithfulExtend, FaithfulAppend
      <4>6. sent'[f] = Append(sent[f], packet) \/ sent'[f] = sent[f]
        BY <2>1
      <4> HIDE DEF one, two, packet
      <4> QED BY <3>5, <4>2, <4>5, <4>6
    <3> QED BY <3>4, <3>5
  <2> QED BY <2>5, <2>9, <2>10, <2>11, <2>12
<1> QED BY <1>1, <1>2

-----------------------------------------------------------------------------
(* The theorems *)

LEMMA InitInv == PubInit => PubInv
BY DEF PubInit, PubInv, PubTypeOK, NumbersMatch, FeedFaithful, NoStatsYet

LEMMA CountType ==
  ASSUME PubTypeOK, NEW counters, Count(counters)
  PROVE  pub_stats' \in [DOMAIN NoStatsYet -> Nat]
BY DEF PubTypeOK, Count

(* A publishing step leaves the rest of the state alone. *)
LEMMA PublishingStep ==
  ASSUME PubInv, Keep,
         pub_stats' \in [DOMAIN NoStatsYet -> Nat],
         sequence_numbers' \in [ChannelNumber -> Nat],
         stream' \in [ChannelNumber -> Seq(Message)],
         sent' \in [Feed -> Seq(Packet)],
         NumbersMatch', FeedFaithful'
  PROVE  PubInv'
BY DEF PubInv, PubTypeOK, Keep

(* The routing of an update: one number, on channel 0 or on the enabled    *)
(* channel of its instrument.                                              *)
LEMMA IncrementalPreserves ==
  ASSUME PubInv, NEW kind \in {"QUOTE", "TRADE"}, NEW i \in Instrument,
         PublishIncremental(kind, i)
  PROVE  PubInv'
<1> DEFINE c == ChannelOf[i]
           msg == [kind |-> kind, instrument |-> i]
<1>1. msg \in Message BY DEF Message, InstrumentKind
<1>2. c \in ChannelNumber
  BY ChannelOfAssumption DEF ChannelNumber, Channel
<1>3. Keep /\ pub_stats' \in [DOMAIN NoStatsYet -> Nat]
  <2>1. Keep BY DEF PublishIncremental
  <2>2. pub_stats' \in [DOMAIN NoStatsYet -> Nat]
    BY CountType DEF PublishIncremental, PubInv
  <2> QED BY <2>1, <2>2
<1>4. CASE c > 0 /\ channel_enabled[c]
  <2>1. c \in Channel
    BY <1>2, <1>4 DEF ChannelNumber
  <2>2. Send({c}, {ChanA(c), ChanB(c)}, msg)
    BY <1>4 DEF PublishIncremental
  <2>3. /\ {ChanA(c), ChanB(c)} \in SUBSET Feed
        /\ \A f \in {ChanA(c), ChanB(c)} : ChannelOfFeed(f) \in {c}
    BY <2>1, ChannelFeeds
  <2> HIDE DEF c, msg
  <2> QED BY <1>1, <1>2, <1>3, <2>2, <2>3, SendPreserves, PublishingStep
<1>5. CASE ~(c > 0 /\ channel_enabled[c])
  <2>1. Send({0}, {IncA, IncB}, msg)
    BY <1>5 DEF PublishIncremental
  <2>2. /\ {IncA, IncB} \in SUBSET Feed
        /\ \A f \in {IncA, IncB} : ChannelOfFeed(f) \in {0}
        /\ {0} \in SUBSET ChannelNumber
    BY GlobalFeeds DEF ChannelNumber
  <2> HIDE DEF c, msg
  <2> QED BY <1>1, <1>3, <2>1, <2>2, SendPreserves, PublishingStep
<1> QED BY <1>4, <1>5

LEMMA SingleFeedPreserves ==
  ASSUME PubInv, Keep, NEW f \in {Snap, SecDef}, NEW msg \in Message,
         NEW counters, Count(counters), Send({0}, {f}, msg)
  PROVE  PubInv'
<1>1. {f} \in SUBSET Feed /\ ChannelOfFeed(f) = 0 /\ {0} \in SUBSET ChannelNumber
  BY GlobalFeeds DEF ChannelNumber
<1>2. pub_stats' \in [DOMAIN NoStatsYet -> Nat]
  BY CountType DEF PubInv
<1> QED BY <1>1, <1>2, SendPreserves, PublishingStep

LEMMA HeartbeatPreserves ==
  ASSUME PubInv, SendHeartbeat
  PROVE  PubInv'
<1> DEFINE channels == {0} \cup EnabledChannels
           feeds == {IncA, IncB} \cup {ChanA(c) : c \in EnabledChannels}
                                \cup {ChanB(c) : c \in EnabledChannels}
           msg == [kind |-> "HEARTBEAT"]
<1>1. channels \in SUBSET ChannelNumber
  BY DEF ChannelNumber, EnabledChannels
<1>2. feeds \in SUBSET Feed /\ \A f \in feeds : ChannelOfFeed(f) \in channels
  BY GlobalFeeds, ChannelFeeds DEF EnabledChannels
<1>3. msg \in Message BY DEF Message
<1>4. Send(channels, feeds, msg) BY DEF SendHeartbeat
<1>5. Keep /\ pub_stats' \in [DOMAIN NoStatsYet -> Nat]
  BY CountType DEF SendHeartbeat, PubInv, NoStatsYet
<1> HIDE DEF channels, feeds, msg
<1> QED BY <1>1, <1>2, <1>3, <1>4, <1>5, SendPreserves, PublishingStep

LEMMA InitializePreserves ==
  ASSUME PubInv, NEW n \in 0..Len(FeedOrder), Initialize(n)
  PROVE  PubInv'
<1>1. open' \subseteq Feed BY FeedOrderType DEF Initialize
<1>2. channel_enabled' \in [Channel -> BOOLEAN] BY DEF Initialize
<1>3. phase' \in {"ready", "failed"} BY DEF Initialize
<1>4. UNCHANGED <<sequence_numbers, pub_stats, sent, stream>> BY DEF Initialize
<1> QED BY <1>1, <1>2, <1>3, <1>4
        DEF PubInv, PubTypeOK, NumbersMatch, FeedFaithful

LEMMA ShutdownPreserves ==
  ASSUME PubInv, Shutdown
  PROVE  PubInv'
<1>1. /\ phase' \in {"closed", "destroyed"} /\ open' = {}
      /\ UNCHANGED <<channel_enabled, pub_stats>> /\ SendEndOfConflation
  BY DEF Shutdown
<1> QED BY <1>1, EndOfConflationPreserves DEF PubInv, PubTypeOK

LEMMA NextInv == PubInv /\ [PubNext]_pubvars => PubInv'
<1> SUFFICES ASSUME PubInv, [PubNext]_pubvars PROVE PubInv'
  OBVIOUS
<1>1. ASSUME NEW i \in Instrument, PublishSnapshot(i) PROVE PubInv'
  <2>1. [kind |-> "SNAPSHOT", instrument |-> i] \in Message
    BY DEF Message, InstrumentKind
  <2> QED BY <1>1, <2>1, SingleFeedPreserves DEF PublishSnapshot, NoStatsYet
<1>2. ASSUME NEW i \in Instrument, PublishSecurityDefinition(i) PROVE PubInv'
  <2>1. [kind |-> "SECDEF", instrument |-> i] \in Message
    BY DEF Message, InstrumentKind
  <2> QED BY <1>2, <2>1, SingleFeedPreserves
          DEF PublishSecurityDefinition, NoStatsYet
<1>3. ASSUME EndOfConflation PROVE PubInv'
  <2>1. pub_stats' \in [DOMAIN NoStatsYet -> Nat]
    BY <1>3 DEF EndOfConflation, PubInv, PubTypeOK
  <2> QED BY <1>3, <2>1, EndOfConflationPreserves, PublishingStep
          DEF EndOfConflation
<1>4. ASSUME NEW c \in Channel, NEW enabled \in BOOLEAN, EnableChannel(c, enabled)
      PROVE  PubInv'
  BY <1>4 DEF EnableChannel, PubInv, PubTypeOK, NumbersMatch, FeedFaithful
<1>5. ASSUME UNCHANGED pubvars PROVE PubInv'
  BY <1>5 DEF pubvars, PubInv, PubTypeOK, NumbersMatch, FeedFaithful
<1> QED BY <1>1, <1>2, <1>3, <1>4, <1>5, InitializePreserves, ShutdownPreserves,
           IncrementalPreserves, HeartbeatPreserves DEF PubNext

(* The variables keep their types, and every number names one message on   *)
(* every feed, in increasing order, whatever is published, enabled or      *)
(* disabled, however sends fail and wherever the start stops.              *)
THEOREM PublisherInvariant == PubSpec => []PubInv
BY InitInv, NextInv, PTL DEF PubSpec

THEOREM FeedsAlwaysFaithful == PubSpec => [](PubTypeOK /\ FeedFaithful)
<1>1. PubInv => PubTypeOK /\ FeedFaithful BY DEF PubInv
<1> QED BY <1>1, PublisherInvariant, PTL

-----------------------------------------------------------------------------
(* Silence after shutdown *)

(* What ClosedIsSilent needs of the state: no transport outlives a         *)
(* shutdown.                                                               *)
ClosedInv == PubTypeOK /\ (phase \in {"closed", "destroyed"} => open = {})

LEMMA ClosedStep == ClosedInv /\ PubTypeOK' /\ [PubNext]_pubvars => ClosedInv'
<1> SUFFICES ASSUME ClosedInv, PubTypeOK', [PubNext]_pubvars PROVE ClosedInv'
  OBVIOUS
<1> USE DEF ClosedInv
<1>1. ASSUME NEW n \in 0..Len(FeedOrder), Initialize(n) PROVE ClosedInv'
  BY <1>1 DEF Initialize
<1>2. ASSUME Shutdown PROVE ClosedInv'
  BY <1>2 DEF Shutdown
<1>3. ASSUME UNCHANGED <<phase, open>> PROVE ClosedInv'
  BY <1>3
<1>4. ASSUME NEW kind \in {"QUOTE", "TRADE"}, NEW i \in Instrument,
             PublishIncremental(kind, i)
      PROVE  ClosedInv'
  BY <1>3, <1>4 DEF PublishIncremental, Keep
<1>5. ASSUME NEW i \in Instrument,
             PublishSnapshot(i) \/ PublishSecurityDefinition(i)
      PROVE  ClosedInv'
  BY <1>3, <1>5 DEF PublishSnapshot, PublishSecurityDefinition, Keep
<1>6. ASSUME SendHeartbeat \/ EndOfConflation PROVE ClosedInv'
  BY <1>3, <1>6 DEF SendHeartbeat, EndOfConflation, Keep
<1>7. ASSUME NEW c \in Channel, NEW enabled \in BOOLEAN, EnableChannel(c, enabled)
      PROVE  ClosedInv'
  BY <1>3, <1>7 DEF EnableChannel
<1>8. ASSUME UNCHANGED pubvars PROVE ClosedInv'
  BY <1>3, <1>8 DEF pubvars
<1> QED BY <1>1, <1>2, <1>4, <1>5, <1>6, <1>7, <1>8 DEF PubNext

SilentStep ==
  /\ phase \in {"closed", "destroyed"} => sent' = sent /\ open' = {}
  /\ phase = "failed" =>
       \A f \in Feed : sent'[f] # sent[f] =>
         sent'[f][Len(sent'[f])].msg.kind = "EOC"

(* Out of a failed or closed publisher only a shutdown leads, and it sends *)
(* on open transports only.                                                *)
LEMMA SilentStepHolds == ClosedInv /\ [PubNext]_pubvars => SilentStep
<1> SUFFICES ASSUME ClosedInv, [PubNext]_pubvars PROVE SilentStep
  OBVIOUS
<1>1. CASE phase \notin {"failed", "closed", "destroyed"}
  BY <1>1 DEF SilentStep
<1>2. CASE UNCHANGED pubvars
  BY <1>2 DEF pubvars, ClosedInv, SilentStep
<1>3. CASE phase \in {"failed", "closed", "destroyed"} /\ PubNext
  <2>1. Shutdown
    BY <1>3 DEF PubNext, Initialize, PublishIncremental, PublishSnapshot,
                PublishSecurityDefinition, SendHeartbeat, EndOfConflation,
                EnableChannel
  <2>2. open' = {} /\ SendEndOfConflation BY <2>1 DEF Shutdown
  <2>3. CASE ~Conflation
    BY <2>2, <2>3 DEF SendEndOfConflation, SilentStep
  <2>4. CASE Conflation
    <3> DEFINE packet == [seq |-> sequence_numbers[0] + 2,
                          msg |-> [kind |-> "EOC"]]
    <3>1. PICK out \in Outcome({IncA, IncB}) :
            sent' = [f \in Feed |->
              IF f \in out THEN Append(sent[f], packet) ELSE sent[f]]
      BY <2>2, <2>4 DEF SendEndOfConflation
    <3>2. packet \in Packet /\ packet.msg.kind = "EOC"
      BY DEF Packet, Message, ClosedInv, PubTypeOK, ChannelNumber
    <3>3. sent \in [Feed -> Seq(Packet)] BY DEF ClosedInv, PubTypeOK
    <3> HIDE DEF packet
    <3>4. \A f \in Feed : LET log == Append(sent[f], packet) IN
            log[Len(log)] = packet
      BY <3>2, <3>3
    <3>5. \A f \in Feed : sent'[f] # sent[f] =>
            sent'[f][Len(sent'[f])].msg.kind = "EOC"
      BY <3>1, <3>2, <3>4
    <3>6. ASSUME phase \in {"closed", "destroyed"} PROVE sent' = sent
      <4>1. open = {} BY <3>6 DEF ClosedInv
      <4>2. out = {} BY <4>1 DEF Outcome
      <4> QED BY <3>1, <3>3, <4>2
    <3> QED BY <2>2, <3>5, <3>6 DEF SilentStep
  <2> QED BY <2>3, <2>4
<1> QED BY <1>1, <1>2, <1>3

(* A closed publisher sends nothing, however often it is shut down, and a  *)
(* publisher whose start failed at most its end-of-conflation marker.      *)
THEOREM ClosedAlwaysSilent == PubSpec => ClosedIsSilent
<1>1. PubInit => ClosedInv
  BY InitInv DEF PubInit, PubInv, ClosedInv
<1>2. PubInv => PubTypeOK BY DEF PubInv
<1>3. ClosedInv /\ [PubNext]_pubvars => [SilentStep]_pubvars
  BY SilentStepHolds
<1>4. PubSpec => [][SilentStep]_pubvars
  BY <1>1, <1>2, <1>3, ClosedStep, PublisherInvariant, PTL DEF PubSpec
<1> QED BY <1>4 DEF ClosedIsSilent, SilentStep
-----------------------------------------------------------------------------
(* Gaps and mirrors *)

(* While no send fails and the publisher runs: nothing was sent before the *)
(* start, every configured feed is open, ...                               *)
FeedsOpen ==
  /\ {IncA, IncB, SecDef, Snap} \subseteq open
  /\ \A c \in IdsOf(ChannelsA) : ChanA(c) \in open
  /\ \A c \in IdsOf(ChannelsB) : ChanB(c) \in open

(* ... every number of a channel is explained and the pairs are equal.     *)
Explained(c) ==
  \A n \in 1..Len(stream[c]) :
    stream[c][n].kind = "EOC_HEADER" \/ \E f \in FeedsOf(c) : Carries(f, n)

Mirrored ==
  /\ sent[IncA] = sent[IncB]
  /\ \A c \in IdsOf(ChannelsA) \cap IdsOf(ChannelsB) : sent[ChanA(c)] = sent[ChanB(c)]

RunInv ==
  /\ phase = "new" => /\ sent = [f \in Feed |-> << >>]
                      /\ stream = [c \in ChannelNumber |-> << >>]
  /\ phase = "ready" /\ ~SendMayFail =>
                        /\ FeedsOpen
                        /\ Mirrored
                        /\ \A c \in {0} \cup IdsOf(ChannelsA) : Explained(c)

LEMMA ConfiguredChannels ==
  /\ IdsOf(ChannelsA) \subseteq Channel /\ IdsOf(ChannelsB) \subseteq Channel
  /\ {0} \cup IdsOf(ChannelsA) \subseteq ChannelNumber
BY DEF Channel, ChannelNumber

Occurs(x, s) == \E i \in 1..Len(s) : s[i] = x

LEMMA ConcatOccurs ==
  ASSUME NEW S, NEW s \in Seq(S), NEW t \in Seq(S), NEW x, Occurs(x, s) \/ Occurs(x, t)
  PROVE  s \o t \in Seq(S) /\ Occurs(x, s \o t)
<1>1. /\ Len(s) \in Nat /\ Len(t) \in Nat /\ s \o t \in Seq(S)
      /\ Len(s \o t) = Len(s) + Len(t)
  BY ConcatProperties
<1>2. ASSUME NEW i \in 1..Len(s), s[i] = x PROVE Occurs(x, s \o t)
  <2>1. i \in 1..Len(s \o t) /\ (s \o t)[i] = x
    BY <1>1, <1>2, ConcatProperties
  <2> QED BY <2>1 DEF Occurs
<1>3. ASSUME NEW i \in 1..Len(t), t[i] = x PROVE Occurs(x, s \o t)
  <2>1. /\ Len(s) + i \in 1..Len(s \o t) /\ Len(s) + i > Len(s)
        /\ (Len(s) + i) - Len(s) = i
    BY <1>1
  <2>2. (s \o t)[Len(s) + i] = x
    BY <1>1, <1>3, <2>1, ConcatProperties
  <2> QED BY <2>1, <2>2 DEF Occurs
<1> QED BY <1>1, <1>2, <1>3 DEF Occurs

(* initialize goes through every configured feed. *)
LEMMA FeedOrderCovers ==
  /\ \A f \in {IncA, IncB, SecDef, Snap} : Occurs(f, FeedOrder)
  /\ \A c \in IdsOf(ChannelsA) : Occurs(ChanA(c), FeedOrder)
  /\ \A c \in IdsOf(ChannelsB) : Occurs(ChanB(c), FeedOrder)
<1> DEFINE as == [i \in DOMAIN ChannelsA |-> ChanA(ChannelsA[i])]
           bs == [i \in DOMAIN ChannelsB |-> ChanB(ChannelsB[i])]
           base == <<IncA, IncB, SecDef, Snap>>
<1>1. /\ DOMAIN ChannelsA = 1..Len(ChannelsA) /\ Len(ChannelsA) \in Nat
      /\ DOMAIN ChannelsB = 1..Len(ChannelsB) /\ Len(ChannelsB) \in Nat
  BY ChannelAssumption
<1>2. as \in Seq(Feed) /\ Len(as) = Len(ChannelsA)
  <2>1. \A i \in DOMAIN ChannelsA : ChanA(ChannelsA[i]) \in Feed
    BY ChannelFeeds DEF Channel, IdsOf
  <2> QED BY <1>1, <2>1
<1>3. bs \in Seq(Feed) /\ Len(bs) = Len(ChannelsB)
  <2>1. \A i \in DOMAIN ChannelsB : ChanB(ChannelsB[i]) \in Feed
    BY ChannelFeeds DEF Channel, IdsOf
  <2> QED BY <1>1, <2>1
<1>4. \A c \in IdsOf(ChannelsA) : Occurs(ChanA(c), as)
  BY <1>1, <1>2 DEF IdsOf, Occurs
<1>5. \A c \in IdsOf(ChannelsB) : Occurs(ChanB(c), bs)
  BY <1>1, <1>3 DEF IdsOf, Occurs
<1>6. base \in Seq(Feed) BY GlobalFeeds
<1>7. \A f \in {IncA, IncB, SecDef, Snap} : Occurs(f, base)
  <2>1. /\ Len(base) = 4 /\ base[1] = IncA /\ base[2] = IncB
        /\ base[3] = SecDef /\ base[4] = Snap
    OBVIOUS
  <2> HIDE DEF base
  <2>2. 1 \in 1..Len(base) /\ 2 \in 1..Len(base) /\ 3 \in 1..Len(base)
        /\ 4 \in 1..Len(base)
    BY <2>1
  <2> QED BY <2>1, <2>2 DEF Occurs
<1>8. FeedOrder = (base \o as) \o bs BY DEF FeedOrder
<1> HIDE DEF as, bs, base
<1>9. base \o as \in Seq(Feed) BY <1>2, <1>6, ConcatProperties
<1>10. \A f \in {IncA, IncB, SecDef, Snap} : Occurs(f, base \o as)
  BY <1>2, <1>6, <1>7, ConcatOccurs
<1>11. \A c \in IdsOf(ChannelsA) : Occurs(ChanA(c), base \o as)
  BY <1>2, <1>4, <1>6, ConcatOccurs
<1> QED BY <1>3, <1>5, <1>8, <1>9, <1>10, <1>11, ConcatOccurs

(* A message sent on feeds that are open arrives on each of them, and on   *)
(* no other.                                                               *)
LEMMA SendReaches ==
  ASSUME PubTypeOK, ~SendMayFail, NEW channels, NEW feeds, NEW msg,
         Send(channels, feeds, msg)
  PROVE  \A f \in Feed : sent'[f] =
           IF f \in feeds \cap open
           THEN Append(sent[f], [seq |-> sequence_numbers'[ChannelOfFeed(f)], msg |-> msg])
           ELSE sent[f]
BY DEF Send, Outcome

LEMMA SendMirrors ==
  ASSUME PubTypeOK, ~SendMayFail, NEW channels, NEW feeds, NEW msg,
         Send(channels, feeds, msg),
         NEW a \in Feed, NEW b \in Feed, a \in open, b \in open,
         ChannelOfFeed(a) = ChannelOfFeed(b), a \in feeds <=> b \in feeds,
         sent[a] = sent[b]
  PROVE  sent'[a] = sent'[b]
BY SendReaches

(* A number is explained when one of the feeds that carry it is open. *)
LEMMA SendExplains ==
  ASSUME PubInv, ~SendMayFail, NEW channels \in SUBSET ChannelNumber,
         NEW feeds \in SUBSET Feed, NEW msg \in Message,
         \A f \in feeds : ChannelOfFeed(f) \in channels,
         Send(channels, feeds, msg),
         NEW c \in ChannelNumber, Explained(c),
         c \in channels => \E f \in feeds \cap open : ChannelOfFeed(f) = c
  PROVE  Explained(c)'
<1>0. stream[c] \in Seq(Message) /\ Len(stream[c]) \in Nat
      /\ sequence_numbers[c] = Len(stream[c])
      /\ \A f \in Feed : sent[f] \in Seq(Packet)
  BY DEF PubInv, PubTypeOK, NumbersMatch
<1>1. \A f \in Feed : sent'[f] =
        IF f \in feeds \cap open
        THEN Append(sent[f], [seq |-> sequence_numbers'[ChannelOfFeed(f)], msg |-> msg])
        ELSE sent[f]
  BY SendReaches DEF PubInv
<1>2. \A f \in Feed : sequence_numbers'[ChannelOfFeed(f)] \in Nat
  BY SendPreserves, FeedChannel
<1>3. ASSUME NEW f \in FeedsOf(c), NEW n, Carries(f, n) PROVE Carries(f, n)'
  <2>1. f \in Feed BY DEF FeedsOf
  <2> DEFINE p == [seq |-> sequence_numbers'[ChannelOfFeed(f)], msg |-> msg]
  <2>2. p \in Packet BY <1>2, <2>1 DEF Packet
  <2>3. sent'[f] = Append(sent[f], p) \/ sent'[f] = sent[f] BY <1>1, <2>1
  <2>4. PICK i \in 1..Len(sent[f]) : sent[f][i].seq = n BY <1>3 DEF Carries
  <2> HIDE DEF p
  <2>5. i \in 1..Len(sent'[f]) /\ sent'[f][i] = sent[f][i]
    BY <1>0, <2>1, <2>2, <2>3, <2>4
  <2> QED BY <2>4, <2>5 DEF Carries
<1>4. CASE c \notin channels
  <2>1. stream'[c] = stream[c] BY <1>4 DEF Send
  <2> SUFFICES ASSUME NEW n \in 1..Len(stream[c]), stream[c][n].kind # "EOC_HEADER"
               PROVE  \E f \in FeedsOf(c) : Carries(f, n)'
    BY <2>1 DEF Explained, FeedsOf
  <2> QED BY <1>3 DEF Explained
<1>5. CASE c \in channels
  <2>1. /\ stream'[c] = Append(stream[c], msg)
        /\ sequence_numbers'[c] = Len(stream[c]) + 1
    BY <1>0, <1>5 DEF Send
  <2>2. /\ Len(stream'[c]) = Len(stream[c]) + 1
        /\ \A n \in 1..Len(stream[c]) : stream'[c][n] = stream[c][n]
    BY <1>0, <2>1
  <2>3. PICK f \in feeds \cap open : ChannelOfFeed(f) = c BY <1>5
  <2>4. PICK k : k \in Nat /\ k = Len(stream[c]) + 1 BY <1>0
  <2>5. Carries(f, k)'
    <3> DEFINE p == [seq |-> k, msg |-> msg]
    <3>1. p \in Packet /\ p.seq = k BY <2>4 DEF Packet
    <3>2. f \in Feed /\ sent[f] \in Seq(Packet) BY <1>0
    <3>3. sent'[f] = Append(sent[f], p) BY <1>1, <2>1, <2>3, <2>4, <3>2
    <3> HIDE DEF p
    <3>4. /\ Len(sent[f]) + 1 \in 1..Len(sent'[f])
          /\ sent'[f][Len(sent[f]) + 1].seq = k
      BY <3>1, <3>2, <3>3
    <3> QED BY <3>4 DEF Carries
  <2>6. ASSUME NEW n \in Nat, n \in 1..Len(stream'[c]), stream'[c][n].kind # "EOC_HEADER"
        PROVE  \E g \in FeedsOf(c) : Carries(g, n)'
    <3>1. CASE n = k
      <4>1. f \in FeedsOf(c) BY <2>3 DEF FeedsOf
      <4> QED BY <2>5, <3>1, <4>1
    <3>2. CASE n # k
      <4>1. n \in 1..Len(stream[c]) BY <1>0, <2>2, <2>4, <2>6, <3>2
      <4>2. stream[c][n].kind # "EOC_HEADER" BY <2>2, <2>6, <4>1
      <4>3. PICK g \in FeedsOf(c) : Carries(g, n) BY <4>1, <4>2 DEF Explained
      <4> QED BY <1>3, <4>3
    <3> QED BY <3>1, <3>2
  <2>7. \A n \in 1..Len(stream'[c]) : n \in Nat OBVIOUS
  <2> QED BY <2>6, <2>7 DEF Explained, FeedsOf
<1> QED BY <1>4, <1>5

(* The messages that are sent while the publisher runs.                    *)
LEMMA SendKeepsRunning ==
  ASSUME PubInv, RunInv, Keep, phase = "ready",
         NEW channels \in SUBSET ChannelNumber,
         NEW feeds \in SUBSET Feed, NEW msg \in Message,
         \A f \in feeds : ChannelOfFeed(f) \in channels,
         Send(channels, feeds, msg),
         IncA \in feeds <=> IncB \in feeds,
         \A c \in IdsOf(ChannelsA) \cap IdsOf(ChannelsB) :
           ChanA(c) \in feeds <=> ChanB(c) \in feeds,
         \A c \in channels : c \in {0} \cup IdsOf(ChannelsA) =>
           \/ c # 0 /\ ChanA(c) \in feeds
           \/ c = 0 /\ feeds \cap {IncA, Snap, SecDef} # {}
  PROVE  RunInv'
<1>1. CASE SendMayFail
  BY <1>1 DEF Keep, RunInv
<1>2. CASE ~SendMayFail
  <2>1. FeedsOpen /\ Mirrored /\ \A c \in {0} \cup IdsOf(ChannelsA) : Explained(c)
    BY <1>2 DEF RunInv
  <2>2. FeedsOpen' BY <2>1 DEF FeedsOpen, Keep
  <2>3. PubTypeOK BY DEF PubInv
  <2>4. sent'[IncA] = sent'[IncB]
    <3>1. /\ IncA \in Feed /\ IncB \in Feed /\ IncA \in open /\ IncB \in open
          /\ ChannelOfFeed(IncA) = ChannelOfFeed(IncB)
      BY <2>1, GlobalFeeds DEF FeedsOpen
    <3>2. sent[IncA] = sent[IncB] BY <2>1 DEF Mirrored
    <3> QED BY <1>2, <2>3, <3>1, <3>2, SendMirrors
  <2>5. ASSUME NEW c \in IdsOf(ChannelsA) \cap IdsOf(ChannelsB)
        PROVE  sent'[ChanA(c)] = sent'[ChanB(c)]
    <3>1. c \in Channel BY ConfiguredChannels
    <3>2. /\ ChanA(c) \in Feed /\ ChanB(c) \in Feed
          /\ ChannelOfFeed(ChanA(c)) = ChannelOfFeed(ChanB(c))
      BY <3>1, ChannelFeeds
    <3>3. ChanA(c) \in open /\ ChanB(c) \in open BY <2>1 DEF FeedsOpen
    <3>4. sent[ChanA(c)] = sent[ChanB(c)] BY <2>1 DEF Mirrored
    <3>5. ChanA(c) \in feeds <=> ChanB(c) \in feeds OBVIOUS
    <3> QED BY <1>2, <2>3, <3>2, <3>3, <3>4, <3>5, SendMirrors
  <2>6. Mirrored' BY <2>4, <2>5 DEF Mirrored
  <2>7. ASSUME NEW c \in {0} \cup IdsOf(ChannelsA) PROVE Explained(c)'
    <3>1. c \in ChannelNumber BY ConfiguredChannels
    <3>2. Explained(c) BY <2>1
    <3>3. c \in channels => \E f \in feeds \cap open : ChannelOfFeed(f) = c
      <4>1. CASE c \in channels /\ c # 0
        <5>1. ChanA(c) \in feeds /\ c \in IdsOf(ChannelsA) BY <4>1
        <5>2. ChanA(c) \in open BY <2>1, <5>1 DEF FeedsOpen
        <5>3. ChannelOfFeed(ChanA(c)) = c
          BY <5>1, ConfiguredChannels, ChannelFeeds
        <5> QED BY <5>1, <5>2, <5>3
      <4>2. CASE c \in channels /\ c = 0
        <5>1. PICK f \in feeds : f \in {IncA, Snap, SecDef} BY <4>2
        <5>2. f \in open BY <2>1, <5>1 DEF FeedsOpen
        <5> QED BY <4>2, <5>1, <5>2, GlobalFeeds
      <4> QED BY <4>1, <4>2
    <3> QED BY <1>2, <3>1, <3>2, <3>3, SendExplains
  <2>8. phase' = "ready" BY DEF Keep
  <2> QED BY <2>2, <2>6, <2>7, <2>8 DEF RunInv
<1> QED BY <1>1, <1>2

(* The end of a conflation interval takes two numbers: the first is the    *)
(* header's, the second is on both incremental feeds.                      *)
LEMMA EndOfConflationKeepsRunning ==
  ASSUME PubInv, RunInv, Keep, phase = "ready", SendEndOfConflation
  PROVE  RunInv'
<1>1. CASE SendMayFail
  BY <1>1 DEF Keep, RunInv
<1>2. CASE ~Conflation
  BY <1>2 DEF SendEndOfConflation, Keep, RunInv, FeedsOpen, Mirrored, Explained,
              FeedsOf, Carries
<1>3. CASE ~SendMayFail /\ Conflation
  <2> DEFINE head == [kind |-> "EOC_HEADER"]
             eoc == [kind |-> "EOC"]
             packet == [seq |-> sequence_numbers[0] + 2, msg |-> eoc]
  <2>1. FeedsOpen /\ Mirrored /\ \A c \in {0} \cup IdsOf(ChannelsA) : Explained(c)
    BY <1>3 DEF RunInv
  <2>2. FeedsOpen' /\ phase' = "ready" BY <2>1 DEF FeedsOpen, Keep
  <2>3. /\ sent \in [Feed -> Seq(Packet)] /\ stream \in [ChannelNumber -> Seq(Message)]
        /\ 0 \in ChannelNumber /\ sequence_numbers[0] = Len(stream[0])
    BY DEF PubInv, PubTypeOK, NumbersMatch, ChannelNumber
  <2>4. /\ stream' = [stream EXCEPT ![0] = Append(Append(@, head), eoc)]
        /\ \A f \in Feed : sent'[f] =
             IF f \in {IncA, IncB} THEN Append(sent[f], packet) ELSE sent[f]
    <3>1. Outcome({IncA, IncB}) = {{IncA, IncB}}
      BY <1>3, <2>1 DEF Outcome, FeedsOpen
    <3> QED BY <1>3, <3>1 DEF SendEndOfConflation
  <2>5. packet \in Packet /\ packet.seq = Len(stream[0]) + 2
        /\ head \in Message /\ eoc \in Message /\ head.kind = "EOC_HEADER"
    BY <2>3 DEF Packet, Message
  <2> HIDE DEF packet, head, eoc
  <2>6. Mirrored'
    <3>1. sent'[IncA] = sent'[IncB]
      BY <2>1, <2>4, GlobalFeeds DEF Mirrored
    <3>2. ASSUME NEW c \in IdsOf(ChannelsA) \cap IdsOf(ChannelsB)
          PROVE  sent'[ChanA(c)] = sent'[ChanB(c)]
      <4>1. c \in Channel /\ c # 0 BY ConfiguredChannels, ChannelPositive
      <4>2. /\ ChanA(c) \in Feed /\ ChanA(c) \notin {IncA, IncB}
            /\ ChanB(c) \in Feed /\ ChanB(c) \notin {IncA, IncB}
        BY <4>1, ChannelFeeds, GlobalFeeds
      <4> QED BY <2>1, <2>4, <4>2 DEF Mirrored
    <3> QED BY <3>1, <3>2 DEF Mirrored
  <2>7. ASSUME NEW f \in Feed, NEW n, Carries(f, n) PROVE Carries(f, n)'
    <3>1. PICK i \in 1..Len(sent[f]) : sent[f][i].seq = n BY <2>7 DEF Carries
    <3>2. sent'[f] = Append(sent[f], packet) \/ sent'[f] = sent[f] BY <2>4
    <3>3. sent[f] \in Seq(Packet) /\ packet \in Packet BY <2>3, <2>5
    <3>4. i \in 1..Len(sent'[f]) /\ sent'[f][i] = sent[f][i]
      BY <3>1, <3>2, <3>3
    <3> QED BY <3>1, <3>4 DEF Carries
  <2>8. ASSUME NEW c \in IdsOf(ChannelsA) PROVE Explained(c)'
    <3>1. c # 0 /\ c \in ChannelNumber BY ConfiguredChannels, ChannelPositive
    <3>2. stream'[c] = stream[c] BY <2>3, <2>4, <3>1
    <3>3. Explained(c) BY <2>1
    <3>4. ASSUME NEW n \in Nat, n \in 1..Len(stream[c]), stream[c][n].kind # "EOC_HEADER"
          PROVE  \E f \in FeedsOf(c) : Carries(f, n)'
      <4>1. PICK f \in FeedsOf(c) : Carries(f, n) BY <3>3, <3>4 DEF Explained
      <4> QED BY <2>7, <4>1 DEF FeedsOf
    <3>5. \A n \in 1..Len(stream[c]) : n \in Nat OBVIOUS
    <3> QED BY <3>2, <3>4, <3>5 DEF Explained, FeedsOf
  <2>9. Explained(0)'
    <3> DEFINE one == Append(stream[0], head)
    <3>1. stream'[0] = Append(one, eoc) BY <2>3, <2>4
    <3>2. /\ one \in Seq(Message) /\ Len(one) = Len(stream[0]) + 1
          /\ one[Len(stream[0]) + 1] = head
          /\ \A n \in 1..Len(stream[0]) : one[n] = stream[0][n]
      BY <2>3, <2>5
    <3> HIDE DEF one
    <3>3. /\ Len(stream'[0]) = Len(stream[0]) + 2
          /\ \A n \in 1..Len(one) : stream'[0][n] = one[n]
      BY <2>3, <2>5, <3>1, <3>2
    <3>4. PICK k : k \in Nat /\ k = Len(stream[0]) BY <2>3
    <3>5. Carries(IncA, k + 2)'
      <4>1. IncA \in Feed /\ sent[IncA] \in Seq(Packet) BY <2>3, GlobalFeeds
      <4>2. sent'[IncA] = Append(sent[IncA], packet) BY <2>4, <4>1
      <4>3. /\ Len(sent[IncA]) + 1 \in 1..Len(sent'[IncA])
            /\ sent'[IncA][Len(sent[IncA]) + 1].seq = k + 2
        BY <2>5, <3>4, <4>1, <4>2
      <4> QED BY <4>3 DEF Carries
    <3>6. IncA \in FeedsOf(0) BY GlobalFeeds DEF FeedsOf
    <3>7. ASSUME NEW n \in Nat, n \in 1..Len(stream'[0]), stream'[0][n].kind # "EOC_HEADER"
          PROVE  \E f \in FeedsOf(0) : Carries(f, n)'
      <4>1. CASE n = k + 2 BY <3>5, <3>6, <4>1
      <4>2. CASE n = k + 1
        BY <2>5, <3>2, <3>3, <3>4, <3>7, <4>2
      <4>3. CASE n # k + 1 /\ n # k + 2
        <5>1. n \in 1..Len(stream[0]) BY <3>3, <3>4, <3>7, <4>3
        <5>2. stream[0][n].kind # "EOC_HEADER"
          BY <3>2, <3>3, <3>4, <3>7, <5>1
        <5>3. PICK f \in FeedsOf(0) : Carries(f, n)
          BY <2>1, <5>1, <5>2 DEF Explained
        <5> QED BY <2>7, <5>3 DEF FeedsOf
      <4> QED BY <4>1, <4>2, <4>3
    <3>8. \A n \in 1..Len(stream'[0]) : n \in Nat OBVIOUS
    <3> QED BY <3>7, <3>8 DEF Explained, FeedsOf
  <2> QED BY <2>2, <2>6, <2>8, <2>9 DEF RunInv
<1> QED BY <1>1, <1>2, <1>3

LEMMA RunInit == PubInit => RunInv
BY DEF PubInit, RunInv

LEMMA InitializeStartsRunning ==
  ASSUME RunInv, NEW n \in 0..Len(FeedOrder), Initialize(n) PROVE RunInv'
<1>1. /\ phase = "new" /\ phase' = IF n = Len(FeedOrder) THEN "ready" ELSE "failed"
      /\ open' = {FeedOrder[i] : i \in 1..n}
      /\ sent' = [f \in Feed |-> << >>]
      /\ stream' = [c \in ChannelNumber |-> << >>]
  BY DEF Initialize, RunInv
<1>2. CASE n # Len(FeedOrder)
  BY <1>1, <1>2 DEF RunInv
<1>3. CASE n = Len(FeedOrder)
  <2>1. \A f : Occurs(f, FeedOrder) => f \in open'
    BY <1>1, <1>3 DEF Occurs
  <2>2. FeedsOpen'
    BY <2>1, FeedOrderCovers DEF FeedsOpen
  <2>3. sent'[IncA] = sent'[IncB]
    BY <1>1, GlobalFeeds
  <2>4. \A c \in IdsOf(ChannelsA) \cap IdsOf(ChannelsB) :
          sent'[ChanA(c)] = sent'[ChanB(c)]
    BY <1>1, ConfiguredChannels, ChannelFeeds
  <2>5. \A c \in {0} \cup IdsOf(ChannelsA) : stream'[c] = << >>
    BY <1>1, ConfiguredChannels
  <2>6. ASSUME NEW c \in {0} \cup IdsOf(ChannelsA) PROVE Explained(c)'
    <3>1. 1..Len(stream'[c]) = {} BY <2>5
    <3> QED BY <3>1 DEF Explained
  <2> QED BY <1>1, <1>3, <2>2, <2>3, <2>4, <2>6 DEF RunInv, Mirrored
<1> QED BY <1>2, <1>3

(* Nothing that the invariant is about changes.                            *)
LEMMA RunUnchanged ==
  ASSUME RunInv, UNCHANGED <<phase, open, sent, stream>> PROVE RunInv'
<1>1. /\ phase' = phase /\ open' = open /\ sent' = sent /\ stream' = stream
  OBVIOUS
<1>2. FeedsOpen' <=> FeedsOpen BY <1>1 DEF FeedsOpen
<1>3. Mirrored' <=> Mirrored BY <1>1 DEF Mirrored
<1>4. \A c : Explained(c)' <=> Explained(c)
  BY <1>1 DEF Explained, FeedsOf, Carries
<1> QED BY <1>1, <1>2, <1>3, <1>4 DEF RunInv

LEMMA RunIncremental ==
  ASSUME PubInv, RunInv, NEW kind \in {"QUOTE", "TRADE"}, NEW i \in Instrument,
         PublishIncremental(kind, i)
  PROVE  RunInv'
<1> DEFINE msg == [kind |-> kind, instrument |-> i]
<1>1. PICK c : c = ChannelOf[i] OBVIOUS
<1>2. c \in IdsOf(ChannelsA) \cup {0} BY <1>1, ChannelOfAssumption
<1>3. msg \in Message BY DEF Message, InstrumentKind
<1>4. phase = "ready" /\ Keep BY DEF PublishIncremental
<1> HIDE DEF msg
<1>5. CASE c > 0 /\ channel_enabled[c]
  <2>1. Send({c}, {ChanA(c), ChanB(c)}, msg)
    BY <1>1, <1>5 DEF PublishIncremental, msg
  <2>2. c \in Channel /\ c # 0 /\ c \in IdsOf(ChannelsA)
    BY <1>2, <1>5, ConfiguredChannels
  <2>3. /\ {c} \in SUBSET ChannelNumber /\ {ChanA(c), ChanB(c)} \in SUBSET Feed
        /\ \A f \in {ChanA(c), ChanB(c)} : ChannelOfFeed(f) \in {c}
        /\ IncA \notin {ChanA(c), ChanB(c)} /\ IncB \notin {ChanA(c), ChanB(c)}
    BY <2>2, ChannelFeeds, GlobalFeeds DEF ChannelNumber
  <2>4. \A d \in IdsOf(ChannelsA) \cap IdsOf(ChannelsB) :
          ChanA(d) \in {ChanA(c), ChanB(c)} <=> ChanB(d) \in {ChanA(c), ChanB(c)}
    BY DEF ChanA, ChanB
  <2>5. \A d \in {c} : d \in {0} \cup IdsOf(ChannelsA) =>
          \/ d # 0 /\ ChanA(d) \in {ChanA(c), ChanB(c)}
          \/ d = 0 /\ {ChanA(c), ChanB(c)} \cap {IncA, Snap, SecDef} # {}
    BY <2>2
  <2> QED BY <1>3, <1>4, <2>1, <2>3, <2>4, <2>5, SendKeepsRunning
<1>6. CASE ~(c > 0 /\ channel_enabled[c])
  <2>1. Send({0}, {IncA, IncB}, msg)
    BY <1>1, <1>6 DEF PublishIncremental, msg
  <2>2. /\ {0} \in SUBSET ChannelNumber /\ {IncA, IncB} \in SUBSET Feed
        /\ \A f \in {IncA, IncB} : ChannelOfFeed(f) \in {0}
    BY GlobalFeeds DEF ChannelNumber
  <2>3. \A d \in IdsOf(ChannelsA) \cap IdsOf(ChannelsB) :
          ChanA(d) \in {IncA, IncB} <=> ChanB(d) \in {IncA, IncB}
    BY DEF ChanA, ChanB, IncA, IncB
  <2> QED BY <1>3, <1>4, <2>1, <2>2, <2>3, SendKeepsRunning
<1> QED BY <1>5, <1>6

(* Snapshots and definitions: one message on one of the global feeds.      *)
LEMMA RunSingleFeed ==
  ASSUME PubInv, RunInv, Keep, phase = "ready", NEW f \in {Snap, SecDef},
         NEW msg \in Message, Send({0}, {f}, msg)
  PROVE  RunInv'
<1>1. /\ {0} \in SUBSET ChannelNumber /\ {f} \in SUBSET Feed
      /\ \A g \in {f} : ChannelOfFeed(g) \in {0}
  BY GlobalFeeds DEF ChannelNumber
<1>2. IncA \notin {f} /\ IncB \notin {f}
  BY DEF IncA, IncB, Snap, SecDef
<1>3. \A d \in IdsOf(ChannelsA) \cap IdsOf(ChannelsB) :
        ChanA(d) \in {f} <=> ChanB(d) \in {f}
  BY DEF ChanA, ChanB, Snap, SecDef
<1> QED BY <1>1, <1>2, <1>3, SendKeepsRunning

LEMMA RunHeartbeat ==
  ASSUME PubInv, RunInv, SendHeartbeat PROVE RunInv'
<1> DEFINE channels == {0} \cup EnabledChannels
           feeds == {IncA, IncB} \cup {ChanA(c) : c \in EnabledChannels}
                                 \cup {ChanB(c) : c \in EnabledChannels}
           msg == [kind |-> "HEARTBEAT"]
<1>1. phase = "ready" /\ Keep /\ Send(channels, feeds, msg)
  BY DEF SendHeartbeat
<1>2. msg \in Message BY DEF Message
<1>3. EnabledChannels \subseteq Channel BY DEF EnabledChannels
<1>4. channels \in SUBSET ChannelNumber /\ feeds \in SUBSET Feed
  BY <1>3, ChannelFeeds, GlobalFeeds DEF ChannelNumber
<1>5. \A f \in feeds : ChannelOfFeed(f) \in channels
  BY <1>3, ChannelFeeds, GlobalFeeds
<1>6. IncA \in feeds /\ IncB \in feeds OBVIOUS
<1>7. \A d \in Channel :
        (ChanA(d) \in feeds <=> d \in EnabledChannels)
        /\ (ChanB(d) \in feeds <=> d \in EnabledChannels)
  <2> TAKE d \in Channel
  <2>1. \A c : ChanA(c) # ChanB(d) /\ ChanB(c) # ChanA(d)
    BY DEF ChanA, ChanB
  <2>2. \A c : (ChanA(c) = ChanA(d) <=> c = d) /\ (ChanB(c) = ChanB(d) <=> c = d)
    BY DEF ChanA, ChanB
  <2>3. /\ ChanA(d) \notin {IncA, IncB} /\ ChanB(d) \notin {IncA, IncB}
    BY DEF ChanA, ChanB, IncA, IncB
  <2> QED BY <2>1, <2>2, <2>3
<1>8. \A d \in IdsOf(ChannelsA) \cap IdsOf(ChannelsB) :
        ChanA(d) \in feeds <=> ChanB(d) \in feeds
  BY <1>7, ConfiguredChannels
<1>9. \A d \in channels : d \in {0} \cup IdsOf(ChannelsA) =>
        \/ d # 0 /\ ChanA(d) \in feeds
        \/ d = 0 /\ feeds \cap {IncA, Snap, SecDef} # {}
  <2> TAKE d \in channels
  <2>1. CASE d = 0 BY <1>6, <2>1
  <2>2. CASE d # 0 BY <1>3, <1>7, <2>2
  <2> QED BY <2>1, <2>2
<1> HIDE DEF channels, feeds, msg
<1> QED BY <1>1, <1>2, <1>4, <1>5, <1>6, <1>8, <1>9, SendKeepsRunning

LEMMA RunStep == PubInv /\ RunInv /\ [PubNext]_pubvars => RunInv'
<1> SUFFICES ASSUME PubInv, RunInv, [PubNext]_pubvars PROVE RunInv'
  OBVIOUS
<1>1. ASSUME NEW n \in 0..Len(FeedOrder), Initialize(n) PROVE RunInv'
  BY <1>1, InitializeStartsRunning
<1>2. ASSUME NEW kind \in {"QUOTE", "TRADE"}, NEW i \in Instrument,
             PublishIncremental(kind, i)
      PROVE  RunInv'
  BY <1>2, RunIncremental
<1>3. ASSUME NEW i \in Instrument, PublishSnapshot(i) PROVE RunInv'
  <2>1. [kind |-> "SNAPSHOT", instrument |-> i] \in Message
    BY DEF Message, InstrumentKind
  <2> QED BY <1>3, <2>1, RunSingleFeed DEF PublishSnapshot
<1>4. ASSUME NEW i \in Instrument, PublishSecurityDefinition(i) PROVE RunInv'
  <2>1. [kind |-> "SECDEF", instrument |-> i] \in Message
    BY DEF Message, InstrumentKind
  <2> QED BY <1>4, <2>1, RunSingleFeed DEF PublishSecurityDefinition
<1>5. ASSUME SendHeartbeat PROVE RunInv'
  BY <1>5, RunHeartbeat
<1>6. ASSUME EndOfConflation PROVE RunInv'
  BY <1>6, EndOfConflationKeepsRunning DEF EndOfConflation
<1>7. ASSUME NEW c \in Channel, NEW enabled \in BOOLEAN, EnableChannel(c, enabled)
      PROVE  RunInv'
  BY <1>7, RunUnchanged DEF EnableChannel
<1>8. ASSUME Shutdown PROVE RunInv'
  BY <1>8 DEF Shutdown, RunInv
<1>9. ASSUME UNCHANGED pubvars PROVE RunInv'
  BY <1>9, RunUnchanged DEF pubvars
<1> QED BY <1>1, <1>2, <1>3, <1>4, <1>5, <1>6, <1>7, <1>8, <1>9 DEF PubNext

LEMMA RunInvariant == PubSpec => [](PubInv /\ RunInv)
BY InitInv, NextInv, RunInit, RunStep, PTL DEF PubSpec

(* While the publisher runs and no send fails, the only numbers missing on *)
(* all the feeds of a channel are those send_end_of_conflation takes for   *)
(* its inner header: a receiver may take any other gap for a loss.         *)
THEOREM NoGapUnexplained == PubSpec => []NoUnexplainedGap
<1>1. RunInv => NoUnexplainedGap
  BY DEF RunInv, NoUnexplainedGap, Explained
<1> QED BY <1>1, RunInvariant, PTL

(* While the publisher runs and no send fails, the A and the B feed carry  *)
(* the same packets, whichever channels are enabled meanwhile.             *)
THEOREM FeedsAlwaysMirrored == PubSpec => []MirrorFeeds
<1>1. RunInv => MirrorFeeds
  BY DEF RunInv, MirrorFeeds, Mirrored
<1> QED BY <1>1, RunInvariant, PTL
-----------------------------------------------------------------------------
(* The statistics *)

(* Every packet on a feed has a number of its own, so the lengths of the   *)
(* feeds are bounded by the numbers and PacketsOf sees every packet that   *)
(* was sent while the publisher ran.                                       *)
LengthsBounded ==
  \A f \in Feed : Len(sent[f]) <= sequence_numbers[ChannelOfFeed(f)]

(* The packets that PacketsOf counts. *)
Hits(feeds, kinds) ==
  {x \in feeds \X (1..MaxSeq) :
     /\ x[2] <= Len(sent[x[1]])
     /\ sent[x[1]][x[2]].msg.kind \in kinds}

Tally(feeds, kinds, n) ==
  IsFiniteSet(Hits(feeds, kinds)) /\ Cardinality(Hits(feeds, kinds)) = n

Updates == {"QUOTE", "TRADE"}
FeedsA == {f \in Feed : f[1] \in {"INC_A", "CHAN_A"}}
FeedsB == {f \in Feed : f[1] \in {"INC_B", "CHAN_B"}}

Tallied ==
  /\ Tally(FeedsA, Updates, pub_stats.messages_sent_a)
  /\ IdsOf(ChannelsA) \subseteq IdsOf(ChannelsB) =>
       Tally(FeedsB, Updates, pub_stats.messages_sent_b)
  /\ Tally({Snap}, {"SNAPSHOT"}, pub_stats.snapshots_sent)
  /\ Tally({SecDef}, {"SECDEF"}, pub_stats.definitions_sent)
  /\ Tally({IncA}, {"HEARTBEAT"}, pub_stats.heartbeats_sent)

TallyInv == LengthsBounded /\ (~SendMayFail => Tallied)

LEMMA FamiliesAreFeeds ==
  /\ FeedsA \subseteq Feed /\ FeedsB \subseteq Feed
  /\ {Snap} \subseteq Feed /\ {SecDef} \subseteq Feed /\ {IncA} \subseteq Feed
BY GlobalFeeds DEF FeedsA, FeedsB

(* A feed that gets nothing, or one packet of another kind. *)
Uncounted(f, kinds) ==
  \/ sent'[f] = sent[f]
  \/ \E p \in Packet : sent'[f] = Append(sent[f], p) /\ p.msg.kind \notin kinds

LEMMA FeedHits ==
  ASSUME PubTypeOK, PubTypeOK', NEW f \in Feed, NEW kinds, Uncounted(f, kinds)
  PROVE  \A k \in 1..MaxSeq :
           (k <= Len(sent'[f]) /\ sent'[f][k].msg.kind \in kinds)
           <=> (k <= Len(sent[f]) /\ sent[f][k].msg.kind \in kinds)
<1>1. sent[f] \in Seq(Packet) BY DEF PubTypeOK
<1>2. CASE sent'[f] = sent[f] BY <1>2
<1>3. ASSUME NEW p \in Packet, sent'[f] = Append(sent[f], p), p.msg.kind \notin kinds
      PROVE  \A k \in 1..MaxSeq :
               (k <= Len(sent'[f]) /\ sent'[f][k].msg.kind \in kinds)
               <=> (k <= Len(sent[f]) /\ sent[f][k].msg.kind \in kinds)
  <2>1. /\ Len(sent[f]) \in Nat /\ Len(sent'[f]) = Len(sent[f]) + 1
        /\ \A k \in 1..Len(sent[f]) : sent'[f][k] = sent[f][k]
        /\ sent'[f][Len(sent[f]) + 1] = p
    BY <1>1, <1>3
  <2> QED BY <1>3, <2>1, MaxSeqAssumption
<1> QED BY <1>2, <1>3 DEF Uncounted

LEMMA TallyKeeps ==
  ASSUME PubTypeOK, PubTypeOK', NEW feeds \in SUBSET Feed, NEW kinds,
         \A f \in feeds : Uncounted(f, kinds)
  PROVE  Hits(feeds, kinds)' = Hits(feeds, kinds)
<1>1. \A f \in feeds : \A k \in 1..MaxSeq :
        (k <= Len(sent'[f]) /\ sent'[f][k].msg.kind \in kinds)
        <=> (k <= Len(sent[f]) /\ sent[f][k].msg.kind \in kinds)
  BY FeedHits
<1> QED BY <1>1 DEF Hits

LEMMA TallyAdds ==
  ASSUME PubTypeOK, PubTypeOK', NEW feeds \in SUBSET Feed, NEW kinds,
         NEW f \in feeds, NEW p \in Packet, p.msg.kind \in kinds,
         sent'[f] = Append(sent[f], p), Len(sent[f]) < MaxSeq,
         \A g \in feeds \ {f} : Uncounted(g, kinds)
  PROVE  \E x : x \notin Hits(feeds, kinds)
                /\ Hits(feeds, kinds)' = Hits(feeds, kinds) \cup {x}
<1>1. /\ sent[f] \in Seq(Packet) /\ Len(sent[f]) \in Nat
      /\ Len(sent'[f]) = Len(sent[f]) + 1
      /\ \A k \in 1..Len(sent[f]) : sent'[f][k] = sent[f][k]
      /\ sent'[f][Len(sent[f]) + 1] = p
  BY DEF PubTypeOK
<1>2. PICK n : n = Len(sent[f]) + 1 OBVIOUS
<1>3. n \in 1..MaxSeq /\ n > Len(sent[f]) BY <1>1, <1>2, MaxSeqAssumption
<1>4. \A g \in feeds : \A k \in 1..MaxSeq :
        (k <= Len(sent'[g]) /\ sent'[g][k].msg.kind \in kinds)
        <=> \/ k <= Len(sent[g]) /\ sent[g][k].msg.kind \in kinds
            \/ g = f /\ k = n
  <2> TAKE g \in feeds
  <2>1. CASE g = f
    BY <1>1, <1>2, <1>3, <2>1, MaxSeqAssumption
  <2>2. CASE g # f
    BY <2>2, FeedHits
  <2> QED BY <2>1, <2>2
<1>5. <<f, n>> \notin Hits(feeds, kinds)
  BY <1>1, <1>3 DEF Hits
<1>6. Hits(feeds, kinds)' = Hits(feeds, kinds) \cup {<<f, n>>}
  <2>1. <<f, n>> \in feeds \X (1..MaxSeq) BY <1>3
  <2>2. \A x \in feeds \X (1..MaxSeq) :
          x = <<f, n>> <=> (x[1] = f /\ x[2] = n)
    OBVIOUS
  <2>3. \A x \in feeds \X (1..MaxSeq) : x[1] \in feeds /\ x[2] \in 1..MaxSeq
    OBVIOUS
  <2>4. \A x \in feeds \X (1..MaxSeq) :
          x \in Hits(feeds, kinds)' <=> x \in Hits(feeds, kinds) \cup {<<f, n>>}
    BY <1>4, <2>2, <2>3 DEF Hits
  <2>5. /\ Hits(feeds, kinds) \subseteq feeds \X (1..MaxSeq)
        /\ Hits(feeds, kinds)' \subseteq feeds \X (1..MaxSeq)
    BY DEF Hits
  <2> QED BY <2>1, <2>4, <2>5
<1> QED BY <1>5, <1>6

(* What a send does to the tally of some feeds: nothing when it is of      *)
(* another kind or goes to none of them, one more when it goes to one.     *)
LEMMA SendTally ==
  ASSUME PubInv, PubInv', RunInv, LengthsBounded, phase = "ready", ~SendMayFail,
         NEW channels \in SUBSET ChannelNumber, NEW to \in SUBSET Feed,
         NEW msg \in Message, \A f \in to : ChannelOfFeed(f) \in channels,
         Send(channels, to, msg),
         NEW feeds \in SUBSET Feed, NEW kinds, NEW n \in Nat, Tally(feeds, kinds, n)
  PROVE  /\ msg.kind \notin kinds \/ feeds \cap to \cap open = {} =>
              Tally(feeds, kinds, n)'
         /\ \A f \in Feed :
              msg.kind \in kinds /\ feeds \cap to \cap open = {f} =>
                Tally(feeds, kinds, n + 1)'
<1> DEFINE Sent(f) == [seq |-> sequence_numbers'[ChannelOfFeed(f)], msg |-> msg]
<1>1. PubTypeOK /\ PubTypeOK' BY DEF PubInv
<1>2. \A f \in Feed : Sent(f) \in Packet /\ Sent(f).msg = msg
  BY <1>1, FeedChannel DEF PubTypeOK, Packet
<1>3. \A f \in Feed : sent'[f] =
        IF f \in to \cap open THEN Append(sent[f], Sent(f)) ELSE sent[f]
  BY <1>1, SendReaches
<1> HIDE DEF Sent
<1>4. CASE msg.kind \notin kinds \/ feeds \cap to \cap open = {}
  <2>1. \A f \in feeds : Uncounted(f, kinds)
    BY <1>2, <1>3, <1>4 DEF Uncounted
  <2>2. Hits(feeds, kinds)' = Hits(feeds, kinds)
    BY <1>1, <2>1, TallyKeeps
  <2> QED BY <1>4, <2>2 DEF Tally
<1>5. ASSUME NEW f \in Feed, msg.kind \in kinds, feeds \cap to \cap open = {f}
      PROVE  Tally(feeds, kinds, n + 1)'
  <2>1. f \in feeds /\ f \in to /\ f \in open BY <1>5
  <2>2. Len(sent[f]) < MaxSeq
    <3>1. ChannelOfFeed(f) \in channels /\ ChannelOfFeed(f) \in ChannelNumber
      BY <2>1
    <3>2. sequence_numbers[ChannelOfFeed(f)] < MaxSeq BY <3>1 DEF Send
    <3>3. /\ sequence_numbers[ChannelOfFeed(f)] \in Nat /\ sent[f] \in Seq(Packet)
          /\ Len(sent[f]) <= sequence_numbers[ChannelOfFeed(f)]
      BY <1>1, <3>1 DEF PubTypeOK, LengthsBounded
    <3> QED BY <3>2, <3>3, MaxSeqAssumption
  <2>3. \A g \in feeds \ {f} : Uncounted(g, kinds)
    BY <1>3, <1>5 DEF Uncounted
  <2>4. /\ sent'[f] = Append(sent[f], Sent(f)) /\ Sent(f) \in Packet
        /\ Sent(f).msg.kind \in kinds
    BY <1>2, <1>3, <1>5, <2>1
  <2>5. PICK x : x \notin Hits(feeds, kinds)
                 /\ Hits(feeds, kinds)' = Hits(feeds, kinds) \cup {x}
    BY <1>1, <2>1, <2>2, <2>3, <2>4, TallyAdds
  <2> QED BY <2>5, FS_AddElement DEF Tally
<1> QED BY <1>4, <1>5

(* A step that sends no update, snapshot, definition or heartbeat.         *)
LEMMA TallyUnchanged ==
  ASSUME PubTypeOK, PubTypeOK', Tallied, UNCHANGED pub_stats,
         \A f \in Feed : Uncounted(f, {"QUOTE", "TRADE", "SNAPSHOT", "SECDEF", "HEARTBEAT"})
  PROVE  Tallied'
<1>1. ASSUME NEW feeds \in SUBSET Feed,
             NEW kinds \in SUBSET {"QUOTE", "TRADE", "SNAPSHOT", "SECDEF", "HEARTBEAT"}
      PROVE  Hits(feeds, kinds)' = Hits(feeds, kinds)
  <2>1. \A f \in feeds : Uncounted(f, kinds) BY DEF Uncounted
  <2> QED BY <2>1, TallyKeeps
<1>2. /\ Hits(FeedsA, Updates)' = Hits(FeedsA, Updates)
      /\ Hits(FeedsB, Updates)' = Hits(FeedsB, Updates)
      /\ Hits({Snap}, {"SNAPSHOT"})' = Hits({Snap}, {"SNAPSHOT"})
      /\ Hits({SecDef}, {"SECDEF"})' = Hits({SecDef}, {"SECDEF"})
      /\ Hits({IncA}, {"HEARTBEAT"})' = Hits({IncA}, {"HEARTBEAT"})
  BY <1>1, FamiliesAreFeeds DEF Updates
<1> QED BY <1>2 DEF Tallied, Tally
(* A feed grows by one packet at most, and only with its channel's number. *)
LEMMA SendBounded ==
  ASSUME PubInv, PubInv', LengthsBounded, NEW channels \in SUBSET ChannelNumber,
         NEW to \in SUBSET Feed, NEW msg \in Message,
         \A f \in to : ChannelOfFeed(f) \in channels, Send(channels, to, msg)
  PROVE  LengthsBounded'
<1>1. ASSUME NEW f \in Feed
      PROVE  Len(sent'[f]) <= sequence_numbers'[ChannelOfFeed(f)]
  <2>1. /\ ChannelOfFeed(f) \in ChannelNumber /\ sent[f] \in Seq(Packet)
        /\ sequence_numbers[ChannelOfFeed(f)] \in Nat
        /\ Len(sent[f]) \in Nat /\ Len(sent[f]) <= sequence_numbers[ChannelOfFeed(f)]
    BY FeedChannel DEF PubInv, PubTypeOK, LengthsBounded
  <2>2. PICK out \in Outcome(to) : sent'[f] =
          IF f \in out
          THEN Append(sent[f], [seq |-> sequence_numbers'[ChannelOfFeed(f)], msg |-> msg])
          ELSE sent[f]
    BY DEF Send
  <2>3. out \subseteq to BY DEF Outcome
  <2>4. sequence_numbers'[ChannelOfFeed(f)] =
          IF ChannelOfFeed(f) \in channels THEN sequence_numbers[ChannelOfFeed(f)] + 1
                                           ELSE sequence_numbers[ChannelOfFeed(f)]
    BY <2>1 DEF Send
  <2>5. [seq |-> sequence_numbers'[ChannelOfFeed(f)], msg |-> msg] \in Packet
    BY <2>1, <2>4 DEF Packet
  <2>6. Len(sent'[f]) = IF f \in out THEN Len(sent[f]) + 1 ELSE Len(sent[f])
    BY <2>1, <2>2, <2>5
  <2> QED BY <2>1, <2>3, <2>4, <2>6
<1> QED BY <1>1 DEF LengthsBounded

(* The markers of a conflation interval are in no tally. *)
LEMMA EndOfConflationTally ==
  ASSUME PubInv, PubInv', TallyInv, SendEndOfConflation, UNCHANGED pub_stats
  PROVE  TallyInv'
<1>1. PubTypeOK /\ PubTypeOK' BY DEF PubInv
<1>2. CASE ~Conflation
  <2>1. sent' = sent /\ sequence_numbers' = sequence_numbers
    BY <1>2 DEF SendEndOfConflation
  <2>2. LengthsBounded' BY <2>1 DEF TallyInv, LengthsBounded
  <2>3. Tallied => Tallied' BY <1>1, <2>1, TallyUnchanged DEF Uncounted
  <2> QED BY <2>2, <2>3 DEF TallyInv
<1>3. CASE Conflation
  <2> DEFINE eoc == [seq |-> sequence_numbers[0] + 2, msg |-> [kind |-> "EOC"]]
  <2>1. 0 \in ChannelNumber /\ sequence_numbers[0] \in Nat
    BY <1>1 DEF PubTypeOK, ChannelNumber
  <2>2. eoc \in Packet /\ eoc.msg.kind = "EOC"
    BY <2>1 DEF Packet, Message
  <2>3. PICK out \in Outcome({IncA, IncB}) :
          \A f \in Feed : sent'[f] = IF f \in out THEN Append(sent[f], eoc) ELSE sent[f]
    BY <1>3 DEF SendEndOfConflation
  <2>4. out \subseteq {IncA, IncB} BY DEF Outcome
  <2>5. \A c \in ChannelNumber : sequence_numbers'[c] =
          IF c = 0 THEN sequence_numbers[0] + 2 ELSE sequence_numbers[c]
    BY <1>1, <1>3 DEF SendEndOfConflation, PubTypeOK
  <2> HIDE DEF eoc
  <2>6. ASSUME NEW f \in Feed
        PROVE  Len(sent'[f]) <= sequence_numbers'[ChannelOfFeed(f)]
    <3>1. /\ ChannelOfFeed(f) \in ChannelNumber /\ sent[f] \in Seq(Packet)
          /\ sequence_numbers[ChannelOfFeed(f)] \in Nat
          /\ Len(sent[f]) <= sequence_numbers[ChannelOfFeed(f)]
      BY <1>1, FeedChannel DEF PubTypeOK, TallyInv, LengthsBounded
    <3>2. f \in out => ChannelOfFeed(f) = 0 BY <2>4, GlobalFeeds
    <3>3. Len(sent'[f]) = IF f \in out THEN Len(sent[f]) + 1 ELSE Len(sent[f])
      <4>1. CASE f \in out
        <5>1. sent'[f] = Append(sent[f], eoc) BY <2>3, <4>1
        <5> QED BY <2>2, <3>1, <4>1, <5>1
      <4>2. CASE f \notin out BY <2>3, <4>2
      <4> QED BY <4>1, <4>2
    <3>4. Len(sent[f]) \in Nat BY <3>1
    <3> QED BY <2>1, <2>5, <3>1, <3>2, <3>3, <3>4
  <2>7. \A f \in Feed :
          Uncounted(f, {"QUOTE", "TRADE", "SNAPSHOT", "SECDEF", "HEARTBEAT"})
    BY <2>2, <2>3 DEF Uncounted
  <2>8. Tallied => Tallied' BY <1>1, <2>7, TallyUnchanged
  <2> QED BY <2>6, <2>8 DEF TallyInv, LengthsBounded
<1> QED BY <1>2, <1>3

(* What count does to each of the statistics. *)
LEMMA Counted ==
  ASSUME PubTypeOK, NEW counters, Count(counters), NEW s \in DOMAIN NoStatsYet
  PROVE  /\ pub_stats[s] \in Nat
         /\ pub_stats'[s] = IF s \in counters THEN pub_stats[s] + 1 ELSE pub_stats[s]
BY DEF Count, PubTypeOK

(* Every publishing step adds one to each statistic it counts in, and one  *)
(* packet to the feeds of that statistic.                                  *)
LEMMA SendKeepsTally ==
  ASSUME PubInv, PubInv', RunInv, TallyInv, phase = "ready",
         NEW channels \in SUBSET ChannelNumber, NEW to \in SUBSET Feed,
         NEW msg \in Message, \A f \in to : ChannelOfFeed(f) \in channels,
         Send(channels, to, msg), NEW counters, Count(counters),
         msg.kind \in Updates <=> "messages_sent_a" \in counters,
         msg.kind \in Updates <=> "messages_sent_b" \in counters,
         msg.kind = "SNAPSHOT" <=> "snapshots_sent" \in counters,
         msg.kind = "SECDEF" <=> "definitions_sent" \in counters,
         msg.kind = "HEARTBEAT" <=> "heartbeats_sent" \in counters,
         ~SendMayFail /\ msg.kind \in Updates =>
           \E f \in Feed : FeedsA \cap to \cap open = {f},
         ~SendMayFail /\ msg.kind \in Updates /\ IdsOf(ChannelsA) \subseteq IdsOf(ChannelsB)
           => \E f \in Feed : FeedsB \cap to \cap open = {f},
         msg.kind = "SNAPSHOT" => Snap \in to,
         msg.kind = "SECDEF" => SecDef \in to,
         msg.kind = "HEARTBEAT" => IncA \in to
  PROVE  TallyInv'
<1>1. LengthsBounded' BY SendBounded DEF TallyInv
<1>2. ASSUME ~SendMayFail PROVE Tallied'
  <2>1. Tallied /\ LengthsBounded /\ PubTypeOK BY <1>2 DEF TallyInv, PubInv
  <2>2. \A s \in {"messages_sent_a", "messages_sent_b", "snapshots_sent",
                  "definitions_sent", "heartbeats_sent"} :
          /\ pub_stats[s] \in Nat
          /\ pub_stats'[s] = IF s \in counters THEN pub_stats[s] + 1 ELSE pub_stats[s]
    BY <2>1, Counted DEF NoStatsYet
  <2>3. FeedsOpen BY <1>2 DEF RunInv
  <2>4. ASSUME NEW feeds \in SUBSET Feed, NEW kinds, NEW s,
               s \in {"messages_sent_a", "messages_sent_b", "snapshots_sent",
                      "definitions_sent", "heartbeats_sent"},
               Tally(feeds, kinds, pub_stats[s]),
               msg.kind \in kinds <=> s \in counters,
               msg.kind \in kinds => \E f \in Feed : feeds \cap to \cap open = {f}
        PROVE  Tally(feeds, kinds, pub_stats[s])'
    <3>1. PICK n \in Nat : n = pub_stats[s] BY <2>2, <2>4
    <3>2. Tally(feeds, kinds, n) BY <2>4, <3>1
    <3>3. CASE msg.kind \in kinds
      <4>1. PICK f \in Feed : feeds \cap to \cap open = {f} BY <2>4, <3>3
      <4>2. Tally(feeds, kinds, n + 1)'
        BY <1>2, <2>1, <3>2, <3>3, <4>1, SendTally
      <4>3. pub_stats'[s] = n + 1 BY <2>2, <2>4, <3>1, <3>3
      <4> QED BY <4>2, <4>3 DEF Tally
    <3>4. CASE msg.kind \notin kinds
      <4>1. Tally(feeds, kinds, n)' BY <1>2, <2>1, <3>2, <3>4, SendTally
      <4>2. pub_stats'[s] = n BY <2>2, <2>4, <3>1, <3>4
      <4> QED BY <4>1, <4>2 DEF Tally
    <3> QED BY <3>3, <3>4
  <2>5. Tally(FeedsA, Updates, pub_stats.messages_sent_a)'
    BY <1>2, <2>1, <2>4, FamiliesAreFeeds DEF Tallied
  <2>6. IdsOf(ChannelsA) \subseteq IdsOf(ChannelsB) =>
          Tally(FeedsB, Updates, pub_stats.messages_sent_b)'
    BY <1>2, <2>1, <2>4, FamiliesAreFeeds DEF Tallied
  <2>7. ASSUME NEW g \in {Snap, SecDef, IncA}, g \in to
        PROVE  \E f \in Feed : {g} \cap to \cap open = {f}
    <3>1. g \in Feed /\ g \in open BY <2>3, GlobalFeeds DEF FeedsOpen
    <3> QED BY <2>7, <3>1
  <2>8. Tally({Snap}, {"SNAPSHOT"}, pub_stats.snapshots_sent)'
    <3>1. msg.kind \in {"SNAPSHOT"} =>
            \E f \in Feed : {Snap} \cap to \cap open = {f}
      BY <2>7
    <3>2. {Snap} \in SUBSET Feed BY FamiliesAreFeeds
    <3>3. Tally({Snap}, {"SNAPSHOT"}, pub_stats["snapshots_sent"])
      BY <2>1 DEF Tallied
    <3> QED BY <2>4, <3>1, <3>2, <3>3
  <2>9. Tally({SecDef}, {"SECDEF"}, pub_stats.definitions_sent)'
    <3>1. msg.kind \in {"SECDEF"} =>
            \E f \in Feed : {SecDef} \cap to \cap open = {f}
      BY <2>7
    <3>2. {SecDef} \in SUBSET Feed BY FamiliesAreFeeds
    <3>3. Tally({SecDef}, {"SECDEF"}, pub_stats["definitions_sent"])
      BY <2>1 DEF Tallied
    <3> QED BY <2>4, <3>1, <3>2, <3>3
  <2>10. Tally({IncA}, {"HEARTBEAT"}, pub_stats.heartbeats_sent)'
    <3>1. msg.kind \in {"HEARTBEAT"} =>
            \E f \in Feed : {IncA} \cap to \cap open = {f}
      BY <2>7
    <3>2. {IncA} \in SUBSET Feed BY FamiliesAreFeeds
    <3>3. Tally({IncA}, {"HEARTBEAT"}, pub_stats["heartbeats_sent"])
      BY <2>1 DEF Tallied
    <3> QED BY <2>4, <3>1, <3>2, <3>3
  <2> QED BY <2>5, <2>6, <2>8, <2>9, <2>10 DEF Tallied
<1> QED BY <1>1, <1>2 DEF TallyInv
LEMMA TallyInit == PubInit => TallyInv
<1> SUFFICES ASSUME PubInit PROVE TallyInv
  OBVIOUS
<1>1. \A f \in Feed : sent[f] = << >> /\ sequence_numbers[ChannelOfFeed(f)] = 0
  BY FeedChannel DEF PubInit
<1>2. ASSUME NEW feeds \in SUBSET Feed, NEW kinds PROVE Tally(feeds, kinds, 0)
  <2>1. Hits(feeds, kinds) = {} BY <1>1 DEF Hits
  <2> QED BY <2>1, FS_EmptySet DEF Tally
<1>3. \A s \in DOMAIN NoStatsYet : pub_stats[s] = 0
  BY DEF PubInit, NoStatsYet
<1>4. Tallied
  BY <1>2, <1>3, FamiliesAreFeeds DEF Tallied, NoStatsYet
<1> QED BY <1>1, <1>4 DEF TallyInv, LengthsBounded

(* Which feeds are on the A and on the B side. *)
LEMMA SidesOfFeeds ==
  /\ IncA \in FeedsA /\ IncB \in FeedsB /\ IncA \notin FeedsB /\ IncB \notin FeedsA
  /\ \A c \in Channel : /\ ChanA(c) \in FeedsA /\ ChanB(c) \in FeedsB
                        /\ ChanA(c) \notin FeedsB /\ ChanB(c) \notin FeedsA
<1>1. /\ IncA[1] = "INC_A" /\ IncB[1] = "INC_B"
      /\ \A c : ChanA(c)[1] = "CHAN_A" /\ ChanB(c)[1] = "CHAN_B"
  BY DEF IncA, IncB, ChanA, ChanB
<1> QED BY <1>1, GlobalFeeds, ChannelFeeds DEF FeedsA, FeedsB

LEMMA TallyIncremental ==
  ASSUME PubInv, PubInv', RunInv, TallyInv, NEW kind \in {"QUOTE", "TRADE"},
         NEW i \in Instrument, PublishIncremental(kind, i)
  PROVE  TallyInv'
<1> DEFINE msg == [kind |-> kind, instrument |-> i]
           counters == {"messages_sent_a", "messages_sent_b"}
<1>1. PICK c : c = ChannelOf[i] OBVIOUS
<1>2. c \in IdsOf(ChannelsA) \cup {0} BY <1>1, ChannelOfAssumption
<1>3. msg \in Message /\ msg.kind \in Updates
      /\ msg.kind \notin {"SNAPSHOT", "SECDEF", "HEARTBEAT"}
  BY DEF Message, InstrumentKind, Updates
<1>4. phase = "ready" /\ Count(counters) BY DEF PublishIncremental
<1>5. /\ "messages_sent_a" \in counters /\ "messages_sent_b" \in counters
      /\ "snapshots_sent" \notin counters /\ "definitions_sent" \notin counters
      /\ "heartbeats_sent" \notin counters
  OBVIOUS
<1>6. ~SendMayFail => FeedsOpen BY <1>4 DEF RunInv
<1> HIDE DEF msg, counters
<1>7. /\ msg.kind \in Updates <=> "messages_sent_a" \in counters
      /\ msg.kind \in Updates <=> "messages_sent_b" \in counters
      /\ msg.kind = "SNAPSHOT" <=> "snapshots_sent" \in counters
      /\ msg.kind = "SECDEF" <=> "definitions_sent" \in counters
      /\ msg.kind = "HEARTBEAT" <=> "heartbeats_sent" \in counters
      /\ msg.kind # "SNAPSHOT" /\ msg.kind # "SECDEF" /\ msg.kind # "HEARTBEAT"
  BY <1>3, <1>5
<1>8. CASE c > 0 /\ channel_enabled[c]
  <2> DEFINE to == {ChanA(c), ChanB(c)}
  <2>1. Send({c}, to, msg)
    BY <1>1, <1>8 DEF PublishIncremental, msg
  <2>2. c \in Channel /\ c \in IdsOf(ChannelsA)
    BY <1>2, <1>8, ConfiguredChannels
  <2>3. /\ {c} \in SUBSET ChannelNumber /\ to \in SUBSET Feed
        /\ \A f \in to : ChannelOfFeed(f) \in {c}
    BY <2>2, ChannelFeeds DEF ChannelNumber
  <2>4. ~SendMayFail => \E f \in Feed : FeedsA \cap to \cap open = {f}
    <3>1. SUFFICES ASSUME ~SendMayFail PROVE FeedsA \cap to \cap open = {ChanA(c)}
      BY <2>3
    <3>2. ChanA(c) \in open BY <1>6, <2>2, <3>1 DEF FeedsOpen
    <3> QED BY <2>2, <3>2, SidesOfFeeds
  <2>5. ~SendMayFail /\ IdsOf(ChannelsA) \subseteq IdsOf(ChannelsB) =>
          \E f \in Feed : FeedsB \cap to \cap open = {f}
    <3>1. SUFFICES ASSUME ~SendMayFail, IdsOf(ChannelsA) \subseteq IdsOf(ChannelsB)
                   PROVE  FeedsB \cap to \cap open = {ChanB(c)}
      BY <2>3
    <3>2. ChanB(c) \in open BY <1>6, <2>2, <3>1 DEF FeedsOpen
    <3> QED BY <2>2, <3>2, SidesOfFeeds
  <2> HIDE DEF to
  <2> QED BY <1>3, <1>4, <1>7, <2>1, <2>3, <2>4, <2>5, SendKeepsTally
<1>9. CASE ~(c > 0 /\ channel_enabled[c])
  <2> DEFINE channels == {0}
             to == {IncA, IncB}
  <2>1. Send(channels, to, msg)
    BY <1>1, <1>9 DEF PublishIncremental, msg
  <2>2. /\ channels \in SUBSET ChannelNumber /\ to \in SUBSET Feed
        /\ \A f \in to : ChannelOfFeed(f) \in channels
    BY GlobalFeeds DEF ChannelNumber
  <2>3. ~SendMayFail => \E f \in Feed : FeedsA \cap to \cap open = {f}
    <3>1. SUFFICES ASSUME ~SendMayFail PROVE FeedsA \cap to \cap open = {IncA}
      BY <2>2
    <3> QED BY <1>6, <3>1, SidesOfFeeds DEF FeedsOpen
  <2>4. ~SendMayFail => \E f \in Feed : FeedsB \cap to \cap open = {f}
    <3>1. SUFFICES ASSUME ~SendMayFail PROVE FeedsB \cap to \cap open = {IncB}
      BY <2>2
    <3> QED BY <1>6, <3>1, SidesOfFeeds DEF FeedsOpen
  <2> HIDE DEF channels, to
  <2>5. /\ ~SendMayFail /\ msg.kind \in Updates =>
             \E f \in Feed : FeedsA \cap to \cap open = {f}
        /\ ~SendMayFail /\ msg.kind \in Updates /\ IdsOf(ChannelsA) \subseteq IdsOf(ChannelsB)
             => \E f \in Feed : FeedsB \cap to \cap open = {f}
    BY <2>3, <2>4
  <2> QED BY <1>3, <1>4, <1>7, <2>1, <2>2, <2>5, SendKeepsTally
<1> QED BY <1>8, <1>9

LEMMA TallySnapshot ==
  ASSUME PubInv, PubInv', RunInv, TallyInv, NEW i \in Instrument, PublishSnapshot(i)
  PROVE  TallyInv'
<1> DEFINE msg == [kind |-> "SNAPSHOT", instrument |-> i]
<1>1. /\ msg \in Message /\ msg.kind = "SNAPSHOT" /\ msg.kind \notin Updates
  BY DEF Message, InstrumentKind, Updates
<1>2. phase = "ready" /\ Send({0}, {Snap}, msg) /\ Count({"snapshots_sent"})
  BY DEF PublishSnapshot
<1>3. /\ {0} \in SUBSET ChannelNumber /\ {Snap} \in SUBSET Feed
      /\ \A f \in {Snap} : ChannelOfFeed(f) \in {0}
  BY GlobalFeeds DEF ChannelNumber
<1> HIDE DEF msg
<1> QED BY <1>1, <1>2, <1>3, SendKeepsTally

LEMMA TallyDefinition ==
  ASSUME PubInv, PubInv', RunInv, TallyInv, NEW i \in Instrument,
         PublishSecurityDefinition(i)
  PROVE  TallyInv'
<1> DEFINE msg == [kind |-> "SECDEF", instrument |-> i]
<1>1. /\ msg \in Message /\ msg.kind = "SECDEF" /\ msg.kind \notin Updates
  BY DEF Message, InstrumentKind, Updates
<1>2. phase = "ready" /\ Send({0}, {SecDef}, msg) /\ Count({"definitions_sent"})
  BY DEF PublishSecurityDefinition
<1>3. /\ {0} \in SUBSET ChannelNumber /\ {SecDef} \in SUBSET Feed
      /\ \A f \in {SecDef} : ChannelOfFeed(f) \in {0}
  BY GlobalFeeds DEF ChannelNumber
<1> HIDE DEF msg
<1> QED BY <1>1, <1>2, <1>3, SendKeepsTally

LEMMA TallyHeartbeat ==
  ASSUME PubInv, PubInv', RunInv, TallyInv, SendHeartbeat PROVE TallyInv'
<1> DEFINE channels == {0} \cup EnabledChannels
           to == {IncA, IncB} \cup {ChanA(c) : c \in EnabledChannels}
                              \cup {ChanB(c) : c \in EnabledChannels}
           msg == [kind |-> "HEARTBEAT"]
<1>1. /\ msg \in Message /\ msg.kind = "HEARTBEAT" /\ msg.kind \notin Updates
  BY DEF Message, Updates
<1>2. phase = "ready" /\ Send(channels, to, msg) /\ Count({"heartbeats_sent"})
  BY DEF SendHeartbeat
<1>3. EnabledChannels \subseteq Channel BY DEF EnabledChannels
<1>4. channels \in SUBSET ChannelNumber /\ to \in SUBSET Feed
      /\ \A f \in to : ChannelOfFeed(f) \in channels
  BY <1>3, ChannelFeeds, GlobalFeeds DEF ChannelNumber
<1>5. IncA \in to OBVIOUS
<1> HIDE DEF channels, to, msg
<1> QED BY <1>1, <1>2, <1>4, <1>5, SendKeepsTally

LEMMA TallyStep == PubInv /\ PubInv' /\ RunInv /\ TallyInv /\ [PubNext]_pubvars => TallyInv'
<1> SUFFICES ASSUME PubInv, PubInv', RunInv, TallyInv, [PubNext]_pubvars PROVE TallyInv'
  OBVIOUS
<1>1. ASSUME UNCHANGED <<sequence_numbers, pub_stats, sent>> PROVE TallyInv'
  <2>1. PubTypeOK /\ PubTypeOK' BY DEF PubInv
  <2>2. LengthsBounded' BY <1>1 DEF TallyInv, LengthsBounded
  <2>3. Tallied => Tallied' BY <1>1, <2>1, TallyUnchanged DEF Uncounted
  <2> QED BY <2>2, <2>3 DEF TallyInv
<1>2. ASSUME NEW n \in 0..Len(FeedOrder), Initialize(n) PROVE TallyInv'
  BY <1>1, <1>2 DEF Initialize
<1>3. ASSUME EndOfConflation \/ Shutdown PROVE TallyInv'
  BY <1>3, EndOfConflationTally DEF EndOfConflation, Shutdown
<1>4. ASSUME NEW c \in Channel, NEW enabled \in BOOLEAN, EnableChannel(c, enabled)
      PROVE  TallyInv'
  BY <1>1, <1>4 DEF EnableChannel
<1>5. ASSUME UNCHANGED pubvars PROVE TallyInv'
  BY <1>1, <1>5 DEF pubvars
<1> QED BY <1>2, <1>3, <1>4, <1>5, TallyIncremental, TallySnapshot, TallyDefinition,
           TallyHeartbeat DEF PubNext

(* As long as no send fails the statistics count the packets: updates on   *)
(* either side whichever route they took, snapshots, definitions and       *)
(* heartbeats, before, during and after the run of the publisher.          *)
THEOREM StatsAlwaysAccount == PubSpec => []StatsAccount
<1>1. TallyInv => StatsAccount
  BY DEF TallyInv, Tallied, Tally, Hits, FeedsA, FeedsB, Updates, StatsAccount, PacketsOf
<1> QED BY <1>1, TallyInit, TallyStep, RunInvariant, PTL DEF PubSpec
=============================================================================
