----------------------------- MODULE ClientProofs -----------------------------
(***************************************************************************)
(* What the client makes of every packet the server can send, for every    *)
(* number below 2^32, every time and every depth of a snapshot, and that   *)
(* its socket and its connection end together.                             *)
(***************************************************************************)
EXTENDS Client, TLAPS

(* The packets that can be in the network. *)
Number == {m \in Nat \ {0} : Fits(m)}

Sendable ==
  {Packet(kind, n, time, entries) :
     kind \in Kind \ {"EOC"}, n \in Number, time \in Times, entries \in Nat}
    \cup {Marker(n, made, time) : n \in Number, made \in Times, time \in Times}

(* Two facts of arithmetic about the words of a number. *)
LEMMA WordsOfNumber ==
  ASSUME NEW n \in Nat, Fits(n)
  PROVE  /\ SequenceWord(n, 0) \in Word
         /\ SequenceWord(n, 2) \in Word
         /\ SequenceWord(n, 4) = 0 /\ SequenceWord(n, 6) = 0
         /\ SequenceWord(n, 0) \in 1..999 /\ SequenceWord(n, 2) \in 1..50
              <=> NumberReadsAsHeader(n)
<1>1. /\ SequenceWord(n, 0) = n % 65536
      /\ SequenceWord(n, 2) = (n \div 65536) % 65536
      /\ SequenceWord(n, 4) = 0 /\ SequenceWord(n, 6) = 0
  BY DEF SequenceWord
<1> DEFINE q == n \div 65536
           r == n % 65536
<1>2. q \in Nat /\ r \in Nat /\ r < 65536 /\ n = (65536 * q) + r
  OBVIOUS
<1>3. q < 65536
  BY DEF Fits
<1> HIDE DEF q, r
<1>4. q % 65536 = q
  BY <1>2, <1>3
<1>5. q \in 1..50 <=> 65536 <= n /\ n < 51 * 65536
  BY <1>2
<1>6. SequenceWord(n, 0) = r /\ SequenceWord(n, 2) = q
  BY <1>1, <1>4 DEF q, r
<1>7. NumberReadsAsHeader(n) <=> r \in 1..999 /\ q \in 1..50
  BY <1>5 DEF NumberReadsAsHeader, r
<1>8. SequenceWord(n, 0) \in Word /\ SequenceWord(n, 2) \in Word
  BY <1>2, <1>3, <1>6 DEF Word
<1>9. SequenceWord(n, 0) \in 1..999 /\ SequenceWord(n, 2) \in 1..50
        <=> NumberReadsAsHeader(n)
  BY <1>6, <1>7
<1> QED
  BY <1>1, <1>8, <1>9

(* A packet of the server as its fields. *)
LEMMA PacketFields ==
  ASSUME NEW p \in Sendable
  PROVE  /\ p.kind \in Kind
         /\ p.seq \in Nat \ {0} /\ Fits(p.seq)
         /\ p.time \in [1..4 -> Word] /\ p.time[4] > 50
         /\ p.made \in [1..4 -> Word]
         /\ p.length \in Nat /\ p.length >= 28
         /\ p.length \in 1..50 => p.kind \in {"HEARTBEAT", "EOC"}
         /\ p.kind = "HEARTBEAT" => p.length = 28
         /\ p.kind = "EOC" => p.length = 43
<1>1. PICK kind \in Kind, n \in Number, made \in Times, time \in Times, entries \in Nat :
        /\ p.kind = kind /\ p.seq = n /\ p.time = time /\ p.made = made
        /\ p.length = 20 + MessageLength(kind, entries)
  <2>1. CASE \E kind \in Kind \ {"EOC"}, n \in Number, time \in Times, entries \in Nat :
               p = Packet(kind, n, time, entries)
    BY <2>1 DEF Packet
  <2>2. CASE \E n \in Number, made \in Times, time \in Times : p = Marker(n, made, time)
    <3>1. PICK n \in Number, made \in Times, time \in Times : p = Marker(n, made, time)
      BY <2>2
    <3>2. /\ p.kind = "EOC" /\ p.seq = n /\ p.time = time /\ p.made = made
          /\ p.length = 20 + MessageLength("EOC", 0)
      BY <3>1 DEF Marker, Packet
    <3> QED BY <3>2 DEF Kind
  <2> QED BY <2>1, <2>2 DEF Sendable
<1>2. p.kind = kind /\ p.seq = n /\ p.time = time /\ p.made = made
      /\ p.length = 20 + MessageLength(kind, entries)
  BY <1>1
<1>3. /\ MessageLength(kind, entries) \in Nat
      /\ MessageLength(kind, entries) >= 8
      /\ MessageLength(kind, entries) < 31 => kind \in {"HEARTBEAT", "EOC"}
      /\ kind = "HEARTBEAT" => MessageLength(kind, entries) = 8
      /\ kind = "EOC" => MessageLength(kind, entries) = 23
  <2>1. CASE kind = "HEARTBEAT"
    BY <2>1 DEF MessageLength, BlockLength
  <2>2. CASE kind = "SECDEF"
    BY <2>2 DEF MessageLength, BlockLength
  <2>3. CASE kind = "SNAPSHOT"
    BY <2>3 DEF MessageLength
  <2>4. CASE kind = "QUOTE"
    BY <2>4 DEF MessageLength
  <2>5. CASE kind = "TRADE"
    BY <2>5 DEF MessageLength
  <2>6. CASE kind = "EOC"
    BY <2>6 DEF MessageLength
  <2> QED
    BY <2>1, <2>2, <2>3, <2>4, <2>5, <2>6 DEF Kind
<1>4. time \in [1..4 -> Word] /\ time[4] > 50 /\ made \in [1..4 -> Word]
  <2>1. Times \subseteq [1..4 -> Word] /\ \A t \in Times : t[4] > 50
    BY TimesAssumption
  <2> QED
    BY <2>1
<1>5. p.kind \in Kind /\ p.seq \in Nat \ {0} /\ Fits(p.seq)
  BY <1>2 DEF Number
<1>6. p.time \in [1..4 -> Word] /\ p.time[4] > 50 /\ p.made \in [1..4 -> Word]
  BY <1>2, <1>4
<1> QED
  BY <1>2, <1>3, <1>5, <1>6

-----------------------------------------------------------------------------
(* The words of a packet at which the search looks. *)
LEMMA PacketWords ==
  ASSUME NEW p \in Sendable
  PROVE  /\ WordAt(p, 0) = SequenceWord(p.seq, 0)
         /\ WordAt(p, 2) = SequenceWord(p.seq, 2)
         /\ WordAt(p, 4) = SequenceWord(p.seq, 4)
         /\ WordAt(p, 6) = SequenceWord(p.seq, 6)
         /\ WordAt(p, 8) = p.time[1] /\ WordAt(p, 10) = p.time[2]
         /\ WordAt(p, 12) = p.time[3] /\ WordAt(p, 14) = p.time[4]
         /\ WordAt(p, 16) = 276 /\ WordAt(p, 18) = p.length
         /\ \A k \in {0, 2, 4, 6, 8, 10, 12, 14, 16} :
              WordAt(p, 20 + k) = MessageWord(p, k)
<1>1. /\ WordAt(p, 0) = SequenceWord(p.seq, 0)
      /\ WordAt(p, 2) = SequenceWord(p.seq, 2)
      /\ WordAt(p, 4) = SequenceWord(p.seq, 4)
      /\ WordAt(p, 6) = SequenceWord(p.seq, 6)
  BY DEF WordAt
<1>2. /\ WordAt(p, 8) = p.time[1] /\ WordAt(p, 10) = p.time[2]
      /\ WordAt(p, 12) = p.time[3] /\ WordAt(p, 14) = p.time[4]
  BY DEF WordAt, TimeWord
<1>3. WordAt(p, 16) = 276 /\ WordAt(p, 18) = p.length
  BY DEF WordAt
<1>4. ASSUME NEW k \in {0, 2, 4, 6, 8, 10, 12, 14, 16}
      PROVE  WordAt(p, 20 + k) = MessageWord(p, k)
  BY DEF WordAt
<1> QED
  BY <1>1, <1>2, <1>3, <1>4

(* Which offsets before the message read as a header. *)
LEMMA HeaderPart ==
  ASSUME NEW p \in Sendable
  PROVE  /\ LooksLikeHeader(p, 0) <=> NumberReadsAsHeader(p.seq)
         /\ ~LooksLikeHeader(p, 4)
         /\ LooksLikeHeader(p, 8) <=> TimeReadsAsHeader(p.time)
         /\ ~LooksLikeHeader(p, 12)
         /\ LooksLikeHeader(p, 16) <=> p.length \in 1..50 /\ WordAt(p, 20) < 1000
<1>1. /\ p.seq \in Nat /\ Fits(p.seq)
      /\ p.time \in [1..4 -> Word] /\ p.time[4] > 50
  BY PacketFields
<1>2. LooksLikeHeader(p, 0) <=> NumberReadsAsHeader(p.seq)
  <2>1. WordAt(p, 0) = SequenceWord(p.seq, 0)
        /\ WordAt(p, 2) = SequenceWord(p.seq, 2) /\ WordAt(p, 4) = 0
    BY <1>1, PacketWords, WordsOfNumber
  <2>2. SequenceWord(p.seq, 0) \in 1..999 /\ SequenceWord(p.seq, 2) \in 1..50
          <=> NumberReadsAsHeader(p.seq)
    BY <1>1, WordsOfNumber
  <2>3. LooksLikeHeader(p, 0) <=>
          WordAt(p, 2) \in 1..50 /\ WordAt(p, 0) \in 1..999 /\ WordAt(p, 4) < 1000
    BY DEF LooksLikeHeader
  <2> QED
    BY <2>1, <2>2, <2>3
<1>3. ~LooksLikeHeader(p, 4)
  BY <1>1, PacketWords, WordsOfNumber DEF LooksLikeHeader
<1>4. LooksLikeHeader(p, 8) <=> TimeReadsAsHeader(p.time)
  BY PacketWords DEF LooksLikeHeader, TimeReadsAsHeader
<1>5. ~LooksLikeHeader(p, 12)
  BY <1>1, PacketWords DEF LooksLikeHeader, Word
<1>6. LooksLikeHeader(p, 16) <=> p.length \in 1..50 /\ WordAt(p, 20) < 1000
  BY PacketWords DEF LooksLikeHeader
<1> QED
  BY <1>2, <1>3, <1>4, <1>5, <1>6

(* Which offsets inside the message read as a header. *)
LEMMA MessagePart ==
  ASSUME NEW p \in Sendable
  PROVE  /\ p.kind \in {"SECDEF", "SNAPSHOT", "QUOTE"} => LooksLikeHeader(p, 20)
         /\ p.kind = "TRADE" =>
              \A o \in {20, 24, 28, 32} : ~LooksLikeHeader(p, o)
         /\ p.kind = "EOC" =>
              /\ LooksLikeHeader(p, 16) <=> (p.seq - 1) % 65536 < 1000
              /\ LooksLikeHeader(p, 20) => LooksLikeHeader(p, 16)
              /\ ~LooksLikeHeader(p, 24) /\ ~LooksLikeHeader(p, 28)
              /\ LooksLikeHeader(p, 32) <=> TimeReadsAsHeader(p.made)
              /\ WordAt(p, 34) = p.made[2]
<1>1. ASSUME NEW k \in {0, 2, 4, 6, 8, 10, 12, 14, 16}
      PROVE  WordAt(p, 20 + k) = MessageWord(p, k)
  BY PacketWords
<1>2. /\ WordAt(p, 20) = MessageWord(p, 0)  /\ WordAt(p, 22) = MessageWord(p, 2)
      /\ WordAt(p, 24) = MessageWord(p, 4)  /\ WordAt(p, 26) = MessageWord(p, 6)
      /\ WordAt(p, 28) = MessageWord(p, 8)  /\ WordAt(p, 30) = MessageWord(p, 10)
      /\ WordAt(p, 32) = MessageWord(p, 12) /\ WordAt(p, 34) = MessageWord(p, 14)
      /\ WordAt(p, 36) = MessageWord(p, 16)
  BY <1>1
<1>3. ASSUME p.kind \in {"SECDEF", "SNAPSHOT", "QUOTE"}
      PROVE  LooksLikeHeader(p, 20)
  <2>1. /\ MessageWord(p, 0) = BlockLength(p.kind)
        /\ MessageWord(p, 2) = TemplateId(p.kind) /\ MessageWord(p, 4) = 101
    BY <1>3 DEF MessageWord
  <2>2. BlockLength(p.kind) \in 1..999 /\ TemplateId(p.kind) \in 1..50
    BY <1>3 DEF BlockLength, TemplateId
  <2> QED
    BY <1>2, <2>1, <2>2 DEF LooksLikeHeader
<1>4. ASSUME p.kind = "TRADE", NEW o \in {20, 24, 28, 32}
      PROVE  ~LooksLikeHeader(p, o)
  <2>1. /\ MessageWord(p, 2) = 111 /\ MessageWord(p, 8) = 1001
        /\ MessageWord(p, 10) = 0  /\ MessageWord(p, 14) = 0
    BY <1>4 DEF MessageWord, TemplateId, SecurityID
  <2> QED
    BY <1>2, <2>1 DEF LooksLikeHeader
<1>5. ASSUME p.kind = "EOC"
      PROVE  /\ LooksLikeHeader(p, 16) <=> (p.seq - 1) % 65536 < 1000
             /\ LooksLikeHeader(p, 20) => LooksLikeHeader(p, 16)
             /\ ~LooksLikeHeader(p, 24) /\ ~LooksLikeHeader(p, 28)
             /\ LooksLikeHeader(p, 32) <=> TimeReadsAsHeader(p.made)
             /\ WordAt(p, 34) = p.made[2]
  <2>1. /\ MessageWord(p, 6) = 0 /\ MessageWord(p, 10) = 0
        /\ MessageWord(p, 12) = p.made[1] /\ MessageWord(p, 14) = p.made[2]
        /\ MessageWord(p, 16) = p.made[3]
    BY <1>5 DEF MessageWord, MarkerWord, SequenceWord, TimeWord
  <2>2. p.length = 43
    BY <1>5, PacketFields
  <2>3. LooksLikeHeader(p, 16) <=> WordAt(p, 20) < 1000
    BY <2>2, HeaderPart
  <2>4. WordAt(p, 20) = (p.seq - 1) % 65536
    <3>1. MessageWord(p, 0) = MarkerWord(p, 0)
      BY <1>5 DEF MessageWord
    <3>2. MarkerWord(p, 0) = SequenceWord(p.seq - 1, 0)
      BY DEF MarkerWord
    <3> QED
      BY <1>2, <3>1, <3>2 DEF SequenceWord
  <2>5. LooksLikeHeader(p, 20) => WordAt(p, 20) < 1000
    <3>1. LooksLikeHeader(p, 20) => WordAt(p, 20) \in 1..999
      BY DEF LooksLikeHeader
    <3> QED
      BY <3>1
  <2>6. ~LooksLikeHeader(p, 24) /\ ~LooksLikeHeader(p, 28)
    BY <1>2, <2>1 DEF LooksLikeHeader
  <2>7. LooksLikeHeader(p, 32) <=> TimeReadsAsHeader(p.made)
    BY <1>2, <2>1 DEF LooksLikeHeader, TimeReadsAsHeader
  <2> QED
    BY <1>2, <2>1, <2>3, <2>4, <2>5, <2>6, <2>7
<1> QED
  BY <1>3, <1>4, <1>5

(* First is the least of the offsets. *)
LEMMA FirstIsLeast ==
  ASSUME NEW S, S \subseteq Int, NEW m \in S, \A q \in S : m <= q
  PROVE  First(S) = m
<1>1. First(S) \in S /\ \A q \in S : First(S) <= q
  BY DEF First
<1>2. First(S) \in Int /\ m \in Int /\ First(S) <= m /\ m <= First(S)
  BY <1>1
<1> QED
  BY <1>2

(* The offsets that the search visits. *)
LEMMA SearchedOffsets ==
  ASSUME NEW p \in Sendable
  PROVE  /\ Searched(p) \subseteq {0, 4, 8, 12, 16, 20, 24, 28, 32}
         /\ {0, 8, 16, 20} \subseteq Searched(p)
         /\ p.kind = "EOC" => 32 \in Searched(p)
<1>1. p.length \in Nat /\ p.length >= 28
  BY PacketFields
<1>2. {4 * j : j \in 0..8} = {0, 4, 8, 12, 16, 20, 24, 28, 32}
  OBVIOUS
<1>3. /\ Searched(p) \subseteq {0, 4, 8, 12, 16, 20, 24, 28, 32}
      /\ {0, 8, 16, 20} \subseteq Searched(p)
  BY <1>1, <1>2 DEF Searched
<1>4. ASSUME p.kind = "EOC" PROVE 32 \in Searched(p)
  <2>1. p.length = 43
    BY <1>4, PacketFields
  <2> QED
    BY <1>2, <2>1 DEF Searched
<1> QED
  BY <1>3, <1>4

-----------------------------------------------------------------------------
(* What parse_message makes of a packet. *)
LEMMA ParsedAt ==
  ASSUME NEW p, NEW o \in HeaderOffsets(p), HeaderOffsets(p) \subseteq Int,
         \A q \in HeaderOffsets(p) : o <= q
  PROVE  Parse(p) = [offset |-> o,
                     parser |-> ParseSbe(WordAt(p, o + 2), p.length - o)]
<1>1. First(HeaderOffsets(p)) = o
  BY FirstIsLeast
<1> QED
  BY <1>1 DEF Parse

LEMMA MarkerNumber ==
  ASSUME NEW p \in Sendable
  PROVE  (p.seq - 1) % 65536 \in Nat
BY PacketFields

LEMMA ParseOfPacket ==
  ASSUME NEW p \in Sendable
  PROVE  /\ Parse(p).parser \in Parser
         /\ p.kind \in {"SECDEF", "SNAPSHOT", "QUOTE"} =>
              (Parse(p).offset = 20 <=> ~Misread(p))
         /\ Parse(p).parser = "OVERRUN" <=>
              \/ p.kind = "HEARTBEAT" /\ ~Misread(p)
              \/ MarkerMisread(p) /\ p.made[2] \notin {1, 12, 13, 14}
         /\ Parse(p).parser \notin {"RAW", "OVERRUN"} => Misread(p) \/ MarkerMisread(p)
<1> DEFINE H == HeaderOffsets(p)
<1>1. /\ p.kind \in Kind /\ p.length \in Nat /\ p.length >= 28
      /\ p.length \in 1..50 => p.kind \in {"HEARTBEAT", "EOC"}
      /\ p.kind = "HEARTBEAT" => p.length = 28
      /\ p.kind = "EOC" => p.length = 43
  BY PacketFields
<1>2. /\ H \subseteq {0, 4, 8, 12, 16, 20, 24, 28, 32}
      /\ \A o \in {0, 8, 16, 20} : o \in H <=> LooksLikeHeader(p, o)
      /\ \A o \in H : LooksLikeHeader(p, o)
  BY SearchedOffsets DEF HeaderOffsets
<1>3. 4 \notin H /\ 12 \notin H
  BY <1>2, HeaderPart
<1>4. CASE Misread(p)
  <2>1. PICK o \in {0, 8} : o \in H /\ \A q \in H : o <= q
    <3>1. CASE NumberReadsAsHeader(p.seq)
      BY <1>2, <3>1, HeaderPart
    <3>2. CASE ~NumberReadsAsHeader(p.seq)
      <4>1. TimeReadsAsHeader(p.time)
        BY <1>4, <3>2 DEF Misread
      <4>2. 0 \notin H /\ 8 \in H
        BY <1>2, <3>2, <4>1, HeaderPart
      <4> QED
        BY <1>2, <1>3, <4>2
    <3> QED
      BY <3>1, <3>2
  <2>2. Parse(p) = [offset |-> o,
                    parser |-> ParseSbe(WordAt(p, o + 2), p.length - o)]
    BY <1>2, <2>1, ParsedAt
  <2>3. DecodeRaw((p.length - o) - 8) = "RAW"
    BY <1>1, <2>1 DEF DecodeRaw
  <2>4. ParseSbe(WordAt(p, o + 2), p.length - o)
          \in {"HEARTBEAT", "SECDEF", "FULL", "INCREMENTAL", "RAW"}
    BY <2>3 DEF ParseSbe
  <2> QED
    BY <1>4, <2>1, <2>2, <2>4 DEF Parser, MarkerMisread
<1>5. CASE ~Misread(p)
  <2>1. 0 \notin H /\ 8 \notin H
    BY <1>2, <1>5, HeaderPart DEF Misread
  <2>2. CASE p.kind \in {"SECDEF", "SNAPSHOT", "QUOTE"}
    <3>1. 16 \notin H /\ 20 \in H
      BY <1>1, <1>2, <2>2, HeaderPart, MessagePart
    <3>2. \A q \in H : 20 <= q
      BY <1>2, <1>3, <2>1, <3>1
    <3>3. Parse(p) = [offset |-> 20, parser |-> ParseSbe(WordAt(p, 22), p.length - 20)]
      BY <1>2, <3>1, <3>2, ParsedAt
    <3>4. WordAt(p, 22) = MessageWord(p, 2)
      <4>1. \A k \in {0, 2, 4, 6, 8, 10, 12, 14, 16} :
              WordAt(p, 20 + k) = MessageWord(p, k)
        BY PacketWords
      <4> QED
        BY <4>1
    <3>5. WordAt(p, 22) \in {18, 20, 21}
      BY <2>2, <3>4 DEF MessageWord, TemplateId
    <3>6. p.length > 50
      BY <1>1, <2>2
    <3>7. ParseSbe(WordAt(p, 22), p.length - 20) = "RAW"
      BY <1>1, <3>5, <3>6 DEF ParseSbe, DecodeRaw
    <3> QED
      BY <1>5, <2>2, <3>3, <3>7 DEF Parser, MarkerMisread
  <2>3. CASE p.kind = "HEARTBEAT"
    <3>1. WordAt(p, 20) = MessageWord(p, 0)
      <4>1. \A k \in {0, 2, 4, 6, 8, 10, 12, 14, 16} :
              WordAt(p, 20 + k) = MessageWord(p, k)
        BY PacketWords
      <4> QED
        BY <4>1
    <3>2. WordAt(p, 20) = 0
      BY <2>3, <3>1 DEF MessageWord, BlockLength
    <3>3. 16 \in H /\ \A q \in H : 16 <= q
      BY <1>1, <1>2, <1>3, <2>1, <2>3, <3>2, HeaderPart
    <3>4. Parse(p) = [offset |-> 16, parser |-> ParseSbe(WordAt(p, 18), p.length - 16)]
      BY <1>2, <3>3, ParsedAt
    <3>5. ParseSbe(WordAt(p, 18), p.length - 16) = "OVERRUN"
      BY <1>1, <2>3, PacketWords DEF ParseSbe, DecodeRaw
    <3> QED
      BY <1>5, <2>3, <3>4, <3>5 DEF Parser, MarkerMisread
  <2>4. CASE p.kind = "TRADE"
    <3>1. H = {}
      BY <1>1, <1>2, <1>3, <2>1, <2>4, HeaderPart, MessagePart
    <3>2. Parse(p) = [offset |-> -1, parser |-> DecodeRaw(p.length)]
      BY <3>1 DEF Parse
    <3> QED
      BY <1>1, <2>4, <3>2 DEF Parser, DecodeRaw, MarkerMisread
  <2>5. CASE p.kind = "EOC"
    <3>1. CASE LooksLikeHeader(p, 16)
      <4>1. 16 \in H /\ \A q \in H : 16 <= q
        BY <1>2, <1>3, <2>1, <3>1
      <4>2. Parse(p) = [offset |-> 16,
                        parser |-> ParseSbe(WordAt(p, 18), p.length - 16)]
        BY <1>2, <4>1, ParsedAt
      <4>3. ParseSbe(WordAt(p, 18), p.length - 16) = "RAW"
        BY <1>1, <2>5, PacketWords DEF ParseSbe, DecodeRaw
      <4>4. ~MarkerMisread(p)
        BY <2>5, <3>1, MessagePart, MarkerNumber DEF MarkerMisread
      <4> QED
        BY <2>5, <4>2, <4>3, <4>4 DEF Parser
    <3>2. ASSUME ~LooksLikeHeader(p, 16)
          PROVE  /\ H \subseteq {32} /\ (32 \in H <=> TimeReadsAsHeader(p.made))
                 /\ MarkerMisread(p) <=> TimeReadsAsHeader(p.made)
      <4>1. ~LooksLikeHeader(p, 20) /\ ~LooksLikeHeader(p, 24) /\ ~LooksLikeHeader(p, 28)
            /\ (LooksLikeHeader(p, 32) <=> TimeReadsAsHeader(p.made))
        BY <2>5, <3>2, MessagePart
      <4>2. H \subseteq {32}
        BY <1>2, <1>3, <2>1, <3>2, <4>1
      <4>3. 32 \in H <=> TimeReadsAsHeader(p.made)
        BY <2>5, <4>1, SearchedOffsets DEF HeaderOffsets
      <4>4. (p.seq - 1) % 65536 >= 1000
        BY <2>5, <3>2, MessagePart, MarkerNumber
      <4> QED
        BY <1>5, <2>5, <4>2, <4>3, <4>4 DEF MarkerMisread
    <3>3. CASE ~LooksLikeHeader(p, 16) /\ ~TimeReadsAsHeader(p.made)
      <4>1. H = {} /\ ~MarkerMisread(p)
        BY <3>2, <3>3
      <4>2. Parse(p) = [offset |-> -1, parser |-> DecodeRaw(p.length)]
        BY <4>1 DEF Parse
      <4> QED
        BY <1>1, <2>5, <4>1, <4>2 DEF Parser, DecodeRaw
    <3>4. CASE ~LooksLikeHeader(p, 16) /\ TimeReadsAsHeader(p.made)
      <4>1. H = {32} /\ MarkerMisread(p)
        BY <3>2, <3>4
      <4>2. Parse(p) = [offset |-> 32, parser |-> ParseSbe(WordAt(p, 34), p.length - 32)]
        BY <4>1, ParsedAt
      <4>3. WordAt(p, 34) = p.made[2] /\ p.made[2] \in 1..50
        BY <2>5, <3>4, MessagePart DEF TimeReadsAsHeader
      <4>4. DecodeRaw((p.length - 32) - 8) = "OVERRUN"
        BY <1>1, <2>5 DEF DecodeRaw
      <4>5. CASE p.made[2] \in {1, 12, 13, 14}
        <5>1. ParseSbe(p.made[2], p.length - 32)
                \in {"HEARTBEAT", "SECDEF", "FULL", "INCREMENTAL"}
          BY <4>5 DEF ParseSbe
        <5> QED
          BY <2>5, <4>1, <4>2, <4>3, <4>5, <5>1 DEF Parser
      <4>6. CASE p.made[2] \notin {1, 12, 13, 14}
        <5>1. p.made[2] \notin {0, 1}
          BY <4>3, <4>6
        <5>2. ParseSbe(p.made[2], p.length - 32) = "OVERRUN"
          BY <4>4, <4>6, <5>1 DEF ParseSbe
        <5> QED
          BY <2>5, <4>1, <4>2, <4>3, <4>6, <5>2 DEF Parser
      <4> QED
        BY <4>5, <4>6
    <3> QED
      BY <3>1, <3>3, <3>4
  <2> QED
    BY <1>1, <2>2, <2>3, <2>4, <2>5 DEF Kind
<1> QED
  BY <1>4, <1>5

-----------------------------------------------------------------------------
(* The invariant: what is in the network was sent by the server, what was  *)
(* handled is in the network and was parsed as Parse says, and the socket, *)
(* the connection and the place in main agree.                             *)
HandledAsParsed ==
  handled # Nothing =>
    /\ handled.packet \in net
    /\ handled.kind = handled.packet.kind
    /\ handled.result = Parse(handled.packet)

Connected ==
  /\ m_socket \in {-1, 3} /\ m_is_connected \in BOOLEAN
  /\ m_is_connected <=> m_socket # -1
  /\ pc \in {"connect", "exit", "failed"} => m_socket = -1

Inv ==
  /\ pc \in {"connect", "while", "process", "exit", "failed", "crashed"}
  /\ g_running \in BOOLEAN
  /\ feed \in DOMAIN Carries
  /\ next_number \in Nat \ {0}
  /\ net \subseteq Sendable
  /\ HandledAsParsed
  /\ Connected

LEMMA InitInv == Init => Inv
<1> SUFFICES ASSUME Init PROVE Inv
  OBVIOUS
<1> QED
  BY FirstNumbersAssumption DEF Init, Inv, HandledAsParsed, Connected

LEMMA TransmitKeeps ==
  ASSUME Inv, NEW p \in Sendable, p.seq \in Number, Transmit(p)
  PROVE  Inv'
<1>1. net' \subseteq Sendable /\ net \subseteq net'
  BY DEF Transmit, Inv
<1>2. next_number' \in Nat \ {0}
  BY DEF Transmit, Number
<1> QED
  BY <1>1, <1>2 DEF Transmit, Inv, HandledAsParsed, Connected

LEMMA NextInv == Inv /\ [Next]_vars => Inv'
<1> SUFFICES ASSUME Inv, [Next]_vars PROVE Inv'
  OBVIOUS
<1> USE DEF Inv, HandledAsParsed, Connected
<1>1. CASE Connect
  BY <1>1 DEF Connect, server
<1>2. CASE ConnectFails
  BY <1>2 DEF ConnectFails, server
<1>3. CASE LoopTest
  BY <1>3 DEF LoopTest, Disconnect, server
<1>4. CASE ReceiveNothing
  BY <1>4 DEF ReceiveNothing, server
<1>5. ASSUME NEW p \in net, Receive(p) PROVE Inv'
  <2>1. handled' = [kind |-> p.kind, packet |-> p, result |-> Parse(p)]
        /\ pc' \in {"crashed", "while"}
        /\ UNCHANGED <<g_running, m_socket, m_is_connected, server>>
    BY <1>5 DEF Receive
  <2> QED
    BY <2>1 DEF server
<1>6. ASSUME NEW kind \in Kind, NEW time \in Times, NEW entries \in Depths,
             NEW missed \in {0, 1}, Send(kind, time, entries, missed)
      PROVE  Inv'
  <2> DEFINE p == Packet(kind, next_number + missed, time, entries)
  <2>1. p.seq = next_number + missed
    BY DEF Packet
  <2>2. p.seq \in Number /\ kind # "EOC" /\ Transmit(p)
    BY <1>6, <2>1 DEF Send, Transmit, Number
  <2>3. p \in Sendable
    BY <2>1, <2>2, DepthsAssumption DEF Sendable
  <2> QED
    BY <2>2, <2>3, TransmitKeeps
<1>7. CASE Signal
  BY <1>7 DEF Signal, server
<1>8. CASE UNCHANGED vars
  BY <1>8 DEF vars
<1>9. ASSUME NEW made \in Times, NEW time \in Times, NEW missed \in {0, 1},
             SendEndOfConflation(made, time, missed)
      PROVE  Inv'
  <2> DEFINE p == Marker(next_number + missed + 1, made, time)
  <2>1. p.seq = next_number + missed + 1
    BY DEF Marker, Packet
  <2>2. p.seq \in Number /\ Transmit(p)
    BY <1>9, <2>1 DEF SendEndOfConflation, Transmit, Number
  <2>3. p \in Sendable
    BY <2>1, <2>2 DEF Sendable
  <2> QED
    BY <2>2, <2>3, TransmitKeeps
<1> QED
  BY <1>1, <1>2, <1>3, <1>4, <1>5, <1>6, <1>7, <1>8, <1>9 DEF Next, Main

LEMMA ClientInvariant == Spec => []Inv
<1> QED
  BY InitInv, NextInv, PTL DEF Spec

LEMMA InvImplies ==
  Inv => TypeOK /\ HeaderFound /\ OverrunExplained /\ ParsersGetMisreads
         /\ SocketReleased
<1> SUFFICES ASSUME Inv
             PROVE  TypeOK /\ HeaderFound /\ OverrunExplained
                    /\ ParsersGetMisreads /\ SocketReleased
  OBVIOUS
<1>1. SocketReleased
  BY DEF Inv, Connected, SocketReleased
<1>2. ASSUME handled # Nothing
      PROVE  /\ handled.packet \in Sendable /\ handled.packet \in net
             /\ handled.kind = handled.packet.kind
             /\ handled.result = Parse(handled.packet)
  BY <1>2 DEF Inv, HandledAsParsed
<1>3. \A p \in net : p.kind \in Kind
  BY PacketFields DEF Inv
<1>4. handled # Nothing => handled.result.parser \in Parser
  BY <1>2, ParseOfPacket
<1>5. TypeOK
  BY <1>2, <1>3, <1>4 DEF Inv, Connected, TypeOK
<1>6. HeaderFound
  BY <1>2, ParseOfPacket DEF HeaderFound
<1>7. OverrunExplained
  BY <1>2, ParseOfPacket DEF OverrunExplained
<1>8. ParsersGetMisreads
  BY <1>2, ParseOfPacket DEF ParsersGetMisreads
<1> QED
  BY <1>1, <1>5, <1>6, <1>7, <1>8

(* Every variable of the client stays in its type. *)
THEOREM ClientTypeCorrect == Spec => []TypeOK
<1> QED
  BY ClientInvariant, InvImplies, PTL

(* parse_message finds the header of a definition, snapshot or quote where *)
(* the encoder put it unless the number or the time reads as a header, for *)
(* every number below 2^32, every time and every depth of a snapshot.      *)
THEOREM HeaderAlwaysFound == Spec => []HeaderFound
<1> QED
  BY ClientInvariant, InvImplies, PTL

(* decode_raw_message_content runs beyond the packet for a heartbeat       *)
(* unless its number or time reads as a header, for the end of conflation  *)
(* if its own time does, and for nothing else.                             *)
THEOREM OverrunsExplained == Spec => []OverrunExplained
<1> QED
  BY ClientInvariant, InvImplies, PTL

(* The parsers of the client are reached by misread packets only: their    *)
(* number or time, or the marker's own time, was taken for a header.       *)
THEOREM ParsersOnlyGetMisreads == Spec => []ParsersGetMisreads
<1> QED
  BY ClientInvariant, InvImplies, PTL

(* Socket and connection end together, at the end of main at the latest.   *)
THEOREM SocketAlwaysReleased == Spec => []SocketReleased
<1> QED
  BY ClientInvariant, InvImplies, PTL
=============================================================================
