--------------------------------- MODULE Wire ---------------------------------
(***************************************************************************)
(* A packet on the wire and how the client reads it.  The publisher puts a *)
(* 20-byte packet header before each message (add_sequence_header), the    *)
(* encoder begins each message with an 8-byte SBE header                   *)
(* (src/reuters_encoder.cpp); the client searches the packet for something *)
(* that looks like an SBE header and dispatches on the template it finds   *)
(* there (parse_message of utp_client/UTPClient.cpp).                      *)
(*                                                                         *)
(* The headers are sequences of little-endian 16-bit words; WordAt gives   *)
(* the word at an even byte of a packet.                                   *)
(***************************************************************************)
EXTENDS Integers

(* EOC is the bare header that send_end_of_conflation packs. *)
Kind == {"HEARTBEAT", "SECDEF", "SNAPSHOT", "QUOTE", "TRADE", "EOC"}

SecurityID == 1001      \* the smallest id that the server gives

(* Block length and template id in the SBE header of a message. *)
BlockLength(kind) ==
  CASE kind = "HEARTBEAT" -> 0  [] kind = "SECDEF" -> 106
    [] kind = "SNAPSHOT"  -> 46 [] kind = "QUOTE"  -> 36
    [] kind = "TRADE"     -> 24

TemplateId(kind) ==
  CASE kind = "HEARTBEAT" -> 10 [] kind = "SECDEF" -> 18
    [] kind = "SNAPSHOT"  -> 20 [] kind = "QUOTE"  -> 21
    [] kind = "TRADE"     -> 111

(* Header, block, and one group of entries where the message has one. *)
MessageLength(kind, entries) ==
  CASE kind = "SNAPSHOT" -> 8 + 46 + 4 + 17 * entries
    [] kind = "QUOTE"    -> 8 + 36 + 4 + 18
    [] kind = "TRADE"    -> 8 + 24 + 4 + 29
    [] kind = "EOC"      -> 23
    [] OTHER             -> 8 + BlockLength(kind)

Word == {w \in Nat : w < 65536}

(* A 64-bit sequence number that has not passed 2^32. *)
Fits(n) == n \div 65536 < 65536

SequenceWord(n, byte) ==
  CASE byte = 0 -> n % 65536
    [] byte = 2 -> (n \div 65536) % 65536
    [] OTHER    -> 0

TimeWord(time, byte) == time[byte \div 2 + 1]

(* The time in the header, and when the message behind it was made.        *)
Packet(kind, n, time, entries) ==
  [kind |-> kind, seq |-> n, time |-> time, made |-> time,
   length |-> 20 + MessageLength(kind, entries)]

(* The marker has a time of its own: send_end_of_conflation reads the      *)
(* clock, and add_sequence_header reads it again.                          *)
Marker(n, made, time) == [Packet("EOC", n, time, 0) EXCEPT !.made = made]

(* The bare header holds the number before that of its packet, channel 0   *)
(* and its time, as far as the client's search may look.                   *)
MarkerWord(p, byte) ==
  CASE byte \in 0..7  -> SequenceWord(p.seq - 1, byte)
    [] byte \in 8..11 -> 0
    [] OTHER          -> TimeWord(p.made, byte - 12)

(* A word of the message, as far as the search may look.  Behind the SBE   *)
(* header of a trade come the security id and two fields that the encoder  *)
(* leaves zero; the search of the others ends before.                      *)
MessageWord(p, byte) ==
  IF p.kind = "EOC"
  THEN MarkerWord(p, byte)
  ELSE CASE byte = 0 -> BlockLength(p.kind)
         [] byte = 2 -> TemplateId(p.kind)
         [] byte = 4 -> 101      \* schema
         [] byte = 6 -> 1        \* version
         [] byte = 8 -> SecurityID
         [] OTHER    -> 0

(* A word of the packet.  add_sequence_header puts the number, the time in *)
(* nanoseconds, the length 20 and version 1 of the header in one word, and *)
(* the length of the packet before the message.                            *)
WordAt(p, byte) ==
  CASE byte \in 0..7   -> SequenceWord(p.seq, byte)
    [] byte \in 8..15  -> TimeWord(p.time, byte - 8)
    [] byte = 16       -> 20 + 256 * 1
    [] byte = 18       -> p.length
    [] byte \in 20..50 -> MessageWord(p, byte - 20)

-----------------------------------------------------------------------------
(* parse_message *)

(* Mutant: a block length of zero passes for one. *)
LooksLikeHeaderNoBlock(p, offset) ==
  /\ WordAt(p, offset + 2) \in 1..50
  /\ WordAt(p, offset) < 1000
  /\ WordAt(p, offset + 4) < 1000

LooksLikeHeader(p, offset) ==
  /\ WordAt(p, offset + 2) \in 1..50      \* "reasonable" template ids
  /\ WordAt(p, offset) \in 1..999         \* block length
  /\ WordAt(p, offset + 4) < 1000         \* schema id

(* Mutant: a step of eight bytes. *)
SearchedByEight(p) == {o \in {8 * j : j \in 0..4} : o <= p.length - 8}

Searched(p) == {o \in {4 * j : j \in 0..8} : o <= p.length - 8}

HeaderOffsets(p) == {o \in Searched(p) : LooksLikeHeader(p, o)}

First(offsets) == CHOOSE o \in offsets : \A q \in offsets : o <= q

(* Mutant: the loop reads three numbers at a time. *)
DecodeRawWide(size) == IF size < 24 THEN "OVERRUN" ELSE "RAW"

(* decode_raw_message_content: the loop "i <= size - 8" has no end in the  *)
(* buffer when the unsigned size is below eight.                           *)
DecodeRaw(size) == IF size < 8 THEN "OVERRUN" ELSE "RAW"

(* Mutant: the message that a template has no case for is dropped. *)
ParseSbeNoDefault(template, size) ==
  CASE template \in {0, 1} -> "HEARTBEAT"
    [] template = 12       -> "SECDEF"
    [] template = 13       -> "FULL"
    [] template = 14       -> "INCREMENTAL"
    [] OTHER               -> "DROPPED"

(* parse_sbe_message: the parser the template selects. *)
ParseSbe(template, size) ==
  CASE template \in {0, 1} -> "HEARTBEAT"
    [] template = 12       -> "SECDEF"
    [] template = 13       -> "FULL"
    [] template = 14       -> "INCREMENTAL"
    [] OTHER               -> DecodeRaw(size - 8)

(* Where the client found a header, -1 for nowhere, and what it then did. *)
Parse(p) ==
  IF HeaderOffsets(p) = {}
  THEN [offset |-> -1, parser |-> DecodeRaw(p.length)]
  ELSE LET o == First(HeaderOffsets(p))
       IN  [offset |-> o,
            parser |-> ParseSbe(WordAt(p, o + 2), p.length - o)]
=============================================================================
