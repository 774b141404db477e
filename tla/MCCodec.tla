------------------------------- MODULE MCCodec -------------------------------
(***************************************************************************)
(* The codecs with the layouts of the generated classes.  Vectors that end *)
(* before the header, in a block, in a group's dimensions, in the second   *)
(* entry and behind everything; a later schema with three bytes more in    *)
(* block and entry; a count that wraps at 4 and is refused at 3.           *)
(***************************************************************************)
EXTENDS ReutersEncoder, SbeSchema, SequencesExt

MCCapacity == {7, 53, 56, 70, 76, 160}
MCExtra == {0, 3}
MCValue == {1, 78}

Level(price, quantity) == [price |-> price, quantity |-> quantity]
Bids == <<Level(25, 3), Level(19, 4), Level(12, 5)>>
Asks == <<Level(31, 6), Level(47, 7)>>

(* The calls of a side are those of its levels, one level after the other. *)
ASSUME SideIsItsLevels ==
  \A n \in 0..3 :
    SideCalls(BID, SubSeq(Bids, 1, n))
      = FlattenSeq([i \in 1..n |-> LevelCalls(BID, Bids[i])])

MCEvent ==
  {[kind |-> "HEARTBEAT"]}
    \cup {[kind |-> "SECDEF", time |-> 9, id |-> 1001, symbol |-> 5, longSymbol |-> long]
            : long \in BOOLEAN}
    \cup {[kind |-> "SNAPSHOT", id |-> 1001, time |-> 9, seq |-> 8,
            bids |-> SubSeq(Bids, 1, b), asks |-> SubSeq(Asks, 1, a)]
            : b \in 0..3, a \in 0..2}
    \cup {[kind |-> "QUOTE", id |-> 1001, time |-> 9, seq |-> 8, action |-> action,
            side |-> side, price |-> 25, quantity |-> 3]
            : action \in {"ADD", "CHANGE", "DELETE", "OVERLAY", "CLEAR"},
              side \in {"BID", "ASK", "NONE"}}
    \cup {[kind |-> "TRADE", id |-> 1001, time |-> 9, price |-> 25, quantity |-> 3,
            aggressor |-> aggressor] : aggressor \in {"absent", "BID", "ASK", "NONE"}}
=============================================================================
