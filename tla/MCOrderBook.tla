----------------------------- MODULE MCOrderBook -----------------------------
(***************************************************************************)
(* Small instances of OrderBook, and what its recursive functions compute, *)
(* compared with the folds of the community modules.                       *)
(***************************************************************************)
EXTENDS OrderBook, SequencesExt

(* A total is the sum of all its amounts. *)
ASSUME TotalIsSum ==
  \A amounts \in BoundedSeq(0..3, 3) : Total(amounts) = FoldSeq(LAMBDA x, y : x + y, 0, amounts)

(* A rebuilt side is what adding its levels, first to last, makes of an empty one. *)
RebuiltByFold(lv, s, max_levels) ==
  FoldLeft(LAMBDA book, level : AddSnapshotLevel(book, s, level),
           EmptyLevels, TopLevels(lv, s, max_levels))[s]

ASSUME RebuiltIsFold ==
  \A D \in SUBSET Price, s \in Side, max_levels \in 1..Cardinality(Price) :
    LET lv == WithSide(EmptyLevels, s, [p \in D |-> [price |-> p, quantity |-> 1]])
    IN  Rebuilt(lv, s, max_levels) = RebuiltByFold(lv, s, max_levels)
=============================================================================
