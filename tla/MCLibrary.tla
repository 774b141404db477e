------------------------------ MODULE MCLibrary ------------------------------
(* One instrument, two listeners, one other thread. *)
EXTENDS Library

(* Kept is the filter of the standard library. *)
ASSUME KeptIsSelectSeq ==
  \A n \in 0..4 : \A s \in [1..n -> 1..3] : \A S \in SUBSET (1..3) :
    Bus!Kept(s, S) = SelectSeq(s, LAMBDA m : m \in S)
=============================================================================
