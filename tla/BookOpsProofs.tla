--------------------------- MODULE BookOpsProofs ---------------------------
(***************************************************************************)
(* Lemmas about the operations of BookOps on price levels: they keep the   *)
(* type of a book over any prices P and quantities Q, and they keep two    *)
(* books in agreement.                                                     *)
(***************************************************************************)
EXTENDS BookOps, FiniteSetTheorems, TLAPS

USE DEF Side

LevelOf(P, Q) == [price : P, quantity : Q]

(* A side of a well-typed book is a function from some prices to levels.   *)
LEMMA SideUnfold ==
  ASSUME NEW P, NEW Q, NEW lv
  PROVE  lv \in BookType(P, Q) <=>
           /\ lv = [s \in Side |-> lv[s]]
           /\ \A s \in Side : /\ DOMAIN lv[s] \subseteq P
                             /\ lv[s] \in [DOMAIN lv[s] -> LevelOf(P, Q)]
BY DEF BookType, LevelOf

LEMMA EmptySideType ==
  ASSUME NEW S
  PROVE  DOMAIN EmptySide = {} /\ EmptySide \in [{} -> S]
BY DEF EmptySide

LEMMA EmptyLevelsType ==
  ASSUME NEW P, NEW Q
  PROVE  EmptyLevels \in BookType(P, Q)
<1>1. EmptySide \in [DOMAIN EmptySide -> LevelOf(P, Q)]
  BY EmptySideType
<1>2. DOMAIN EmptySide \subseteq P BY EmptySideType
<1> QED BY <1>1, <1>2, SideUnfold DEF EmptyLevels

LEMMA AddLevelType ==
  ASSUME NEW P, NEW Q, NEW lv \in BookType(P, Q), NEW s,
         NEW level \in LevelOf(P, Q)
  PROVE  AddLevel(lv, s, level) \in BookType(P, Q)
<1>1. level.price \in P BY DEF LevelOf
<1> QED BY <1>1, SideUnfold DEF AddLevel, WithSide

LEMMA RemoveLevelType ==
  ASSUME NEW P, NEW Q, NEW lv \in BookType(P, Q), NEW s, NEW price
  PROVE  RemoveLevel(lv, s, price) \in BookType(P, Q)
BY SideUnfold DEF RemoveLevel, WithSide

LEMMA ClearSideType ==
  ASSUME NEW P, NEW Q, NEW lv \in BookType(P, Q), NEW s
  PROVE  ClearSide(lv, s) \in BookType(P, Q)
<1>1. EmptySide \in [DOMAIN EmptySide -> LevelOf(P, Q)]
  BY EmptySideType
<1>2. DOMAIN EmptySide \subseteq P BY EmptySideType
<1> QED BY <1>1, <1>2, SideUnfold DEF ClearSide, WithSide
(* What one quote event makes of a well-typed book. *)
QuoteOf(P, Q) ==
  [side : Side \cup {"NONE"},
   action : {"ADD", "CHANGE", "OVERLAY", "DELETE", "CLEAR"},
   price : P, quantity : Q]

LEMMA ApplyQuoteCases ==
  ASSUME NEW P, NEW Q, NEW quote \in QuoteOf(P, Q), NEW lv
  PROVE  LET level == [price |-> quote.price, quantity |-> quote.quantity] IN
    /\ level \in LevelOf(P, Q)
    /\ \/ /\ quote.action \notin {"DELETE", "CLEAR"} /\ quote.quantity # 0
          /\ ApplyQuoteEvent(lv, quote) = AddLevel(lv, quote.side, level)
       \/ /\ \/ quote.action = "DELETE"
             \/ quote.action # "CLEAR" /\ quote.quantity = 0
          /\ ApplyQuoteEvent(lv, quote) = RemoveLevel(lv, quote.side, quote.price)
       \/ /\ quote.action = "CLEAR"
          /\ ApplyQuoteEvent(lv, quote) = ClearSide(lv, quote.side)
<1> DEFINE level == [price |-> quote.price, quantity |-> quote.quantity]
<1>0. /\ quote.action \in {"ADD", "CHANGE", "OVERLAY", "DELETE", "CLEAR"}
      /\ level \in LevelOf(P, Q) /\ level.quantity = quote.quantity
      /\ level.price = quote.price
  BY DEF QuoteOf, LevelOf
<1>1. CASE quote.action \in {"ADD", "CHANGE", "OVERLAY"}
  <2>1. ApplyQuoteEvent(lv, quote) = UpdateLevel(lv, quote.side, level)
    BY <1>1 DEF ApplyQuoteEvent
  <2> HIDE DEF level
  <2>2. \/ quote.quantity # 0
             /\ ApplyQuoteEvent(lv, quote) = AddLevel(lv, quote.side, level)
        \/ quote.quantity = 0
             /\ ApplyQuoteEvent(lv, quote)
                  = RemoveLevel(lv, quote.side, quote.price)
    BY <1>0, <2>1 DEF UpdateLevel
  <2> QED BY <1>0, <1>1, <2>2 DEF level
<1>2. CASE quote.action = "DELETE"
  BY <1>0, <1>2 DEF ApplyQuoteEvent
<1>3. CASE quote.action = "CLEAR"
  BY <1>0, <1>3 DEF ApplyQuoteEvent
<1> QED BY <1>0, <1>1, <1>2, <1>3

LEMMA ApplyQuoteType ==
  ASSUME NEW P, NEW Q, NEW lv \in BookType(P, Q), NEW quote \in QuoteOf(P, Q)
  PROVE  ApplyQuoteEvent(lv, quote) \in BookType(P, Q)
BY ApplyQuoteCases, AddLevelType, RemoveLevelType, ClearSideType

-----------------------------------------------------------------------------
(* Agreement: one book holds some of the levels of another. *)

Agrees(m, lv) ==
  \A s \in Side : /\ DOMAIN m[s] \subseteq DOMAIN lv[s]
                 /\ \A p \in DOMAIN m[s] : m[s][p] = lv[s][p]

(* The same quote applied to both keeps two books in agreement. *)
LEMMA ApplyQuoteAgrees ==
  ASSUME NEW P, NEW Q, NEW m, NEW lv, NEW quote \in QuoteOf(P, Q),
         Agrees(m, lv)
  PROVE  Agrees(ApplyQuoteEvent(m, quote), ApplyQuoteEvent(lv, quote))
<1> DEFINE level == [price |-> quote.price, quantity |-> quote.quantity]
           t == quote.side
<1>1. Agrees(AddLevel(m, t, level), AddLevel(lv, t, level))
  BY DEF Agrees, AddLevel, WithSide
<1>2. Agrees(RemoveLevel(m, t, quote.price), RemoveLevel(lv, t, quote.price))
  BY DEF Agrees, RemoveLevel, WithSide
<1>3. Agrees(ClearSide(m, t), ClearSide(lv, t))
  BY DEF Agrees, ClearSide, WithSide
<1> HIDE DEF level
<1>4. \/ /\ ApplyQuoteEvent(m, quote) = AddLevel(m, t, level)
         /\ ApplyQuoteEvent(lv, quote) = AddLevel(lv, t, level)
      \/ /\ ApplyQuoteEvent(m, quote) = RemoveLevel(m, t, quote.price)
         /\ ApplyQuoteEvent(lv, quote) = RemoveLevel(lv, t, quote.price)
      \/ /\ ApplyQuoteEvent(m, quote) = ClearSide(m, t)
         /\ ApplyQuoteEvent(lv, quote) = ClearSide(lv, t)
  BY ApplyQuoteCases DEF level
<1> QED BY <1>1, <1>2, <1>3, <1>4

(* The best levels of a book agree with it, and are all of it when there   *)
(* are no more than asked for.                                             *)
LEMMA TopPricesAll ==
  ASSUME NEW P, NEW Q, NEW lv \in BookType(P, Q), IsFiniteSet(P),
         P \subseteq Nat, NEW s \in Side, NEW n \in Nat, Depth(lv, s) <= n
  PROVE  TopPrices(lv, s, n) = DOMAIN lv[s]
<1> DEFINE D == DOMAIN lv[s]
<1>1. D \subseteq P BY SideUnfold
<1>2. IsFiniteSet(D) BY <1>1, FS_Subset
<1>3. ASSUME NEW p \in D
      PROVE  Cardinality({q \in D : Better(s, q, p)}) < n
  <2> DEFINE B == {q \in D : Better(s, q, p)}
  <2>1. p \in Nat BY <1>1
  <2>2. ~Better(s, p, p) BY <2>1 DEF Better
  <2>3. B \subseteq D /\ B # D BY <2>2
  <2>4. IsFiniteSet(B) /\ Cardinality(B) <= Cardinality(D)
        /\ Cardinality(B) # Cardinality(D)
    BY <1>2, <2>3, FS_Subset
  <2>5. Cardinality(B) \in Nat /\ Cardinality(D) \in Nat
    BY <1>2, <2>4, FS_CardinalityType
  <2>6. Cardinality(D) <= n BY DEF Depth
  <2> HIDE DEF B, D
  <2> QED BY <2>4, <2>5, <2>6 DEF B, D
<1> QED BY <1>3 DEF TopPrices
=============================================================================
