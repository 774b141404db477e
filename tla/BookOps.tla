------------------------------- MODULE BookOps -------------------------------
(***************************************************************************)
(* The order book as a value: what each operation of market_core::OrderBook *)
(* computes from the price levels, the recent trades and the statistics it *)
(* is given.  OrderBook.tla drives these operators as a state machine and  *)
(* Server.tla keeps one set of levels per instrument.                      *)
(*                                                                         *)
(* Prices are integer numbers of ticks.  A side of the book is a function  *)
(* from the prices it holds to levels, as the std::map of the source is;   *)
(* the order of the map is the operator Better.                            *)
(***************************************************************************)
EXTENDS Integers, Sequences, FiniteSets

CONSTANTS
  RecentLimit,   \* trades kept in recent_trades_ (100 in the source)
  CountModulus   \* trade_count is an unsigned integer modulo this (2^32)

ASSUME RecentLimitAssumption  == RecentLimit \in Nat \ {0}
ASSUME CountModulusAssumption == CountModulus \in Nat \ {0}

-----------------------------------------------------------------------------
(* Price levels *)

Side == {"BID", "ASK"}

(* The levels of a book over prices P and quantities Q. *)
BookType(P, Q) ==
  [Side -> UNION {[D -> [price : P, quantity : Q]] : D \in SUBSET P}]

EmptySide == [p \in {} |-> p]

EmptyLevels == [s \in Side |-> EmptySide]

(* The order of bids_ (descending) and of asks_ (ascending). *)
Better(s, p, q) == IF s = "BID" THEN p > q ELSE p < q

(* Replace side s; a side that is neither BID nor ASK replaces nothing. *)
WithSide(lv, s, f) == [t \in Side |-> IF t = s THEN f ELSE lv[t]]

(* Mutant: the quantity is added to the one that rests there. *)
AddLevelAccumulates(lv, s, level) ==
  WithSide(lv, s, [p \in DOMAIN lv[s] \cup {level.price} |->
                     IF p # level.price THEN lv[s][p]
                     ELSE IF p \in DOMAIN lv[s]
                     THEN [level EXCEPT !.quantity = @ + lv[s][p].quantity]
                     ELSE level])

AddLevel(lv, s, level) ==
  WithSide(lv, s, [p \in DOMAIN lv[s] \cup {level.price} |->
                     IF p = level.price THEN level ELSE lv[s][p]])

RemoveLevel(lv, s, price) ==
  WithSide(lv, s, [p \in DOMAIN lv[s] \ {price} |-> lv[s][p]])

(* Mutant: a quantity of zero is stored. *)
UpdateLevelKeepsEmpty(lv, s, level) == AddLevel(lv, s, level)

UpdateLevel(lv, s, level) ==
  IF level.quantity = 0 THEN RemoveLevel(lv, s, level.price)
                        ELSE AddLevel(lv, s, level)

(* Mutant: clear_side clears the book. *)
ClearBothSides(lv, s) == EmptyLevels

ClearSide(lv, s) == WithSide(lv, s, EmptySide)

(* The levels after a quote event. *)
ApplyQuoteEvent(lv, quote) ==
  CASE quote.action \in {"ADD", "CHANGE", "OVERLAY"} ->
         UpdateLevel(lv, quote.side,
                     [price |-> quote.price, quantity |-> quote.quantity])
    [] quote.action = "DELETE" -> RemoveLevel(lv, quote.side, quote.price)
    [] quote.action = "CLEAR"  -> ClearSide(lv, quote.side)

-----------------------------------------------------------------------------
(* Reading the book *)

Depth(lv, s) == Cardinality(DOMAIN lv[s])

(* The i-th level from the top of side s. *)
NthLevel(lv, s, i) ==
  lv[s][CHOOSE p \in DOMAIN lv[s] :
          Cardinality({q \in DOMAIN lv[s] : Better(s, q, p)}) = i - 1]

(* Mutant: a full snapshot misses its last level. *)
TopLevelsShort(lv, s, max_levels) ==
  [i \in 1..(IF Depth(lv, s) < max_levels THEN Depth(lv, s) ELSE max_levels - 1)
     |-> NthLevel(lv, s, i)]

(* The best max_levels levels of a side, best first (get_bids, get_asks). *)
TopLevels(lv, s, max_levels) ==
  [i \in 1..(IF Depth(lv, s) < max_levels THEN Depth(lv, s) ELSE max_levels)
     |-> NthLevel(lv, s, i)]

(* The prices of those levels. *)
TopPrices(lv, s, max_levels) ==
  {p \in DOMAIN lv[s] :
     Cardinality({q \in DOMAIN lv[s] : Better(s, q, p)}) < max_levels}

HasBest(lv, s) == DOMAIN lv[s] # {}

(* Mutant: the other end of the map. *)
WorstPrice(lv, s) == CHOOSE p \in DOMAIN lv[s] :
                       \A q \in DOMAIN lv[s] \ {p} : Better(s, q, p)

BestPrice(lv, s) == CHOOSE p \in DOMAIN lv[s] :
                      \A q \in DOMAIN lv[s] \ {p} : Better(s, p, q)

IsCrossed(lv) ==
  /\ HasBest(lv, "BID") /\ HasBest(lv, "ASK")
  /\ BestPrice(lv, "BID") >= BestPrice(lv, "ASK")

-----------------------------------------------------------------------------
(* Trades and statistics *)

(* The source initialises every price of MarketStats to 0.0 and reads 0.0  *)
(* as "no trade yet"; vwap is the exact fraction vwap[1] / vwap[2].        *)
NoStats == [open_price |-> 0, high_price |-> 0, low_price |-> 0,
            last_price |-> 0, total_volume |-> 0, trade_count |-> 0,
            vwap |-> <<0, 1>>]

(* Mutant: the oldest trade leaves one trade too early. *)
PushRecentEarly(recent, trade) ==
  LET pushed == Append(recent, trade)
  IN  IF Len(pushed) >= RecentLimit THEN Tail(pushed) ELSE pushed

PushRecent(recent, trade) ==
  LET pushed == Append(recent, trade)
  IN  IF Len(pushed) > RecentLimit THEN Tail(pushed) ELSE pushed

(* Mutant: the volume of the trade weighs the old mean as well. *)
UpdateVwapTwice(vwap, count, volume, trade) ==
  IF count > 1
  THEN << vwap[1] * volume + trade.price * trade.quantity * vwap[2],
          vwap[2] * volume >>
  ELSE <<trade.price, 1>>

UpdateVwap(vwap, count, volume, trade) ==
  IF count > 1
  THEN << vwap[1] * (volume - trade.quantity)
            + trade.price * trade.quantity * vwap[2],
          vwap[2] * volume >>
  ELSE <<trade.price, 1>>

(* Mutant: a low price of 0.0 is not taken for "no trade yet". *)
UpdateStatsNoSentinel(st, trade) ==
  LET volume == st.total_volume + trade.quantity
      count  == (st.trade_count + 1) % CountModulus
  IN [ open_price   |-> IF st.open_price = 0 THEN trade.price ELSE st.open_price,
       high_price   |-> IF trade.price > st.high_price THEN trade.price ELSE st.high_price,
       low_price    |-> IF trade.price < st.low_price THEN trade.price ELSE st.low_price,
       last_price   |-> trade.price,
       total_volume |-> volume,
       trade_count  |-> count,
       vwap         |-> UpdateVwap(st.vwap, count, volume, trade) ]

UpdateStatsOnTrade(st, trade) ==
  LET volume == st.total_volume + trade.quantity
      count  == (st.trade_count + 1) % CountModulus
  IN [ open_price   |-> IF st.open_price = 0 THEN trade.price
                                             ELSE st.open_price,
       high_price   |-> IF trade.price > st.high_price \/ st.high_price = 0
                        THEN trade.price ELSE st.high_price,
       low_price    |-> IF trade.price < st.low_price \/ st.low_price = 0
                        THEN trade.price ELSE st.low_price,
       last_price   |-> trade.price,
       total_volume |-> volume,
       trade_count  |-> count,
       vwap         |-> UpdateVwap(st.vwap, count, volume, trade) ]
=============================================================================
