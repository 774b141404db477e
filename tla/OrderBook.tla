------------------------------ MODULE OrderBook ------------------------------
(***************************************************************************)
(* One market_core::OrderBook (core/src/order_book.cpp) as a state machine. *)
(* Spec is the book as the server drives it, through apply_event only.     *)
(* ApiSpec adds the public operations that no event reaches: add_level,    *)
(* which stores a level whatever its quantity, and update_stats.           *)
(*                                                                         *)
(* tape is a history variable: the trades since the book was last cleared. *)
(***************************************************************************)
EXTENDS BookOps

CONSTANTS
  Price,          \* prices, in ticks
  Quantity,       \* quantities a quote can carry, 0 included
  TradeQuantity,  \* quantities a trade can carry
  MaxTrades       \* bound: trades between two clears

ASSUME PriceAssumption    == Price \subseteq Nat \ {0}
ASSUME QuantityAssumption == Quantity \subseteq Nat /\ 0 \in Quantity
ASSUME TradeQuantityAssumption == TradeQuantity \subseteq Nat \ {0}
ASSUME MaxTradesAssumption == MaxTrades \in Nat

VARIABLES
  levels,         \* bids_ and asks_
  recent_trades,  \* recent_trades_, oldest first
  stats,          \* stats_
  tape            \* history: every trade since the last clear

vars == <<levels, recent_trades, stats, tape>>

Action == {"ADD", "CHANGE", "OVERLAY", "DELETE", "CLEAR"}

(* Side::NONE is a value of the enumeration that names no side. *)
QuoteEvent == [side : Side \cup {"NONE"}, action : Action,
               price : Price, quantity : Quantity]

Trade == [price : Price, quantity : TradeQuantity]

Init ==
  /\ levels = EmptyLevels
  /\ recent_trades = << >>
  /\ stats = NoStats
  /\ tape = << >>

-----------------------------------------------------------------------------
(* apply_event, one action for each type of event it does not ignore *)

ApplyQuote(quote) ==
  /\ levels' = ApplyQuoteEvent(levels, quote)
  /\ UNCHANGED <<recent_trades, stats, tape>>

ApplyTrade(trade) ==
  /\ Len(tape) < MaxTrades
  /\ recent_trades' = PushRecent(recent_trades, trade)
  /\ stats' = UpdateStatsOnTrade(stats, trade)
  /\ tape' = Append(tape, trade)
  /\ UNCHANGED levels

ApplyBookClear ==
  /\ levels' = EmptyLevels
  /\ recent_trades' = << >>
  /\ stats' = NoStats
  /\ tape' = << >>

Next ==
  \/ \E quote \in QuoteEvent : ApplyQuote(quote)
  \/ \E trade \in Trade : ApplyTrade(trade)
  \/ ApplyBookClear

Spec == Init /\ [][Next]_vars

-----------------------------------------------------------------------------
(* The rest of the public interface *)

AddLevelDirectly(s, level) ==
  /\ levels' = AddLevel(levels, s, level)
  /\ UNCHANGED <<recent_trades, stats, tape>>

(* A caller replaces the statistics, here by those of one trade. *)
UpdateStats(trade) ==
  /\ stats' = UpdateStatsOnTrade(NoStats, trade)
  /\ UNCHANGED <<levels, recent_trades, tape>>

Level == [price : Price, quantity : Quantity]

ApiNext ==
  \/ Next
  \/ \E s \in Side, level \in Level : AddLevelDirectly(s, level)
  \/ \E trade \in Trade : UpdateStats(trade)

ApiSpec == Init /\ [][ApiNext]_vars

-----------------------------------------------------------------------------
(* Correctness *)

StatsType == [open_price : Nat, high_price : Nat, low_price : Nat,
              last_price : Nat, total_volume : Nat,
              trade_count : 0..(CountModulus - 1), vwap : Nat \X Nat]

(* Every variable stays in its type (the members of class OrderBook). *)
TypeOK ==
  /\ levels \in BookType(Price, Quantity)
  /\ recent_trades \in Seq(Trade)
  /\ stats \in StatsType
  /\ tape \in Seq(Trade)

(* Each level is filed under its own price and, when only events feed the  *)
(* book, no level rests with quantity zero: update_level must turn a zero  *)
(* quantity into a removal, whichever action carried it.                   *)
LevelsSound ==
  \A s \in Side : \A p \in DOMAIN levels[s] :
    levels[s][p].price = p /\ levels[s][p].quantity # 0

(* recent_trades_ holds the newest trades of the tape, all of them until   *)
(* the limit is reached and exactly RecentLimit of them after (add_trade). *)
RecentIsNewest ==
  LET n == IF Len(tape) < RecentLimit THEN Len(tape) ELSE RecentLimit
  IN  recent_trades = SubSeq(tape, Len(tape) - n + 1, Len(tape))

(* Once there was a trade, the open, the last and every recent trade price *)
(* lie between low and high, whatever the 0.0 sentinels made of the first  *)
(* trade (update_stats_on_trade).                                          *)
StatsBracket ==
  tape # << >> =>
    /\ stats.low_price # 0
    /\ stats.low_price <= stats.open_price
    /\ stats.open_price <= stats.high_price
    /\ stats.low_price <= stats.last_price
    /\ stats.last_price <= stats.high_price
    /\ \A i \in 1..Len(recent_trades) :
         /\ stats.low_price <= recent_trades[i].price
         /\ recent_trades[i].price <= stats.high_price

(* What a list of amounts comes to. *)
Total(amounts) ==
  LET running[n \in 0..Len(amounts)] ==
        IF n = 0 THEN 0 ELSE running[n - 1] + amounts[n]
  IN  running[Len(amounts)]

Volumes(trades) == [i \in 1..Len(trades) |-> trades[i].quantity]
Notionals(trades) == [i \in 1..Len(trades) |-> trades[i].price * trades[i].quantity]
PricesOf(trades) == {trades[i].price : i \in 1..Len(trades)}

(* The statistics are those of the whole tape, not of the recent trades:   *)
(* open and last are its ends, high and low its extremes, total_volume its *)
(* sum, and vwap the volume-weighted mean price, as long as trade_count    *)
(* has not wrapped (update_stats_on_trade restarts vwap when it has).      *)
StatsMatchTape ==
  /\ stats.trade_count = Len(tape) % CountModulus
  /\ stats.total_volume = Total(Volumes(tape))
  /\ tape # << >> =>
       /\ stats.open_price = tape[1].price
       /\ stats.last_price = tape[Len(tape)].price
       /\ stats.high_price \in PricesOf(tape)
       /\ stats.low_price \in PricesOf(tape)
       /\ \A x \in PricesOf(tape) : stats.low_price <= x /\ x <= stats.high_price
       /\ Len(tape) < CountModulus =>
            stats.vwap[1] * stats.total_volume = Total(Notionals(tape)) * stats.vwap[2]

(* One level of a full refresh, applied by a subscriber. *)
AddSnapshotLevel(book, s, level) ==
  ApplyQuoteEvent(book, [side |-> s, action |-> "ADD",
                         price |-> level.price, quantity |-> level.quantity])

(* Side s of an empty book after the levels of a snapshot of max_levels.   *)
Rebuilt(lv, s, max_levels) ==
  LET top == TopLevels(lv, s, max_levels)
      book[i \in 0..Len(top)] ==
        IF i = 0 THEN EmptyLevels ELSE AddSnapshotLevel(book[i - 1], s, top[i])
  IN  book[Len(top)][s]

(* The levels a snapshot of max_levels carries, added one by one to an     *)
(* empty book, rebuild the best max_levels levels of each side: all of the *)
(* book when it is no deeper than the snapshot (create_snapshot_event).    *)
SnapshotRebuilds ==
  \A s \in Side, max_levels \in 1..Cardinality(Price) :
    LET r == Rebuilt(levels, s, max_levels) IN
    /\ DOMAIN r = TopPrices(levels, s, max_levels)
    /\ \A p \in DOMAIN r : r[p] = levels[s][p]
    /\ Depth(levels, s) <= max_levels => r = levels[s]
    /\ Depth(levels, s) > max_levels =>
         /\ Cardinality(DOMAIN r) = max_levels
         /\ \A p \in DOMAIN r, q \in DOMAIN levels[s] \ DOMAIN r : Better(s, p, q)

(* is_crossed looks at the two best prices only; that must be the same as  *)
(* some bid being at or above some ask.                                    *)
CrossedIsSomePair ==
  IsCrossed(levels) <=>
    \E p \in DOMAIN levels["BID"], q \in DOMAIN levels["ASK"] : p >= q

-----------------------------------------------------------------------------
(* The book implements the ledger: a level that is not there is a resting  *)
(* quantity of zero.                                                       *)
Resting == [k \in Side \X Price |->
              IF k[2] \in DOMAIN levels[k[1]] THEN levels[k[1]][k[2]].quantity
                                              ELSE 0]

Ledger == INSTANCE MarketLedger WITH resting <- Resting

(* Every event either is one step of the ledger or changes nothing there.  *)
ImplementsLedger == Ledger!Spec
=============================================================================
