--------------------------- MODULE OrderBookProofs ---------------------------
(***************************************************************************)
(* Theorems about OrderBook, for every set of prices and quantities and    *)
(* every limit: the type invariant, the soundness of the levels, the       *)
(* bracket of the statistics, that the book implements MarketLedger, the   *)
(* recent trades, that is_crossed misses no crossed book, that the         *)
(* statistics are those of the whole tape, and that a snapshot rebuilds    *)
(* the book it was taken from.                                             *)
(***************************************************************************)
EXTENDS OrderBook, BookOpsProofs, WellFoundedInduction

USE DEF Side

LevelsType == BookType(Price, Quantity)

LEMMA QuotesAndLevels ==
  /\ QuoteEvent = QuoteOf(Price, Quantity)
  /\ Level = LevelOf(Price, Quantity)
BY DEF QuoteEvent, QuoteOf, Action, Level, LevelOf

-----------------------------------------------------------------------------
(* Lemmas about trades *)

LEMMA ProductNat ==
  ASSUME NEW a \in Nat, NEW b \in Nat
  PROVE  a * b \in Nat
OBVIOUS

LEMMA TradeFields ==
  ASSUME NEW trade \in Trade
  PROVE  /\ trade.price \in Nat /\ trade.price # 0
         /\ trade.quantity \in Nat /\ trade.quantity # 0
BY PriceAssumption, TradeQuantityAssumption DEF Trade

(* What recent_trades_ holds after a push was there before or is the trade. *)
LEMMA PushRecentType ==
  ASSUME NEW recent \in Seq(Trade), NEW trade \in Trade
  PROVE  /\ PushRecent(recent, trade) \in Seq(Trade)
         /\ \A i \in 1..Len(PushRecent(recent, trade)) :
              \/ PushRecent(recent, trade)[i] = trade
              \/ \E j \in 1..Len(recent) :
                   PushRecent(recent, trade)[i] = recent[j]
<1> DEFINE pushed == Append(recent, trade)
<1>1. pushed \in Seq(Trade) /\ Len(pushed) = Len(recent) + 1
      /\ Len(recent) \in Nat
  OBVIOUS
<1>2. \A i \in 1..Len(pushed) :
        pushed[i] = IF i <= Len(recent) THEN recent[i] ELSE trade
  OBVIOUS
<1>3. CASE Len(pushed) > RecentLimit
  <2> HIDE DEF pushed
  <2>1. pushed # << >> BY <1>1
  <2>2. Tail(pushed) \in Seq(Trade) /\ Len(Tail(pushed)) = Len(pushed) - 1
        /\ \A i \in 1..(Len(pushed) - 1) : Tail(pushed)[i] = pushed[i + 1]
    BY <1>1, <2>1
  <2>3. PushRecent(recent, trade) = Tail(pushed)
    BY <1>3 DEF PushRecent, pushed
  <2>4. ASSUME NEW i \in 1..Len(Tail(pushed))
        PROVE  \/ Tail(pushed)[i] = trade
               \/ \E j \in 1..Len(recent) : Tail(pushed)[i] = recent[j]
    <3>1. i \in 1..(Len(pushed) - 1) /\ i + 1 \in 1..Len(pushed)
      BY <1>1, <2>2
    <3>2. Tail(pushed)[i] = pushed[i + 1] BY <2>2, <3>1
    <3>3. CASE i + 1 <= Len(recent)
      BY <1>1, <1>2, <3>1, <3>2, <3>3
    <3>4. CASE ~(i + 1 <= Len(recent))
      BY <1>2, <3>1, <3>2, <3>4
    <3> QED BY <3>3, <3>4
  <2> QED BY <2>2, <2>3, <2>4
<1>4. CASE ~(Len(pushed) > RecentLimit)
  <2>1. PushRecent(recent, trade) = pushed BY <1>4 DEF PushRecent
  <2> HIDE DEF pushed
  <2> QED BY <1>1, <1>2, <2>1
<1> QED BY <1>3, <1>4

LEMMA StatsUpdateType ==
  ASSUME NEW st \in StatsType, NEW trade \in Trade
  PROVE  UpdateStatsOnTrade(st, trade) \in StatsType
<1> DEFINE volume == st.total_volume + trade.quantity
           count == (st.trade_count + 1) % CountModulus
<1>1. /\ trade.price \in Nat /\ trade.quantity \in Nat
      /\ st.open_price \in Nat /\ st.high_price \in Nat /\ st.low_price \in Nat
      /\ st.total_volume \in Nat /\ st.trade_count \in Nat
      /\ st.vwap \in Nat \X Nat
  BY TradeFields DEF StatsType
<1>2. volume \in Nat /\ volume - trade.quantity \in Nat BY <1>1
<1>3. count \in 0..(CountModulus - 1) BY <1>1, CountModulusAssumption
<1>4. UpdateVwap(st.vwap, count, volume, trade) \in Nat \X Nat
  <2> HIDE DEF volume, count
  <2>1. st.vwap[1] \in Nat /\ st.vwap[2] \in Nat BY <1>1
  <2>2. /\ st.vwap[1] * (volume - trade.quantity) \in Nat
        /\ trade.price * trade.quantity \in Nat
        /\ st.vwap[2] * volume \in Nat
    BY <1>1, <1>2, <2>1, ProductNat
  <2>3. (trade.price * trade.quantity) * st.vwap[2] \in Nat
    BY <2>1, <2>2, ProductNat
  <2>4. CASE count > 1
    <3> DEFINE num == st.vwap[1] * (volume - trade.quantity)
                        + trade.price * trade.quantity * st.vwap[2]
               den == st.vwap[2] * volume
    <3>1. UpdateVwap(st.vwap, count, volume, trade) = <<num, den>>
      BY <2>4 DEF UpdateVwap
    <3>2. num \in Nat /\ den \in Nat BY <2>2, <2>3
    <3> HIDE DEF num, den
    <3> QED BY <3>1, <3>2
  <2>5. CASE ~(count > 1)
    BY <1>1, <2>5 DEF UpdateVwap
  <2> QED BY <2>4, <2>5
<1>5. UpdateStatsOnTrade(st, trade) =
        [ open_price   |-> IF st.open_price = 0 THEN trade.price
                                                ELSE st.open_price,
          high_price   |-> IF trade.price > st.high_price \/ st.high_price = 0
                           THEN trade.price ELSE st.high_price,
          low_price    |-> IF trade.price < st.low_price \/ st.low_price = 0
                           THEN trade.price ELSE st.low_price,
          last_price   |-> trade.price,
          total_volume |-> volume,
          trade_count  |-> count,
          vwap         |-> UpdateVwap(st.vwap, count, volume, trade) ]
  BY DEF UpdateStatsOnTrade
<1> HIDE DEF volume, count
<1> QED BY <1>1, <1>2, <1>3, <1>4, <1>5 DEF StatsType

LEMMA NoStatsType == NoStats \in StatsType
BY CountModulusAssumption DEF NoStats, StatsType

-----------------------------------------------------------------------------
(* The type invariant *)

LEMMA InitTypeOK == Init => TypeOK
BY EmptyLevelsType, NoStatsType DEF Init, TypeOK

LEMMA NextTypeOK == TypeOK /\ [Next]_vars => TypeOK'
<1> SUFFICES ASSUME TypeOK, [Next]_vars PROVE TypeOK'
  OBVIOUS
<1> USE DEF TypeOK
<1>1. ASSUME NEW quote \in QuoteEvent, ApplyQuote(quote) PROVE TypeOK'
  <2>1. levels' \in BookType(Price, Quantity)
    BY <1>1, ApplyQuoteType, QuotesAndLevels DEF ApplyQuote
  <2> QED BY <1>1, <2>1 DEF ApplyQuote
<1>2. ASSUME NEW trade \in Trade, ApplyTrade(trade) PROVE TypeOK'
  <2>1. recent_trades' \in Seq(Trade) BY <1>2, PushRecentType DEF ApplyTrade
  <2>2. stats' \in StatsType BY <1>2, StatsUpdateType DEF ApplyTrade
  <2>3. tape' \in Seq(Trade) BY <1>2 DEF ApplyTrade
  <2> QED BY <1>2, <2>1, <2>2, <2>3 DEF ApplyTrade
<1>3. ASSUME ApplyBookClear PROVE TypeOK'
  BY <1>3, EmptyLevelsType, NoStatsType DEF ApplyBookClear
<1>4. ASSUME UNCHANGED vars PROVE TypeOK'
  BY <1>4 DEF vars
<1> QED BY <1>1, <1>2, <1>3, <1>4 DEF Next

(* Every variable of the book keeps its type, whatever events arrive. *)
THEOREM TypeCorrect == Spec => []TypeOK
BY InitTypeOK, NextTypeOK, PTL DEF Spec

-----------------------------------------------------------------------------
(* The levels *)

SideSound(f) == \A p \in DOMAIN f : f[p].price = p /\ f[p].quantity # 0

LEMMA OperationsSound ==
  ASSUME NEW lv \in LevelsType, NEW s \in Side \cup {"NONE"}, NEW t \in Side,
         SideSound(lv[t])
  PROVE  /\ \A price : SideSound(RemoveLevel(lv, s, price)[t])
         /\ \A level \in Level : level.quantity # 0 =>
              SideSound(AddLevel(lv, s, level)[t])
         /\ SideSound(ClearSide(lv, s)[t])
<1>1. ASSUME NEW price PROVE SideSound(RemoveLevel(lv, s, price)[t])
  BY DEF RemoveLevel, WithSide, SideSound
<1>2. ASSUME NEW level \in Level, level.quantity # 0
      PROVE  SideSound(AddLevel(lv, s, level)[t])
  BY <1>2 DEF AddLevel, WithSide, SideSound
<1>3. SideSound(ClearSide(lv, s)[t])
  BY DEF ClearSide, WithSide, SideSound, EmptySide
<1> QED BY <1>1, <1>2, <1>3

LEMMA ApplyQuoteSound ==
  ASSUME NEW lv \in LevelsType, NEW quote \in QuoteEvent, NEW t \in Side,
         SideSound(lv[t])
  PROVE  SideSound(ApplyQuoteEvent(lv, quote)[t])
<1> DEFINE level == [price |-> quote.price, quantity |-> quote.quantity]
<1>1. /\ quote.side \in Side \cup {"NONE"}
      /\ level \in Level /\ level.quantity = quote.quantity
  BY DEF QuoteEvent, Level
<1>2. \/ quote.quantity # 0
           /\ ApplyQuoteEvent(lv, quote) = AddLevel(lv, quote.side, level)
      \/ ApplyQuoteEvent(lv, quote) = RemoveLevel(lv, quote.side, quote.price)
      \/ ApplyQuoteEvent(lv, quote) = ClearSide(lv, quote.side)
  BY ApplyQuoteCases, QuotesAndLevels
<1> HIDE DEF level
<1> QED BY <1>1, <1>2, OperationsSound

LEMMA LevelsSoundBySide == LevelsSound <=> \A s \in Side : SideSound(levels[s])
BY DEF LevelsSound, SideSound

LEMMA EmptyLevelsSound == \A s \in Side : SideSound(EmptyLevels[s])
BY DEF EmptyLevels, EmptySide, SideSound

(* No event leaves a level filed under another price than its own, or an   *)
(* empty level: TypeOK /\ LevelsSound is inductive.                        *)
THEOREM LevelsAlwaysSound == Spec => []LevelsSound
<1>1. Init => LevelsSound
  BY EmptyLevelsSound, LevelsSoundBySide DEF Init
<1>2. TypeOK /\ LevelsSound /\ [Next]_vars => LevelsSound'
  <2> SUFFICES ASSUME TypeOK, LevelsSound, [Next]_vars PROVE LevelsSound'
    OBVIOUS
  <2>0. LevelsSound' <=> \A s \in Side : SideSound(levels'[s])
    BY DEF LevelsSound, SideSound
  <2>1. ASSUME NEW quote \in QuoteEvent, ApplyQuote(quote) PROVE LevelsSound'
    BY <2>0, <2>1, ApplyQuoteSound, LevelsSoundBySide
       DEF ApplyQuote, TypeOK, LevelsType
  <2>2. ASSUME NEW trade \in Trade, ApplyTrade(trade) PROVE LevelsSound'
    BY <2>2 DEF ApplyTrade, LevelsSound
  <2>3. ASSUME ApplyBookClear PROVE LevelsSound'
    BY <2>0, <2>3, EmptyLevelsSound DEF ApplyBookClear
  <2>4. ASSUME UNCHANGED vars PROVE LevelsSound'
    BY <2>4 DEF vars, LevelsSound
  <2> QED BY <2>1, <2>2, <2>3, <2>4 DEF Next
<1> QED BY <1>1, <1>2, TypeCorrect, PTL DEF Spec

-----------------------------------------------------------------------------
(* The statistics *)

(* StatsBracket alone is not inductive: the first trade after a clear must *)
(* find the zero sentinels, so StatsInv also says what an empty tape       *)
(* means, and which of the statistics are no longer zero after a trade.    *)
StatsInv ==
  /\ StatsBracket
  /\ tape = << >> =>
       /\ stats.open_price = 0 /\ stats.high_price = 0 /\ stats.low_price = 0
       /\ recent_trades = << >>

LEMMA StatsTradeStep ==
  ASSUME TypeOK, StatsInv, NEW trade \in Trade, ApplyTrade(trade)
  PROVE  StatsInv'
<1> USE TradeFields
<1>1. /\ stats.open_price \in Nat /\ stats.high_price \in Nat
      /\ stats.low_price \in Nat
      /\ trade.price \in Nat /\ trade.price # 0
      /\ tape \in Seq(Trade) /\ recent_trades \in Seq(Trade)
  BY DEF TypeOK, StatsType
<1>2. tape' # << >>
  BY <1>1 DEF ApplyTrade
<1>3. /\ stats'.open_price = IF stats.open_price = 0 THEN trade.price
                                                     ELSE stats.open_price
      /\ stats'.high_price =
           IF trade.price > stats.high_price \/ stats.high_price = 0
           THEN trade.price ELSE stats.high_price
      /\ stats'.low_price =
           IF trade.price < stats.low_price \/ stats.low_price = 0
           THEN trade.price ELSE stats.low_price
      /\ stats'.last_price = trade.price
  BY DEF ApplyTrade, UpdateStatsOnTrade
<1>4. /\ stats'.low_price # 0
      /\ stats'.low_price <= stats'.open_price
      /\ stats'.open_price <= stats'.high_price
      /\ stats'.low_price <= stats'.last_price
      /\ stats'.last_price <= stats'.high_price
      /\ stats'.low_price <= trade.price /\ trade.price <= stats'.high_price
  <2>1. CASE tape = << >>
    BY <1>1, <1>3, <2>1 DEF StatsInv
  <2>2. CASE tape # << >>
    BY <1>1, <1>3, <2>2 DEF StatsInv, StatsBracket
  <2> QED BY <2>1, <2>2
<1>5. ASSUME NEW j \in 1..Len(recent_trades)
      PROVE  /\ stats'.low_price <= recent_trades[j].price
             /\ recent_trades[j].price <= stats'.high_price
  <2>1. recent_trades[j] \in Trade BY <1>1
  <2>2. recent_trades[j].price \in Nat BY <2>1
  <2>3. tape # << >> BY <1>1 DEF StatsInv
  <2>4. /\ stats.low_price # 0
        /\ stats.low_price <= recent_trades[j].price
        /\ recent_trades[j].price <= stats.high_price
    BY <2>3 DEF StatsInv, StatsBracket
  <2> QED BY <1>1, <1>3, <2>2, <2>4
<1>6. ASSUME NEW i \in 1..Len(recent_trades')
      PROVE  /\ stats'.low_price <= recent_trades'[i].price
             /\ recent_trades'[i].price <= stats'.high_price
  <2>1. \/ recent_trades'[i] = trade
        \/ \E j \in 1..Len(recent_trades) : recent_trades'[i] = recent_trades[j]
    BY <1>1, PushRecentType DEF ApplyTrade
  <2> QED BY <1>4, <1>5, <2>1
<1> QED BY <1>2, <1>4, <1>6 DEF StatsInv, StatsBracket

(* Open, last and the recent trades always lie between low and high.       *)
THEOREM StatsAlwaysBracket == Spec => []StatsBracket
<1>1. Init => StatsInv
  BY DEF Init, NoStats, StatsInv, StatsBracket
<1>2. TypeOK /\ StatsInv /\ [Next]_vars => StatsInv'
  <2> SUFFICES ASSUME TypeOK, StatsInv, [Next]_vars PROVE StatsInv'
    OBVIOUS
  <2>1. ASSUME NEW quote \in QuoteEvent, ApplyQuote(quote) PROVE StatsInv'
    BY <2>1 DEF ApplyQuote, StatsInv, StatsBracket
  <2>2. ASSUME NEW trade \in Trade, ApplyTrade(trade) PROVE StatsInv'
    BY <2>2, StatsTradeStep
  <2>3. ASSUME ApplyBookClear PROVE StatsInv'
    BY <2>3 DEF ApplyBookClear, NoStats, StatsInv, StatsBracket
  <2>4. ASSUME UNCHANGED vars PROVE StatsInv'
    BY <2>4 DEF vars, StatsInv, StatsBracket
  <2> QED BY <2>1, <2>2, <2>3, <2>4 DEF Next
<1>3. StatsInv => StatsBracket BY DEF StatsInv
<1> QED BY <1>1, <1>2, <1>3, TypeCorrect, PTL DEF Spec

-----------------------------------------------------------------------------
(* The book implements the ledger *)

RestingAt(f, p) == IF p \in DOMAIN f THEN f[p].quantity ELSE 0

LEMMA RestingBySide ==
  /\ Resting = [k \in Side \X Price |-> RestingAt(levels[k[1]], k[2])]
  /\ Resting' = [k \in Side \X Price |-> RestingAt(levels'[k[1]], k[2])]
BY DEF Resting, RestingAt

(* What each operation does to the quantity resting at a price. *)
LEMMA OperationsRest ==
  ASSUME NEW lv \in LevelsType, NEW s \in Side \cup {"NONE"},
         NEW t \in Side, NEW q \in Price
  PROVE  /\ \A p \in Price :
              RestingAt(RemoveLevel(lv, s, p)[t], q)
                = IF t = s /\ q = p THEN 0 ELSE RestingAt(lv[t], q)
         /\ \A level \in Level :
              RestingAt(AddLevel(lv, s, level)[t], q)
                = IF t = s /\ q = level.price THEN level.quantity
                                              ELSE RestingAt(lv[t], q)
         /\ RestingAt(ClearSide(lv, s)[t], q)
              = IF t = s THEN 0 ELSE RestingAt(lv[t], q)
<1>1. ASSUME NEW p \in Price
      PROVE  RestingAt(RemoveLevel(lv, s, p)[t], q)
                = IF t = s /\ q = p THEN 0 ELSE RestingAt(lv[t], q)
  BY DEF RemoveLevel, WithSide, RestingAt
<1>2. ASSUME NEW level \in Level
      PROVE  RestingAt(AddLevel(lv, s, level)[t], q)
                = IF t = s /\ q = level.price THEN level.quantity
                                              ELSE RestingAt(lv[t], q)
  BY DEF AddLevel, WithSide, RestingAt
<1>3. RestingAt(ClearSide(lv, s)[t], q)
        = IF t = s THEN 0 ELSE RestingAt(lv[t], q)
  BY DEF ClearSide, WithSide, RestingAt, EmptySide
<1> QED BY <1>1, <1>2, <1>3

(* The effect of one quote on the quantity resting at any side and price.  *)
LEMMA QuoteRests ==
  ASSUME NEW lv \in LevelsType, NEW quote \in QuoteEvent,
         NEW t \in Side, NEW q \in Price
  PROVE  RestingAt(ApplyQuoteEvent(lv, quote)[t], q)
           = IF t # quote.side THEN RestingAt(lv[t], q)
             ELSE IF quote.action = "CLEAR" THEN 0
             ELSE IF q # quote.price THEN RestingAt(lv[t], q)
             ELSE IF quote.action = "DELETE" THEN 0 ELSE quote.quantity
<1> DEFINE level == [price |-> quote.price, quantity |-> quote.quantity]
<1>1. /\ quote.side \in Side \cup {"NONE"} /\ quote.price \in Price
      /\ level \in Level /\ level.quantity = quote.quantity
      /\ level.price = quote.price
  BY DEF QuoteEvent, Level
<1>2. \/ /\ quote.action \notin {"DELETE", "CLEAR"}
         /\ ApplyQuoteEvent(lv, quote) = AddLevel(lv, quote.side, level)
      \/ /\ \/ quote.action = "DELETE"
            \/ quote.action # "CLEAR" /\ quote.quantity = 0
         /\ ApplyQuoteEvent(lv, quote) = RemoveLevel(lv, quote.side, quote.price)
      \/ /\ quote.action = "CLEAR"
         /\ ApplyQuoteEvent(lv, quote) = ClearSide(lv, quote.side)
  BY ApplyQuoteCases, QuotesAndLevels
<1> HIDE DEF level
<1> QED BY <1>1, <1>2, OperationsRest

LEMMA EmptyRests == [k \in Side \X Price |-> RestingAt(EmptyLevels[k[1]], k[2])]
                      = Ledger!Nothing
BY DEF Ledger!Nothing, Ledger!Side, EmptyLevels, EmptySide, RestingAt

LEMMA InitMaps == Init => Ledger!Init
BY RestingBySide, EmptyRests DEF Init, Ledger!Init

LEMMA QuoteMaps ==
  ASSUME TypeOK, NEW quote \in QuoteEvent, ApplyQuote(quote)
  PROVE  [Ledger!Next]_(Ledger!vars)
<1> DEFINE K == Side \X Price
           s == quote.side
           p == quote.price
<1>0. /\ quote.action \in Action /\ s \in Side \cup {"NONE"} /\ p \in Price
      /\ quote.quantity \in Quantity
      /\ levels \in LevelsType /\ levels' = ApplyQuoteEvent(levels, quote)
      /\ UNCHANGED tape
  BY DEF QuoteEvent, TypeOK, LevelsType, ApplyQuote
<1>1. \A k \in K : RestingAt(levels'[k[1]], k[2])
           = IF k[1] # s THEN RestingAt(levels[k[1]], k[2])
             ELSE IF quote.action = "CLEAR" THEN 0
             ELSE IF k[2] # p THEN RestingAt(levels[k[1]], k[2])
             ELSE IF quote.action = "DELETE" THEN 0 ELSE quote.quantity
  BY <1>0, QuoteRests
<1>2. Resting = [k \in K |-> RestingAt(levels[k[1]], k[2])]
      /\ Resting' = [k \in K |-> RestingAt(levels'[k[1]], k[2])]
  BY RestingBySide
<1>3. CASE s = "NONE"
  <2>1. Resting' = Resting BY <1>1, <1>2, <1>3
  <2> QED BY <1>0, <2>1 DEF Ledger!vars
<1>4. CASE s \in Side /\ quote.action = "CLEAR"
  <2>1. Resting' = [k \in K |-> IF k[1] = s THEN 0 ELSE Resting[k]]
    BY <1>1, <1>2, <1>4
  <2>2. Ledger!ClearOneSide(s)
    BY <1>0, <2>1 DEF Ledger!ClearOneSide, Ledger!Side
  <2> QED BY <1>4, <2>2 DEF Ledger!Next, Ledger!Side
<1>5. CASE s \in Side /\ quote.action # "CLEAR"
  <2> DEFINE n == IF quote.action = "DELETE" THEN 0 ELSE quote.quantity
  <2>1. \A k \in K : k = <<s, p>> <=> k[1] = s /\ k[2] = p
    OBVIOUS
  <2>2. Resting' = [Resting EXCEPT ![<<s, p>>] = n]
    BY <1>1, <1>2, <1>5, <2>1
  <2>3. n \in Quantity BY <1>0, QuantityAssumption
  <2>4. Ledger!Rest(s, p, n)
    BY <1>0, <2>2 DEF Ledger!Rest
  <2> QED BY <1>0, <1>5, <2>3, <2>4 DEF Ledger!Next, Ledger!Side
<1> QED BY <1>0, <1>3, <1>4, <1>5

LEMMA TradeMaps ==
  ASSUME TypeOK, NEW trade \in Trade, ApplyTrade(trade)
  PROVE  [Ledger!Next]_(Ledger!vars)
<1>1. UNCHANGED Resting BY RestingBySide DEF ApplyTrade
<1>2. trade.price \in Price /\ trade.quantity \in TradeQuantity
      /\ trade = [price |-> trade.price, quantity |-> trade.quantity]
  BY DEF Trade
<1>3. Ledger!Trade(trade.price, trade.quantity)
  BY <1>1, <1>2 DEF ApplyTrade, Ledger!Trade
<1> QED BY <1>2, <1>3 DEF Ledger!Next

LEMMA ClearMaps ==
  ASSUME TypeOK, ApplyBookClear
  PROVE  [Ledger!Next]_(Ledger!vars)
<1>1. Resting' = Ledger!Nothing
  BY RestingBySide, EmptyRests DEF ApplyBookClear
<1>2. Ledger!Clear BY <1>1 DEF ApplyBookClear, Ledger!Clear
<1> QED BY <1>2 DEF Ledger!Next

(* Every behaviour of the book is a behaviour of MarketLedger: a quote     *)
(* fixes one resting quantity or clears one side, a trade extends the      *)
(* tape, a BOOK_CLEAR empties both.                                        *)
THEOREM BookImplementsLedger == Spec => ImplementsLedger
<1>1. TypeOK /\ [Next]_vars => [Ledger!Next]_(Ledger!vars)
  <2> SUFFICES ASSUME TypeOK, [Next]_vars PROVE [Ledger!Next]_(Ledger!vars)
    OBVIOUS
  <2>1. CASE UNCHANGED vars
    BY <2>1, RestingBySide DEF vars, Ledger!vars
  <2> QED BY <2>1, QuoteMaps, TradeMaps, ClearMaps DEF Next
<1> QED BY <1>1, InitMaps, TypeCorrect, PTL
        DEF Spec, ImplementsLedger, Ledger!Spec
-----------------------------------------------------------------------------
(* The recent trades *)

(* How many trades recent_trades_ holds after so many on the tape.         *)
Kept(n) == IF n < RecentLimit THEN n ELSE RecentLimit

(* RecentIsNewest, element by element. *)
NewestByIndex(recent, trades) ==
  /\ Len(recent) = Kept(Len(trades))
  /\ \A i \in 1..Kept(Len(trades)) :
       recent[i] = trades[Len(trades) - Kept(Len(trades)) + i]

LEMMA NewestIsByIndex ==
  ASSUME NEW recent \in Seq(Trade), NEW trades \in Seq(Trade)
  PROVE  NewestByIndex(recent, trades) <=>
           recent = SubSeq(trades, Len(trades) - Kept(Len(trades)) + 1, Len(trades))
<1> DEFINE n == Len(trades)
           k == Kept(n)
           newest == SubSeq(trades, n - k + 1, n)
<1>1. n \in Nat /\ k \in 0..n
  BY RecentLimitAssumption DEF Kept
<1>2. /\ newest \in Seq(Trade) /\ Len(newest) = k
      /\ \A i \in 1..k : newest[i] = trades[n - k + i]
  BY <1>1
<1>3. newest \in Seq(Trade) BY <1>2
<1>4. recent = newest <=>
        Len(recent) = Len(newest) /\ \A i \in 1..Len(newest) : recent[i] = newest[i]
  <2> HIDE DEF newest
  <2> QED BY <1>3
<1> QED BY <1>2, <1>4 DEF NewestByIndex

LEMMA PushKeepsNewest ==
  ASSUME NEW recent \in Seq(Trade), NEW trades \in Seq(Trade),
         NEW trade \in Trade, NewestByIndex(recent, trades)
  PROVE  NewestByIndex(PushRecent(recent, trade), Append(trades, trade))
<1> DEFINE pushed == Append(recent, trade)
           longer == Append(trades, trade)
<1>1. /\ Len(trades) \in Nat /\ Len(recent) \in Nat
      /\ Len(recent) = Kept(Len(trades))
      /\ Len(longer) = Len(trades) + 1
  BY DEF NewestByIndex
<1>2. /\ pushed \in Seq(Trade) /\ Len(pushed) = Len(recent) + 1
      /\ \A i \in 1..Len(recent) : pushed[i] = recent[i]
      /\ pushed[Len(recent) + 1] = trade
  OBVIOUS
<1>3. /\ \A i \in 1..Len(trades) : longer[i] = trades[i]
      /\ longer[Len(trades) + 1] = trade
  OBVIOUS
<1>4. ASSUME NEW i \in 1..Len(pushed)
      PROVE  pushed[i] = longer[Len(trades) - Len(recent) + i]
  <2>1. CASE i = Len(recent) + 1
    BY <1>1, <1>2, <1>3, <2>1
  <2>2. CASE i # Len(recent) + 1
    <3>1. i \in 1..Len(recent) BY <1>1, <1>2, <2>2
    <3>2. recent[i] = trades[Len(trades) - Len(recent) + i]
      BY <1>1, <3>1 DEF NewestByIndex
    <3>3. Len(trades) - Len(recent) + i \in 1..Len(trades)
      BY <1>1, <3>1, RecentLimitAssumption DEF Kept
    <3> QED BY <1>2, <1>3, <3>1, <3>2, <3>3
  <2> QED BY <2>1, <2>2
<1> HIDE DEF pushed, longer
<1>5. CASE Len(trades) < RecentLimit
  <2>1. /\ Len(recent) = Len(trades) /\ Kept(Len(longer)) = Len(pushed)
        /\ ~(Len(pushed) > RecentLimit)
    BY <1>1, <1>2, <1>5, RecentLimitAssumption DEF Kept
  <2>2. PushRecent(recent, trade) = pushed
    BY <2>1 DEF PushRecent, pushed
  <2> QED BY <1>1, <1>2, <1>4, <2>1, <2>2 DEF NewestByIndex, longer
<1>6. CASE ~(Len(trades) < RecentLimit)
  <2>1. /\ Len(recent) = RecentLimit /\ Kept(Len(longer)) = RecentLimit
        /\ Len(pushed) > RecentLimit
    BY <1>1, <1>2, <1>6, RecentLimitAssumption DEF Kept
  <2>2. PushRecent(recent, trade) = Tail(pushed)
    BY <2>1 DEF PushRecent, pushed
  <2>3. /\ Len(Tail(pushed)) = RecentLimit
        /\ \A i \in 1..RecentLimit : Tail(pushed)[i] = pushed[i + 1]
    BY <1>2, <2>1, RecentLimitAssumption
  <2>4. ASSUME NEW i \in 1..RecentLimit
        PROVE  Tail(pushed)[i] = longer[Len(longer) - RecentLimit + i]
    <3>1. i + 1 \in 1..Len(pushed)
      BY <1>2, <2>1, RecentLimitAssumption
    <3>2. Len(trades) - Len(recent) + (i + 1) = Len(longer) - RecentLimit + i
      BY <1>1, <2>1, RecentLimitAssumption
    <3> QED BY <1>4, <2>3, <3>1, <3>2
  <2> QED BY <2>1, <2>2, <2>3, <2>4 DEF NewestByIndex, longer
<1> QED BY <1>5, <1>6

(* recent_trades_ holds the newest trades, all of them up to its limit and *)
(* as many as its limit after, however long the tape grows.                *)
THEOREM RecentAlwaysNewest == Spec => []RecentIsNewest
<1> DEFINE Newest == NewestByIndex(recent_trades, tape)
<1>1. TypeOK => (Newest <=> RecentIsNewest)
  BY NewestIsByIndex DEF TypeOK, RecentIsNewest, Kept
<1>2. Init => Newest
  BY RecentLimitAssumption DEF Init, NewestByIndex, Kept
<1>3. TypeOK /\ Newest /\ [Next]_vars => Newest'
  <2> SUFFICES ASSUME TypeOK, Newest, [Next]_vars PROVE Newest'
    OBVIOUS
  <2>1. ASSUME NEW quote \in QuoteEvent, ApplyQuote(quote) PROVE Newest'
    BY <2>1 DEF ApplyQuote
  <2>2. ASSUME NEW trade \in Trade, ApplyTrade(trade) PROVE Newest'
    BY <2>2, PushKeepsNewest DEF ApplyTrade, TypeOK
  <2>3. ASSUME ApplyBookClear PROVE Newest'
    BY <2>3, RecentLimitAssumption DEF ApplyBookClear, NewestByIndex, Kept
  <2>4. ASSUME UNCHANGED vars PROVE Newest'
    BY <2>4 DEF vars
  <2> QED BY <2>1, <2>2, <2>3, <2>4 DEF Next
<1> HIDE DEF Newest
<1> QED BY <1>1, <1>2, <1>3, TypeCorrect, PTL DEF Spec

-----------------------------------------------------------------------------
(* The best prices, with the direct operations of the book *)

Less == {p \in Nat \X Nat : p[1] < p[2]}

(* A set of natural numbers has a least one. *)
LEMMA LeastExists ==
  ASSUME NEW S \in SUBSET Nat, S # {} PROVE \E x \in S : \A y \in S : x <= y
<1>1. IsWellFoundedOn(Less, Nat)
  BY NatLessThanWellFounded DEF OpToRel, Less
<1>2. PICK x \in S : \A y \in S : ~(<<y, x>> \in Less)
  BY <1>1, WFMin
<1>3. ASSUME NEW y \in S PROVE x <= y
  <2>1. x \in Nat /\ y \in Nat OBVIOUS
  <2>2. ~(y < x) BY <1>2, <2>1 DEF Less
  <2> QED BY <2>1, <2>2
<1> QED BY <1>3

Greatest(x, S) == x \in S /\ \A y \in S : y <= x

(* A finite one that is not empty also has a greatest: a smallest set      *)
(* without one would have a smaller such set in it.                        *)
LEMMA GreatestExists ==
  ASSUME NEW S \in SUBSET Nat, IsFiniteSet(S), S # {} PROVE \E x : Greatest(x, S)
<1> DEFINE Bad == {T \in SUBSET S : T # {} /\ ~(\E x : Greatest(x, T))}
           Sizes == {Cardinality(T) : T \in Bad}
<1>1. \A T \in SUBSET S : IsFiniteSet(T) /\ Cardinality(T) \in Nat
  BY FS_Subset, FS_CardinalityType
<1>2. SUFFICES ASSUME S \in Bad PROVE FALSE
  OBVIOUS
<1>3. Sizes \in SUBSET Nat /\ Sizes # {} BY <1>1, <1>2
<1>4. PICK n \in Sizes : \A m \in Sizes : n <= m
  <2> HIDE DEF Sizes
  <2> QED BY <1>3, LeastExists
<1>5. PICK T \in Bad : n = Cardinality(T) BY <1>4
<1>6. PICK x : x \in T BY <1>5
<1>7. /\ x \in Nat /\ T \in SUBSET S /\ n \in Nat
      /\ Cardinality(T \ {x}) = n - 1
  BY <1>1, <1>5, <1>6, FS_RemoveElement
<1>8. CASE T = {x}
  BY <1>5, <1>7, <1>8 DEF Greatest
<1>9. CASE T # {x}
  <2>1. T \ {x} # {} BY <1>6, <1>9
  <2>2. T \ {x} \notin Bad
    <3>1. SUFFICES ASSUME T \ {x} \in Bad PROVE FALSE OBVIOUS
    <3>2. Cardinality(T \ {x}) \in Sizes BY <3>1
    <3>3. n <= n - 1 BY <1>4, <1>7, <3>2
    <3> QED BY <1>7, <3>3
  <2>3. PICK y : Greatest(y, T \ {x}) BY <1>7, <2>1, <2>2
  <2>4. Greatest(IF x <= y THEN y ELSE x, T)
    <3>1. y \in Nat /\ y \in T /\ \A z \in T : z \in Nat /\ (z = x \/ z <= y)
      BY <1>7, <2>3 DEF Greatest
    <3> QED BY <1>6, <1>7, <3>1 DEF Greatest
  <2> QED BY <1>5, <2>4
<1> QED BY <1>8, <1>9

(* A side that holds levels has one best price, better than all its others. *)
LEMMA BestPriceIsBest ==
  ASSUME NEW lv, NEW s \in Side, DOMAIN lv[s] \subseteq Nat,
         IsFiniteSet(DOMAIN lv[s]), HasBest(lv, s)
  PROVE  /\ BestPrice(lv, s) \in DOMAIN lv[s]
         /\ \A q \in DOMAIN lv[s] \ {BestPrice(lv, s)} : Better(s, BestPrice(lv, s), q)
<1> DEFINE D == DOMAIN lv[s]
<1>1. \E p \in D : \A q \in D \ {p} : Better(s, p, q)
  <2>0. D # {} /\ D \in SUBSET Nat /\ IsFiniteSet(D) BY DEF HasBest
  <2>1. CASE s = "BID"
    <3> HIDE DEF D
    <3>1. PICK p : Greatest(p, D) BY <2>0, GreatestExists
    <3> QED BY <2>0, <2>1, <3>1 DEF Greatest, Better
  <2>2. CASE s = "ASK"
    <3> HIDE DEF D
    <3>1. PICK p \in D : \A q \in D : p <= q BY <2>0, LeastExists
    <3> QED BY <2>0, <2>2, <3>1 DEF Better
  <2> QED BY <2>1, <2>2
<1> QED BY <1>1 DEF BestPrice

(* The map of a side holds finitely many prices. *)
FiniteSides == \A s \in Side : IsFiniteSet(DOMAIN levels[s])

LEMMA OperationsFinite ==
  ASSUME NEW lv, \A s \in Side : IsFiniteSet(DOMAIN lv[s]), NEW t
  PROVE  /\ \A level : \A s \in Side : IsFiniteSet(DOMAIN AddLevel(lv, t, level)[s])
         /\ \A price : \A s \in Side : IsFiniteSet(DOMAIN RemoveLevel(lv, t, price)[s])
         /\ \A s \in Side : IsFiniteSet(DOMAIN ClearSide(lv, t)[s])
<1>1. \A s \in Side : \A x : /\ IsFiniteSet(DOMAIN lv[s] \cup {x})
                             /\ IsFiniteSet(DOMAIN lv[s] \ {x})
  BY FS_AddElement, FS_RemoveElement
<1> QED BY <1>1, FS_EmptySet
        DEF AddLevel, RemoveLevel, ClearSide, WithSide, EmptySide

LEMMA FiniteStep == TypeOK /\ FiniteSides /\ [ApiNext]_vars => TypeOK' /\ FiniteSides'
<1> SUFFICES ASSUME TypeOK, FiniteSides, [ApiNext]_vars PROVE TypeOK' /\ FiniteSides'
  OBVIOUS
<1>1. ASSUME NEW quote \in QuoteEvent, ApplyQuote(quote) PROVE FiniteSides'
  <2>1. /\ levels' = ApplyQuoteEvent(levels, quote)
        /\ quote \in QuoteOf(Price, Quantity)
    BY <1>1, QuotesAndLevels DEF ApplyQuote
  <2>2. \/ \E level : levels' = AddLevel(levels, quote.side, level)
        \/ \E price : levels' = RemoveLevel(levels, quote.side, price)
        \/ levels' = ClearSide(levels, quote.side)
    BY <2>1, ApplyQuoteCases
  <2> QED BY <2>2, OperationsFinite DEF FiniteSides
<1>2. ASSUME NEW trade \in Trade, ApplyTrade(trade) PROVE FiniteSides'
  BY <1>2 DEF ApplyTrade, FiniteSides
<1>3. ASSUME ApplyBookClear PROVE FiniteSides'
  BY <1>3, FS_EmptySet DEF ApplyBookClear, FiniteSides, EmptyLevels, EmptySide
<1>4. ASSUME NEW s \in Side, NEW level \in Level, AddLevelDirectly(s, level)
      PROVE  TypeOK' /\ FiniteSides'
  <2>1. levels' \in BookType(Price, Quantity)
    BY <1>4, AddLevelType, QuotesAndLevels DEF AddLevelDirectly, TypeOK
  <2>2. FiniteSides'
    BY <1>4, OperationsFinite DEF AddLevelDirectly, FiniteSides
  <2> QED BY <1>4, <2>1, <2>2 DEF AddLevelDirectly, TypeOK
<1>5. ASSUME NEW trade \in Trade, UpdateStats(trade) PROVE TypeOK' /\ FiniteSides'
  <2>1. stats' \in StatsType
    BY <1>5, StatsUpdateType, NoStatsType DEF UpdateStats
  <2> QED BY <1>5, <2>1 DEF UpdateStats, TypeOK, FiniteSides
<1>6. ASSUME Next PROVE TypeOK' BY <1>6, NextTypeOK
<1>7. ASSUME UNCHANGED vars PROVE TypeOK' /\ FiniteSides'
  BY <1>7, NextTypeOK DEF vars, FiniteSides
<1> QED BY <1>1, <1>2, <1>3, <1>4, <1>5, <1>6, <1>7 DEF ApiNext, Next

(* To look at the two best prices is to look at all pairs of a bid and an  *)
(* ask, in every book that events and direct calls of the interface build. *)
THEOREM CrossedBooksSeen == ApiSpec => []CrossedIsSomePair
<1>1. Init => TypeOK /\ FiniteSides
  BY InitTypeOK, FS_EmptySet DEF Init, FiniteSides, EmptyLevels, EmptySide
<1>2. TypeOK /\ FiniteSides => CrossedIsSomePair
  <2> SUFFICES ASSUME TypeOK, FiniteSides PROVE CrossedIsSomePair
    OBVIOUS
  <2> DEFINE D(s) == DOMAIN levels[s]
             best(s) == BestPrice(levels, s)
  <2>1. \A s \in Side : D(s) \subseteq Nat
    BY SideUnfold, PriceAssumption DEF TypeOK
  <2>2. \A s \in Side : HasBest(levels, s) =>
          best(s) \in D(s) /\ \A q \in D(s) \ {best(s)} : Better(s, best(s), q)
    BY <2>1, BestPriceIsBest DEF FiniteSides
  <2>3. \A s \in Side : HasBest(levels, s) <=> D(s) # {} BY DEF HasBest
  <2> HIDE DEF D, best
  <2>4. IsCrossed(levels) <=>
          /\ HasBest(levels, "BID") /\ HasBest(levels, "ASK")
          /\ best("BID") >= best("ASK")
    BY DEF IsCrossed, best
  <2>5. CASE HasBest(levels, "BID") /\ HasBest(levels, "ASK")
    <3>1. /\ best("BID") \in D("BID") /\ best("ASK") \in D("ASK")
          /\ D("BID") \subseteq Nat /\ D("ASK") \subseteq Nat
          /\ \A p \in D("BID") : p <= best("BID")
          /\ \A q \in D("ASK") : best("ASK") <= q
      BY <2>1, <2>2, <2>5 DEF Better
    <3>2. (\E p \in D("BID"), q \in D("ASK") : p >= q) <=> best("BID") >= best("ASK")
      BY <3>1
    <3> QED BY <2>4, <2>5, <3>2 DEF CrossedIsSomePair, D
  <2>6. CASE ~(HasBest(levels, "BID") /\ HasBest(levels, "ASK"))
    BY <2>3, <2>4, <2>6 DEF CrossedIsSomePair, D
  <2> QED BY <2>5, <2>6
<1> QED BY <1>1, <1>2, FiniteStep, PTL DEF ApiSpec

-----------------------------------------------------------------------------
(* Totals, and what a trade adds to them *)

(* f sums the first n amounts: the recursion of Total. *)
Sums(f, a, n) == f = [i \in 0..n |-> IF i = 0 THEN 0 ELSE f[i - 1] + a[i]]

(* It has a solution: one for n - 1 is continued. *)
LEMMA SumsExists == ASSUME NEW a, NEW n \in Nat PROVE \E f : Sums(f, a, n)
<1> DEFINE Bad == {m \in Nat : ~(\E f : Sums(f, a, m))}
<1>1. SUFFICES ASSUME Bad # {} PROVE FALSE
  OBVIOUS
<1>2. PICK m \in Bad : \A k \in Bad : m <= k
  <2>1. Bad \in SUBSET Nat OBVIOUS
  <2> HIDE DEF Bad
  <2> QED BY <1>1, <2>1, LeastExists
<1>3. m \in Nat /\ ~(\E f : Sums(f, a, m)) BY <1>2
<1>4. CASE m = 0
  <2> DEFINE f == [i \in 0..0 |-> 0]
  <2>1. f = [i \in 0..m |-> IF i = 0 THEN 0 ELSE f[i - 1] + a[i]] BY <1>4
  <2> HIDE DEF f
  <2> QED BY <1>3, <2>1 DEF Sums
<1>5. CASE m # 0
  <2>1. m - 1 \in Nat /\ m - 1 \notin Bad BY <1>2, <1>3, <1>5
  <2>2. PICK g : Sums(g, a, m - 1) BY <2>1
  <2>3. g = [i \in 0..(m - 1) |-> IF i = 0 THEN 0 ELSE g[i - 1] + a[i]]
    BY <2>2 DEF Sums
  <2>4. \A i \in 0..(m - 1) : g[i] = IF i = 0 THEN 0 ELSE g[i - 1] + a[i]
    BY <2>3
  <2> DEFINE f == [i \in 0..m |-> IF i = 0 THEN 0 ELSE g[i - 1] + a[i]]
  <2>5. \A i \in 0..m : i # 0 => f[i - 1] = g[i - 1]
    <3> SUFFICES ASSUME NEW i \in 0..m, i # 0 PROVE f[i - 1] = g[i - 1]
      OBVIOUS
    <3>1. i - 1 \in 0..(m - 1) /\ i - 1 \in 0..m BY <1>3
    <3> QED BY <2>4, <3>1
  <2>6. f = [i \in 0..m |-> IF i = 0 THEN 0 ELSE f[i - 1] + a[i]]
    <3>1. \A i \in 0..m : (IF i = 0 THEN 0 ELSE g[i - 1] + a[i])
                           = (IF i = 0 THEN 0 ELSE f[i - 1] + a[i])
      <4> HIDE DEF f
      <4> QED BY <2>5
    <3>2. f = [i \in 0..m |-> IF i = 0 THEN 0 ELSE g[i - 1] + a[i]] OBVIOUS
    <3> HIDE DEF f
    <3> QED BY <3>1, <3>2
  <2> HIDE DEF f
  <2> QED BY <1>3, <2>6 DEF Sums
<1> QED BY <1>4, <1>5

LEMMA TotalIsSums ==
  ASSUME NEW a, Len(a) \in Nat
  PROVE  \E f : Sums(f, a, Len(a)) /\ Total(a) = f[Len(a)]
<1> DEFINE F == CHOOSE f : f = [i \in 0..Len(a) |-> IF i = 0 THEN 0 ELSE f[i - 1] + a[i]]
<1>1. Total(a) = F[Len(a)] BY DEF Total
<1>2. \E f : f = [i \in 0..Len(a) |-> IF i = 0 THEN 0 ELSE f[i - 1] + a[i]]
  BY SumsExists DEF Sums
<1>3. F = [i \in 0..Len(a) |-> IF i = 0 THEN 0 ELSE F[i - 1] + a[i]]
  BY <1>2
<1> HIDE DEF F
<1> QED BY <1>1, <1>3 DEF Sums

(* It has but one, which depends only on the amounts summed. *)
LEMMA SumsAgree ==
  ASSUME NEW f, NEW g, NEW a, NEW b, NEW n \in Nat, NEW m \in Nat, n <= m,
         Sums(f, a, n), Sums(g, b, m), \A i \in 1..n : a[i] = b[i]
  PROVE  \A i \in 0..n : f[i] = g[i]
<1> DEFINE Bad == {i \in 0..n : f[i] # g[i]}
<1>1. SUFFICES ASSUME Bad # {} PROVE FALSE
  OBVIOUS
<1>2. PICK i \in Bad : \A k \in Bad : i <= k
  <2>1. Bad \in SUBSET Nat OBVIOUS
  <2> HIDE DEF Bad
  <2> QED BY <1>1, <2>1, LeastExists
<1>3. i \in 0..n /\ i \in 0..m /\ f[i] # g[i] BY <1>2
<1>4. f = [j \in 0..n |-> IF j = 0 THEN 0 ELSE f[j - 1] + a[j]] BY DEF Sums
<1>5. g = [j \in 0..m |-> IF j = 0 THEN 0 ELSE g[j - 1] + b[j]] BY DEF Sums
<1>6. f[i] = IF i = 0 THEN 0 ELSE f[i - 1] + a[i] BY <1>3, <1>4
<1>7. g[i] = IF i = 0 THEN 0 ELSE g[i - 1] + b[i] BY <1>3, <1>5
<1>8. CASE i = 0 BY <1>3, <1>6, <1>7, <1>8
<1>9. CASE i # 0
  <2>1. i - 1 \in 0..n /\ i - 1 \notin Bad /\ i \in 1..n BY <1>2, <1>3, <1>9
  <2>2. f[i - 1] = g[i - 1] BY <2>1
  <2> QED BY <1>3, <1>6, <1>7, <1>9, <2>1, <2>2
<1> QED BY <1>8, <1>9

LEMMA TotalGrows ==
  ASSUME NEW a, NEW b, Len(a) \in Nat, Len(b) = Len(a) + 1,
         \A i \in 1..Len(a) : b[i] = a[i]
  PROVE  Total(b) = Total(a) + b[Len(b)]
<1>1. PICK n \in Nat : n = Len(a) /\ Len(b) = n + 1 OBVIOUS
<1>2. PICK f : Sums(f, a, n) /\ Total(a) = f[n] BY <1>1, TotalIsSums
<1>3. PICK g : Sums(g, b, n + 1) /\ Total(b) = g[n + 1]
  <2>1. Len(b) \in Nat BY <1>1
  <2> QED BY <1>1, <2>1, TotalIsSums
<1>4. g = [j \in 0..(n + 1) |-> IF j = 0 THEN 0 ELSE g[j - 1] + b[j]] BY <1>3 DEF Sums
<1>5. n + 1 \in 0..(n + 1) /\ n + 1 # 0 /\ (n + 1) - 1 = n BY <1>1
<1>6. g[n + 1] = g[n] + b[n + 1] BY <1>4, <1>5
<1>7. f[n] = g[n]
  <2>1. n + 1 \in Nat /\ n <= n + 1 /\ n \in 0..n BY <1>1
  <2>2. \A i \in 1..n : a[i] = b[i] BY <1>1
  <2> QED BY <1>2, <1>3, <2>1, <2>2, SumsAgree
<1> QED BY <1>1, <1>2, <1>3, <1>6, <1>7

LEMMA TotalOfNone == ASSUME NEW a, Len(a) = 0 PROVE Total(a) = 0
<1>1. PICK f : Sums(f, a, 0) /\ Total(a) = f[0] BY TotalIsSums
<1> QED BY <1>1 DEF Sums

(* One trade more on the tape. *)
LEMMA TapeGrows ==
  ASSUME NEW trades \in Seq(Trade), NEW trade \in Trade
  PROVE  LET longer == Append(trades, trade) IN
         /\ Len(longer) = Len(trades) + 1
         /\ Total(Volumes(longer)) = Total(Volumes(trades)) + trade.quantity
         /\ Total(Notionals(longer)) = Total(Notionals(trades)) + trade.price * trade.quantity
         /\ PricesOf(longer) = PricesOf(trades) \cup {trade.price}
<1>1. PICK longer : longer = Append(trades, trade) OBVIOUS
<1>2. PICK n \in Nat : n = Len(trades) OBVIOUS
<1>3. /\ Len(longer) = n + 1 /\ longer[n + 1] = trade
      /\ \A i \in 1..n : longer[i] = trades[i]
  BY <1>1, <1>2
<1>4. /\ Len(Volumes(trades)) = n /\ Len(Volumes(longer)) = n + 1
      /\ Volumes(longer)[n + 1] = trade.quantity
      /\ \A i \in 1..n : Volumes(longer)[i] = Volumes(trades)[i]
  BY <1>2, <1>3 DEF Volumes
<1>5. /\ Len(Notionals(trades)) = n /\ Len(Notionals(longer)) = n + 1
      /\ Notionals(longer)[n + 1] = trade.price * trade.quantity
      /\ \A i \in 1..n : Notionals(longer)[i] = Notionals(trades)[i]
  BY <1>2, <1>3 DEF Notionals
<1>6. Total(Volumes(longer)) = Total(Volumes(trades)) + trade.quantity
  BY <1>4, TotalGrows
<1>7. Total(Notionals(longer)) = Total(Notionals(trades)) + trade.price * trade.quantity
  BY <1>5, TotalGrows
<1>8. PricesOf(longer) = PricesOf(trades) \cup {trade.price}
  <2>1. \A i \in 1..(n + 1) : i \in 1..n \/ i = n + 1 OBVIOUS
  <2>2. n + 1 \in 1..(n + 1) /\ \A i \in 1..n : i \in 1..(n + 1) OBVIOUS
  <2> QED BY <1>2, <1>3, <2>1, <2>2 DEF PricesOf
<1> QED BY <1>1, <1>2, <1>3, <1>6, <1>7, <1>8

LEMMA TotalNat ==
  ASSUME NEW trades \in Seq(Trade)
  PROVE  Total(Notionals(trades)) \in Nat
<1> DEFINE a == Notionals(trades)
           n == Len(trades)
<1>1. n \in Nat /\ Len(a) = n BY DEF Notionals
<1>2. \A i \in 1..n : a[i] \in Nat
  <2> SUFFICES ASSUME NEW i \in 1..n PROVE a[i] \in Nat
    OBVIOUS
  <2>1. trades[i].price \in Nat /\ trades[i].quantity \in Nat BY TradeFields
  <2>2. trades[i].price * trades[i].quantity \in Nat BY <2>1, ProductNat
  <2> QED BY <2>2 DEF Notionals
<1> HIDE DEF a, n
<1>3. PICK f : Sums(f, a, n) /\ Total(a) = f[n] BY <1>1, TotalIsSums
<1>4. f = [j \in 0..n |-> IF j = 0 THEN 0 ELSE f[j - 1] + a[j]] BY <1>3 DEF Sums
<1> DEFINE Bad == {i \in 0..n : f[i] \notin Nat}
<1>5. Bad = {}
  <2> SUFFICES ASSUME Bad # {} PROVE FALSE
    OBVIOUS
  <2>1. PICK i \in Bad : \A k \in Bad : i <= k
    <3>1. Bad \in SUBSET Nat BY <1>1
    <3> HIDE DEF Bad
    <3> QED BY <3>1, LeastExists
  <2>2. i \in 0..n /\ f[i] \notin Nat BY <2>1
  <2>3. f[i] = IF i = 0 THEN 0 ELSE f[i - 1] + a[i] BY <1>4, <2>2
  <2>4. i # 0 BY <2>2, <2>3
  <2>5. i - 1 \in 0..n /\ i - 1 \notin Bad /\ i \in 1..n BY <1>1, <2>1, <2>2, <2>4
  <2>6. f[i - 1] \in Nat /\ a[i] \in Nat BY <1>2, <2>5
  <2> QED BY <2>2, <2>3, <2>4, <2>6
<1>6. n \in 0..n BY <1>1
<1> QED BY <1>3, <1>5, <1>6 DEF a

LEMMA AtLeastOnce == \A m \in Nat, k \in Nat : k >= 1 => m * k >= m
OBVIOUS

LEMMA Remainder ==
  ASSUME NEW m \in Nat \ {0}, NEW q \in Nat, NEW r \in Nat, r < m
  PROVE  (m * q + r) % m = r
<1>1. PICK x \in Nat : x = m * q + r
  <2>1. m * q + r \in Nat BY ProductNat
  <2> QED BY <2>1
<1>2. PICK p \in Nat, s \in Nat : x = m * p + s /\ s < m /\ s = x % m
  <2>1. x = m * (x \div m) + (x % m) /\ x % m < m /\ x % m \in Nat /\ x \div m \in Nat
    OBVIOUS
  <2> QED BY <2>1
<1>3. ~(p > q)
  <2> SUFFICES ASSUME p > q PROVE FALSE
    OBVIOUS
  <2>1. PICK d \in Nat : d = p - q /\ d >= 1 OBVIOUS
  <2>2. m * p = m * q + m * d BY <2>1
  <2>3. m * d >= m BY <2>1, AtLeastOnce
  <2> QED BY <1>1, <1>2, <2>2, <2>3
<1>4. ~(q > p)
  <2> SUFFICES ASSUME q > p PROVE FALSE
    OBVIOUS
  <2>1. PICK d \in Nat : d = q - p /\ d >= 1 OBVIOUS
  <2>2. m * q = m * p + m * d BY <2>1
  <2>3. m * d >= m BY <2>1, AtLeastOnce
  <2> QED BY <1>1, <1>2, <2>2, <2>3
<1>5. p = q BY <1>3, <1>4
<1>6. PICK y \in Nat : y = m * q BY ProductNat
<1>7. x = y + r /\ x = y + s BY <1>1, <1>2, <1>5, <1>6
<1>8. r = s BY <1>2, <1>7
<1> QED BY <1>1, <1>2, <1>8

(* A count that wraps is the length that wraps. *)
LEMMA CountFollows ==
  ASSUME NEW n \in Nat, NEW m \in Nat \ {0}
  PROVE  ((n % m) + 1) % m = (n + 1) % m
<1>1. PICK q \in Nat, r \in Nat : n = m * q + r /\ r < m /\ r = n % m
  <2>1. n = m * (n \div m) + (n % m) /\ n % m < m /\ n % m \in Nat /\ n \div m \in Nat
    OBVIOUS
  <2> QED BY <2>1
<1>2. PICK y \in Nat, t \in Nat : y = m * q /\ t = r + 1 BY ProductNat
<1>3. n + 1 = y + t BY <1>1, <1>2
<1>4. CASE t < m
  <2>1. (m * q + t) % m = t BY <1>1, <1>2, <1>4, Remainder
  <2>2. (0 + t) % m = t
    <3>1. m * 0 = 0 OBVIOUS
    <3>2. (m * 0 + t) % m = t BY <1>2, <1>4, Remainder
    <3> QED BY <3>1, <3>2
  <2>3. 0 + t = t BY <1>2
  <2> QED BY <1>1, <1>2, <1>3, <2>1, <2>2, <2>3
<1>5. CASE t = m
  <2>1. t % m = 0
    <3>1. (m * 1 + 0) % m = 0 BY Remainder
    <3>2. m * 1 + 0 = t BY <1>5
    <3> QED BY <3>1, <3>2
  <2>2. PICK u \in Nat : u = q + 1 BY <1>1
  <2>3. m * u = y + m
    <3>1. m * (q + 1) = m * q + m BY <1>1
    <3> QED BY <1>2, <2>2, <3>1
  <2>4. (m * u + 0) % m = 0 BY <2>2, Remainder
  <2>5. m * u + 0 = n + 1 BY <1>3, <1>5, <2>3
  <2> QED BY <1>1, <1>2, <2>1, <2>4, <2>5
<1>6. t < m \/ t = m BY <1>1, <1>2
<1> QED BY <1>4, <1>5, <1>6

(* While it has not wrapped, it is the length. *)
LEMMA SmallRemainder == ASSUME NEW m \in Nat \ {0}, NEW n \in Nat, n < m PROVE n % m = n
<1>1. (m * 0 + n) % m = n BY Remainder
<1>2. m * 0 + n = n OBVIOUS
<1> QED BY <1>1, <1>2

(* A fraction a / b that is a total x / v moves with it by w units of c. *)
LEMMA MeanMoves ==
  ASSUME NEW a \in Nat, NEW b \in Nat, NEW v \in Nat, NEW x \in Nat,
         NEW c \in Nat, NEW w \in Nat, a * v = x * b
  PROVE  (a * v + c * w * b) * (v + w) = (x + c * w) * (b * (v + w))
<1>1. PICK k \in Nat : k = c * w BY ProductNat
<1>2. PICK u \in Nat : u = v + w OBVIOUS
<1>3. x * b + k * b = (x + k) * b OBVIOUS
<1>4. ((x + k) * b) * u = (x + k) * (b * u)
  <2>1. PICK y \in Nat : y = x + k OBVIOUS
  <2>2. (y * b) * u = y * (b * u) OBVIOUS
  <2> QED BY <2>1, <2>2
<1>5. a * v + k * b = (x + k) * b BY <1>3
<1>6. (a * v + k * b) * u = (x + k) * (b * u) BY <1>4, <1>5
<1> QED BY <1>1, <1>2, <1>6

-----------------------------------------------------------------------------
(* The statistics are those of the tape *)

(* Open, high and low of 0.0 mean "no trade yet", and only then. *)
StatsTapeInv == StatsMatchTape /\ (tape = << >> => stats = NoStats)

LEMMA PricesKnown ==
  ASSUME NEW trades \in Seq(Trade)
  PROVE  /\ \A x \in PricesOf(trades) : x \in Nat /\ x # 0
         /\ trades # << >> => trades[1].price \in PricesOf(trades)
<1>1. \A i \in 1..Len(trades) : trades[i].price \in Nat /\ trades[i].price # 0
  BY TradeFields
<1>2. trades # << >> => 1 \in 1..Len(trades) OBVIOUS
<1> QED BY <1>1, <1>2 DEF PricesOf

(* The extremes move with the prices, from a tape that may be empty. *)
LEMMA ExtremesStep ==
  ASSUME TypeOK, StatsTapeInv, NEW trade \in Trade, ApplyTrade(trade)
  PROVE  /\ stats'.open_price = tape'[1].price
         /\ stats'.last_price = tape'[Len(tape')].price
         /\ stats'.high_price \in PricesOf(tape')
         /\ stats'.low_price \in PricesOf(tape')
         /\ \A x \in PricesOf(tape') : stats'.low_price <= x /\ x <= stats'.high_price
<1>1. /\ trade.price \in Nat /\ trade.price # 0
      /\ tape \in Seq(Trade) /\ tape' = Append(tape, trade)
      /\ stats.high_price \in Nat /\ stats.low_price \in Nat
  BY TradeFields DEF TypeOK, StatsType, ApplyTrade
<1>2. PricesOf(tape') = PricesOf(tape) \cup {trade.price}
  BY <1>1, TapeGrows
<1>3. /\ tape'[Len(tape')] = trade
      /\ tape'[1] = IF tape = << >> THEN trade ELSE tape[1]
  BY <1>1
<1>4. /\ stats'.open_price = IF stats.open_price = 0 THEN trade.price
                                                     ELSE stats.open_price
      /\ stats'.high_price =
           IF trade.price > stats.high_price \/ stats.high_price = 0
           THEN trade.price ELSE stats.high_price
      /\ stats'.low_price =
           IF trade.price < stats.low_price \/ stats.low_price = 0
           THEN trade.price ELSE stats.low_price
      /\ stats'.last_price = trade.price
  BY DEF ApplyTrade, UpdateStatsOnTrade
<1>5. CASE tape = << >>
  <2>1. stats.open_price = 0 /\ stats.high_price = 0 /\ stats.low_price = 0
    BY <1>5 DEF StatsTapeInv, NoStats
  <2>2. PricesOf(tape) = {} BY <1>5 DEF PricesOf
  <2> QED BY <1>1, <1>2, <1>3, <1>4, <1>5, <2>1, <2>2
<1>6. CASE tape # << >>
  <2>1. /\ stats.open_price = tape[1].price
        /\ stats.high_price \in PricesOf(tape)
        /\ stats.low_price \in PricesOf(tape)
        /\ \A x \in PricesOf(tape) : stats.low_price <= x /\ x <= stats.high_price
    BY <1>6 DEF StatsTapeInv, StatsMatchTape
  <2>2. /\ \A x \in PricesOf(tape) : x \in Nat /\ x # 0
        /\ stats.open_price # 0 /\ stats.high_price # 0 /\ stats.low_price # 0
    BY <1>1, <1>6, <2>1, PricesKnown
  <2> QED BY <1>1, <1>2, <1>3, <1>4, <1>6, <2>1, <2>2
<1> QED BY <1>5, <1>6

(* The mean restarts with the first trade and then moves with each one, as *)
(* long as the count tells a first trade from a later one.                 *)
LEMMA MeanStep ==
  ASSUME TypeOK, StatsTapeInv, NEW trade \in Trade, ApplyTrade(trade),
         Len(tape') < CountModulus
  PROVE  stats'.vwap[1] * stats'.total_volume = Total(Notionals(tape')) * stats'.vwap[2]
<1>1. PICK c \in Nat, w \in Nat : c = trade.price /\ w = trade.quantity /\ w # 0
  BY TradeFields
<1>2. PICK n \in Nat, v \in Nat, a \in Nat, b \in Nat :
        /\ n = Len(tape) /\ v = stats.total_volume
        /\ a = stats.vwap[1] /\ b = stats.vwap[2]
  BY DEF TypeOK, StatsType
<1>3. tape \in Seq(Trade) /\ tape' = Append(tape, trade) BY DEF TypeOK, ApplyTrade
<1>4. PICK x \in Nat : x = Total(Notionals(tape)) BY <1>3, TotalNat
<1>5. Len(tape') = n + 1 /\ Total(Notionals(tape')) = x + c * w
  BY <1>1, <1>2, <1>3, <1>4, TapeGrows
<1>6. CountModulus \in Nat \ {0} /\ n < CountModulus /\ n + 1 < CountModulus
  BY <1>2, <1>5, CountModulusAssumption
<1>7. stats.trade_count = n
  <2>1. stats.trade_count = n % CountModulus BY <1>2 DEF StatsTapeInv, StatsMatchTape
  <2> QED BY <1>6, <2>1, SmallRemainder
<1>8. (stats.trade_count + 1) % CountModulus = n + 1
  <2>1. n + 1 \in Nat OBVIOUS
  <2> QED BY <1>6, <1>7, <2>1, SmallRemainder
<1>9. /\ stats'.total_volume = v + w
      /\ stats'.vwap = UpdateVwap(stats.vwap, n + 1, v + w, trade)
  BY <1>1, <1>2, <1>8 DEF ApplyTrade, UpdateStatsOnTrade
<1>10. CASE n = 0
  <2>1. stats = NoStats
    <3>1. tape # << >> => 1 \in 1..Len(tape) BY <1>3
    <3>2. tape = << >> BY <1>2, <1>10, <3>1
    <3> QED BY <3>2 DEF StatsTapeInv
  <2>2. v = 0 BY <1>2, <2>1 DEF NoStats
  <2>3. x = 0
    <3>1. Len(Notionals(tape)) = 0 BY <1>2, <1>10 DEF Notionals
    <3> QED BY <1>4, <3>1, TotalOfNone
  <2>4. stats'.vwap = <<c, 1>> BY <1>1, <1>9, <1>10 DEF UpdateVwap
  <2>5. stats'.vwap[1] = c /\ stats'.vwap[2] = 1 BY <2>4
  <2>6. stats'.total_volume = w BY <1>9, <2>2
  <2>7. Total(Notionals(tape')) = c * w
    <3>1. c * w \in Nat BY ProductNat
    <3> QED BY <1>5, <2>3, <3>1
  <2>8. c * w = (c * w) * 1
    <3>1. c * w \in Nat BY ProductNat
    <3> QED BY <3>1
  <2> QED BY <2>5, <2>6, <2>7, <2>8
<1>11. CASE n # 0
  <2>1. a * v = x * b
    <3>1. tape # << >> BY <1>2, <1>11
    <3> QED BY <1>2, <1>4, <1>6, <3>1 DEF StatsTapeInv, StatsMatchTape
  <2>2. n + 1 > 1 /\ (v + w) - w = v BY <1>11
  <2>3. stats'.vwap = << a * v + c * w * b, b * (v + w) >>
    BY <1>1, <1>2, <1>9, <2>2 DEF UpdateVwap
  <2>4. stats'.vwap[1] = a * v + c * w * b /\ stats'.vwap[2] = b * (v + w)
    BY <2>3
  <2>5. (a * v + c * w * b) * (v + w) = (x + c * w) * (b * (v + w))
    BY <2>1, MeanMoves
  <2>6. PICK num, den, vol, sum :
          /\ num = a * v + c * w * b /\ den = b * (v + w)
          /\ vol = v + w /\ sum = x + c * w
    OBVIOUS
  <2>7. num * vol = sum * den BY <2>5, <2>6
  <2> QED BY <1>5, <1>9, <2>4, <2>6, <2>7
<1> QED BY <1>10, <1>11

LEMMA StatsTapeStep ==
  ASSUME TypeOK, StatsTapeInv, NEW trade \in Trade, ApplyTrade(trade)
  PROVE  StatsTapeInv'
<1>1. trade.quantity \in Nat /\ tape \in Seq(Trade) /\ tape' = Append(tape, trade)
  BY TradeFields DEF TypeOK, ApplyTrade
<1>2. PICK n \in Nat : n = Len(tape) BY <1>1
<1>3. Len(tape') = n + 1 /\ tape' # << >> BY <1>1, <1>2
<1>4. stats'.trade_count = Len(tape') % CountModulus
  <2>1. stats'.trade_count = (stats.trade_count + 1) % CountModulus
    BY DEF ApplyTrade, UpdateStatsOnTrade
  <2>2. stats.trade_count = n % CountModulus
    BY <1>2 DEF StatsTapeInv, StatsMatchTape
  <2> QED BY <1>3, <2>1, <2>2, CountFollows, CountModulusAssumption
<1>5. stats'.total_volume = Total(Volumes(tape'))
  <2>1. stats'.total_volume = stats.total_volume + trade.quantity
    BY DEF ApplyTrade, UpdateStatsOnTrade
  <2>2. stats.total_volume = Total(Volumes(tape)) BY DEF StatsTapeInv, StatsMatchTape
  <2> QED BY <1>1, <2>1, <2>2, TapeGrows
<1> QED BY <1>3, <1>4, <1>5, ExtremesStep, MeanStep DEF StatsTapeInv, StatsMatchTape

(* The statistics are those of every trade since the book was cleared, not *)
(* of the hundred that are kept: first, last, highest and lowest price,    *)
(* total volume, count modulo its width and, until that wraps, the mean    *)
(* (update_stats_on_trade).                                                *)
THEOREM StatsAreTheTapes == Spec => []StatsMatchTape
<1>1. ASSUME tape = << >>, stats = NoStats PROVE StatsTapeInv
  <2>1. Len(tape) = 0 /\ Len(Volumes(tape)) = 0 BY <1>1 DEF Volumes
  <2>2. 0 % CountModulus = 0 BY SmallRemainder, CountModulusAssumption
  <2>3. Total(Volumes(tape)) = 0 BY <2>1, TotalOfNone
  <2> QED BY <1>1, <2>1, <2>2, <2>3 DEF StatsTapeInv, StatsMatchTape, NoStats
<1>2. Init => StatsTapeInv
  BY <1>1 DEF Init
<1>3. TypeOK /\ StatsTapeInv /\ [Next]_vars => StatsTapeInv'
  <2> SUFFICES ASSUME TypeOK, StatsTapeInv, [Next]_vars PROVE StatsTapeInv'
    OBVIOUS
  <2>1. ASSUME UNCHANGED <<stats, tape>> PROVE StatsTapeInv'
    BY <2>1 DEF StatsTapeInv, StatsMatchTape
  <2>2. ASSUME NEW quote \in QuoteEvent, ApplyQuote(quote) PROVE StatsTapeInv'
    BY <2>1, <2>2 DEF ApplyQuote
  <2>3. ASSUME NEW trade \in Trade, ApplyTrade(trade) PROVE StatsTapeInv'
    BY <2>3, StatsTapeStep
  <2>4. ASSUME ApplyBookClear PROVE StatsTapeInv'
    <3>1. tape' = << >> /\ stats' = NoStats BY <2>4 DEF ApplyBookClear
    <3>2. Len(tape') = 0 /\ Len(Volumes(tape')) = 0 BY <3>1 DEF Volumes
    <3>3. 0 % CountModulus = 0 BY SmallRemainder, CountModulusAssumption
    <3>4. Total(Volumes(tape')) = 0 BY <3>2, TotalOfNone
    <3> QED BY <3>1, <3>2, <3>3, <3>4 DEF StatsTapeInv, StatsMatchTape, NoStats
  <2>5. ASSUME UNCHANGED vars PROVE StatsTapeInv'
    BY <2>1, <2>5 DEF vars
  <2> QED BY <2>2, <2>3, <2>4, <2>5 DEF Next
<1>4. StatsTapeInv => StatsMatchTape BY DEF StatsTapeInv
<1> QED BY <1>2, <1>3, <1>4, TypeCorrect, PTL DEF Spec

-----------------------------------------------------------------------------
(* The rank of a price: how many prices of its side are better *)

Rank(lv, s, p) == Cardinality({q \in DOMAIN lv[s] : Better(s, q, p)})

LEMMA BetterOrders ==
  ASSUME NEW s \in Side
  PROVE  /\ \A p, q \in Nat : p = q \/ Better(s, p, q) \/ Better(s, q, p)
         /\ \A p, q, r \in Nat : Better(s, p, q) /\ Better(s, q, r) => Better(s, p, r)
         /\ \A p \in Nat : ~Better(s, p, p)
BY DEF Better

(* The better price has the lower rank, and every rank is below the depth. *)
LEMMA RankGrows ==
  ASSUME NEW lv, NEW s \in Side, DOMAIN lv[s] \in SUBSET Nat,
         IsFiniteSet(DOMAIN lv[s]), NEW p \in DOMAIN lv[s]
  PROVE  /\ Rank(lv, s, p) \in Nat /\ Rank(lv, s, p) < Depth(lv, s)
         /\ \A q \in DOMAIN lv[s] : Better(s, p, q) => Rank(lv, s, p) < Rank(lv, s, q)
<1> DEFINE D == DOMAIN lv[s]
           Above(x) == {q \in D : Better(s, q, x)}
<1>1. IsFiniteSet(D) /\ D \in SUBSET Nat /\ p \in D OBVIOUS
<1>2. \A x : /\ Above(x) \in SUBSET D /\ IsFiniteSet(Above(x))
             /\ Cardinality(Above(x)) \in Nat
  <2> HIDE DEF D
  <2> QED BY <1>1, FS_Subset, FS_CardinalityType
<1>3. p \notin Above(p) BY <1>1, BetterOrders
<1>4. ASSUME NEW B \in SUBSET D, Above(p) \in SUBSET B, p \in B
      PROVE  Cardinality(Above(p)) < Cardinality(B)
  <2> HIDE DEF D, Above
  <2>1. IsFiniteSet(B) /\ Cardinality(B) \in Nat BY <1>1, FS_Subset, FS_CardinalityType
  <2>2. /\ Cardinality(Above(p)) <= Cardinality(B)
        /\ Cardinality(B) = Cardinality(Above(p)) => B = Above(p)
    BY <1>4, <2>1, FS_Subset
  <2> QED BY <1>2, <1>3, <1>4, <2>1, <2>2
<1>5. Cardinality(Above(p)) < Cardinality(D)
  <2>1. Above(p) \in SUBSET D /\ D \in SUBSET D OBVIOUS
  <2> HIDE DEF D, Above
  <2> QED BY <1>1, <1>4, <2>1
<1>6. ASSUME NEW q \in D, Better(s, p, q)
      PROVE  Cardinality(Above(p)) < Cardinality(Above(q))
  <2>1. Above(p) \in SUBSET Above(q) /\ p \in Above(q) BY <1>1, <1>6, BetterOrders
  <2>2. Above(q) \in SUBSET D OBVIOUS
  <2> HIDE DEF D, Above
  <2> QED BY <1>4, <2>1, <2>2
<1> QED BY <1>2, <1>5, <1>6 DEF Rank, Depth

(* Ranks tell the prices of a side apart, and each below the depth is taken. *)
LEMMA RankTaken ==
  ASSUME NEW lv, NEW s \in Side, DOMAIN lv[s] \in SUBSET Nat, IsFiniteSet(DOMAIN lv[s])
  PROVE  /\ \A p, q \in DOMAIN lv[s] : Rank(lv, s, p) = Rank(lv, s, q) => p = q
         /\ \A i \in 1..Depth(lv, s) : \E p \in DOMAIN lv[s] : Rank(lv, s, p) = i - 1
<1> DEFINE D == DOMAIN lv[s]
           R == 0..(Cardinality(D) - 1)
           f == [p \in D |-> Rank(lv, s, p)]
<1>1. IsFiniteSet(D) /\ D \in SUBSET Nat /\ Cardinality(D) \in Nat
  BY FS_CardinalityType
<1>2. \A p \in D : /\ Rank(lv, s, p) \in R
                   /\ \A q \in D : Better(s, p, q) => Rank(lv, s, p) < Rank(lv, s, q)
  BY <1>1, RankGrows DEF Depth
<1>3. \A p, q \in D : Rank(lv, s, p) = Rank(lv, s, q) => p = q
  <2> SUFFICES ASSUME NEW p \in D, NEW q \in D, Rank(lv, s, p) = Rank(lv, s, q), p # q
               PROVE  FALSE
    OBVIOUS
  <2>1. Better(s, p, q) \/ Better(s, q, p)
    <3>1. p \in Nat /\ q \in Nat BY <1>1
    <3> QED BY <3>1, BetterOrders
  <2>2. Rank(lv, s, p) < Rank(lv, s, q) \/ Rank(lv, s, q) < Rank(lv, s, p)
    BY <1>2, <2>1
  <2>3. Rank(lv, s, p) \in Nat /\ Rank(lv, s, q) \in Nat BY <1>2
  <2> QED BY <2>2, <2>3
<1>4. f \in Injection(D, R)
  BY <1>2, <1>3 DEF Injection, IsInjective
<1>5. IsFiniteSet(R) /\ Cardinality(R) = Cardinality(D)
  BY <1>1, FS_Interval
<1>6. f \in Surjection(D, R)
  <2> HIDE DEF D, R, f
  <2> QED BY <1>4, <1>5, FS_Injection
<1>7. \A k \in R : \E p \in D : f[p] = k
  <2> HIDE DEF D, R, f
  <2> QED BY <1>6 DEF Surjection
<1>8. \A i \in 1..Cardinality(D) : \E p \in D : Rank(lv, s, p) = i - 1
  <2> SUFFICES ASSUME NEW i \in 1..Cardinality(D)
               PROVE  \E p \in D : Rank(lv, s, p) = i - 1
    OBVIOUS
  <2>1. i - 1 \in R BY <1>1
  <2>2. PICK p \in D : f[p] = i - 1 BY <1>7, <2>1
  <2> QED BY <2>2
<1> QED BY <1>3, <1>8 DEF Depth

(* The price of the i-th level from the top (NthLevel). *)
NthPrice(lv, s, i) == CHOOSE p \in DOMAIN lv[s] : Rank(lv, s, p) = i - 1

LEMMA NthPriceIs ==
  ASSUME NEW lv, NEW s \in Side, DOMAIN lv[s] \in SUBSET Nat, IsFiniteSet(DOMAIN lv[s])
  PROVE  /\ \A i \in 1..Depth(lv, s) :
              /\ NthPrice(lv, s, i) \in DOMAIN lv[s]
              /\ Rank(lv, s, NthPrice(lv, s, i)) = i - 1
              /\ NthLevel(lv, s, i) = lv[s][NthPrice(lv, s, i)]
         /\ \A p \in DOMAIN lv[s] :
              /\ Rank(lv, s, p) + 1 \in 1..Depth(lv, s)
              /\ NthPrice(lv, s, Rank(lv, s, p) + 1) = p
<1>1. \A i \in 1..Depth(lv, s) :
        /\ NthPrice(lv, s, i) \in DOMAIN lv[s]
        /\ Rank(lv, s, NthPrice(lv, s, i)) = i - 1
  BY RankTaken DEF NthPrice
<1>2. \A i \in 1..Depth(lv, s) : NthLevel(lv, s, i) = lv[s][NthPrice(lv, s, i)]
  BY DEF NthLevel, NthPrice, Rank
<1>3. ASSUME NEW p \in DOMAIN lv[s]
      PROVE  /\ Rank(lv, s, p) + 1 \in 1..Depth(lv, s)
             /\ NthPrice(lv, s, Rank(lv, s, p) + 1) = p
  <2>1. Rank(lv, s, p) \in Nat /\ Rank(lv, s, p) < Depth(lv, s) BY RankGrows
  <2>2. Depth(lv, s) \in Nat BY FS_CardinalityType DEF Depth
  <2>3. PICK i : i = Rank(lv, s, p) + 1 /\ i \in 1..Depth(lv, s) BY <2>1, <2>2
  <2>4. Rank(lv, s, NthPrice(lv, s, i)) = Rank(lv, s, p) BY <1>1, <2>1, <2>3
  <2>5. NthPrice(lv, s, i) = p BY <1>1, <2>3, <2>4, RankTaken
  <2> QED BY <2>3, <2>5
<1> QED BY <1>1, <1>2, <1>3

-----------------------------------------------------------------------------
(* A side rebuilt level by level *)

(* The first n prices from the top, and an empty book with their levels. *)
FirstPrices(lv, s, n) == {NthPrice(lv, s, j) : j \in 1..n}

FirstLevels(lv, s, n) ==
  [t \in Side |-> IF t = s THEN [p \in FirstPrices(lv, s, n) |-> lv[s][p]]
                           ELSE EmptySide]

(* What a side needs to be rebuilt from its levels. *)
Snapshotable(lv, s) ==
  /\ DOMAIN lv[s] \in SUBSET Nat /\ IsFiniteSet(DOMAIN lv[s])
  /\ \A p \in DOMAIN lv[s] :
       /\ lv[s][p] = [price |-> p, quantity |-> lv[s][p].quantity]
       /\ lv[s][p].quantity # 0
  /\ lv[s] = [p \in DOMAIN lv[s] |-> lv[s][p]]

LEMMA SnapshotLevelAdds ==
  ASSUME NEW lv, NEW s \in Side, Snapshotable(lv, s), NEW i \in 1..Depth(lv, s)
  PROVE  AddSnapshotLevel(FirstLevels(lv, s, i - 1), s, NthLevel(lv, s, i))
           = FirstLevels(lv, s, i)
<1>1. PICK p \in DOMAIN lv[s] : p = NthPrice(lv, s, i) /\ NthLevel(lv, s, i) = lv[s][p]
  BY NthPriceIs DEF Snapshotable
<1>2. PICK level : level = lv[s][p] OBVIOUS
<1>3. /\ level.price = p /\ level.quantity # 0
      /\ level = [price |-> level.price, quantity |-> level.quantity]
  <2>1. level = [price |-> p, quantity |-> level.quantity] /\ level.quantity # 0
    BY <1>2 DEF Snapshotable
  <2>2. level.price = p BY <2>1
  <2> QED BY <2>1, <2>2
<1>4. PICK book : book = FirstLevels(lv, s, i - 1) OBVIOUS
<1>5. AddSnapshotLevel(book, s, level) = AddLevel(book, s, level)
  BY <1>3 DEF AddSnapshotLevel, ApplyQuoteEvent, UpdateLevel
<1>6. FirstPrices(lv, s, i) = FirstPrices(lv, s, i - 1) \cup {p}
  <2>1. Depth(lv, s) \in Nat BY FS_CardinalityType DEF Snapshotable, Depth
  <2>2. i \in 1..i /\ \A j : j \in 1..i <=> j \in 1..(i - 1) \/ j = i BY <2>1
  <2> QED BY <1>1, <2>2 DEF FirstPrices
<1>7. book[s] = [q \in FirstPrices(lv, s, i - 1) |-> lv[s][q]]
  BY <1>4 DEF FirstLevels
<1>8. AddLevel(book, s, level)
        = [t \in Side |-> IF t = s
                          THEN [q \in FirstPrices(lv, s, i) |->
                                  IF q = p THEN level ELSE book[s][q]]
                          ELSE book[t]]
  BY <1>3, <1>6, <1>7 DEF AddLevel, WithSide
<1>9. [q \in FirstPrices(lv, s, i) |-> IF q = p THEN level ELSE book[s][q]]
        = [q \in FirstPrices(lv, s, i) |-> lv[s][q]]
  BY <1>2, <1>6, <1>7
<1>10. \A t \in Side : t # s => book[t] = EmptySide BY <1>4 DEF FirstLevels
<1> QED BY <1>1, <1>2, <1>4, <1>5, <1>8, <1>9, <1>10 DEF FirstLevels

(* f rebuilds a side from the levels of top: the recursion of Rebuilt. *)
Rebuilds(f, top, s, n) ==
  f = [i \in 0..n |->
         IF i = 0 THEN EmptyLevels ELSE AddSnapshotLevel(f[i - 1], s, top[i])]

LEMMA RebuiltIs ==
  ASSUME NEW lv, NEW s \in Side, Snapshotable(lv, s), NEW max_levels \in Nat
  PROVE  LET n == IF Depth(lv, s) < max_levels THEN Depth(lv, s) ELSE max_levels
         IN  Rebuilt(lv, s, max_levels) = [p \in FirstPrices(lv, s, n) |-> lv[s][p]]
<1>1. PICK n \in Nat :
        /\ n = (IF Depth(lv, s) < max_levels THEN Depth(lv, s) ELSE max_levels)
        /\ n <= Depth(lv, s)
  <2>1. Depth(lv, s) \in Nat BY FS_CardinalityType DEF Snapshotable, Depth
  <2> QED BY <2>1
<1>2. PICK top : top = TopLevels(lv, s, max_levels) OBVIOUS
<1>3. Len(top) = n /\ \A i \in 1..n : top[i] = NthLevel(lv, s, i)
  <2>1. top = [i \in 1..n |-> NthLevel(lv, s, i)] BY <1>1, <1>2 DEF TopLevels
  <2> QED BY <1>1, <2>1
<1>4. FirstLevels(lv, s, 0) = EmptyLevels
  <2>1. FirstPrices(lv, s, 0) = {} BY DEF FirstPrices
  <2> QED BY <2>1 DEF FirstLevels, EmptyLevels, EmptySide
<1>5. \A i \in 1..n : AddSnapshotLevel(FirstLevels(lv, s, i - 1), s, top[i])
                        = FirstLevels(lv, s, i)
  <2> SUFFICES ASSUME NEW i \in 1..n
               PROVE  AddSnapshotLevel(FirstLevels(lv, s, i - 1), s, top[i])
                        = FirstLevels(lv, s, i)
    OBVIOUS
  <2>1. i \in 1..Depth(lv, s)
    <3>1. Depth(lv, s) \in Nat BY FS_CardinalityType DEF Snapshotable, Depth
    <3> QED BY <1>1, <3>1
  <2> QED BY <1>3, <2>1, SnapshotLevelAdds
<1>6. \E f : Rebuilds(f, top, s, n)
  <2> DEFINE f == [i \in 0..n |-> FirstLevels(lv, s, i)]
  <2>1. \A i \in 0..n : f[i] = IF i = 0 THEN EmptyLevels
                               ELSE AddSnapshotLevel(f[i - 1], s, top[i])
    <3> SUFFICES ASSUME NEW i \in 0..n
                 PROVE  f[i] = IF i = 0 THEN EmptyLevels
                               ELSE AddSnapshotLevel(f[i - 1], s, top[i])
      OBVIOUS
    <3>1. i # 0 => i \in 1..n /\ i - 1 \in 0..n BY <1>1
    <3> QED BY <1>4, <1>5, <3>1
  <2>2. f = [i \in 0..n |-> f[i]] OBVIOUS
  <2> HIDE DEF f
  <2>3. Rebuilds(f, top, s, n) BY <2>1, <2>2 DEF Rebuilds
  <2> QED BY <2>3
<1> DEFINE F == CHOOSE f : f = [i \in 0..Len(top) |->
                   IF i = 0 THEN EmptyLevels ELSE AddSnapshotLevel(f[i - 1], s, top[i])]
<1>7. Rebuilt(lv, s, max_levels) = F[Len(top)][s] BY <1>2 DEF Rebuilt
<1>8. Rebuilds(F, top, s, n)
  <2>1. \E f : f = [i \in 0..Len(top) |->
                   IF i = 0 THEN EmptyLevels ELSE AddSnapshotLevel(f[i - 1], s, top[i])]
    BY <1>3, <1>6 DEF Rebuilds
  <2>2. F = [i \in 0..Len(top) |->
                   IF i = 0 THEN EmptyLevels ELSE AddSnapshotLevel(F[i - 1], s, top[i])]
    BY <2>1
  <2> HIDE DEF F
  <2> QED BY <1>3, <2>2 DEF Rebuilds
<1> HIDE DEF F
<1> DEFINE Bad == {i \in 0..n : F[i] # FirstLevels(lv, s, i)}
<1>9. Bad = {}
  <2> SUFFICES ASSUME Bad # {} PROVE FALSE
    OBVIOUS
  <2>1. PICK i \in Bad : \A k \in Bad : i <= k
    <3>1. Bad \in SUBSET Nat OBVIOUS
    <3> HIDE DEF Bad
    <3> QED BY <3>1, LeastExists
  <2>2. i \in 0..n /\ F[i] # FirstLevels(lv, s, i) BY <2>1
  <2>3. F[i] = IF i = 0 THEN EmptyLevels ELSE AddSnapshotLevel(F[i - 1], s, top[i])
    BY <1>8, <2>2 DEF Rebuilds
  <2>4. i # 0 BY <1>4, <2>2, <2>3
  <2>5. i \in 1..n /\ i - 1 \in 0..n /\ i - 1 \notin Bad BY <1>1, <2>1, <2>2, <2>4
  <2>6. F[i - 1] = FirstLevels(lv, s, i - 1) BY <2>5
  <2> QED BY <1>5, <2>2, <2>3, <2>4, <2>5, <2>6
<1>10. F[n] = FirstLevels(lv, s, n)
  <2>1. n \in 0..n BY <1>1
  <2> QED BY <1>9, <2>1
<1>11. Rebuilt(lv, s, max_levels) = [p \in FirstPrices(lv, s, n) |-> lv[s][p]]
  BY <1>3, <1>7, <1>10 DEF FirstLevels
<1> QED BY <1>1, <1>11

(* The first prices are those of small rank; there are as many as asked    *)
(* for, and none that is left out is better than one of them.              *)
LEMMA FirstPricesAre ==
  ASSUME NEW lv, NEW s \in Side, DOMAIN lv[s] \in SUBSET Nat,
         IsFiniteSet(DOMAIN lv[s]), NEW n \in Nat, n <= Depth(lv, s)
  PROVE  /\ FirstPrices(lv, s, n) = {p \in DOMAIN lv[s] : Rank(lv, s, p) < n}
         /\ Cardinality(FirstPrices(lv, s, n)) = n
         /\ \A p \in FirstPrices(lv, s, n) : \A q \in DOMAIN lv[s] \ FirstPrices(lv, s, n) :
              Better(s, p, q)
<1> DEFINE D == DOMAIN lv[s]
           P == FirstPrices(lv, s, n)
<1>1. Depth(lv, s) \in Nat /\ \A i \in 1..n : i \in 1..Depth(lv, s)
  <2>1. Depth(lv, s) \in Nat BY FS_CardinalityType DEF Depth
  <2> QED BY <2>1
<1>2. /\ \A i \in 1..n : NthPrice(lv, s, i) \in D /\ Rank(lv, s, NthPrice(lv, s, i)) = i - 1
      /\ \A p \in D : /\ Rank(lv, s, p) + 1 \in 1..Depth(lv, s)
                      /\ NthPrice(lv, s, Rank(lv, s, p) + 1) = p
      /\ \A p \in D : Rank(lv, s, p) \in Nat
  BY <1>1, NthPriceIs, RankGrows
<1>3. P = {p \in D : Rank(lv, s, p) < n}
  <2>1. ASSUME NEW p \in P PROVE p \in D /\ Rank(lv, s, p) < n
    <3>1. PICK i \in 1..n : p = NthPrice(lv, s, i) BY DEF FirstPrices
    <3> QED BY <1>2, <3>1
  <2>2. ASSUME NEW p \in D, Rank(lv, s, p) < n PROVE p \in P
    <3>1. Rank(lv, s, p) + 1 \in 1..n BY <1>2, <2>2
    <3> QED BY <1>2, <3>1 DEF FirstPrices
  <2> QED BY <2>1, <2>2
<1>4. Cardinality(P) = n
  <2> DEFINE f == [i \in 1..n |-> NthPrice(lv, s, i)]
  <2>1. f \in [1..n -> P] BY DEF FirstPrices
  <2>2. \A i, j \in 1..n : f[i] = f[j] => i = j
    <3> SUFFICES ASSUME NEW i \in 1..n, NEW j \in 1..n, f[i] = f[j] PROVE i = j
      OBVIOUS
    <3>1. i - 1 = j - 1 BY <1>2
    <3> QED BY <3>1
  <2>3. \A p \in P : \E i \in 1..n : f[i] = p BY DEF FirstPrices
  <2>4. f \in Injection(1..n, P) /\ f \in Surjection(1..n, P)
    <3> HIDE DEF f, P
    <3> QED BY <2>1, <2>2, <2>3 DEF Injection, IsInjective, Surjection
  <2>5. IsFiniteSet(1..n) /\ Cardinality(1..n) = n BY FS_Interval
  <2>6. Cardinality(P) = Cardinality(1..n)
    <3> HIDE DEF f, P
    <3> QED BY <2>4, <2>5, FS_Surjection
  <2> QED BY <2>5, <2>6
<1>5. ASSUME NEW p \in P, NEW q \in D \ P PROVE Better(s, p, q)
  <2>1. p \in D /\ q \in D /\ p \in Nat /\ q \in Nat
    <3> HIDE DEF P
    <3> QED BY <1>3, <1>5
  <2>2. Rank(lv, s, p) < n /\ ~(Rank(lv, s, q) < n)
    <3> HIDE DEF P
    <3> QED BY <1>3, <1>5, <2>1
  <2>3. Rank(lv, s, p) \in Nat /\ Rank(lv, s, q) \in Nat BY <1>2, <2>1
  <2>4. ~Better(s, q, p)
    <3>1. Better(s, q, p) => Rank(lv, s, q) < Rank(lv, s, p) BY <2>1, RankGrows
    <3> QED BY <2>2, <2>3, <3>1
  <2>5. p # q BY <2>2
  <2> QED BY <2>1, <2>4, <2>5, BetterOrders
<1> QED BY <1>3, <1>4, <1>5

(* For a snapshot of any size, with no regard to how many prices there are. *)
LEMMA SideRebuilds ==
  ASSUME NEW lv, NEW s \in Side, Snapshotable(lv, s), NEW max_levels \in Nat
  PROVE  LET r == Rebuilt(lv, s, max_levels) IN
         /\ DOMAIN r = TopPrices(lv, s, max_levels)
         /\ \A p \in DOMAIN r : r[p] = lv[s][p]
         /\ Depth(lv, s) <= max_levels => r = lv[s]
         /\ Depth(lv, s) > max_levels =>
              /\ Cardinality(DOMAIN r) = max_levels
              /\ \A p \in DOMAIN r, q \in DOMAIN lv[s] \ DOMAIN r : Better(s, p, q)
<1> DEFINE D == DOMAIN lv[s]
<1>1. D \in SUBSET Nat /\ IsFiniteSet(D) BY DEF Snapshotable
<1>2. PICK d \in Nat : d = Depth(lv, s) BY <1>1, FS_CardinalityType DEF Depth
<1>3. PICK n \in Nat : n = (IF d < max_levels THEN d ELSE max_levels) /\ n <= d
  OBVIOUS
<1>4. PICK r : r = Rebuilt(lv, s, max_levels) OBVIOUS
<1>5. r = [p \in FirstPrices(lv, s, n) |-> lv[s][p]]
  BY <1>2, <1>3, <1>4, RebuiltIs
<1>6. /\ FirstPrices(lv, s, n) = {p \in D : Rank(lv, s, p) < n}
      /\ Cardinality(FirstPrices(lv, s, n)) = n
      /\ \A p \in FirstPrices(lv, s, n) : \A q \in D \ FirstPrices(lv, s, n) :
           Better(s, p, q)
  BY <1>1, <1>2, <1>3, FirstPricesAre
<1>7. \A p \in D : Rank(lv, s, p) \in Nat /\ Rank(lv, s, p) < d
  BY <1>1, <1>2, RankGrows
<1>8. TopPrices(lv, s, max_levels) = {p \in D : Rank(lv, s, p) < max_levels}
  BY DEF TopPrices, Rank
<1>9. FirstPrices(lv, s, n) = TopPrices(lv, s, max_levels)
  BY <1>3, <1>6, <1>7, <1>8
<1>10. ASSUME d <= max_levels PROVE r = lv[s]
  <2>1. FirstPrices(lv, s, n) = D BY <1>3, <1>6, <1>7, <1>10
  <2>2. lv[s] = [p \in D |-> lv[s][p]] BY DEF Snapshotable
  <2> QED BY <1>5, <2>1, <2>2
<1>11. d > max_levels => n = max_levels BY <1>3
<1> QED BY <1>2, <1>4, <1>5, <1>6, <1>9, <1>10, <1>11

(* The levels of a snapshot rebuild the sides they were taken from, as far *)
(* down as the snapshot goes (create_snapshot_event).                      *)
THEOREM SnapshotsRebuild == Spec => []SnapshotRebuilds
<1>1. Init => FiniteSides
  BY FS_EmptySet DEF Init, FiniteSides, EmptyLevels, EmptySide
<1>2. TypeOK /\ FiniteSides /\ [Next]_vars => FiniteSides'
  BY FiniteStep DEF ApiNext
<1>3. TypeOK /\ FiniteSides /\ LevelsSound => SnapshotRebuilds
  <2> SUFFICES ASSUME TypeOK, FiniteSides, LevelsSound,
                      NEW s \in Side, NEW max_levels \in 1..Cardinality(Price)
               PROVE  LET r == Rebuilt(levels, s, max_levels) IN
                      /\ DOMAIN r = TopPrices(levels, s, max_levels)
                      /\ \A p \in DOMAIN r : r[p] = levels[s][p]
                      /\ Depth(levels, s) <= max_levels => r = levels[s]
                      /\ Depth(levels, s) > max_levels =>
                           /\ Cardinality(DOMAIN r) = max_levels
                           /\ \A p \in DOMAIN r, q \in DOMAIN levels[s] \ DOMAIN r :
                                Better(s, p, q)
    BY DEF SnapshotRebuilds
  <2>1. max_levels \in Nat OBVIOUS
  <2>2. Snapshotable(levels, s)
    <3>1. /\ DOMAIN levels[s] \in SUBSET Price
          /\ levels[s] \in [DOMAIN levels[s] -> [price : Price, quantity : Quantity]]
      BY SideUnfold DEF TypeOK, LevelOf
    <3>2. \A p \in DOMAIN levels[s] :
            /\ levels[s][p] \in [price : Price, quantity : Quantity]
            /\ levels[s][p].price = p /\ levels[s][p].quantity # 0
      BY <3>1 DEF LevelsSound
    <3>3. \A p \in DOMAIN levels[s] :
            levels[s][p] = [price |-> p, quantity |-> levels[s][p].quantity]
      BY <3>2
    <3>4. levels[s] = [p \in DOMAIN levels[s] |-> levels[s][p]] BY <3>1
    <3> QED BY <3>1, <3>2, <3>3, <3>4, PriceAssumption DEF Snapshotable, FiniteSides
  <2> QED BY <2>1, <2>2, SideRebuilds
<1> QED BY <1>1, <1>2, <1>3, TypeCorrect, LevelsAlwaysSound, PTL DEF Spec
=============================================================================
