------------------------------ MODULE SbeSchema ------------------------------
(***************************************************************************)
(* The layouts that the generated codecs under include/utp_sbe/utp_sbe     *)
(* give to the messages: where each field lies in its block and what its   *)
(* accessors check.  One table for each stretch of accessors, in the order *)
(* of the class.  Units are bytes.                                         *)
(***************************************************************************)
EXTENDS Integers, Sequences, TLC

(* A field takes len bytes at offset at of its block.  end is what the     *)
(* wrap of a composite compares with the end of the buffer; codes are the  *)
(* values that the typed getter of an enumeration knows.                   *)
Part(at, len, type, end, codes) ==
  [at |-> at, len |-> len, type |-> type, end |-> end, codes |-> codes]
Field(at, len)      == Part(at, len, "plain", at + len, {})
Chars(at, len)      == Part(at, len, "chars", at + len, {})
Enum(at, codes)     == Part(at, 1, "enum", at + 1, codes)
ConstantField(at)   == Part(at, 0, "constant", at, {})

-----------------------------------------------------------------------------
(* Enumerations: the cases of each get().  Characters by their codes,      *)
(* -128 as the byte it is.                                                 *)
SecurityUpdateAction == {65, 68, 77, 78, 0}
MDUpdateAction == {0, 1, 2, 128}
MDEntryType == {48, 49, 50, 52, 54, 55, 56, 66, 67, 69, 70, 74, 78, 79, 87,
                101, 103, 0}
MarketDataType == {0, 1, 2, 3, 4, 127, 128}
AggressorSide == {0, 1, 2, 255}
RateTerm == {1, 2, 255}

-----------------------------------------------------------------------------
(* Composites, each as the fields of one that is wrapped at offset at.     *)
PriceNull(at) == [mantissa |-> Part(at, 8, "composite", at + 8, {})]

MonthYearDay(at) ==
  [year  |-> Part(at, 2, "composite", at + 4, {}),
   month |-> Part(at + 2, 1, "composite", at + 4, {}),
   day   |-> Part(at + 3, 1, "composite", at + 4, {})]

TimeOfDay(at) ==
  [hour        |-> Part(at, 1, "composite", at + 5, {}),
   minute      |-> Part(at + 1, 1, "composite", at + 5, {}),
   second      |-> Part(at + 2, 1, "composite", at + 5, {}),
   millisecond |-> Part(at + 3, 2, "composite", at + 5, {})]

(* The fields of a composite under the name of the member that wraps it.   *)
Member(name, composite) ==
  LET Named(part) == name \o "." \o part
  IN  [f \in {Named(part) : part \in DOMAIN composite} |->
         composite[CHOOSE part \in DOMAIN composite : Named(part) = f]]

-----------------------------------------------------------------------------
(* SecurityDefinition *)

UpdateFields == [securityUpdateAction |-> Enum(0, SecurityUpdateAction),
                 lastUpdateTime |-> Field(1, 8)]
DefinitionApplID == [applID |-> ConstantField(9)]
DefinitionOriginator == [mDEntryOriginator |-> Chars(9, 16)]
SymbolField == [symbol |-> Chars(25, 16)]
IdentityFields == [securityID |-> Field(41, 4), securityIDSource |-> Field(45, 4)]
TypeAndDate ==
  [securityType |-> Enum(49, MarketDataType)] @@ Member("settlDate", MonthYearDay(50))
Currency1Field == [currency1 |-> Chars(54, 3)]
Currency2Field == [currency2 |-> Chars(57, 3)]
RateFields == [basisPoint |-> Field(60, 1), ratePrecision |-> Field(61, 1)]
RateTermField == [rateTerm |-> Enum(62, RateTerm)]
AmountDecimals == [currency1AmtDecimals |-> Field(63, 1),
                   currency2AmtDecimals |-> Field(64, 1)]
DisplayFields == [rGTSMDPS |-> Field(65, 1), lEFT_DPS |-> Field(66, 1)]
DisplayRightFields == [rIGHT_DPS |-> Field(67, 1), cLS |-> Field(68, 1)]
PriceVariation == [maxPriceVariation |-> Field(69, 8)]
ConflationIntervals ==
  Member("snapshotConflationInterval", TimeOfDay(77))
    @@ Member("incRefreshConflationInterval", TimeOfDay(82))
    @@ Member("tradesFeedConflationInterval", TimeOfDay(87))
    @@ Member("securityDefinitionConflationInterval", TimeOfDay(92))
DepthFields == [depthOfBook |-> Field(97, 1), minTradeVol |-> Field(98, 8)]

SecurityDefinition ==
  [template |-> 18, block |-> 106, entryBlock |-> 0, entryFields |-> << >>,
   fields |-> UpdateFields @@ DefinitionApplID @@ DefinitionOriginator
                @@ SymbolField @@ IdentityFields @@ TypeAndDate
                @@ Currency1Field @@ Currency2Field @@ RateFields
                @@ RateTermField @@ AmountDecimals @@ DisplayFields
                @@ DisplayRightFields @@ PriceVariation
                @@ ConflationIntervals @@ DepthFields]

-----------------------------------------------------------------------------
(* MDFullRefresh *)

RefreshNumbers == [lastMsgSeqNumProcessed |-> Field(0, 8), securityID |-> Field(8, 4)]
RefreshProgress == [rptSeq |-> Field(12, 8), transactTime |-> Field(20, 8)]
RefreshOriginator == [mDEntryOriginator |-> Chars(28, 16)]
RefreshDepth == [marketDepth |-> Field(44, 1), securityType |-> Enum(45, MarketDataType)]
RefreshEntry ==
  [mDEntryType |-> Enum(0, MDEntryType), mDEntrySize |-> Field(9, 8)]
    @@ Member("mDEntryPx", PriceNull(1))

MDFullRefresh ==
  [template |-> 20, block |-> 46, entryBlock |-> 17, entryFields |-> RefreshEntry,
   fields |-> RefreshNumbers @@ RefreshProgress @@ RefreshOriginator @@ RefreshDepth]

-----------------------------------------------------------------------------
(* MDIncrementalRefresh *)

IncrementalNumbers == [securityID |-> Field(0, 4), rptSeq |-> Field(4, 8)]
IncrementalTime == [transactTime |-> Field(12, 8)]
IncrementalOriginator == [mDEntryOriginator |-> Chars(20, 16)]
IncrementalEntry ==
  [mDUpdateAction |-> Enum(0, MDUpdateAction), mDEntryType |-> Enum(1, MDEntryType),
   mDEntrySize |-> Field(10, 8)] @@ Member("mDEntryPx", PriceNull(2))

MDIncrementalRefresh ==
  [template |-> 21, block |-> 36, entryBlock |-> 18, entryFields |-> IncrementalEntry,
   fields |-> IncrementalNumbers @@ IncrementalTime @@ IncrementalOriginator]

-----------------------------------------------------------------------------
(* MDIncrementalRefreshTrades *)

TradesIdentity == [securityID |-> Field(0, 4)] @@ Member("tradeDate", MonthYearDay(4))
TradesOriginator == [mDEntryOriginator |-> Chars(8, 16)]
TradeConstants == [mDUpdateAction |-> ConstantField(0), mDEntryType |-> ConstantField(0)]
TradeTimes == [transactTime |-> Field(0, 8)] @@ Member("settlDate", MonthYearDay(8))
TradeAmounts ==
  [mDEntrySize |-> Field(20, 8), aggressorSide |-> Enum(28, AggressorSide)]
    @@ Member("mDEntryPx", PriceNull(12))

MDIncrementalRefreshTrades ==
  [template |-> 111, block |-> 24, entryBlock |-> 29,
   fields |-> TradesIdentity @@ TradesOriginator,
   entryFields |-> TradeConstants @@ TradeTimes @@ TradeAmounts]

-----------------------------------------------------------------------------
(* AdminHeartbeat has no fields. *)
AdminHeartbeat == [template |-> 10, block |-> 0, entryBlock |-> 0,
                   fields |-> << >>, entryFields |-> << >>]

Schema == [HEARTBEAT |-> AdminHeartbeat, SECDEF |-> SecurityDefinition,
           SNAPSHOT |-> MDFullRefresh, QUOTE |-> MDIncrementalRefresh,
           TRADE |-> MDIncrementalRefreshTrades]
=============================================================================
