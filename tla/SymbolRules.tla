---------------------------- MODULE SymbolRules ----------------------------
(***************************************************************************)
(* The pure part of services/market_state: the fourteen rules that turn one *)
(* ticker's data into state codes (symbol_evaluator.py), the time windows   *)
(* of the Tokyo session (time_window_evaluator.py) and the trend of the     *)
(* index (market_evaluator.py).                                             *)
(*                                                                          *)
(* A ticker's data is a record.  A field the fetcher could not fill, or the *)
(* daily metrics had too few rows for, is None.  Quotients the rules take   *)
(* are fields: gap is the opening gap in per cent, volume the day's volume  *)
(* in per cent of the average, atr the range in per cent of the price.      *)
(* Nothing in the source fills the open price or the volume yet; what the   *)
(* rules would make of them is modelled all the same.                       *)
(***************************************************************************)
EXTENDS Integers, Sequences, SequencesExt

None == -1000

(* priceAge and quoteAge are seconds, None for a missing time.              *)
SymbolData ==
    [price : Int, vwap : Int, ma5 : Int, ma20 : Int, bid : Int, ask : Int,
     gap : Int, volume : Int, atr : Int, rsi : Int, priceAge : Int, quoteAge : Int]

HasPrice(d) == d.price # None /\ d.price > 0
HasQuote(d) == d.bid # None \/ d.ask # None
HasTrend(d) == /\ d.price # None /\ d.vwap # None /\ d.vwap > 0
               /\ d.ma5 # None /\ d.ma20 # None /\ d.ma20 > 0

(* A rule that lacks data is skipped and does not fire.  fired holds the    *)
(* states that fired before, which is what the dependency flags say.        *)
GapUpOpen(d)     == d.gap # None /\ d.gap >= 2
GapDownOpen(d)   == d.gap # None /\ d.gap <= -2
HighVolume(d)    == d.volume # None /\ d.volume >= 200
LowLiquidity(d)  == d.volume # None /\ d.volume < 30
TrendUp(d)       == HasTrend(d) /\ d.price > d.vwap /\ d.ma5 > d.ma20
TrendDown(d)     == HasTrend(d) /\ ~(d.price > d.vwap \/ d.ma5 > d.ma20)
WideSpread(d)    == /\ HasPrice(d) /\ d.bid > 0 /\ d.ask > 0 /\ d.ask >= d.bid
                    /\ (d.ask - d.bid) * 1000 >= 3 * d.price
PriceStale(d)    == d.price = None \/ d.priceAge = None \/ d.priceAge >= 60
Overextended(d)  == d.rsi # None /\ (d.rsi >= 75 \/ d.rsi <= 25)
HighVolatility(d) == HasPrice(d) /\ d.atr # None /\ d.atr >= 2
SymbolRange(d, fired) ==
    /\ HasPrice(d) /\ d.atr # None /\ d.atr < 2
    /\ fired \cap {"symbol_trend_up", "symbol_trend_down"} = {}
Breakout(d, fired) ==
    /\ HasPrice(d) /\ d.ma20 # None /\ d.ma20 > 0 /\ d.price > d.ma20
    /\ "high_relative_volume" \in fired
    /\ fired \cap {"gap_up_open", "gap_down_open"} = {}
QuoteOnly(d)     == d.price = None /\ HasQuote(d)
StaleBidAsk(d)   == HasQuote(d) /\ (d.quoteAge = None \/ d.quoteAge >= 60)

Fires(d, fired, code) ==
    CASE code = "gap_up_open"            -> GapUpOpen(d)
      [] code = "gap_down_open"          -> GapDownOpen(d)
      [] code = "high_relative_volume"   -> HighVolume(d)
      [] code = "low_liquidity"          -> LowLiquidity(d)
      [] code = "symbol_trend_up"        -> TrendUp(d)
      [] code = "symbol_trend_down"      -> TrendDown(d)
      [] code = "wide_spread"            -> WideSpread(d)
      [] code = "price_stale"            -> PriceStale(d)
      [] code = "overextended"           -> Overextended(d)
      [] code = "symbol_volatility_high" -> HighVolatility(d)
      [] code = "symbol_range"           -> SymbolRange(d, fired)
      [] code = "breakout_candidate"     -> Breakout(d, fired)
      [] code = "quote_only"             -> QuoteOnly(d)
      [] code = "stale_bid_ask"          -> StaleBidAsk(d)

(* Mutant: the range rule is listed before the trends it depends on.        *)
RulesRangeFirst ==
    <<"gap_up_open", "gap_down_open", "high_relative_volume", "low_liquidity",
      "symbol_range", "symbol_trend_up", "symbol_trend_down", "wide_spread",
      "price_stale", "overextended", "symbol_volatility_high",
      "breakout_candidate", "quote_only", "stale_bid_ask">>

(* _RULES: the order in which they run.                                     *)
Rules ==
    <<"gap_up_open", "gap_down_open", "high_relative_volume", "low_liquidity",
      "symbol_trend_up", "symbol_trend_down", "wide_spread", "price_stale",
      "overextended", "symbol_volatility_high", "symbol_range",
      "breakout_candidate", "quote_only", "stale_bid_ask">>

SymbolCodes == ToSet(Rules)

(* One turn of _evaluate_symbol()'s loop: the flags the rule is given are   *)
(* those of the rules before it.                                            *)
AfterRule(d, fired, rule) ==
    IF Fires(d, fired, rule) THEN fired \cup {rule} ELSE fired

(* _evaluate_symbol(): the codes that fire.                                 *)
EvaluateSymbol(d) ==
    LET after[n \in 0..Len(Rules)] ==
            IF n = 0 THEN {} ELSE AfterRule(d, after[n - 1], Rules[n])
    IN  after[Len(Rules)]

-----------------------------------------------------------------------------
WindowCodes == {"pre_open", "opening_auction_risk", "morning_trend_zone",
                "midday_low_liquidity", "afternoon_repricing_zone",
                "closing_cleanup_zone", "after_hours"}

(* _classify_time_window(), t in minutes since midnight in Tokyo; the close *)
(* itself still belongs to the closing zone.                                *)
TimeWindow(t) ==
    CASE 480 <= t /\ t < 540  -> "pre_open"
      [] 540 <= t /\ t < 555  -> "opening_auction_risk"
      [] 555 <= t /\ t < 690  -> "morning_trend_zone"
      [] 690 <= t /\ t < 750  -> "midday_low_liquidity"
      [] 750 <= t /\ t < 765  -> "afternoon_repricing_zone"
      [] 765 <= t /\ t < 890  -> "morning_trend_zone"
      [] 890 <= t /\ t <= 930 -> "closing_cleanup_zone"
      [] OTHER                -> "after_hours"

TrendCodes == {"trend_up", "trend_down", "range"}

(* The day's change of the index in tenths of a per cent.                   *)
MarketTrend(change) ==
    CASE change = None -> "range"
      [] change > 5    -> "trend_up"
      [] change # None /\ change < -5 -> "trend_down"
      [] OTHER         -> "range"

-----------------------------------------------------------------------------
BlockingStates == {"price_stale", "stale_bid_ask", "quote_only"}
WarningStates  == {"wide_spread"}

(* _build_execution_guard_hints(), what planning reads of a snapshot.       *)
GuardHints(codes) ==
    [blocking |-> codes \cap BlockingStates, warning |-> codes \cap WarningStates]
=============================================================================
