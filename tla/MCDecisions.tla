----------------------------- MODULE MCDecisions -----------------------------
(***************************************************************************)
(* Instances of the strategies and their gate: two strategies that between  *)
(* them have every kind of condition, and two of the seeded ones (seed.py).  *)
(***************************************************************************)
EXTENDS StrategyGate

Morning == <<"time_window", "morning_trend_zone">>
Wide    == <<"symbol", "wide_spread">>
TrendUpState == <<"symbol", "symbol_trend_up">>

Strategy(direction, required, forbidden, modifiers, maxSize) ==
    [direction |-> direction, enabled |-> TRUE, required |-> required,
     forbidden |-> forbidden, modifiers |-> modifiers, maxSize |-> maxSize]

MCDef ==
    [trend  |-> Strategy("long", {Morning}, {}, {[state |-> Wide, size |-> 50]}, 100),
     steady |-> Strategy("both", {}, {Wide}, {}, 80)]

MCSnapshots ==
    [market |-> {{"range"}}, time_window |-> {{"morning_trend_zone"}},
     symbol |-> {{}, {"wide_spread"}}]

(* The time window that the strategy needs comes and goes.                  *)
ChangingSnapshots ==
    [market |-> {{"range"}}, time_window |-> {{"morning_trend_zone"}, {"pre_open"}},
     symbol |-> {{}}]

SeededDef ==
    [long_morning_trend |->
        Strategy("long", {Morning, TrendUpState},
                 {<<"time_window", "opening_auction_risk">>, <<"market", "risk_off">>},
                 {[state |-> Wide, size |-> 50]}, 100),
     short_risk_off_rebound |->
        Strategy("short", {<<"market", "trend_down">>, <<"symbol", "symbol_volatility_high">>},
                 {<<"time_window", "midday_low_liquidity">>}, {}, 80)]

SeededSnapshots ==
    [market |-> {{"range"}}, time_window |-> {{"morning_trend_zone"}},
     symbol |-> {{}, {"symbol_trend_up"}}]

(* Once the signal is judged, what goes on cannot change that.              *)
Undecided == gate.stage # "done"
=============================================================================
