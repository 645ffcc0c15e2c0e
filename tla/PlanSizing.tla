---------------------------- MODULE PlanSizing ----------------------------
(***************************************************************************)
(* services/planning: SignalPlanningService.plan turns an entry signal that *)
(* passed the strategy gate into a signal_plans row.  The stages run one    *)
(* after the other on one quantity: decision, hard guard, size ratio,       *)
(* tradability, liquidity, spread, volatility, lot, zero check, save.       *)
(*                                                                          *)
(* A stage that may turn the signal down saves the row itself and ends the  *)
(* plan.  A ratio is in hundredths.  A field of PlannerContext that only    *)
(* one stage reads is chosen where it is read, as one of the classes that   *)
(* stage tells apart.                                                       *)
(***************************************************************************)
EXTENDS Integers, Sequences, SequencesExt

CONSTANTS
    Quantities,     \* values of signal.quantity
    SizeRatios,     \* values of the gate's size_ratio, in hundredths
    LotSizes,       \* values of symbol_lot_size
    ShortProducts   \* <<quantity, ratio>> whose product as doubles falls
                    \* below the integer it stands for

ASSUME PlanAssumption ==
    /\ Quantities \subseteq Nat \ {0}
    /\ SizeRatios \subseteq Nat
    /\ LotSizes \subseteq Nat \ {0}
    /\ \A q \in Quantities, r \in SizeRatios :
          <<q, r>> \in ShortProducts => r \in 1..99 /\ (q * r) % 100 = 0

VARIABLES
    ctx,        \* the PlannerContext, as far as several stages read it
    planStage,  \* the stage that runs next
    planQty,    \* current_qty
    scale,      \* by how much the adjusters divided the quantity so far
    planReasons,\* reasons, a sequence of [code, before, after]
    planTrace,  \* trace: the stages met and the latest label of each
    plan        \* the saved signal_plans row

planVars == <<ctx, planStage, planQty, scale, planReasons, planTrace, plan>>

NoPlan == [status |-> "none"]
NoCtx  == [entry |-> FALSE]

Blockers == {"price_stale", "stale_bid_ask"}

Context ==
    [entry : BOOLEAN, base : Quantities, ratio : SizeRatios, lot : LotSizes,
     decision : {"missing", "stale", "valid"},
     blocking : SUBSET Blockers, warning : BOOLEAN]

-----------------------------------------------------------------------------
(* Sizes.                                                                   *)

(* calculate(): the ratio is clamped to [0, 1] and the product floored.     *)
Clamped(r) == IF r > 100 THEN 100 ELSE r
Sized(q, r) ==
    (q * Clamped(r)) \div 100 - (IF <<q, r>> \in ShortProducts THEN 1 ELSE 0)

(* Mutant: rounded to the nearest lot.                                      *)
RoundToNearest(q, lot) == ((q + lot \div 2) \div lot) * lot

RoundToLot(q, lot) == (q \div lot) * lot

Reason(code, before, after) == [code |-> code, before |-> before, after |-> after]

(* Mutant: every reduction is told as one from the signal's quantity.       *)
AdjustedFromBase(code, after) ==
    IF after < planQty THEN Append(planReasons, Reason(code, ctx.base, after))
                       ELSE planReasons

(* _apply_adjustment(): a reason only when the quantity went down.          *)
Adjusted(code, after) ==
    IF after < planQty THEN Append(planReasons, Reason(code, planQty, after))
                       ELSE planReasons

-----------------------------------------------------------------------------
(* The trace and what is derived from it.                                   *)
(* Readers ask for the latest entry of a stage (get_latest_stage_entry), so *)
(* the trace is kept as a function from stages to their latest label.       *)

NoTrace == [stage \in {} |-> "none"]

(* upsert_trace_stage(), and append: the new entry is the stage's latest.   *)
Upsert(trace, new, label) ==
    [stage \in DOMAIN trace \cup {new} |-> IF stage = new THEN label ELSE trace[stage]]

Noted(stage, label) == Upsert(NoTrace, stage, label)

(* get_latest_stage_entry().                                                *)
LatestLabel(trace, stage, default) ==
    IF stage \in DOMAIN trace THEN trace[stage] ELSE default

AdvisoryLevel(c) ==
    IF c.blocking # {} THEN "blocking" ELSE IF c.warning THEN "warning" ELSE "none"

(* extract_shadow_hard_guard_review_summary(): every event says would_reject. *)
Readiness(trace) ==
    IF "shadow_hard_guard_decision" \in DOMAIN trace THEN "needs_review" ELSE "no_signal"

(* Mutant: the shadow event is taken from the hints as well.                *)
MetricsFromHints(trace, c) ==
    [wouldReject |-> "stale_bid_ask" \in c.blocking,
     overlaps |-> "price_stale" \in c.blocking,
     advisory |-> LatestLabel(trace, "advisory_guard_assessment", "none")]

(* extract_shadow_hard_guard_promotion_metrics(): the trace gives the shadow *)
(* event and the advisory level, the hints the overlap.                     *)
Metrics(trace, c) ==
    [wouldReject |->
        LatestLabel(trace, "shadow_hard_guard_decision", "none") = "would_reject",
     overlaps |-> "price_stale" \in c.blocking,
     advisory |-> LatestLabel(trace, "advisory_guard_assessment", "none")]

PromotionDecision(m) ==
    IF ~m.wouldReject THEN "no_signal"
    ELSE IF m.overlaps THEN "hold" ELSE "review_priority"

ReviewKey(m) ==
    [shadow   |-> IF m.wouldReject THEN "would_reject" ELSE "no_signal",
     overlap  |-> IF ~m.wouldReject THEN "no_overlap"
                  ELSE IF m.overlaps THEN "overlaps_price_stale"
                  ELSE "distinct_from_price_stale",
     advisory |-> m.advisory,
     decision |-> PromotionDecision(m)]

ReviewVerdict(key) ==
    CASE key.overlap = "overlaps_price_stale"      -> "overlap_hold"
      [] key.overlap = "distinct_from_price_stale" -> "priority_review"
      [] OTHER                                     -> "insufficient_signal"

(* _save_plan(): the hints and then the derived stages, each computed from   *)
(* the trace the one before it left.                                        *)
FullTrace(trace, c) ==
    LET hinted   == Upsert(trace, "execution_guard_hints", c.blocking)
        advised  == Upsert(hinted, "advisory_guard_assessment", AdvisoryLevel(c))
        assessed == Upsert(advised, "shadow_hard_guard_assessment",
                           Readiness(advised) = "needs_review")
        reviewed == Upsert(assessed, "shadow_hard_guard_review_summary", Readiness(assessed))
        metered  == Upsert(reviewed, "shadow_hard_guard_promotion_metrics", Metrics(reviewed, c))
        decided  == Upsert(metered, "shadow_hard_guard_promotion_decision",
                           PromotionDecision(Metrics(metered, c)))
        keyed    == Upsert(decided, "shadow_hard_guard_aggregate_review_key",
                           ReviewKey(Metrics(decided, c)))
    IN  Upsert(keyed, "shadow_hard_guard_aggregate_review_verdict",
               ReviewVerdict(ReviewKey(Metrics(keyed, c))))

Saved(status, q, code, reasons, trace) ==
    /\ plan' = [status |-> status, qty |-> q, code |-> code,
                reasons |-> reasons, trace |-> FullTrace(trace, ctx)]
    /\ planStage' = "done"

(* The row of a signal that is turned down, and SignalPlanRejectedError.    *)
Rejected(code, reasons, trace) == Saved("rejected", 0, code, reasons, trace)

-----------------------------------------------------------------------------
PlanInit ==
    /\ ctx = NoCtx
    /\ planStage = "idle"
    /\ planQty = 0
    /\ scale = 1
    /\ planReasons = <<>>
    /\ planTrace = NoTrace
    /\ plan = NoPlan

(* The pipeline builds the context of one signal and calls plan().          *)
PlanBegin ==
    /\ planStage = "idle"
    /\ ctx' \in Context
    /\ planStage' = "decision"
    /\ planQty' = ctx'.base
    /\ UNCHANGED <<scale, planReasons, planTrace, plan>>

(* _bypass_plan(): an exit signal keeps its quantity.                       *)
PlanBypass ==
    /\ planStage = "decision"
    /\ ~ctx.entry
    /\ Saved("accepted", ctx.base, "none", <<>>, Noted("bypass", ctx.base))
    /\ UNCHANGED <<ctx, planQty, scale, planReasons, planTrace>>

PlanDecision ==
    /\ planStage = "decision"
    /\ ctx.entry
    /\ IF ctx.decision = "valid"
       THEN planStage' = "guard" /\ UNCHANGED plan
       ELSE Rejected("decision", <<Reason("decision", 0, 0)>>,
                     Noted("decision_validation", ctx.decision))
    /\ UNCHANGED <<ctx, planQty, scale, planReasons, planTrace>>

(* Steps 1b and 1c: a stale price ends the plan; only then is a stale quote *)
(* noted as a shadow event.                                                 *)
PlanGuard ==
    /\ planStage = "guard"
    /\ IF "price_stale" \in ctx.blocking
       THEN /\ Rejected("price_stale", <<Reason("price_stale", 0, 0)>>,
                        Noted("hard_guard_decision", "reject"))
            /\ UNCHANGED planTrace
       ELSE /\ planTrace' = IF "stale_bid_ask" \in ctx.blocking
                            THEN Upsert(planTrace, "shadow_hard_guard_decision",
                                        "would_reject")
                            ELSE planTrace
            /\ planStage' = "size"
            /\ UNCHANGED plan
    /\ UNCHANGED <<ctx, planQty, scale, planReasons>>

(* Step 2: a reason whenever the clamped ratio is below one.                *)
PlanSize ==
    /\ planStage = "size"
    /\ planQty' = Sized(ctx.base, ctx.ratio)
    /\ planReasons' = IF Clamped(ctx.ratio) < 100
                      THEN Append(planReasons, Reason("size_ratio", ctx.base, planQty'))
                      ELSE planReasons
    /\ planTrace' = Upsert(planTrace, "base_size", planQty')
    /\ planStage' = "tradability"
    /\ UNCHANGED <<ctx, scale, plan>>

(* Step 3: the rejection replaces the reasons collected so far.             *)
PlanTradability(tradable) ==
    /\ planStage = "tradability"
    /\ LET trace == Upsert(planTrace, "market_tradability", tradable)
       IN  IF tradable
           THEN planTrace' = trace /\ planStage' = "liquidity" /\ UNCHANGED plan
           ELSE /\ Rejected("tradability", <<Reason("tradability", planQty, 0)>>, trace)
                /\ UNCHANGED planTrace
    /\ UNCHANGED <<ctx, planQty, scale, planReasons>>

(* Steps 4 and 6: the quantity divided by n (1, 2 or 4) and floored.        *)
Divide(code, n, next) ==
    /\ planQty' = planQty \div n
    /\ scale' = scale * n
    /\ planReasons' = Adjusted(code, planQty')
    /\ planTrace' = Upsert(planTrace, code, planQty')
    /\ planStage' = next
    /\ UNCHANGED <<ctx, plan>>

(* volume_ratio at least 0.3, at least 0.1, or less.                        *)
PlanLiquidity(volume) ==
    /\ planStage = "liquidity"
    /\ Divide("liquidity",
              CASE volume = "normal" -> 1 [] volume = "low" -> 2 [] volume = "very_low" -> 4,
              "spread")

(* spread_bps at least 100 rejects, at least 50 halves.  The reason of a    *)
(* rejection is kept only if there was a quantity left to take.             *)
PlanSpread(spread) ==
    /\ planStage = "spread"
    /\ \/ /\ spread # "too_wide"
          /\ Divide("spread", IF spread = "wide" THEN 2 ELSE 1, "volatility")
       \/ /\ spread = "too_wide"
          /\ planQty' = 0
          /\ Rejected("spread", Adjusted("spread", 0),
                      Upsert(planTrace, "spread", 0))
          /\ UNCHANGED <<ctx, scale, planReasons, planTrace>>

(* ATR over 3 % of the price halves; if not, volatility over 4 % does.      *)
PlanVolatility(atrHigh, volatilityHigh) ==
    /\ planStage = "volatility"
    /\ Divide(IF atrHigh THEN "atr" ELSE "volatility",
              IF atrHigh \/ volatilityHigh THEN 2 ELSE 1, "lot")

PlanLot ==
    /\ planStage = "lot"
    /\ planQty' = RoundToLot(planQty, ctx.lot)
    /\ planReasons' = Adjusted("lot", planQty')
    /\ planTrace' = IF planQty' # planQty
                    THEN Upsert(planTrace, "lot_rounding", planQty') ELSE planTrace
    /\ planStage' = "zero"
    /\ UNCHANGED <<ctx, scale, plan>>

(* The quantity before the lot was applied, for the reason of the zero check. *)
BeforeLot ==
    IF planReasons # <<>> /\ Last(planReasons).code = "lot"
    THEN Last(planReasons).before ELSE planQty

(* Steps 8 to 10.                                                           *)
PlanSave ==
    /\ planStage = "zero"
    /\ IF planQty = 0
       THEN Rejected("zero", Append(planReasons, Reason("zero", BeforeLot, 0)),
                     Upsert(planTrace, "zero_check", 0))
       ELSE Saved(IF planQty < ctx.base THEN "reduced" ELSE "accepted", planQty,
                  "none", planReasons,
                  Upsert(planTrace, "execution_params", planQty))
    /\ UNCHANGED <<ctx, planQty, scale, planReasons, planTrace>>

PlanStep ==
    \/ PlanBypass \/ PlanDecision \/ PlanGuard \/ PlanSize
    \/ \E ok \in BOOLEAN : PlanTradability(ok)
    \/ \E v \in {"normal", "low", "very_low"} : PlanLiquidity(v)
    \/ \E s \in {"narrow", "wide", "too_wide"} : PlanSpread(s)
    \/ \E a, v \in BOOLEAN : PlanVolatility(a, v)
    \/ PlanLot \/ PlanSave

PlanNext == PlanBegin \/ PlanStep

PlanSpec == PlanInit /\ [][PlanNext]_planVars

-----------------------------------------------------------------------------
(* Properties.                                                              *)

Placed == plan # NoPlan /\ plan.status # "rejected" /\ ctx.entry

(* An entry plan is in whole lots and is the largest such quantity that the *)
(* size ratio and all reductions together allow: rounding down after every  *)
(* stage costs no more than rounding once, and a product that floating      *)
(* point puts below its integer costs at most one lot.                      *)
LargestLotAllowed ==
    Placed =>
      LET allowed == ctx.base * Clamped(ctx.ratio)
          slack   == IF <<ctx.base, ctx.ratio>> \in ShortProducts THEN 2 ELSE 1
      IN  /\ plan.qty > 0 /\ plan.qty % ctx.lot = 0
          /\ plan.qty * 100 * scale <= allowed
          /\ (plan.qty + slack * ctx.lot) * 100 * scale > allowed

(* The reasons stored with a plan account for the difference between what   *)
(* the signal asked for and what is planned, step by step; a plan without   *)
(* one has the signal's quantity, and a rejected plan gives its cause       *)
(* unless an earlier stage had left nothing to reject.  Only the zero check *)
(* goes behind the rounding to lots that caused it.                         *)
ReasonsAccountForSize ==
    plan # NoPlan =>
      LET rs == plan.reasons
      IN  /\ Placed => IF rs = <<>> THEN plan.qty = ctx.base
                       ELSE rs[1].before = ctx.base /\ Last(rs).after = plan.qty
          /\ \A i \in 1..Len(rs) - 1 :
                rs[i + 1].before = IF rs[i + 1].code = "zero" /\ rs[i].code = "lot"
                                   THEN rs[i].before ELSE rs[i].after
          /\ plan.status = "rejected" =>
                rs # <<>> /\ (Last(rs).code = plan.code \/ Last(rs).after = 0)

(* The verdict stored for the review of the stale_bid_ask guard, which goes *)
(* through eight derived entries of the trace, says what the hints said: it *)
(* asks for a review exactly when the guard alone would have stopped a plan *)
(* that was otherwise let through, and its key has the advisory level.      *)
VerdictTellsHints ==
    plan # NoPlan =>
      LET alone == ctx.entry /\ ctx.decision = "valid" /\ ctx.blocking = {"stale_bid_ask"}
          of(stage) == LatestLabel(plan.trace, stage, "absent")
      IN  /\ (of("shadow_hard_guard_aggregate_review_verdict") = "priority_review") <=> alone
          /\ of("shadow_hard_guard_aggregate_review_key").advisory = AdvisoryLevel(ctx)
=============================================================================
