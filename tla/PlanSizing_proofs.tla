-------------------------- MODULE PlanSizing_proofs --------------------------
(***************************************************************************)
(* TLAPS proofs about PlanSizing: for any quantities, ratios and lot sizes. *)
(***************************************************************************)
EXTENDS PlanSizing, SequenceTheorems, TLAPS

PlanStages == {"idle", "decision", "guard", "size", "tradability", "liquidity", "spread",
           "volatility", "lot", "zero", "done"}
Sizing == {"tradability", "liquidity", "spread", "volatility", "lot"}

ReasonCodes == {"decision", "price_stale", "size_ratio", "tradability", "liquidity", "spread",
                "atr", "volatility", "lot", "zero"}
ReasonRows == [code : ReasonCodes, before : Nat, after : Nat]

AllowedQty == ctx.base * Clamped(ctx.ratio)
Slack == IF <<ctx.base, ctx.ratio>> \in ShortProducts THEN 2 ELSE 1

PlanTypeOK ==
  /\ planStage \in PlanStages
  /\ IF planStage = "idle" THEN ctx = NoCtx ELSE ctx \in Context
  /\ planQty \in Nat /\ scale \in Nat \ {0}
  /\ planReasons \in Seq(ReasonRows)
  /\ planStage # "done" => plan = NoPlan
  /\ planStage \in {"idle", "decision", "guard", "size"} => planReasons = <<>> /\ scale = 1
  /\ planStage \in {"decision", "guard", "size"} => planQty = ctx.base
  /\ planStage \notin {"idle", "decision", "done"} => ctx.entry /\ ctx.decision = "valid"

(* The shadow event is in the trace exactly when the guard alone would have *)
(* stopped the plan.                                                        *)
TraceOK ==
  /\ planStage \in {"idle", "decision", "guard"} => planTrace = NoTrace
  /\ planStage \in Sizing \cup {"size", "zero"} =>
       /\ "price_stale" \notin ctx.blocking
       /\ "shadow_hard_guard_decision" \in DOMAIN planTrace <=> "stale_bid_ask" \in ctx.blocking
       /\ LatestLabel(planTrace, "shadow_hard_guard_decision", "would_reject") = "would_reject"

(* The quantity is what the ratio allows, divided and floored, and Slack    *)
(* more (in lots, once rounded to them) would be too much.                  *)
Between(q, unit, total, slack, factor) ==
  /\ q * (100 * factor) <= total
  /\ total < (q + slack * unit) * (100 * factor)
Within(q, unit, factor) == Between(q, unit, AllowedQty, Slack, factor)

SizeOK ==
  /\ planStage \in Sizing => Within(planQty, 1, scale)
  /\ planStage = "zero" => Within(planQty, ctx.lot, scale) /\ planQty % ctx.lot = 0

(* The reasons lead from the signal's quantity to the present one.          *)
Linked(rs) ==
  \A i \in 1..Len(rs) - 1 :
    rs[i + 1].before = IF rs[i + 1].code = "zero" /\ rs[i].code = "lot"
                       THEN rs[i].before ELSE rs[i].after
NoZero(rs) == \A i \in 1..Len(rs) : rs[i].code # "zero"
Leads(rs, base, q) == IF rs = <<>> THEN q = base
                      ELSE rs[1].before = base /\ rs[Len(rs)].after = q

ReasonsOK ==
  /\ Linked(planReasons) /\ NoZero(planReasons)
  /\ planStage \in Sizing \cup {"size", "zero"} => Leads(planReasons, ctx.base, planQty)

PlanInv ==
  /\ PlanTypeOK /\ TraceOK /\ SizeOK /\ ReasonsOK
  /\ LargestLotAllowed /\ ReasonsAccountForSize /\ VerdictTellsHints

-----------------------------------------------------------------------------
(* Sizes.                                                                   *)

LEMMA Mono == ASSUME NEW x \in Nat, NEW y \in Nat, NEW k \in Nat, x <= y
              PROVE  x * k <= y * k
  <1> DEFINE d == y - x
  <1>1. d \in Nat /\ y = x + d  OBVIOUS
  <1>2. (x + d) * k = x * k + d * k  BY <1>1, SMT
  <1>3. d * k \in Nat /\ x * k \in Nat  BY <1>1, SMT
  <1> HIDE DEF d
  <1> QED BY <1>1, <1>2, <1>3

(* Named, for the provers match no arithmetic when they apply a lemma.      *)
Part(q, n) == q \div n
Times(f, n) == f * n

LEMMA DivideWithin ==
  ASSUME NEW q \in Nat, NEW total \in Nat, NEW f \in Nat \ {0}, NEW s \in {1, 2}, NEW n \in {1, 2, 4},
         Between(q, 1, total, s, f)
  PROVE  /\ Part(q, n) \in Nat /\ Part(q, n) <= q /\ Times(f, n) \in Nat \ {0}
         /\ Between(Part(q, n), 1, total, s, Times(f, n))
  <1> DEFINE p == q \div n
             u == 100 * f
  <1>1. p \in Nat /\ n * p <= q /\ q < n * p + n  BY SMT
  <1>2. u \in Nat /\ f * n \in Nat \ {0} /\ 100 * (f * n) = n * u  BY SMT
  <1>3. q + s <= n * (p + s)  BY <1>1, SMT
  <1> HIDE DEF p, u
  <1>4. (n * p) * u <= q * u  BY <1>1, <1>2, Mono
  <1>5. (q + s) * u <= (n * (p + s)) * u  BY <1>1, <1>2, <1>3, Mono
  <1>6. (n * p) * u = p * (n * u) /\ (n * (p + s)) * u = (p + s) * (n * u)  BY <1>1, <1>2, SMT
  <1>7. q * u <= total /\ total < (q + s) * u  BY DEF u, Between
  <1>8. p * (n * u) <= total /\ total < (p + s) * (n * u)
    <2>1. /\ (n * p) * u \in Int /\ q * u \in Int /\ (q + s) * u \in Int /\ (n * (p + s)) * u \in Int
      BY <1>1, <1>2, SMT
    <2> QED BY <1>4, <1>5, <1>6, <1>7, <2>1
  <1>9. p <= q  BY <1>1, SMT
  <1>10. s * 1 = s  OBVIOUS
  <1>11. Between(p, 1, total, s, Times(f, n))  BY <1>2, <1>8, <1>10 DEF Between, Times
  <1> QED BY <1>1, <1>2, <1>9, <1>11 DEF p, Part, Times

LEMMA InLots ==
  ASSUME NEW q \in Nat, NEW lot \in Nat \ {0}
  PROVE  /\ q \div lot \in Nat /\ (q \div lot) * lot \in Nat
         /\ (q \div lot) * lot <= q /\ q < (q \div lot) * lot + lot
  <1> DEFINE k == q \div lot
             m == q % lot
  <1>1. k \in Nat /\ m \in 0..lot - 1  BY SMT
  <1>2. q = lot * k + m  BY SMT
  <1> HIDE DEF k, m
  <1>3. k * lot = lot * k /\ k * lot \in Nat  BY <1>1, SMT
  <1>4. k * lot + m = q  BY <1>2, <1>3
  <1>5. k * lot <= q /\ q < k * lot + lot  BY <1>1, <1>3, <1>4
  <1> QED BY <1>1, <1>3, <1>5 DEF k

LEMMA LotWithin ==
  ASSUME NEW q \in Nat, NEW total \in Nat, NEW f \in Nat \ {0}, NEW s \in {1, 2}, NEW lot \in Nat \ {0},
         Between(q, 1, total, s, f)
  PROVE  /\ RoundToLot(q, lot) \in Nat /\ RoundToLot(q, lot) <= q
         /\ RoundToLot(q, lot) % lot = 0
         /\ Between(RoundToLot(q, lot), lot, total, s, f)
  <1> DEFINE k == q \div lot
             p == k * lot
             u == 100 * f
  <1>1. k \in Nat /\ p \in Nat /\ p <= q /\ q < p + lot
    BY InLots
  <1>2. p % lot = 0
    <2> HIDE DEF k
    <2> QED BY <1>1, SMT
  <1>3. u \in Nat  BY SMT
  <1>4. s * lot \in Nat /\ q + s <= p + s * lot
    <2>1. CASE s = 1  BY <2>1, <1>1
    <2>2. CASE s = 2  BY <2>2, <1>1
    <2> QED BY <2>1, <2>2
  <1> HIDE DEF p, u
  <1>5. p * u <= q * u  BY <1>1, <1>3, Mono
  <1>6. (q + s) * u <= (p + s * lot) * u  BY <1>1, <1>3, <1>4, Mono
  <1>7. q * u <= total /\ total < (q + s) * u  BY DEF u, Between
  <1>8. p * u <= total /\ total < (p + s * lot) * u
    <2>1. p * u \in Int /\ q * u \in Int /\ (q + s) * u \in Int /\ (p + s * lot) * u \in Int
      BY <1>1, <1>3, <1>4, SMT
    <2> QED BY <1>5, <1>6, <1>7, <2>1
  <1>9. Between(p, lot, total, s, f)  BY <1>8 DEF u, Between
  <1> QED BY <1>1, <1>2, <1>9 DEF p, RoundToLot

LEMMA SizedWithin ==
  ASSUME NEW q \in Quantities, NEW r \in SizeRatios
  PROVE  LET total == q * Clamped(r)
             s == IF <<q, r>> \in ShortProducts THEN 2 ELSE 1
         IN  /\ total \in Nat /\ s \in {1, 2}
             /\ Sized(q, r) \in Nat
             /\ Sized(q, r) * 100 <= total
             /\ total < (Sized(q, r) + s) * 100
             /\ Clamped(r) >= 100 => Sized(q, r) = q
  <1>1. q \in Nat \ {0} /\ r \in Nat  BY PlanAssumption
  <1>2. CASE <<q, r>> \in ShortProducts
    <2>1. r \in 1..99 /\ (q * r) % 100 = 0  BY <1>2, PlanAssumption
    <2>2. Clamped(r) = r  BY <2>1 DEF Clamped
    <2> DEFINE t == q * r
    <2>3. t \in Nat /\ t > 0  BY <1>1, <2>1, SMT
    <2>4. t % 100 = 0 BY <2>1
    <2> HIDE DEF t
    <2>5. t \div 100 \in Nat \ {0} /\ (t \div 100) * 100 = t  BY <2>3, <2>4, SMT
    <2> QED BY <1>2, <2>1, <2>2, <2>3, <2>5 DEF Sized, t
  <1>3. CASE <<q, r>> \notin ShortProducts
    <2> DEFINE t == q * Clamped(r)
    <2>1. Clamped(r) \in Nat /\ Clamped(r) <= 100  BY <1>1 DEF Clamped
    <2>2. t \in Nat  BY <1>1, <2>1, SMT
    <2>3. ASSUME Clamped(r) >= 100 PROVE t = q * 100  BY <1>1, <2>1, <2>3
    <2> HIDE DEF t
    <2>4. t \div 100 \in Nat /\ (t \div 100) * 100 <= t /\ t < (t \div 100 + 1) * 100  BY <2>2, SMT
    <2>5. Clamped(r) >= 100 => t \div 100 = q  BY <1>1, <2>3, SMT
    <2> QED BY <1>3, <2>2, <2>4, <2>5 DEF Sized, t
  <1> QED BY <1>2, <1>3

-----------------------------------------------------------------------------
(* The trace.                                                               *)

LEMMA LabelOfUpsert ==
  ASSUME NEW trace, NEW new, NEW label, NEW stage, NEW default
  PROVE  LatestLabel(Upsert(trace, new, label), stage, default) =
           IF stage = new THEN label ELSE LatestLabel(trace, stage, default)
  BY DEF LatestLabel, Upsert

Shadow(trace) == LatestLabel(trace, "shadow_hard_guard_decision", "none") = "would_reject"
Told(trace, c) ==
  [wouldReject |-> Shadow(trace), overlaps |-> "price_stale" \in c.blocking,
   advisory |-> AdvisoryLevel(c)]

(* The derived stages pass on the shadow event and the advisory level.      *)
LEMMA VerdictOfFullTrace ==
  ASSUME NEW trace, NEW c
  PROVE  /\ LatestLabel(FullTrace(trace, c), "shadow_hard_guard_aggregate_review_verdict", "absent")
               = ReviewVerdict(ReviewKey(Told(trace, c)))
         /\ LatestLabel(FullTrace(trace, c), "shadow_hard_guard_aggregate_review_key", "absent")
               = ReviewKey(Told(trace, c))
  <1> DEFINE
    Same(t) == /\ LatestLabel(t, "shadow_hard_guard_decision", "none")
                    = LatestLabel(trace, "shadow_hard_guard_decision", "none")
               /\ LatestLabel(t, "advisory_guard_assessment", "none") = AdvisoryLevel(c)
    hinted   == Upsert(trace, "execution_guard_hints", c.blocking)
    advised  == Upsert(hinted, "advisory_guard_assessment", AdvisoryLevel(c))
    assessed == Upsert(advised, "shadow_hard_guard_assessment",
                       Readiness(advised) = "needs_review")
    reviewed == Upsert(assessed, "shadow_hard_guard_review_summary", Readiness(assessed))
    metered  == Upsert(reviewed, "shadow_hard_guard_promotion_metrics", Metrics(reviewed, c))
    decided  == Upsert(metered, "shadow_hard_guard_promotion_decision",
                       PromotionDecision(Metrics(metered, c)))
    keyed    == Upsert(decided, "shadow_hard_guard_aggregate_review_key",
                       ReviewKey(Metrics(decided, c)))
    last     == Upsert(keyed, "shadow_hard_guard_aggregate_review_verdict",
                       ReviewVerdict(ReviewKey(Metrics(keyed, c))))
  <1>1. FullTrace(trace, c) = last  BY DEF FullTrace
  <1>2. ASSUME NEW t, Same(t) PROVE Metrics(t, c) = Told(trace, c)
    BY <1>2 DEF Metrics, Told, Shadow
  <1>3. Same(advised)  BY LabelOfUpsert
  <1> HIDE DEF advised
  <1>4. Same(assessed)  BY <1>3, LabelOfUpsert
  <1> HIDE DEF assessed
  <1>5. Same(reviewed)  BY <1>4, LabelOfUpsert
  <1> HIDE DEF reviewed
  <1>6. Same(metered)  BY <1>5, LabelOfUpsert
  <1> HIDE DEF metered
  <1>7. Same(decided)  BY <1>6, LabelOfUpsert
  <1> HIDE DEF decided
  <1>8. Same(keyed)  BY <1>7, LabelOfUpsert
  <1>9. LatestLabel(keyed, "shadow_hard_guard_aggregate_review_key", "absent")
          = ReviewKey(Metrics(decided, c))
    BY LabelOfUpsert
  <1> HIDE DEF keyed
  <1>10. /\ LatestLabel(last, "shadow_hard_guard_aggregate_review_verdict", "absent")
              = ReviewVerdict(ReviewKey(Metrics(keyed, c)))
         /\ LatestLabel(last, "shadow_hard_guard_aggregate_review_key", "absent")
              = LatestLabel(keyed, "shadow_hard_guard_aggregate_review_key", "absent")
    BY LabelOfUpsert
  <1> HIDE DEF last, Same
  <1> QED BY <1>1, <1>2, <1>7, <1>8, <1>9, <1>10

LEMMA VerdictOfShadow ==
  ASSUME NEW trace, NEW c
  PROVE  /\ ReviewKey(Told(trace, c)).advisory = AdvisoryLevel(c)
         /\ (ReviewVerdict(ReviewKey(Told(trace, c))) = "priority_review")
              <=> (Shadow(trace) /\ "price_stale" \notin c.blocking)
  <1> DEFINE m == Told(trace, c)
             key == ReviewKey(m)
  <1>1. m.wouldReject = Shadow(trace) /\ m.overlaps = ("price_stale" \in c.blocking)
        /\ m.advisory = AdvisoryLevel(c)
    BY DEF Told
  <1>2. key.overlap = IF ~m.wouldReject THEN "no_overlap"
                  ELSE IF m.overlaps THEN "overlaps_price_stale"
                  ELSE "distinct_from_price_stale"
    BY DEF ReviewKey
  <1>3. key.advisory = m.advisory  BY DEF ReviewKey
  <1>4. (ReviewVerdict(key) = "priority_review") <=> (key.overlap = "distinct_from_price_stale")
    <2> HIDE DEF key
    <2>1. CASE key.overlap = "overlaps_price_stale"  BY <2>1 DEF ReviewVerdict
    <2>2. CASE key.overlap = "distinct_from_price_stale"  BY <2>2 DEF ReviewVerdict
    <2>3. CASE key.overlap \notin {"overlaps_price_stale", "distinct_from_price_stale"}
      BY <2>3 DEF ReviewVerdict
    <2> QED BY <2>1, <2>2, <2>3
  <1> HIDE DEF m, key
  <1> QED BY <1>1, <1>2, <1>3, <1>4 DEF m, key
-----------------------------------------------------------------------------
(* The reasons.                                                             *)

(* A reason that starts from where the others ended.                        *)
LEMMA ReasonAppended ==
  ASSUME NEW rs \in Seq(ReasonRows), NEW base \in Nat, NEW q \in Nat, NEW after \in Nat,
         NEW code \in ReasonCodes \ {"zero"},
         Linked(rs), NoZero(rs), Leads(rs, base, q)
  PROVE  LET new == Append(rs, Reason(code, q, after))
         IN  new \in Seq(ReasonRows) /\ Linked(new) /\ NoZero(new) /\ Leads(new, base, after)
             /\ Last(new) = Reason(code, q, after) /\ new # <<>>
  <1> DEFINE row == Reason(code, q, after)
             new == Append(rs, row)
  <1>1. row \in ReasonRows /\ row.before = q /\ row.after = after /\ row.code = code
        /\ row.code # "zero"
    BY DEF Reason, ReasonRows
  <1> HIDE DEF row
  <1>2. /\ new \in Seq(ReasonRows) /\ Len(new) = Len(rs) + 1 /\ Len(rs) \in Nat
        /\ \A i \in 1..Len(rs) : new[i] = rs[i]
        /\ new[Len(rs) + 1] = row
    BY <1>1, AppendProperties, LenProperties
  <1>3. rs = <<>> <=> Len(rs) = 0  BY EmptySeq
  <1>4. new # <<>>  BY <1>2
  <1> HIDE DEF new
  <1>5. Linked(new)
    <2> SUFFICES ASSUME NEW i \in 1..Len(new) - 1
                 PROVE  new[i + 1].before = IF new[i + 1].code = "zero" /\ new[i].code = "lot"
                                            THEN new[i].before ELSE new[i].after
      BY DEF Linked
    <2>1. CASE i = Len(rs)
      <3>1. new[i + 1] = row /\ new[i] = rs[Len(rs)] /\ rs # <<>>  BY <2>1, <1>2, <1>3
      <3>2. rs[Len(rs)].after = q  BY <3>1 DEF Leads
      <3> QED BY <3>1, <3>2, <1>1
    <2>2. CASE i # Len(rs)
      <3>1. i \in 1..Len(rs) - 1 /\ new[i] = rs[i] /\ new[i + 1] = rs[i + 1]  BY <2>2, <1>2
      <3> QED BY <3>1 DEF Linked
    <2> QED BY <2>1, <2>2
  <1>6. NoZero(new)
    <2> SUFFICES ASSUME NEW i \in 1..Len(new) PROVE new[i].code # "zero"  BY DEF NoZero
    <2> QED BY <1>1, <1>2 DEF NoZero
  <1>7. Leads(new, base, after)
    <2>1. CASE rs = <<>>
      <3>1. new[1] = row /\ new[Len(new)] = row  BY <2>1, <1>2, <1>3
      <3> QED BY <3>1, <2>1, <1>1, <1>4 DEF Leads
    <2>2. CASE rs # <<>>
      <3>1. new[1] = rs[1] /\ new[Len(new)] = row  BY <2>2, <1>2, <1>3
      <3> QED BY <3>1, <2>2, <1>1, <1>4 DEF Leads
    <2> QED BY <2>1, <2>2
  <1>8. Last(new) = row  BY <1>2 DEF Last
  <1> QED BY <1>2, <1>4, <1>5, <1>6, <1>7, <1>8 DEF new, row

(* _apply_adjustment() keeps the reasons leading to the quantity.           *)
LEMMA ReasonAdjusted ==
  ASSUME NEW rs \in Seq(ReasonRows), NEW base \in Nat, NEW q \in Nat, NEW after \in Nat,
         NEW code \in ReasonCodes \ {"zero"},
         Linked(rs), NoZero(rs), Leads(rs, base, q), after <= q
  PROVE  LET new == IF after < q THEN Append(rs, Reason(code, q, after)) ELSE rs
         IN  new \in Seq(ReasonRows) /\ Linked(new) /\ NoZero(new) /\ Leads(new, base, after)
  <1>1. CASE after < q  BY <1>1, ReasonAppended
  <1>2. CASE ~(after < q)
    <2>1. after = q  BY <1>2
    <2> QED BY <1>2, <2>1
  <1> QED BY <1>1, <1>2

(* The zero check goes behind the rounding to lots.                         *)
LEMMA ZeroAppended ==
  ASSUME NEW rs \in Seq(ReasonRows), NEW base \in Nat, NEW q \in Nat,
         Linked(rs), Leads(rs, base, q)
  PROVE  LET before == IF rs # <<>> /\ Last(rs).code = "lot" THEN Last(rs).before ELSE q
             new == Append(rs, Reason("zero", before, 0))
         IN  Linked(new) /\ new # <<>> /\ Last(new).code = "zero" /\ Last(new).after = 0
  <1> DEFINE before == IF rs # <<>> /\ Last(rs).code = "lot" THEN Last(rs).before ELSE q
             row == Reason("zero", before, 0)
             new == Append(rs, row)
  <1>1. row.before = before /\ row.after = 0 /\ row.code = "zero"  BY DEF Reason
  <1>2. rs = <<>> <=> Len(rs) = 0  BY EmptySeq
  <1>3. rs # <<>> => rs[Len(rs)] \in ReasonRows  BY <1>2, ElementOfSeq, LenProperties
  <1>4. Last(rs) = rs[Len(rs)]  BY DEF Last
  <1>5. row \in ReasonRows
    <2>1. before \in Nat  BY <1>3, <1>4 DEF ReasonRows
    <2> QED BY <2>1 DEF Reason, ReasonRows, ReasonCodes
  <1> HIDE DEF row
  <1>6. /\ new \in Seq(ReasonRows) /\ Len(new) = Len(rs) + 1 /\ Len(rs) \in Nat
        /\ \A i \in 1..Len(rs) : new[i] = rs[i]
        /\ new[Len(rs) + 1] = row
    BY <1>5, AppendProperties, LenProperties
  <1>7. new # <<>>  BY <1>6
  <1>8. Last(new) = row  BY <1>6 DEF Last
  <1> HIDE DEF new
  <1>9. Linked(new)
    <2> SUFFICES ASSUME NEW i \in 1..Len(new) - 1
                 PROVE  new[i + 1].before = IF new[i + 1].code = "zero" /\ new[i].code = "lot"
                                            THEN new[i].before ELSE new[i].after
      BY DEF Linked
    <2>1. CASE i = Len(rs)
      <3>1. new[i + 1] = row /\ new[i] = Last(rs) /\ rs # <<>>  BY <2>1, <1>2, <1>4, <1>6
      <3>2. Last(rs).after = q  BY <3>1, <1>4 DEF Leads
      <3> QED BY <3>1, <3>2, <1>1
    <2>2. CASE i # Len(rs)
      <3>1. i \in 1..Len(rs) - 1 /\ new[i] = rs[i] /\ new[i + 1] = rs[i + 1]  BY <2>2, <1>6
      <3> QED BY <3>1 DEF Linked
    <2> QED BY <2>1, <2>2
  <1> QED BY <1>1, <1>7, <1>8, <1>9 DEF new, row

LEMMA OneReason ==
  ASSUME NEW code, NEW before, NEW after
  PROVE  LET rs == <<Reason(code, before, after)>>
         IN  Linked(rs) /\ rs # <<>> /\ Last(rs).code = code
  BY DEF Linked, Last, Reason

LEMMA NoReasons ==
  /\ <<>> \in Seq(ReasonRows) /\ Linked(<<>>) /\ NoZero(<<>>)
  /\ \A base : Leads(<<>>, base, base)
  BY DEF Linked, NoZero, Leads
-----------------------------------------------------------------------------
(* The inductive step.                                                      *)

Alone == ctx.entry /\ ctx.decision = "valid" /\ ctx.blocking = {"stale_bid_ask"}

Fits(q) == q \in Nat \ {0} /\ q % ctx.lot = 0 /\ Within(q, ctx.lot, scale)

LEMMA ContextFacts ==
  ASSUME PlanTypeOK, planStage # "idle"
  PROVE  /\ ctx \in Context /\ ctx.base \in Quantities /\ ctx.base \in Nat \ {0}
         /\ ctx.ratio \in SizeRatios /\ ctx.lot \in Nat \ {0}
         /\ ctx.blocking \subseteq Blockers
         /\ AllowedQty \in Nat /\ Slack \in {1, 2}
  <1>1. ctx \in Context  BY DEF PlanTypeOK
  <1>2. /\ ctx.base \in Quantities /\ ctx.ratio \in SizeRatios /\ ctx.lot \in LotSizes
        /\ ctx.blocking \subseteq Blockers
    BY <1>1 DEF Context
  <1>3. ctx.base \in Nat \ {0} /\ ctx.lot \in Nat \ {0}  BY <1>2, PlanAssumption
  <1>4. AllowedQty \in Nat /\ Slack \in {1, 2}  BY <1>2, SizedWithin DEF AllowedQty, Slack
  <1> QED BY <1>1, <1>2, <1>3, <1>4

(* A saved row ends the plan.                                               *)
LEMMA SavedKeepsInv ==
  ASSUME PlanInv, planStage \notin {"idle", "done"},
         NEW status, NEW q, NEW code, NEW rs, NEW trace, Saved(status, q, code, rs, trace),
         UNCHANGED <<ctx, scale, planReasons, planTrace>>, planQty' \in Nat,
         Linked(rs),
         status # "rejected" /\ ctx.entry => Fits(q) /\ Leads(rs, ctx.base, q),
         status = "rejected" => rs # <<>> /\ (Last(rs).code = code \/ Last(rs).after = 0),
         (Shadow(trace) /\ "price_stale" \notin ctx.blocking) <=> Alone
  PROVE  PlanInv'
  <1>1. /\ plan'.status = status /\ plan'.qty = q /\ plan'.code = code /\ plan'.reasons = rs
        /\ plan'.trace = FullTrace(trace, ctx) /\ planStage' = "done" /\ ctx' = ctx /\ scale' = scale
    BY DEF Saved
  <1>2. ctx \in Context /\ ctx.lot \in Nat \ {0} /\ Slack \in {1, 2} /\ AllowedQty \in Nat
        /\ scale \in Nat \ {0}
    BY ContextFacts DEF PlanInv, PlanTypeOK
  <1>3. PlanTypeOK'
    BY <1>1, <1>2 DEF PlanInv, PlanTypeOK, PlanStages
  <1>4. TraceOK' /\ SizeOK'
    BY <1>1 DEF TraceOK, SizeOK, Sizing
  <1>5. ReasonsOK'
    BY <1>1 DEF PlanInv, ReasonsOK, Sizing
  <1>6. LargestLotAllowed'
    <2> SUFFICES ASSUME Placed'
                 PROVE  /\ q > 0 /\ q % ctx.lot = 0
                        /\ q * 100 * scale <= AllowedQty
                        /\ (q + Slack * ctx.lot) * 100 * scale > AllowedQty
      BY <1>1 DEF LargestLotAllowed, AllowedQty, Slack
    <2>1. Fits(q)  BY <1>1 DEF Placed
    <2>2. q \in Nat /\ q > 0 /\ q % ctx.lot = 0  BY <2>1 DEF Fits
    <2>3. q + Slack * ctx.lot \in Nat  BY <1>2, <2>2
    <2>4. \A k \in Nat : k * 100 * scale = k * (100 * scale) /\ k * (100 * scale) \in Nat
      BY <1>2, SMT
    <2>5. q * (100 * scale) <= AllowedQty /\ AllowedQty < (q + Slack * ctx.lot) * (100 * scale)
      BY <2>1 DEF Fits, Within, Between
    <2> HIDE DEF AllowedQty, Slack
    <2> DEFINE k == q + Slack * ctx.lot
    <2>6. k \in Nat /\ AllowedQty < k * (100 * scale)  BY <2>3, <2>5
    <2> HIDE DEF k
    <2>7. k * 100 * scale > AllowedQty  BY <2>4, <2>6, <1>2
    <2>8. q * 100 * scale <= AllowedQty  BY <2>2, <2>4, <2>5
    <2> QED BY <2>2, <2>7, <2>8 DEF k
  <1>7. ReasonsAccountForSize'
    <2>1. Placed' => IF rs = <<>> THEN q = ctx.base
                     ELSE rs[1].before = ctx.base /\ Last(rs).after = q
      BY <1>1 DEF Placed, Leads, Last
    <2> QED BY <1>1, <2>1 DEF ReasonsAccountForSize, Linked
  <1>8. VerdictTellsHints'
    <2>1. /\ (LatestLabel(plan'.trace, "shadow_hard_guard_aggregate_review_verdict", "absent")
                = "priority_review") <=> Alone
          /\ LatestLabel(plan'.trace, "shadow_hard_guard_aggregate_review_key", "absent").advisory
                = AdvisoryLevel(ctx)
      BY <1>1, VerdictOfFullTrace, VerdictOfShadow
    <2> QED BY <1>1, <2>1 DEF VerdictTellsHints, Alone
  <1> QED BY <1>3, <1>4, <1>5, <1>6, <1>7, <1>8 DEF PlanInv

(* Until then the properties of the saved row say nothing.                  *)
LEMMA UnsavedProperties ==
  ASSUME plan' = NoPlan
  PROVE  LargestLotAllowed' /\ ReasonsAccountForSize' /\ VerdictTellsHints'
  BY DEF LargestLotAllowed, ReasonsAccountForSize, VerdictTellsHints, Placed

LEMMA BeginKeepsInv == ASSUME PlanInv, PlanBegin PROVE PlanInv'
  <1> USE DEF PlanBegin
  <1>1. planReasons = <<>> /\ scale = 1 /\ planTrace = NoTrace /\ plan = NoPlan
    BY DEF PlanInv, PlanTypeOK, TraceOK
  <1>2. ctx' \in Context /\ ctx'.base \in Nat  BY PlanAssumption DEF Context
  <1>3. PlanTypeOK'  BY <1>1, <1>2 DEF PlanInv, PlanTypeOK, PlanStages
  <1>4. TraceOK' /\ SizeOK'  BY <1>1 DEF TraceOK, SizeOK, Sizing
  <1>5. ReasonsOK'  BY <1>1, NoReasons DEF ReasonsOK, Sizing
  <1> QED BY <1>1, <1>3, <1>4, <1>5, UnsavedProperties DEF PlanInv

LEMMA NoShadow == ~Shadow(NoTrace)
  BY DEF Shadow, NoTrace, LatestLabel

(* Entries of the other stages leave the shadow event as it is.             *)
LEMMA ShadowOfUpsert ==
  ASSUME NEW trace, NEW new, NEW label, new # "shadow_hard_guard_decision"
  PROVE  Shadow(Upsert(trace, new, label)) <=> Shadow(trace)
  BY LabelOfUpsert DEF Shadow

LEMMA BypassKeepsInv == ASSUME PlanInv, PlanBypass PROVE PlanInv'
  <1> USE DEF PlanBypass
  <1>1. ~Shadow(Noted("bypass", ctx.base))  BY NoShadow, ShadowOfUpsert DEF Noted
  <1>2. planQty' \in Nat  BY DEF PlanInv, PlanTypeOK
  <1>3. ~Alone  BY DEF Alone
  <1> QED BY <1>1, <1>2, <1>3, NoReasons, SavedKeepsInv

LEMMA DecisionKeepsInv == ASSUME PlanInv, PlanDecision PROVE PlanInv'
  <1> USE DEF PlanDecision
  <1>1. CASE ctx.decision = "valid"
    <2>1. /\ planReasons = <<>> /\ scale = 1 /\ planTrace = NoTrace /\ plan = NoPlan
          /\ planQty = ctx.base /\ ctx \in Context
      BY DEF PlanInv, PlanTypeOK, TraceOK
    <2>2. PlanTypeOK'  BY <1>1, <2>1 DEF PlanInv, PlanTypeOK, PlanStages
    <2>3. TraceOK' /\ SizeOK'  BY <1>1, <2>1 DEF TraceOK, SizeOK, Sizing
    <2>4. ReasonsOK'  BY <1>1, <2>1, NoReasons DEF ReasonsOK, Sizing
    <2> QED BY <1>1, <2>1, <2>2, <2>3, <2>4, UnsavedProperties DEF PlanInv
  <1>2. CASE ctx.decision # "valid"
    <2>1. ~Shadow(Noted("decision_validation", ctx.decision))
      BY NoShadow, ShadowOfUpsert DEF Noted
    <2>2. planQty' \in Nat  BY DEF PlanInv, PlanTypeOK
    <2>3. ~Alone  BY <1>2 DEF Alone
    <2>4. Saved("rejected", 0, "decision", <<Reason("decision", 0, 0)>>,
                Noted("decision_validation", ctx.decision))
      BY <1>2 DEF Rejected
    <2> QED BY <2>1, <2>2, <2>3, <2>4, OneReason, SavedKeepsInv
  <1> QED BY <1>1, <1>2

LEMMA GuardKeepsInv == ASSUME PlanInv, PlanGuard PROVE PlanInv'
  <1> USE DEF PlanGuard
  <1>1. CASE "price_stale" \in ctx.blocking
    <2>1. planQty' \in Nat  BY DEF PlanInv, PlanTypeOK
    <2>2. ~Alone  BY <1>1 DEF Alone
    <2>3. Saved("rejected", 0, "price_stale", <<Reason("price_stale", 0, 0)>>,
                Noted("hard_guard_decision", "reject"))
      BY <1>1 DEF Rejected
    <2>4. UNCHANGED <<ctx, scale, planReasons, planTrace>>  BY <1>1
    <2> QED BY <1>1, <2>1, <2>2, <2>3, <2>4, OneReason, SavedKeepsInv
  <1>2. CASE "price_stale" \notin ctx.blocking
    <2>1. /\ planReasons = <<>> /\ scale = 1 /\ planTrace = NoTrace /\ plan = NoPlan
          /\ planQty = ctx.base /\ ctx \in Context /\ ctx.entry /\ ctx.decision = "valid"
      BY DEF PlanInv, PlanTypeOK, TraceOK
    <2>2. PlanTypeOK'  BY <1>2, <2>1 DEF PlanInv, PlanTypeOK, PlanStages
    <2>3. TraceOK'
      BY <1>2, <2>1 DEF TraceOK, Sizing, NoTrace, Upsert, LatestLabel
    <2>4. SizeOK'  BY <1>2 DEF SizeOK, Sizing
    <2>5. ReasonsOK'  BY <1>2, <2>1, NoReasons DEF ReasonsOK
    <2> QED BY <1>2, <2>1, <2>2, <2>3, <2>4, <2>5, UnsavedProperties DEF PlanInv
  <1> QED BY <1>1, <1>2

(* The sizing stages add an entry of their own, and a reason.               *)
LEMMA TraceKept ==
  ASSUME TraceOK, planStage \in Sizing \cup {"size"}, UNCHANGED ctx,
         NEW new, NEW label, new # "shadow_hard_guard_decision",
         planTrace' = Upsert(planTrace, new, label) \/ planTrace' = planTrace,
         planStage' \in Sizing \cup {"size", "zero"}
  PROVE  TraceOK'
  <1>1. /\ "price_stale" \notin ctx.blocking
        /\ "shadow_hard_guard_decision" \in DOMAIN planTrace <=> "stale_bid_ask" \in ctx.blocking
        /\ LatestLabel(planTrace, "shadow_hard_guard_decision", "would_reject") = "would_reject"
    BY DEF TraceOK
  <1>2. /\ "shadow_hard_guard_decision" \in DOMAIN planTrace'
             <=> "shadow_hard_guard_decision" \in DOMAIN planTrace
        /\ LatestLabel(planTrace', "shadow_hard_guard_decision", "would_reject")
             = LatestLabel(planTrace, "shadow_hard_guard_decision", "would_reject")
    <2>1. CASE planTrace' = Upsert(planTrace, new, label)
      BY <2>1, LabelOfUpsert DEF Upsert
    <2>2. CASE planTrace' = planTrace  BY <2>2
    <2> QED BY <2>1, <2>2
  <1> QED BY <1>1, <1>2 DEF TraceOK, Sizing

(* What the trace of a sized plan says of the shadow event.                 *)
LEMMA ShadowIsAlone ==
  ASSUME PlanInv, planStage \in Sizing \cup {"zero"}
  PROVE  (Shadow(planTrace) /\ "price_stale" \notin ctx.blocking) <=> Alone
  <1>1. /\ "price_stale" \notin ctx.blocking
        /\ "shadow_hard_guard_decision" \in DOMAIN planTrace <=> "stale_bid_ask" \in ctx.blocking
        /\ LatestLabel(planTrace, "shadow_hard_guard_decision", "would_reject") = "would_reject"
    BY DEF PlanInv, TraceOK
  <1>2. Shadow(planTrace) <=> "stale_bid_ask" \in ctx.blocking
    BY <1>1 DEF Shadow, LatestLabel
  <1>3. ctx.entry /\ ctx.decision = "valid" /\ ctx.blocking \subseteq Blockers
    BY ContextFacts DEF PlanInv, PlanTypeOK, Sizing
  <1>4. "stale_bid_ask" \in ctx.blocking <=> ctx.blocking = {"stale_bid_ask"}
    BY <1>1, <1>3 DEF Blockers
  <1> QED BY <1>1, <1>2, <1>3, <1>4 DEF Alone

LEMMA SizeKeepsInv == ASSUME PlanInv, PlanSize PROVE PlanInv'
  <1> USE DEF PlanSize
  <1>1. /\ planReasons = <<>> /\ scale = 1 /\ plan = NoPlan /\ planQty = ctx.base
        /\ ctx \in Context /\ ctx.entry /\ ctx.decision = "valid"
    BY DEF PlanInv, PlanTypeOK
  <1>2. ctx.base \in Quantities /\ ctx.ratio \in SizeRatios /\ ctx.base \in Nat
    BY ContextFacts DEF PlanInv
  <1>3. /\ planQty' \in Nat /\ planQty' * 100 <= AllowedQty /\ AllowedQty < (planQty' + Slack) * 100
        /\ Clamped(ctx.ratio) >= 100 => planQty' = ctx.base
    BY <1>2, SizedWithin DEF AllowedQty, Slack
  <1>4. /\ planReasons' \in Seq(ReasonRows) /\ Linked(planReasons') /\ NoZero(planReasons')
        /\ Leads(planReasons', ctx.base, planQty')
    <2>1. Clamped(ctx.ratio) \in Nat  BY <1>2, PlanAssumption DEF Clamped
    <2>2. CASE Clamped(ctx.ratio) < 100
      <3>1. Leads(planReasons, ctx.base, ctx.base)  BY <1>1, NoReasons
      <3>2. planReasons \in Seq(ReasonRows) /\ Linked(planReasons) /\ NoZero(planReasons)
        BY <1>1, NoReasons
      <3>3. "size_ratio" \in ReasonCodes \ {"zero"}  BY DEF ReasonCodes
      <3>4. planReasons' = Append(planReasons, Reason("size_ratio", ctx.base, planQty'))
        BY <2>2
      <3> QED BY <1>2, <1>3, <3>1, <3>2, <3>3, <3>4, ReasonAppended
    <2>3. CASE ~(Clamped(ctx.ratio) < 100)
      <3>1. planReasons' = <<>> /\ planQty' = ctx.base  BY <1>1, <1>3, <2>1, <2>3
      <3> QED BY <3>1, NoReasons
    <2> QED BY <2>2, <2>3
  <1>5. PlanTypeOK'  BY <1>1, <1>3, <1>4 DEF PlanTypeOK, PlanStages
  <1>6. TraceOK'  BY TraceKept DEF PlanInv, Sizing
  <1>7. SizeOK'
    <2>1. AllowedQty' = AllowedQty /\ Slack' = Slack  BY DEF AllowedQty, Slack
    <2>2. Slack \in {1, 2}  BY ContextFacts DEF PlanInv
    <2>3. Slack * 1 = Slack /\ 100 * scale = 100  BY <1>1, <2>2
    <2> HIDE DEF AllowedQty, Slack
    <2>4. Within(planQty, 1, scale)'  BY <1>1, <1>3, <2>1, <2>3 DEF Within, Between
    <2> QED BY <2>4 DEF SizeOK
  <1>8. ReasonsOK'  BY <1>4 DEF ReasonsOK
  <1> QED BY <1>1, <1>5, <1>6, <1>7, <1>8, UnsavedProperties DEF PlanInv

LEMMA TradabilityKeepsInv ==
  ASSUME PlanInv, NEW ok \in BOOLEAN, PlanTradability(ok) PROVE PlanInv'
  <1> USE DEF PlanTradability
  <1> DEFINE trace == Upsert(planTrace, "market_tradability", ok)
  <1>1. planQty \in Nat /\ planStage \in Sizing  BY DEF PlanInv, PlanTypeOK, Sizing
  <1>2. CASE ok
    <2>1. planTrace' = trace /\ planStage' = "liquidity" /\ plan' = NoPlan
          /\ UNCHANGED <<ctx, planQty, scale, planReasons>>
      BY <1>2 DEF PlanInv, PlanTypeOK
    <2> HIDE DEF PlanTradability
    <2>2. PlanTypeOK'  BY <1>1, <2>1 DEF PlanInv, PlanTypeOK, PlanStages, Sizing
    <2>3. TraceOK'  BY <1>1, <2>1, TraceKept DEF PlanInv, Sizing
    <2>4. SizeOK'
      <3>1. Within(planQty, 1, scale)  BY <1>1 DEF PlanInv, SizeOK
      <3> QED BY <2>1, <3>1 DEF SizeOK, Within, AllowedQty, Slack
    <2>5. ReasonsOK'  BY <1>1, <2>1 DEF PlanInv, ReasonsOK, Sizing
    <2> QED BY <2>1, <2>2, <2>3, <2>4, <2>5, UnsavedProperties DEF PlanInv
  <1>3. CASE ~ok
    <2>1. (Shadow(trace) /\ "price_stale" \notin ctx.blocking) <=> Alone
      BY <1>1, ShadowIsAlone, ShadowOfUpsert
    <2>2. Saved("rejected", 0, "tradability", <<Reason("tradability", planQty, 0)>>, trace)
      BY <1>3 DEF Rejected
    <2>3. UNCHANGED <<ctx, scale, planReasons, planTrace>> /\ planQty' \in Nat
          /\ planStage \notin {"idle", "done"}
      BY <1>1, <1>3
    <2> HIDE DEF trace, PlanTradability
    <2> QED BY <2>1, <2>2, <2>3, OneReason, SavedKeepsInv
  <1> QED BY <1>2, <1>3

(* A quantity divided and floored.                                          *)
LEMMA DivideKeepsInv ==
  ASSUME PlanInv, NEW code \in {"liquidity", "spread", "atr", "volatility"}, NEW n \in {1, 2, 4},
         NEW next \in {"spread", "volatility", "lot"}, Divide(code, n, next),
         planStage \in Sizing
  PROVE  PlanInv'
  <1> USE DEF Divide
  <1>1. planQty \in Nat /\ scale \in Nat \ {0} /\ plan' = NoPlan
        /\ planReasons \in Seq(ReasonRows)
    BY DEF PlanInv, PlanTypeOK, Sizing
  <1>2. AllowedQty \in Nat /\ Slack \in {1, 2} /\ ctx.base \in Nat
    BY ContextFacts DEF PlanInv, Sizing
  <1>3. AllowedQty' = AllowedQty /\ Slack' = Slack  BY DEF AllowedQty, Slack
  <1>4. Between(planQty, 1, AllowedQty, Slack, scale)  BY DEF PlanInv, SizeOK, Within
  <1> DEFINE p == Part(planQty, n)
             g == Times(scale, n)
  <1>5. /\ p \in Nat /\ p <= planQty /\ g \in Nat \ {0}
        /\ Between(p, 1, AllowedQty, Slack, g)
    <2> HIDE DEF Divide
    <2>1. \A total \in Nat, f \in Nat \ {0}, s \in {1, 2} :
            Between(planQty, 1, total, s, f) =>
              /\ Part(planQty, n) \in Nat /\ Part(planQty, n) <= planQty
              /\ Times(f, n) \in Nat \ {0}
              /\ Between(Part(planQty, n), 1, total, s, Times(f, n))
      BY <1>1, DivideWithin
    <2> QED BY <1>1, <1>2, <1>4, <2>1
  <1> HIDE DEF p, g
  <1>6. planQty' = p /\ scale' = g /\ UNCHANGED ctx  BY DEF p, g, Part, Times
  <1>7. /\ planReasons' \in Seq(ReasonRows) /\ Linked(planReasons') /\ NoZero(planReasons')
        /\ Leads(planReasons', ctx.base, p)
    <2>1. code \in ReasonCodes \ {"zero"}  BY DEF ReasonCodes
    <2>2. /\ Linked(planReasons) /\ NoZero(planReasons)
          /\ Leads(planReasons, ctx.base, planQty)
      BY DEF PlanInv, ReasonsOK
    <2> DEFINE rs == IF p < planQty THEN Append(planReasons, Reason(code, planQty, p))
                                    ELSE planReasons
    <2>3. rs \in Seq(ReasonRows) /\ Linked(rs) /\ NoZero(rs) /\ Leads(rs, ctx.base, p)
      BY <1>1, <1>2, <1>5, <2>1, <2>2, ReasonAdjusted
    <2>4. planReasons' = rs  BY <1>6 DEF Adjusted
    <2> QED BY <2>3, <2>4
  <1>8. PlanTypeOK'
    BY <1>1, <1>5, <1>6, <1>7 DEF PlanInv, PlanTypeOK, PlanStages, Sizing
  <1>9. TraceOK'
    <2>1. code # "shadow_hard_guard_decision" /\ planStage' \in Sizing \cup {"size", "zero"}
      BY DEF Sizing
    <2> QED BY <2>1, TraceKept DEF PlanInv
  <1>10. SizeOK'
    <2>1. Within(planQty, 1, scale)'  BY <1>3, <1>5, <1>6 DEF Within
    <2> QED BY <2>1 DEF SizeOK
  <1>11. ReasonsOK'  BY <1>6, <1>7 DEF ReasonsOK
  <1> QED BY <1>1, <1>8, <1>9, <1>10, <1>11, UnsavedProperties DEF PlanInv

LEMMA LiquidityKeepsInv ==
  ASSUME PlanInv, NEW v \in {"normal", "low", "very_low"}, PlanLiquidity(v) PROVE PlanInv'
  <1> DEFINE n == CASE v = "normal" -> 1 [] v = "low" -> 2 [] v = "very_low" -> 4
  <1>1. n \in {1, 2, 4}
    <2>1. CASE v = "normal"  BY <2>1
    <2>2. CASE v = "low"  BY <2>2
    <2>3. CASE v = "very_low"  BY <2>3
    <2> QED BY <2>1, <2>2, <2>3
  <1>2. Divide("liquidity", n, "spread") /\ planStage \in Sizing
    BY DEF PlanLiquidity, Sizing
  <1> HIDE DEF n
  <1> QED BY <1>1, <1>2, DivideKeepsInv

LEMMA SpreadKeepsInv ==
  ASSUME PlanInv, NEW s \in {"narrow", "wide", "too_wide"}, PlanSpread(s) PROVE PlanInv'
  <1>1. planStage = "spread" /\ planStage \in Sizing  BY DEF PlanSpread, Sizing
  <1>2. CASE s # "too_wide"
    <2> DEFINE n == IF s = "wide" THEN 2 ELSE 1
    <2>1. n \in {1, 2, 4} /\ Divide("spread", n, "volatility")  BY <1>2 DEF PlanSpread
    <2> HIDE DEF n
    <2> QED BY <1>1, <2>1, DivideKeepsInv
  <1>3. CASE s = "too_wide"
    <2> DEFINE rs == Adjusted("spread", 0)
               trace == Upsert(planTrace, "spread", 0)
    <2>1. Saved("rejected", 0, "spread", rs, trace)
          /\ UNCHANGED <<ctx, scale, planReasons, planTrace>> /\ planQty' = 0
      BY <1>3 DEF PlanSpread, Rejected
    <2>2. /\ planQty \in Nat /\ planReasons \in Seq(ReasonRows) /\ Linked(planReasons)
          /\ NoZero(planReasons) /\ Leads(planReasons, ctx.base, planQty)
      BY <1>1 DEF PlanInv, PlanTypeOK, ReasonsOK
    <2>3. ctx.base \in Nat \ {0}  BY <1>1, ContextFacts DEF PlanInv
    <2>4. Linked(rs) /\ rs # <<>> /\ (Last(rs).code = "spread" \/ Last(rs).after = 0)
      <3>1. CASE 0 < planQty
        <4>1. rs = Append(planReasons, Reason("spread", planQty, 0))  BY <3>1 DEF Adjusted
        <4>2. "spread" \in ReasonCodes \ {"zero"} /\ 0 \in Nat /\ ctx.base \in Nat
          BY <2>3 DEF ReasonCodes
        <4>3. Reason("spread", planQty, 0).code = "spread"  BY DEF Reason
        <4> HIDE DEF rs
        <4> QED BY <2>2, <4>1, <4>2, <4>3, ReasonAppended
      <3>2. CASE ~(0 < planQty)
        <4>1. planQty = 0 /\ rs = planReasons  BY <3>2, <2>2 DEF Adjusted
        <4>2. planReasons # <<>> /\ planReasons[Len(planReasons)].after = 0
          BY <4>1, <2>2, <2>3 DEF Leads
        <4> QED BY <4>1, <4>2, <2>2 DEF Last
      <3> QED BY <3>1, <3>2
    <2>5. (Shadow(trace) /\ "price_stale" \notin ctx.blocking) <=> Alone
      BY <1>1, ShadowIsAlone, ShadowOfUpsert
    <2> HIDE DEF rs, trace
    <2> QED BY <1>1, <2>1, <2>4, <2>5, SavedKeepsInv
  <1> QED BY <1>2, <1>3

LEMMA VolatilityKeepsInv ==
  ASSUME PlanInv, NEW a \in BOOLEAN, NEW v \in BOOLEAN, PlanVolatility(a, v) PROVE PlanInv'
  <1> DEFINE n == IF a \/ v THEN 2 ELSE 1
             code == IF a THEN "atr" ELSE "volatility"
  <1>1. n \in {1, 2, 4} /\ code \in {"liquidity", "spread", "atr", "volatility"}  OBVIOUS
  <1>2. Divide(code, n, "lot") /\ planStage \in Sizing  BY DEF PlanVolatility, Sizing
  <1> HIDE DEF n, code
  <1> QED BY <1>1, <1>2, DivideKeepsInv

LEMMA LotKeepsInv == ASSUME PlanInv, PlanLot PROVE PlanInv'
  <1> USE DEF PlanLot
  <1>1. planQty \in Nat /\ scale \in Nat \ {0} /\ plan' = NoPlan /\ planStage \in Sizing
        /\ planReasons \in Seq(ReasonRows)
    BY DEF PlanInv, PlanTypeOK, Sizing
  <1>2. AllowedQty \in Nat /\ Slack \in {1, 2} /\ ctx.base \in Nat /\ ctx.lot \in Nat \ {0}
    BY ContextFacts DEF PlanInv
  <1>3. AllowedQty' = AllowedQty /\ Slack' = Slack  BY DEF AllowedQty, Slack
  <1>4. Between(planQty, 1, AllowedQty, Slack, scale)  BY <1>1 DEF PlanInv, SizeOK, Within
  <1> DEFINE p == RoundToLot(planQty, ctx.lot)
  <1>5. /\ p \in Nat /\ p <= planQty /\ p % ctx.lot = 0
        /\ Between(p, ctx.lot, AllowedQty, Slack, scale)
    BY <1>1, <1>2, <1>4, LotWithin
  <1> HIDE DEF p
  <1>6. planQty' = p /\ scale' = scale /\ UNCHANGED ctx /\ planStage' = "zero"  BY DEF p
  <1>7. /\ planReasons' \in Seq(ReasonRows) /\ Linked(planReasons') /\ NoZero(planReasons')
        /\ Leads(planReasons', ctx.base, p)
    <2>1. "lot" \in ReasonCodes \ {"zero"}  BY DEF ReasonCodes
    <2>2. /\ Linked(planReasons) /\ NoZero(planReasons)
          /\ Leads(planReasons, ctx.base, planQty)
      BY <1>1 DEF PlanInv, ReasonsOK
    <2> DEFINE rs == IF p < planQty THEN Append(planReasons, Reason("lot", planQty, p))
                                    ELSE planReasons
    <2>3. rs \in Seq(ReasonRows) /\ Linked(rs) /\ NoZero(rs) /\ Leads(rs, ctx.base, p)
      BY <1>1, <1>2, <1>5, <2>1, <2>2, ReasonAdjusted
    <2>4. planReasons' = rs  BY <1>6 DEF Adjusted
    <2> QED BY <2>3, <2>4
  <1>8. PlanTypeOK'
    BY <1>1, <1>5, <1>6, <1>7 DEF PlanInv, PlanTypeOK, PlanStages, Sizing
  <1>9. TraceOK'
    <2>1. planTrace' = Upsert(planTrace, "lot_rounding", planQty') \/ planTrace' = planTrace
      OBVIOUS
    <2> QED BY <1>1, <1>6, <2>1, TraceKept DEF PlanInv
  <1>10. SizeOK'
    BY <1>3, <1>5, <1>6 DEF SizeOK, Within, Sizing
  <1>11. ReasonsOK'  BY <1>6, <1>7 DEF ReasonsOK
  <1> QED BY <1>1, <1>8, <1>9, <1>10, <1>11, UnsavedProperties DEF PlanInv

LEMMA SaveKeepsInv == ASSUME PlanInv, PlanSave PROVE PlanInv'
  <1> USE DEF PlanSave
  <1>1. /\ planQty \in Nat /\ planReasons \in Seq(ReasonRows) /\ Linked(planReasons)
        /\ Leads(planReasons, ctx.base, planQty) /\ Within(planQty, ctx.lot, scale)
        /\ planQty % ctx.lot = 0 /\ ctx.base \in Nat
    BY ContextFacts DEF PlanInv, PlanTypeOK, ReasonsOK, SizeOK
  <1>2. UNCHANGED <<ctx, scale, planReasons, planTrace>> /\ planQty' \in Nat
        /\ planStage \notin {"idle", "done"} /\ planStage \in Sizing \cup {"zero"}
    BY <1>1
  <1>3. CASE planQty = 0
    <2> DEFINE rs == Append(planReasons, Reason("zero", BeforeLot, 0))
               trace == Upsert(planTrace, "zero_check", 0)
    <2>1. Saved("rejected", 0, "zero", rs, trace)  BY <1>3 DEF Rejected
    <2>2. Linked(rs) /\ rs # <<>> /\ (Last(rs).code = "zero" \/ Last(rs).after = 0)
      BY <1>1, ZeroAppended DEF BeforeLot
    <2>3. (Shadow(trace) /\ "price_stale" \notin ctx.blocking) <=> Alone
      BY <1>2, ShadowIsAlone, ShadowOfUpsert
    <2> HIDE DEF rs, trace, PlanSave
    <2> QED BY <1>2, <2>1, <2>2, <2>3, SavedKeepsInv
  <1>4. CASE planQty # 0
    <2> DEFINE status == IF planQty < ctx.base THEN "reduced" ELSE "accepted"
               trace == Upsert(planTrace, "execution_params", planQty)
    <2>1. Saved(status, planQty, "none", planReasons, trace) /\ status # "rejected"
      BY <1>4
    <2>2. Fits(planQty)  BY <1>1, <1>4 DEF Fits
    <2>3. (Shadow(trace) /\ "price_stale" \notin ctx.blocking) <=> Alone
      BY <1>2, ShadowIsAlone, ShadowOfUpsert
    <2> HIDE DEF status, trace, PlanSave
    <2> QED BY <1>1, <1>2, <2>1, <2>2, <2>3, SavedKeepsInv
  <1> QED BY <1>3, <1>4

(* Every reachable state satisfies PlanInv.                                 *)
THEOREM PlanInvariant == PlanSpec => []PlanInv
  <1>1. PlanInit => PlanInv
    <2> SUFFICES ASSUME PlanInit PROVE PlanInv  OBVIOUS
    <2> USE DEF PlanInit
    <2>1. PlanTypeOK  BY NoReasons DEF PlanTypeOK, PlanStages
    <2>2. TraceOK /\ SizeOK  BY DEF TraceOK, SizeOK, Sizing
    <2>3. ReasonsOK  BY NoReasons DEF ReasonsOK, Sizing
    <2>4. LargestLotAllowed /\ ReasonsAccountForSize /\ VerdictTellsHints
      BY DEF LargestLotAllowed, ReasonsAccountForSize, VerdictTellsHints, Placed
    <2> QED BY <2>1, <2>2, <2>3, <2>4 DEF PlanInv
  <1>2. PlanInv /\ [PlanNext]_planVars => PlanInv'
    <2> SUFFICES ASSUME PlanInv, [PlanNext]_planVars PROVE PlanInv'  OBVIOUS
    <2>1. CASE PlanNext
      BY <2>1, BeginKeepsInv, BypassKeepsInv, DecisionKeepsInv, GuardKeepsInv, SizeKeepsInv,
         TradabilityKeepsInv, LiquidityKeepsInv, SpreadKeepsInv, VolatilityKeepsInv,
         LotKeepsInv, SaveKeepsInv DEF PlanNext, PlanStep
    <2>2. CASE UNCHANGED planVars
      BY <2>2 DEF planVars, PlanInv, PlanTypeOK, TraceOK, SizeOK, Within, AllowedQty, Slack,
         ReasonsOK, LargestLotAllowed, ReasonsAccountForSize, VerdictTellsHints, Placed
    <2> QED BY <2>1, <2>2
  <1> QED BY <1>1, <1>2, PTL DEF PlanSpec

(* A planned entry is the largest number of whole lots that the size ratio  *)
(* and the reductions of the adjusters together allow.                      *)
THEOREM PlanSpecLargestLot == PlanSpec => []LargestLotAllowed
  <1>1. PlanInv => LargestLotAllowed  BY DEF PlanInv
  <1> QED BY <1>1, PlanInvariant, PTL

(* The stored reasons lead step by step from the signal's quantity to the   *)
(* planned one.                                                             *)
THEOREM PlanSpecReasons == PlanSpec => []ReasonsAccountForSize
  <1>1. PlanInv => ReasonsAccountForSize  BY DEF PlanInv
  <1> QED BY <1>1, PlanInvariant, PTL

(* The stored review verdict says what the guard's hints said.              *)
THEOREM PlanSpecVerdict == PlanSpec => []VerdictTellsHints
  <1>1. PlanInv => VerdictTellsHints  BY DEF PlanInv
  <1> QED BY <1>1, PlanInvariant, PTL
=============================================================================
