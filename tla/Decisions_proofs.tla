-------------------------- MODULE Decisions_proofs --------------------------
(***************************************************************************)
(* TLAPS proofs about what decides whether to trade: MarketStates, for     *)
(* every set of tickers, whatever data and failures the cycles meet and    *)
(* whatever the rules make of the data, and StrategyGate, for any number   *)
(* of strategies, of any definition, of evaluators, overlapping or not,    *)
(* and any age limits.                                                     *)
(***************************************************************************)
EXTENDS MarketStates, StrategyGate, FiniteSetTheorems, WellFoundedInduction, TLAPS

-----------------------------------------------------------------------------
(* The rules of a ticker.                                                  *)

LEMMA RulesAre ==
  /\ Len(Rules) = 14
  /\ Rules[1] = "gap_up_open" /\ Rules[2] = "gap_down_open" /\ Rules[3] = "high_relative_volume"
  /\ Rules[4] = "low_liquidity" /\ Rules[5] = "symbol_trend_up" /\ Rules[6] = "symbol_trend_down"
  /\ Rules[7] = "wide_spread" /\ Rules[8] = "price_stale" /\ Rules[9] = "overextended"
  /\ Rules[10] = "symbol_volatility_high" /\ Rules[11] = "symbol_range"
  /\ Rules[12] = "breakout_candidate" /\ Rules[13] = "quote_only" /\ Rules[14] = "stale_bid_ask"
  BY DEF Rules

(* The recursion of EvaluateSymbol, unrolled.                               *)
LEMMA RulesInOrder ==
  ASSUME NEW d
  PROVE  \E fired : /\ fired[0] = {}
                    /\ \A n \in 1..14 : fired[n] = AfterRule(d, fired[n - 1], Rules[n])
                    /\ EvaluateSymbol(d) = fired[14]
  <1> DEFINE
    Is(f) == f = [n \in 0..Len(Rules) |->
                    IF n = 0 THEN {} ELSE AfterRule(d, f[n - 1], Rules[n])]
    s0  == {}
    s1  == AfterRule(d, s0, Rules[1])
    s2  == AfterRule(d, s1, Rules[2])
    s3  == AfterRule(d, s2, Rules[3])
    s4  == AfterRule(d, s3, Rules[4])
    s5  == AfterRule(d, s4, Rules[5])
    s6  == AfterRule(d, s5, Rules[6])
    s7  == AfterRule(d, s6, Rules[7])
    s8  == AfterRule(d, s7, Rules[8])
    s9  == AfterRule(d, s8, Rules[9])
    s10 == AfterRule(d, s9, Rules[10])
    s11 == AfterRule(d, s10, Rules[11])
    s12 == AfterRule(d, s11, Rules[12])
    s13 == AfterRule(d, s12, Rules[13])
    s14 == AfterRule(d, s13, Rules[14])
    steps == <<s1, s2, s3, s4, s5, s6, s7, s8, s9, s10, s11, s12, s13, s14>>
    f == [n \in 0..14 |-> IF n = 0 THEN s0 ELSE steps[n]]
  <1>1. EvaluateSymbol(d) = (CHOOSE g : Is(g))[Len(Rules)]
    BY DEF EvaluateSymbol
  <1>2. Is(f)
    <2>1. /\ s1 = AfterRule(d, s0, Rules[1]) /\ s2 = AfterRule(d, s1, Rules[2])
          /\ s3 = AfterRule(d, s2, Rules[3]) /\ s4 = AfterRule(d, s3, Rules[4])
          /\ s5 = AfterRule(d, s4, Rules[5]) /\ s6 = AfterRule(d, s5, Rules[6])
          /\ s7 = AfterRule(d, s6, Rules[7]) /\ s8 = AfterRule(d, s7, Rules[8])
          /\ s9 = AfterRule(d, s8, Rules[9]) /\ s10 = AfterRule(d, s9, Rules[10])
          /\ s11 = AfterRule(d, s10, Rules[11]) /\ s12 = AfterRule(d, s11, Rules[12])
          /\ s13 = AfterRule(d, s12, Rules[13]) /\ s14 = AfterRule(d, s13, Rules[14])
      OBVIOUS
    <2> HIDE DEF s0, s1, s2, s3, s4, s5, s6, s7, s8, s9, s10, s11, s12, s13, s14
    <2>2. /\ f[0] = s0 /\ f[1] = s1 /\ f[2] = s2 /\ f[3] = s3 /\ f[4] = s4 /\ f[5] = s5
          /\ f[6] = s6 /\ f[7] = s7 /\ f[8] = s8 /\ f[9] = s9 /\ f[10] = s10
          /\ f[11] = s11 /\ f[12] = s12 /\ f[13] = s13 /\ f[14] = s14
      OBVIOUS
    <2>3. f = [n \in 0..14 |-> f[n]] OBVIOUS
    <2> HIDE DEF f
    <2>4. ASSUME NEW n \in 1..14 PROVE f[n] = AfterRule(d, f[n - 1], Rules[n])
      BY <2>1, <2>2
    <2>5. ASSUME NEW n \in 0..14
          PROVE  f[n] = IF n = 0 THEN {} ELSE AfterRule(d, f[n - 1], Rules[n])
      BY <2>2, <2>4 DEF s0
    <2> QED BY <2>3, <2>5, RulesAre
  <1> DEFINE g == CHOOSE x : Is(x)
  <1>3. Is(g)  BY <1>2
  <1> HIDE DEF f, g
  <1>4. g[0] = {}  BY <1>3, RulesAre
  <1>5. ASSUME NEW n \in 1..14 PROVE g[n] = AfterRule(d, g[n - 1], Rules[n])
    BY <1>3, RulesAre
  <1>6. EvaluateSymbol(d) = g[14]  BY <1>1, RulesAre DEF g
  <1> QED BY <1>4, <1>5, <1>6

(* Which codes fired, of those StatesConsistent is about.                   *)
LEMMA FiredCodes ==
  ASSUME NEW d
  PROVE  \E trends, earlier :
           LET fired == EvaluateSymbol(d)
           IN  /\ "gap_up_open" \in fired <=> GapUpOpen(d)
               /\ "gap_down_open" \in fired <=> GapDownOpen(d)
               /\ "high_relative_volume" \in fired <=> HighVolume(d)
               /\ "low_liquidity" \in fired <=> LowLiquidity(d)
               /\ "symbol_trend_up" \in fired <=> TrendUp(d)
               /\ "symbol_trend_down" \in fired <=> TrendDown(d)
               /\ "symbol_volatility_high" \in fired <=> HighVolatility(d)
               /\ "symbol_range" \in fired <=> SymbolRange(d, trends)
               /\ "breakout_candidate" \in fired <=> Breakout(d, earlier)
               /\ \A code \in {"symbol_trend_up", "symbol_trend_down"} :
                     code \in trends <=> code \in fired
               /\ \A code \in {"gap_up_open", "gap_down_open", "high_relative_volume"} :
                     code \in earlier <=> code \in fired
  <1>1. PICK f : /\ f[0] = {}
                 /\ \A n \in 1..14 : f[n] = AfterRule(d, f[n - 1], Rules[n])
                 /\ EvaluateSymbol(d) = f[14]
    BY RulesInOrder
  <1>2. /\ f[1] = AfterRule(d, f[0], "gap_up_open")
        /\ f[2] = AfterRule(d, f[1], "gap_down_open")
        /\ f[3] = AfterRule(d, f[2], "high_relative_volume")
        /\ f[4] = AfterRule(d, f[3], "low_liquidity")
        /\ f[5] = AfterRule(d, f[4], "symbol_trend_up")
        /\ f[6] = AfterRule(d, f[5], "symbol_trend_down")
        /\ f[7] = AfterRule(d, f[6], "wide_spread")
        /\ f[8] = AfterRule(d, f[7], "price_stale")
        /\ f[9] = AfterRule(d, f[8], "overextended")
        /\ f[10] = AfterRule(d, f[9], "symbol_volatility_high")
        /\ f[11] = AfterRule(d, f[10], "symbol_range")
        /\ f[12] = AfterRule(d, f[11], "breakout_candidate")
        /\ f[13] = AfterRule(d, f[12], "quote_only")
        /\ f[14] = AfterRule(d, f[13], "stale_bid_ask")
    BY <1>1, RulesAre
  <1>3. ASSUME NEW fired, NEW rule, NEW code
        PROVE  code \in AfterRule(d, fired, rule)
                 <=> (code \in fired \/ (code = rule /\ Fires(d, fired, rule)))
    BY DEF AfterRule
  <1>4. /\ Fires(d, f[0], "gap_up_open") <=> GapUpOpen(d)
        /\ Fires(d, f[1], "gap_down_open") <=> GapDownOpen(d)
        /\ Fires(d, f[2], "high_relative_volume") <=> HighVolume(d)
        /\ Fires(d, f[3], "low_liquidity") <=> LowLiquidity(d)
        /\ Fires(d, f[4], "symbol_trend_up") <=> TrendUp(d)
        /\ Fires(d, f[5], "symbol_trend_down") <=> TrendDown(d)
        /\ Fires(d, f[9], "symbol_volatility_high") <=> HighVolatility(d)
        /\ Fires(d, f[10], "symbol_range") <=> SymbolRange(d, f[10])
        /\ Fires(d, f[11], "breakout_candidate") <=> Breakout(d, f[11])
    BY DEF Fires
  <1>5. ("gap_up_open" \in f[14] <=> GapUpOpen(d))
        /\ ("gap_up_open" \in f[11] <=> "gap_up_open" \in f[14])
    BY <1>1, <1>2, <1>3, <1>4
  <1>6. ("gap_down_open" \in f[14] <=> GapDownOpen(d))
        /\ ("gap_down_open" \in f[11] <=> "gap_down_open" \in f[14])
    BY <1>1, <1>2, <1>3, <1>4
  <1>7. ("high_relative_volume" \in f[14] <=> HighVolume(d))
        /\ ("high_relative_volume" \in f[11] <=> "high_relative_volume" \in f[14])
    BY <1>1, <1>2, <1>3, <1>4
  <1>8. ("low_liquidity" \in f[14] <=> LowLiquidity(d))
    BY <1>1, <1>2, <1>3, <1>4
  <1>9. ("symbol_trend_up" \in f[14] <=> TrendUp(d))
        /\ ("symbol_trend_up" \in f[10] <=> "symbol_trend_up" \in f[14])
    BY <1>1, <1>2, <1>3, <1>4
  <1>10. ("symbol_trend_down" \in f[14] <=> TrendDown(d))
        /\ ("symbol_trend_down" \in f[10] <=> "symbol_trend_down" \in f[14])
    BY <1>1, <1>2, <1>3, <1>4
  <1>11. ("symbol_volatility_high" \in f[14] <=> HighVolatility(d))
    BY <1>1, <1>2, <1>3, <1>4
  <1>12. ("symbol_range" \in f[14] <=> SymbolRange(d, f[10]))
    BY <1>1, <1>2, <1>3, <1>4
  <1>13. ("breakout_candidate" \in f[14] <=> Breakout(d, f[11]))
    BY <1>1, <1>2, <1>3, <1>4
  <1> WITNESS f[10], f[11]
  <1> QED BY <1>1, <1>5, <1>6, <1>7, <1>8, <1>9, <1>10, <1>11, <1>12, <1>13

(* States of one ticker that make sense together.                           *)
Coherent(codes) ==
  /\ Cardinality(codes \cap {"symbol_trend_up", "symbol_trend_down", "symbol_range"}) <= 1
  /\ Cardinality(codes \cap {"symbol_range", "symbol_volatility_high"}) <= 1
  /\ Cardinality(codes \cap {"high_relative_volume", "low_liquidity"}) <= 1
  /\ Cardinality(codes \cap {"gap_up_open", "gap_down_open", "breakout_candidate"}) <= 1
  /\ Cardinality(codes \cap {"breakout_candidate"})
       <= Cardinality(codes \cap {"high_relative_volume"})

LEMMA AtMostOne ==
  ASSUME NEW S, \A a, b \in S : a = b
  PROVE  IsFiniteSet(S) /\ Cardinality(S) \in {0, 1} /\ (Cardinality(S) = 0 <=> S = {})
  <1>1. CASE S = {}  BY <1>1, FS_EmptySet
  <1>2. CASE S # {}
    <2>1. PICK a : a \in S  BY <1>2
    <2>2. S = {a}  BY <2>1
    <2>3. IsFiniteSet({a}) /\ Cardinality({a}) = 1  BY FS_Singleton
    <2> QED BY <2>2, <2>3
  <1> QED BY <1>1, <1>2

LEMMA NothingIsCoherent == Coherent({})
  <1>1. \A S : {} \cap S = {}  OBVIOUS
  <1>2. Cardinality({}) = 0  BY FS_EmptySet
  <1> QED BY <1>1, <1>2 DEF Coherent

LEMMA EvaluatedIsCoherent ==
  ASSUME NEW d \in SymbolData
  PROVE  Coherent(EvaluateSymbol(d))
  <1> DEFINE fired == EvaluateSymbol(d)
  <1>1. PICK trends, earlier :
               /\ "gap_up_open" \in fired <=> GapUpOpen(d)
               /\ "gap_down_open" \in fired <=> GapDownOpen(d)
               /\ "high_relative_volume" \in fired <=> HighVolume(d)
               /\ "low_liquidity" \in fired <=> LowLiquidity(d)
               /\ "symbol_trend_up" \in fired <=> TrendUp(d)
               /\ "symbol_trend_down" \in fired <=> TrendDown(d)
               /\ "symbol_volatility_high" \in fired <=> HighVolatility(d)
               /\ "symbol_range" \in fired <=> SymbolRange(d, trends)
               /\ "breakout_candidate" \in fired <=> Breakout(d, earlier)
               /\ \A code \in {"symbol_trend_up", "symbol_trend_down"} :
                     code \in trends <=> code \in fired
               /\ \A code \in {"gap_up_open", "gap_down_open", "high_relative_volume"} :
                     code \in earlier <=> code \in fired
    BY FiredCodes
  <1> HIDE DEF fired
  <1>2. d.gap \in Int /\ d.volume \in Int /\ d.atr \in Int  BY DEF SymbolData
  <1>3. ~("symbol_trend_up" \in fired /\ "symbol_trend_down" \in fired)
    BY <1>1 DEF TrendUp, TrendDown
  <1>4. "symbol_range" \in fired =>
          /\ "symbol_trend_up" \notin fired /\ "symbol_trend_down" \notin fired
          /\ "symbol_volatility_high" \notin fired
    BY <1>1, <1>2 DEF SymbolRange, HighVolatility
  <1>5. ~("high_relative_volume" \in fired /\ "low_liquidity" \in fired)
    BY <1>1, <1>2 DEF HighVolume, LowLiquidity
  <1>6. ~("gap_up_open" \in fired /\ "gap_down_open" \in fired)
    BY <1>1, <1>2 DEF GapUpOpen, GapDownOpen
  <1>7. "breakout_candidate" \in fired =>
          /\ "gap_up_open" \notin fired /\ "gap_down_open" \notin fired
          /\ "high_relative_volume" \in fired
    BY <1>1 DEF Breakout
  <1>8. Cardinality(fired \cap {"symbol_trend_up", "symbol_trend_down", "symbol_range"}) \in {0, 1}
    <2> DEFINE S == fired \cap {"symbol_trend_up", "symbol_trend_down", "symbol_range"}
    <2>1. \A a, b \in S : a = b  BY <1>3, <1>4
    <2> HIDE DEF S
    <2> QED BY <2>1, AtMostOne DEF S
  <1>9. Cardinality(fired \cap {"symbol_range", "symbol_volatility_high"}) \in {0, 1}
    <2> DEFINE S == fired \cap {"symbol_range", "symbol_volatility_high"}
    <2>1. \A a, b \in S : a = b  BY <1>4
    <2> HIDE DEF S
    <2> QED BY <2>1, AtMostOne DEF S
  <1>10. Cardinality(fired \cap {"high_relative_volume", "low_liquidity"}) \in {0, 1}
    <2> DEFINE S == fired \cap {"high_relative_volume", "low_liquidity"}
    <2>1. \A a, b \in S : a = b  BY <1>5
    <2> HIDE DEF S
    <2> QED BY <2>1, AtMostOne DEF S
  <1>11. Cardinality(fired \cap {"gap_up_open", "gap_down_open", "breakout_candidate"}) \in {0, 1}
    <2> DEFINE S == fired \cap {"gap_up_open", "gap_down_open", "breakout_candidate"}
    <2>1. \A a, b \in S : a = b  BY <1>6, <1>7
    <2> HIDE DEF S
    <2> QED BY <2>1, AtMostOne DEF S
  <1>12. Cardinality(fired \cap {"breakout_candidate"})
           <= Cardinality(fired \cap {"high_relative_volume"})
    <2> DEFINE S == fired \cap {"breakout_candidate"}
               V == fired \cap {"high_relative_volume"}
    <2>1. /\ \A a, b \in S : a = b
          /\ \A a, b \in V : a = b
          /\ S # {} => V # {}
      BY <1>7
    <2> HIDE DEF S, V
    <2>2. /\ Cardinality(S) \in {0, 1} /\ (Cardinality(S) = 0 <=> S = {})
          /\ Cardinality(V) \in {0, 1} /\ (Cardinality(V) = 0 <=> V = {})
      BY <2>1, AtMostOne
    <2>3. Cardinality(S) <= Cardinality(V)  BY <2>1, <2>2
    <2> QED BY <2>3 DEF S, V
  <1>13. \A x \in {0, 1} : x <= 1  OBVIOUS
  <1> QED BY <1>8, <1>9, <1>10, <1>11, <1>12, <1>13 DEF Coherent, fired

-----------------------------------------------------------------------------
(* The market state cycle.                                                 *)

(* Notices are counted.                                                     *)
CountsOK == told \in [Notices -> Nat] /\ missed \in [Notices -> Nat] /\ cyclesLost \in Nat

(* An alarm that is active, or about to be.                                 *)
Raised(n) == n[2] \in snap[n[1]].states \/ (marketStage = "save" /\ n \in Due)

(* What was evaluated makes sense together, and so does what was saved.     *)
StatesOK ==
    /\ DOMAIN gathered = Tickers
    /\ \A t \in Tickers : Coherent(gathered[t].codes) /\ Coherent(snap[t].states)

MarketInv ==
    /\ DOMAIN snap = SnapTargets
    /\ LogMatchesSnapshot
    /\ CountsOK
    /\ AlarmsAreTriedOnce
    /\ StatesOK

-----------------------------------------------------------------------------
LEMMA MarketInitOK == ASSUME MarketInit PROVE MarketInv
<1>1. \A n \in Notices : ~Raised(n) /\ told[n] = 0 /\ missed[n] = 0
  BY DEF MarketInit, Raised, Notices, NoSnap, SnapTargets
<1>2. CountsOK /\ cyclesLost = 0
  BY DEF MarketInit, CountsOK
<1>3. AlarmsAreTriedOnce
  BY <1>1, <1>2 DEF AlarmsAreTriedOnce, Raised
<1> QED
  BY <1>2, <1>3, NothingIsCoherent DEF MarketInit, MarketInv, LogMatchesSnapshot, StatesOK,
     NoSnap, SnapTargets, Pending, Finding

(* Between notices and commit nothing but a lost cycle ends the wait of an  *)
(* alarm that is about to be active.                                        *)
LEMMA TriesStay ==
  ASSUME MarketInv, UNCHANGED <<snap, told, missed>>, cyclesLost' \in Nat,
         cyclesLost <= cyclesLost', marketStage' # "save",
         marketStage = "save" => cyclesLost' = cyclesLost + 1
  PROVE  CountsOK' /\ AlarmsAreTriedOnce'
<1>1. CountsOK'
  BY DEF MarketInv, CountsOK
<1>2. ASSUME NEW n \in Notices
      PROVE  told'[n] + missed'[n] \in
               IF n[2] \in snap'[n[1]].states \/ (marketStage' = "save" /\ n \in Due')
               THEN 1..(1 + cyclesLost') ELSE 0..cyclesLost'
  <2>1. told[n] \in Nat /\ missed[n] \in Nat /\ cyclesLost \in Nat
    BY DEF MarketInv, CountsOK
  <2>2. told[n] + missed[n] \in IF Raised(n) THEN 1..(1 + cyclesLost) ELSE 0..cyclesLost
    BY DEF MarketInv, AlarmsAreTriedOnce, Raised
  <2>3. CASE n[2] \in snap[n[1]].states
    BY <2>1, <2>2, <2>3 DEF Raised
  <2>4. CASE n[2] \notin snap[n[1]].states /\ marketStage = "save"
    BY <2>1, <2>2, <2>4
  <2>5. CASE n[2] \notin snap[n[1]].states /\ marketStage # "save"
    BY <2>1, <2>2, <2>5 DEF Raised
  <2> QED
    BY <2>3, <2>4, <2>5
<1> QED
  BY <1>1, <1>2 DEF AlarmsAreTriedOnce

(* What a cycle gathers and how it ends early disturbs nothing.             *)
LEMMA GatherOK ==
  ASSUME MarketInv, marketStage' # "save", UNCHANGED <<snap, log, told, missed>>,
         cyclesLost' = cyclesLost + (IF marketStage = "save" THEN 1 ELSE 0),
         \/ gathered' = [t \in Tickers |-> Pending]
         \/ \E t \in Tickers : \E f : Coherent(f.codes) /\ gathered' = [gathered EXCEPT ![t] = f]
  PROVE  MarketInv'
<1>1. DOMAIN gathered = Tickers /\ \A t \in Tickers : Coherent(gathered[t].codes)
  BY DEF MarketInv, StatesOK
<1>2. CountsOK' /\ AlarmsAreTriedOnce'
  <2>1. cyclesLost \in Nat
    BY DEF MarketInv, CountsOK
  <2>2. cyclesLost' \in Nat /\ cyclesLost <= cyclesLost'
    BY <2>1
  <2> QED
    BY <2>2, TriesStay
<1>3. ASSUME gathered' = [t \in Tickers |-> Pending]
      PROVE  StatesOK'
  BY <1>3, NothingIsCoherent DEF MarketInv, StatesOK, Pending, Finding
<1>4. ASSUME NEW t \in Tickers, NEW f, Coherent(f.codes), gathered' = [gathered EXCEPT ![t] = f]
      PROVE  StatesOK'
  <2>1. DOMAIN gathered' = Tickers
    BY <1>1, <1>4
  <2>2. ASSUME NEW u \in Tickers PROVE Coherent(gathered'[u].codes)
    BY <1>1, <1>4
  <2> QED
    BY <2>1, <2>2 DEF MarketInv, StatesOK
<1>5. StatesOK'
  BY <1>3, <1>4
<1> QED
  BY <1>2, <1>5 DEF MarketInv, LogMatchesSnapshot

(* The notices of a cycle go out, or are missed, before its commit.         *)
LEMMA NotifyOK == ASSUME MarketInv, Notify PROVE MarketInv'
<1>1. /\ marketStage = "fetch" /\ marketStage' = "save"
      /\ UNCHANGED <<gathered, snap, log, cyclesLost>>
  BY DEF Notify
<1>2. PICK heard \in SUBSET Due :
        told' = Counted(told, heard) /\ missed' = Counted(missed, Due \ heard)
  BY DEF Notify
<1>3. CountsOK
  BY DEF MarketInv
<1>4. CountsOK'
  BY <1>1, <1>2, <1>3 DEF CountsOK, Counted
<1>5. Due' = Due
  BY <1>1 DEF Due, InData, Activated
<1>6. ASSUME NEW n \in Notices
      PROVE  told'[n] + missed'[n] \in
               IF n[2] \in snap[n[1]].states \/ n \in Due
               THEN 1..(1 + cyclesLost) ELSE 0..cyclesLost
  <2>1. told[n] \in Nat /\ missed[n] \in Nat /\ cyclesLost \in Nat
    BY <1>3 DEF CountsOK
  <2>2. told[n] + missed[n] \in
          IF n[2] \in snap[n[1]].states THEN 1..(1 + cyclesLost) ELSE 0..cyclesLost
    BY <1>1 DEF MarketInv, AlarmsAreTriedOnce
  <2>3. /\ told'[n] = told[n] + (IF n \in heard THEN 1 ELSE 0)
        /\ missed'[n] = missed[n] + (IF n \in Due \ heard THEN 1 ELSE 0)
    BY <1>2 DEF Counted
  <2>4. n \in Due => n[2] \notin snap[n[1]].states
    BY DEF Due, Activated
  <2>5. CASE n \in Due
    <3>1. told'[n] + missed'[n] = told[n] + missed[n] + 1
      BY <2>1, <2>3, <2>5
    <3> QED
      BY <2>1, <2>2, <2>4, <2>5, <3>1
  <2>6. CASE n \notin Due
    BY <2>1, <2>2, <2>3, <2>6
  <2> QED
    BY <2>5, <2>6
<1>7. AlarmsAreTriedOnce'
  BY <1>1, <1>5, <1>6 DEF AlarmsAreTriedOnce
<1> QED
  BY <1>1, <1>4, <1>7 DEF MarketInv, LogMatchesSnapshot, StatesOK

(* The commit: the rows of a layer are replaced, those of a ticker change   *)
(* by what differs from its snapshot, and both come to the same.            *)
LEMMA SaveKeepsLog == ASSUME MarketInv, NEW change, SaveCycle(change) PROVE LogMatchesSnapshot'
<1> DEFINE layer == [market |-> MarketTrend(change), time_window |-> TimeWindow(clock)]
<1> SUFFICES ASSUME NEW x \in SnapTargets, NEW c \in Codes
             PROVE  log'[x][c] = IF c \in snap'[x].states THEN 1 ELSE 0
  BY DEF LogMatchesSnapshot
<1>1. /\ log'[x] = IF x \in MarketLayers THEN ReplaceRows(layer[x])
                   ELSE IF x \in InData THEN TransitionRows(x) ELSE log[x]
      /\ snap'[x] = IF x \in MarketLayers THEN Snapshot({layer[x]})
                    ELSE IF x \in InData THEN Snapshot(gathered[x].codes) ELSE snap[x]
  BY DEF SaveCycle
<1>2. log[x][c] = IF c \in snap[x].states THEN 1 ELSE 0
  BY DEF MarketInv, LogMatchesSnapshot
<1>3. CASE x \in MarketLayers
  <2> HIDE DEF layer
  <2> QED
    BY <1>1, <1>3 DEF ReplaceRows, Snapshot
<1>4. CASE x \notin MarketLayers /\ x \in InData
  BY <1>1, <1>2, <1>4 DEF TransitionRows, Snapshot, Activated, Deactivated
<1>5. CASE x \notin MarketLayers /\ x \notin InData
  BY <1>1, <1>2, <1>5
<1> QED
  BY <1>3, <1>4, <1>5

LEMMA SaveKeepsTries ==
  ASSUME MarketInv, NEW change, SaveCycle(change)
  PROVE  CountsOK' /\ AlarmsAreTriedOnce'
<1>1. /\ told' = [n \in Notices |-> IF n[2] \in snap'[n[1]].states THEN told[n] ELSE 0]
      /\ missed' = [n \in Notices |-> IF n[2] \in snap'[n[1]].states THEN missed[n] ELSE 0]
      /\ marketStage = "save" /\ marketStage' = "idle" /\ cyclesLost' = cyclesLost
  BY DEF SaveCycle
<1>2. CountsOK
  BY DEF MarketInv
<1>3. CountsOK'
  BY <1>1, <1>2 DEF CountsOK
<1>4. ASSUME NEW n \in Notices
      PROVE  told'[n] + missed'[n] \in
               IF n[2] \in snap'[n[1]].states THEN 1..(1 + cyclesLost) ELSE 0..cyclesLost
  <2>1. told[n] \in Nat /\ missed[n] \in Nat /\ cyclesLost \in Nat
    BY <1>2 DEF CountsOK
  <2>2. CASE n[2] \notin snap'[n[1]].states
    BY <1>1, <2>1, <2>2
  <2>3. CASE n[2] \in snap'[n[1]].states
    <3>1. n[1] \in Tickers
      BY DEF Notices
    <3>2. snap'[n[1]] = IF n[1] \in InData THEN Snapshot(gathered[n[1]].codes) ELSE snap[n[1]]
      BY <3>1, MarketAssumption DEF SaveCycle, SnapTargets, MarketLayers
    <3>3. n[2] \in snap[n[1]].states \/ n \in Due
      BY <2>3, <3>2 DEF Snapshot, Due, Activated
    <3>4. told[n] + missed[n] \in 1..(1 + cyclesLost)
      BY <1>1, <3>3 DEF MarketInv, AlarmsAreTriedOnce
    <3> QED
      BY <1>1, <2>3, <3>4
  <2> QED
    BY <2>2, <2>3
<1>5. AlarmsAreTriedOnce'
  BY <1>1, <1>4 DEF AlarmsAreTriedOnce
<1> QED
  BY <1>3, <1>5

LEMMA SaveKeepsStates == ASSUME MarketInv, NEW change, SaveCycle(change) PROVE StatesOK'
<1>1. gathered' = [t \in Tickers |-> Pending]
  BY DEF SaveCycle
<1>2. ASSUME NEW t \in Tickers PROVE Coherent(snap'[t].states)
  <2>1. snap'[t] = IF t \in InData THEN Snapshot(gathered[t].codes) ELSE snap[t]
    BY MarketAssumption DEF SaveCycle, SnapTargets, MarketLayers
  <2>2. Coherent(gathered[t].codes) /\ Coherent(snap[t].states)
    BY DEF MarketInv, StatesOK
  <2> QED
    BY <2>1, <2>2 DEF Snapshot
<1> QED
  BY <1>1, <1>2, NothingIsCoherent DEF StatesOK, Pending, Finding

LEMMA SaveOK == ASSUME MarketInv, NEW change, SaveCycle(change) PROVE MarketInv'
<1>1. DOMAIN snap' = SnapTargets
  BY DEF SaveCycle
<1> QED
  BY <1>1, SaveKeepsLog, SaveKeepsTries, SaveKeepsStates DEF MarketInv

LEMMA MarketStepOK == MarketInv /\ [MarketNext]_marketVars => MarketInv'
<1> SUFFICES ASSUME MarketInv, [MarketNext]_marketVars PROVE MarketInv'
  OBVIOUS
<1>1. CASE UNCHANGED marketVars
  BY <1>1 DEF marketVars, MarketInv, LogMatchesSnapshot, CountsOK, AlarmsAreTriedOnce,
     StatesOK, Due, InData, Activated
<1>2. ASSUME NEW t \in Tickers, NEW f, Found(t, f), Coherent(f.codes) PROVE MarketInv'
  <2>1. cyclesLost' = cyclesLost + (IF marketStage = "save" THEN 1 ELSE 0)
    BY <1>2 DEF Found, MarketInv, CountsOK
  <2> QED
    BY <1>2, <2>1, GatherOK DEF Found
<1>3. ASSUME NEW now \in Times, StartCycle(now) PROVE MarketInv'
  <2>1. cyclesLost' = cyclesLost + (IF marketStage = "save" THEN 1 ELSE 0)
    BY <1>3 DEF StartCycle, MarketInv, CountsOK
  <2> QED
    BY <1>3, <2>1, GatherOK DEF StartCycle
<1>4. CASE AbandonCycle
  BY <1>4, GatherOK DEF AbandonCycle
<1>5. ASSUME NEW t \in Tickers, FetchTicker(t) PROVE MarketInv'
  <2>1. PICK d \in FeedsOf[t] : Found(t, Finding("evaluated", EvaluateSymbol(d)))
    BY <1>5 DEF FetchTicker
  <2>2. d \in SymbolData
    BY MarketAssumption
  <2>3. Coherent(Finding("evaluated", EvaluateSymbol(d)).codes)
    BY <2>2, EvaluatedIsCoherent DEF Finding
  <2> QED
    BY <1>2, <2>1, <2>3
<1>6. ASSUME NEW t \in Tickers, FetchFails(t) \/ RulesRaise(t) PROVE MarketInv'
  <2>1. \A what : Coherent(Finding(what, {}).codes)
    BY NothingIsCoherent DEF Finding
  <2> QED
    BY <1>2, <1>6, <2>1 DEF FetchFails, RulesRaise
<1> QED
  BY <1>1, <1>3, <1>4, <1>5, <1>6, NotifyOK, SaveOK DEF MarketNext

-----------------------------------------------------------------------------
(* The inductive invariant behind the two theorems below.                   *)
THEOREM MarketInvariance == MarketSpec => []MarketInv
BY MarketInitOK, MarketStepOK, PTL DEF MarketSpec

(* The log and the snapshots agree after every cycle, whole or broken off   *)
(* (save_evaluations, save_evaluations_transitioned, upsert_snapshot).      *)
THEOREM LogAgrees == MarketSpec => []LogMatchesSnapshot
<1>1. MarketInv => LogMatchesSnapshot
  BY DEF MarketInv
<1> QED
  BY <1>1, MarketInvariance, PTL

(* An alarm has its notice, heard or missed, once per activation, and once  *)
(* more at most for every cycle lost before its commit (run, which notifies *)
(* before it saves and swallows what fails of it).                          *)
THEOREM AlarmsTriedOnce == MarketSpec => []AlarmsAreTriedOnce
<1>1. MarketInv => AlarmsAreTriedOnce
  BY DEF MarketInv
<1> QED
  BY <1>1, MarketInvariance, PTL

(* The states a ticker has together never contradict each other, whatever   *)
(* the data (the dependency flags of _evaluate_symbol).                     *)
THEOREM StatesAgree == MarketSpec => []StatesConsistent
<1>1. MarketInv => StatesConsistent
  BY DEF MarketInv, StatesOK, Coherent, StatesConsistent
<1> QED
  BY <1>1, MarketInvariance, PTL

-----------------------------------------------------------------------------
(* The strategy gate.                                                      *)

(* A result allows an entry only on snapshots within their age limit, and   *)
(* never with more than the strategy's size.                                *)
ResultOK(result, at, s) ==
  /\ result.allowed \in BOOLEAN
  /\ result.ratio \in Nat /\ result.ratio <= Def[s].maxSize
  /\ result.allowed => /\ result.seen \in Int /\ result.seen # Never
                       /\ at - result.seen <= MaxStateAge

RowOK(row, s) ==
  /\ row.at \in Int
  /\ row.allowed \in BOOLEAN
  /\ row.ratio \in Nat /\ row.ratio <= Def[s].maxSize
  /\ ResultOK(row.logged, row.at, s)

EvaluationOK(e) ==
  \/ evaluation[e] = Idle
  \/ \E x \in Targets, at \in Nat : \E results, loaded :
       /\ evaluation[e] = [stage |-> "upsert", target |-> x, at |-> at,
                           results |-> results, loaded |-> loaded]
       /\ \A s \in Strategies : ResultOK(results[s], at, s)

(* The decisions of a target are written for every strategy or for none.    *)
AllOrNone(x) ==
  (\E s \in Strategies : decision[x][s].at # Never)
    => \A s \in Strategies : decision[x][s].at # Never

DecisionInv ==
  /\ time \in Nat
  /\ \A l \in Layers : snapshot[l].at \in Int
  /\ DOMAIN evaluation = Evaluators /\ \A e \in Evaluators : EvaluationOK(e)
  /\ decision = [x \in Targets |-> [s \in Strategies |-> decision[x][s]]]
  /\ \A x \in Targets : AllOrNone(x) /\ \A s \in Strategies : RowOK(decision[x][s], s)

Concerned(signal) == {s \in Strategies : Def[s].direction \in {signal, "both"}}

(* Rows the gate has read: sound ones, and if there are any one of every    *)
(* strategy concerned, which then has a decision for good.                  *)
RowsRead(x, rows) ==
  /\ \A row \in rows : \E s \in Strategies : RowOK(row, s)
  /\ rows # {} => \A s \in Concerned(gate.signal) :
                    decision[x][s].at # Never /\ \E row \in rows : RowOK(row, s)

GateOK ==
  /\ gate.stage \in {"global", "symbol"} => gate.now \in Nat
  /\ gate.stage = "symbol" => RowsRead("global", gate.global)
  /\ gate.stage = "done" /\ gate.verdict = "pass" =>
       /\ gate.now \in Nat /\ gate.ratio \in Nat
       /\ gate.global # {} /\ RowsRead("global", gate.global)
       /\ gate.symbol # {} /\ RowsRead("symbol", gate.symbol)
       /\ \A row \in Used : /\ row.allowed
                            /\ gate.now - row.at <= MaxDecisionAge
                            /\ gate.ratio <= row.ratio

GateInv == DecisionInv /\ GateOK

-----------------------------------------------------------------------------
(* Smallest elements.                                                       *)
LEMMA MinOfNat ==
  ASSUME NEW S \in SUBSET Nat, S # {}
  PROVE  Min(S) \in S /\ \A y \in S : Min(S) <= y
<1>1. \E x \in S : \A y \in S : ~(<<y, x>> \in OpToRel(<, Nat))
  BY NatLessThanWellFounded, WFMin
<1>2. \A x, y \in Nat : <<y, x>> \in OpToRel(<, Nat) <=> y < x
  BY DEF OpToRel
<1>3. \E x \in S : \A y \in S : x <= y
  <2>1. PICK x \in S : \A y \in S : ~(<<y, x>> \in OpToRel(<, Nat))
    BY <1>1
  <2>2. \A y \in S : x <= y
    <3> SUFFICES ASSUME NEW y \in S PROVE x <= y
      OBVIOUS
    <3>1. x \in Nat /\ y \in Nat /\ ~(y < x)
      BY <1>2, <2>1
    <3> QED
      BY <3>1
  <2> QED
    BY <2>2
<1> QED
  BY <1>3 DEF Min

LEMMA MinOfThree ==
  ASSUME NEW a \in Int, NEW b \in Int, NEW c \in Int
  PROVE  Min({a, b, c}) \in {a, b, c}
<1>1. \E x \in {a, b, c} : \A y \in {a, b, c} : x <= y
  <2>1. CASE a <= b /\ a <= c
    BY <2>1
  <2>2. CASE b <= a /\ b <= c
    BY <2>2
  <2>3. CASE c <= a /\ c <= b
    BY <2>3
  <2> QED
    BY <2>1, <2>2, <2>3
<1> QED
  BY <1>1 DEF Min

(* A modifier scales a size down and never below nothing.                   *)
LEMMA RatioOK ==
  ASSUME NEW s \in Strategies, NEW active
  PROVE  Ratio(s, active) \in Nat /\ Ratio(s, active) <= Def[s].maxSize
<1> DEFINE sizes == {100} \cup {m.size : m \in {n \in Def[s].modifiers : n.state \in active}}
<1>1. sizes \in SUBSET Nat /\ sizes # {} /\ 100 \in sizes
  BY DecisionAssumption
<1>2. Modifier(s, active) \in Nat /\ Modifier(s, active) <= 100
  BY <1>1, MinOfNat DEF Modifier
<1>3. Def[s].maxSize \in Nat
  BY DecisionAssumption
<1>4. \A a, b \in Nat : b <= 100 => (a * b) \div 100 \in Nat /\ (a * b) \div 100 <= a
  <2> SUFFICES ASSUME NEW a \in Nat, NEW b \in Nat, b <= 100
               PROVE  (a * b) \div 100 \in Nat /\ (a * b) \div 100 <= a
    OBVIOUS
  <2>1. a * b \in Nat /\ a * b <= a * 100
    OBVIOUS
  <2> QED
    BY <2>1
<1> HIDE DEF sizes
<1> QED
  BY <1>2, <1>3, <1>4 DEF Ratio

(* An evaluation allows an entry only on snapshots recent enough.           *)
LEMMA JudgeOK ==
  ASSUME DecisionInv, NEW s \in Strategies, NEW x \in Targets
  PROVE  ResultOK(Judge(s, x), time, s)
<1> DEFINE active == ActiveStates(x)
           allow  == Allowed(s, active, Safe(x)) /\ Ratio(s, active) > 0
<1>1. Ratio(s, active) \in Nat /\ Ratio(s, active) <= Def[s].maxSize
  BY RatioOK
<1>2. Safe(x) => Seen(x) \in Int /\ Seen(x) # Never /\ time - Seen(x) <= MaxStateAge
  <2> SUFFICES ASSUME Safe(x)
               PROVE  Seen(x) \in Int /\ Seen(x) # Never /\ time - Seen(x) <= MaxStateAge
    OBVIOUS
  <2>1. PICK l \in LayersOf(x) : Seen(x) = snapshot[l].at
    <3>1. CASE x = "global"
      <4>1. {snapshot[l].at : l \in LayersOf(x)}
              = {snapshot["market"].at, snapshot["time_window"].at, snapshot["time_window"].at}
        BY <3>1 DEF LayersOf, Layers
      <4>2. Seen(x) \in {snapshot["market"].at, snapshot["time_window"].at}
        BY <4>1, MinOfThree DEF Seen, DecisionInv, Layers
      <4> QED
        BY <3>1, <4>2 DEF LayersOf, Layers
    <3>2. CASE x # "global"
      <4>1. {snapshot[l].at : l \in LayersOf(x)}
              = {snapshot["market"].at, snapshot["time_window"].at, snapshot["symbol"].at}
        BY <3>2 DEF LayersOf, Layers
      <4>2. Seen(x) \in {snapshot["market"].at, snapshot["time_window"].at, snapshot["symbol"].at}
        BY <4>1, MinOfThree DEF Seen, DecisionInv, Layers
      <4> QED
        BY <3>2, <4>2 DEF LayersOf, Layers
    <3> QED
      BY <3>1, <3>2
  <2>2. Usable(l) /\ l \in Layers
    BY DEF Safe, LayersOf
  <2> QED
    BY <2>1, <2>2 DEF Usable, DecisionInv
<1>3. Judge(s, x) = [allowed |-> allow, ratio |-> IF allow THEN Ratio(s, active) ELSE 0,
                     seen |-> Seen(x)]
  BY DEF Judge
<1>4. allow \in BOOLEAN /\ (allow => Safe(x))
  BY DEF Allowed
<1>5. Def[s].maxSize \in Nat
  BY DecisionAssumption
<1> HIDE DEF allow, active
<1> QED
  BY <1>1, <1>2, <1>3, <1>4, <1>5 DEF ResultOK

-----------------------------------------------------------------------------
LEMMA DecisionInitOK == ASSUME GateInit PROVE GateInv
<1>1. Never \in Int /\ \A s \in Strategies : RowOK(Absent, s)
  <2>1. \A s \in Strategies : Def[s].maxSize \in Nat
    BY DecisionAssumption
  <2>2. /\ Absent.at \in Int /\ Absent.ratio = 0 /\ Absent.logged.ratio = 0
        /\ Absent.allowed \in BOOLEAN /\ Absent.logged.allowed \in BOOLEAN
        /\ ~Absent.logged.allowed
    <3>1. Absent.at \in Int /\ Absent.ratio = 0 /\ Absent.logged.ratio = 0
      BY DEF Absent, Never
    <3>2. Absent.allowed = FALSE /\ Absent.logged.allowed = FALSE
      BY DEF Absent
    <3> QED
      BY <3>1, <3>2
  <2>3. \A s \in Strategies : ResultOK(Absent.logged, Absent.at, s)
    BY <2>1, <2>2 DEF ResultOK
  <2> QED
    BY <2>1, <2>2, <2>3 DEF RowOK, Never
<1>2. DecisionInv
  BY <1>1 DEF GateInit, DecisionInit, DecisionInv, EvaluationOK, AllOrNone, Absent
<1>3. GateOK
  BY DEF GateInit, GateOK, NoSignal
<1> QED
  BY <1>2, <1>3 DEF GateInv

(* A step of the strategies that keeps DecisionInv and takes no decision    *)
(* away leaves the gate's rows sound.                                       *)
LEMMA GateKept ==
  ASSUME GateInv, DecisionInv', UNCHANGED gate,
         \A x \in Targets, s \in Strategies :
            decision[x][s].at # Never => decision'[x][s].at # Never
  PROVE  GateInv'
<1>1. ASSUME NEW x \in Targets, NEW rows, RowsRead(x, rows) PROVE RowsRead(x, rows)'
  BY <1>1 DEF RowsRead, Concerned
<1>2. "global" \in Targets /\ "symbol" \in Targets /\ gate' = gate
  BY DEF Targets
<1>3. RowsRead("global", gate.global) => RowsRead("global", gate.global)'
  BY <1>1, <1>2
<1>4. RowsRead("symbol", gate.symbol) => RowsRead("symbol", gate.symbol)'
  BY <1>1, <1>2
<1> QED
  BY <1>2, <1>3, <1>4 DEF GateInv, GateOK, Used

LEMMA TickOK == ASSUME GateInv, Tick, UNCHANGED gate PROVE GateInv'
<1>1. DecisionInv'
  BY DEF GateInv, DecisionInv, EvaluationOK, AllOrNone, Tick
<1> QED
  BY <1>1, GateKept DEF Tick

LEMMA RefreshOK == ASSUME GateInv, RefreshSnapshots, UNCHANGED gate PROVE GateInv'
<1>1. \A l \in Layers : snapshot'[l].at \in Int
  BY DEF GateInv, DecisionInv, RefreshSnapshots
<1>2. DecisionInv'
  BY <1>1 DEF GateInv, DecisionInv, EvaluationOK, AllOrNone, RefreshSnapshots
<1> QED
  BY <1>2, GateKept DEF RefreshSnapshots

LEMMA BeginsOK ==
  ASSUME GateInv, NEW e \in Evaluators, NEW x \in Targets, EvaluationBegins(e, x),
         UNCHANGED gate
  PROVE  GateInv'
<1> DEFINE results == [s \in Strategies |-> Judge(s, x)]
<1>1. \A s \in Strategies : ResultOK(results[s], time, s)
  BY JudgeOK DEF GateInv
<1>2. /\ DOMAIN evaluation' = Evaluators
      /\ evaluation'[e] = [stage |-> "upsert", target |-> x, at |-> time,
                           results |-> results, loaded |-> <<>>]
      /\ \A f \in Evaluators : f # e => evaluation'[f] = evaluation[f]
  BY DEF GateInv, DecisionInv, EvaluationBegins
<1>3. time \in Nat
  BY DEF GateInv, DecisionInv
<1> HIDE DEF results
<1>4. EvaluationOK(e)'
  BY <1>1, <1>2, <1>3 DEF EvaluationOK
<1>5. \A f \in Evaluators : EvaluationOK(f)'
  <2>1. ASSUME NEW f \in Evaluators, f # e PROVE EvaluationOK(f)'
    <3>1. EvaluationOK(f) /\ evaluation'[f] = evaluation[f]
      BY <1>2, <2>1 DEF GateInv, DecisionInv
    <3> QED
      BY <3>1 DEF EvaluationOK
  <2> QED
    BY <1>4, <2>1
<1>6. DecisionInv'
  <2>1. time' \in Nat /\ snapshot' = snapshot /\ decision' = decision
    BY <1>3 DEF EvaluationBegins
  <2>2. \A y \in Targets : AllOrNone(y)' /\ \A s \in Strategies : RowOK(decision'[y][s], s)
    BY <2>1 DEF GateInv, DecisionInv, AllOrNone
  <2> QED
    BY <1>2, <1>5, <2>1, <2>2 DEF GateInv, DecisionInv
<1> QED
  BY <1>6, GateKept DEF EvaluationBegins

LEMMA FindExistingOK ==
  ASSUME GateInv, NEW e \in Evaluators, NEW s \in Strategies, FindExisting(e, s),
         UNCHANGED gate
  PROVE  GateInv'
<1>1. evaluation[e] # Idle
  BY DEF FindExisting, Idle
<1>1a. PICK x \in Targets, at \in Nat : \E results, loaded :
        /\ evaluation[e] = [stage |-> "upsert", target |-> x, at |-> at,
                            results |-> results, loaded |-> loaded]
        /\ \A k \in Strategies : ResultOK(results[k], at, k)
  BY <1>1 DEF GateInv, DecisionInv, EvaluationOK
<1>2. PICK results, loaded :
        /\ evaluation[e] = [stage |-> "upsert", target |-> x, at |-> at,
                            results |-> results, loaded |-> loaded]
        /\ \A k \in Strategies : ResultOK(results[k], at, k)
  BY <1>1a
<1>3. PICK more : evaluation' = [evaluation EXCEPT ![e].loaded = more]
  BY DEF FindExisting
<1>4. /\ DOMAIN evaluation' = Evaluators
      /\ evaluation'[e] = [stage |-> "upsert", target |-> x, at |-> at,
                           results |-> results, loaded |-> more]
      /\ \A f \in Evaluators : f # e => evaluation'[f] = evaluation[f]
  BY <1>2, <1>3 DEF GateInv, DecisionInv
<1>5. \A f \in Evaluators : EvaluationOK(f)'
  BY <1>2, <1>4 DEF GateInv, DecisionInv, EvaluationOK
<1>6. DecisionInv'
  BY <1>4, <1>5 DEF GateInv, DecisionInv, AllOrNone, FindExisting
<1> QED
  BY <1>6, GateKept DEF FindExisting

(* The row an UPDATE leaves is sound whatever another session wrote to it.  *)
LEMMA UpdatedRowOK ==
  ASSUME NEW s \in Strategies, NEW current, RowOK(current, s), NEW loaded,
         NEW at \in Nat, NEW result, ResultOK(result, at, s)
  PROVE  RowOK(UpdatedRow(current, loaded, at, result), s)
         /\ UpdatedRow(current, loaded, at, result).at # Never
BY DEF UpdatedRow, RowOK, ResultOK, Written, Never

LEMMA EvaluationEnds ==
  ASSUME GateInv, NEW e \in Evaluators, evaluation' = [evaluation EXCEPT ![e] = Idle]
  PROVE  DOMAIN evaluation' = Evaluators /\ \A f \in Evaluators : EvaluationOK(f)'
<1>1. /\ DOMAIN evaluation' = Evaluators /\ evaluation'[e] = Idle
      /\ \A f \in Evaluators : f # e => evaluation'[f] = evaluation[f]
  BY DEF GateInv, DecisionInv
<1>2. EvaluationOK(e)'
  BY <1>1 DEF EvaluationOK
<1>3. ASSUME NEW f \in Evaluators, f # e PROVE EvaluationOK(f)'
  <2>1. EvaluationOK(f) /\ evaluation'[f] = evaluation[f]
    BY <1>1, <1>3 DEF GateInv, DecisionInv
  <2> QED
    BY <2>1 DEF EvaluationOK
<1> QED
  BY <1>1, <1>2, <1>3

LEMMA CommitsOK ==
  ASSUME GateInv, NEW e \in Evaluators, EvaluationCommits(e), UNCHANGED gate
  PROVE  GateInv'
<1>1. DOMAIN evaluation' = Evaluators /\ \A f \in Evaluators : EvaluationOK(f)'
  BY EvaluationEnds DEF EvaluationCommits
<1>2. CASE UNCHANGED decision
  <2>1. DecisionInv'
    BY <1>1, <1>2 DEF GateInv, DecisionInv, AllOrNone, EvaluationCommits
  <2> QED
    BY <1>2, <2>1, GateKept
<1>3. CASE ~InsertClashes(e)
  <2>1. evaluation[e] # Idle
    BY DEF EvaluationCommits, Idle
  <2>1a. PICK y \in Targets, at \in Nat : \E results, loaded :
          /\ evaluation[e] = [stage |-> "upsert", target |-> y, at |-> at,
                              results |-> results, loaded |-> loaded]
          /\ \A k \in Strategies : ResultOK(results[k], at, k)
    BY <2>1 DEF GateInv, DecisionInv, EvaluationOK
  <2>2. PICK results, loaded :
          /\ evaluation[e] = [stage |-> "upsert", target |-> y, at |-> at,
                              results |-> results, loaded |-> loaded]
          /\ \A k \in Strategies : ResultOK(results[k], at, k)
    BY <2>1a
  <2>3. decision' = [decision EXCEPT ![y] =
            [s \in Strategies |-> UpdatedRow(@[s], loaded[s], at, results[s])]]
    BY <1>3, <2>2 DEF EvaluationCommits
  <2>4. /\ decision' = [x \in Targets |-> [s \in Strategies |-> decision'[x][s]]]
        /\ \A s \in Strategies :
             decision'[y][s] = UpdatedRow(decision[y][s], loaded[s], at, results[s])
        /\ \A x \in Targets : x # y => decision'[x] = decision[x]
    BY <2>3 DEF GateInv, DecisionInv
  <2>5. \A s \in Strategies : RowOK(decision'[y][s], s) /\ decision'[y][s].at # Never
    BY <2>2, <2>4, UpdatedRowOK DEF GateInv, DecisionInv
  <2>6. \A x \in Targets : AllOrNone(x)' /\ \A s \in Strategies : RowOK(decision'[x][s], s)
    BY <2>4, <2>5 DEF GateInv, DecisionInv, AllOrNone
  <2>7. DecisionInv'
    BY <1>1, <2>4, <2>6 DEF GateInv, DecisionInv, EvaluationCommits, RowOK, ResultOK
  <2> QED
    BY <2>4, <2>5, <2>7, GateKept
<1> QED
  BY <1>2, <1>3 DEF EvaluationCommits

LEMMA FailsOK ==
  ASSUME GateInv, NEW e \in Evaluators, EvaluationFails(e), UNCHANGED gate
  PROVE  GateInv'
<1>1. DOMAIN evaluation' = Evaluators /\ \A f \in Evaluators : EvaluationOK(f)'
  BY EvaluationEnds DEF EvaluationFails
<1>2. DecisionInv'
  BY <1>1 DEF GateInv, DecisionInv, AllOrNone, EvaluationFails
<1> QED
  BY <1>2, GateKept DEF EvaluationFails

-----------------------------------------------------------------------------
(* The gate.                                                                *)
LEMMA RelevantOK ==
  ASSUME DecisionInv, NEW x \in Targets
  PROVE  RowsRead(x, Relevant(x, gate.signal))
<1>1. \A row \in Relevant(x, gate.signal) : \E s \in Strategies :
         row = decision[x][s] /\ decision[x][s].at # Never
  BY DEF Relevant
<1>2. ASSUME Relevant(x, gate.signal) # {}, NEW s \in Concerned(gate.signal)
      PROVE  decision[x][s].at # Never /\ decision[x][s] \in Relevant(x, gate.signal)
  <2>1. decision[x][s].at # Never
    BY <1>1, <1>2 DEF DecisionInv, AllOrNone, Concerned
  <2> QED
    BY <2>1 DEF Relevant, Concerned
<1> QED
  BY <1>1, <1>2 DEF RowsRead, DecisionInv, Concerned

LEMMA DecisionsStay == ASSUME DecisionInv, UNCHANGED decisionVars PROVE DecisionInv'
BY DEF DecisionInv, EvaluationOK, AllOrNone, decisionVars

LEMMA GateBeginsOK == ASSUME GateInv, NEW signal, GateBegins(signal) PROVE GateInv'
<1>1. DecisionInv' /\ time \in Nat
  BY DecisionsStay DEF GateInv, DecisionInv, GateBegins
<1>2. GateOK'
  BY <1>1 DEF GateOK, GateBegins
<1> QED
  BY <1>1, <1>2 DEF GateInv

LEMMA ReadGlobalOK == ASSUME GateInv, ReadGlobal PROVE GateInv'
<1>1. DecisionInv' /\ UNCHANGED decision
  BY DecisionsStay DEF GateInv, ReadGlobal, decisionVars
<1>2. /\ gate'.stage = "symbol" /\ gate'.signal = gate.signal /\ gate'.now = gate.now
      /\ gate'.global = Relevant("global", gate.signal) /\ gate.now \in Nat
  BY DEF ReadGlobal, GateInv, GateOK
<1>3. RowsRead("global", gate'.global)
  BY <1>2, RelevantOK DEF GateInv, Targets
<1>4. RowsRead("global", gate.global)'
  BY <1>1, <1>2, <1>3 DEF RowsRead
<1>5. GateOK'
  BY <1>2, <1>4 DEF GateOK
<1> QED
  BY <1>1, <1>5 DEF GateInv

LEMMA PassVerdict ==
  ASSUME NEW global, NEW symbol, NEW now, GateVerdict(global, symbol, now) = "pass"
  PROVE  /\ global # {} /\ symbol # {}
         /\ ~Stale(global \cup symbol, now)
         /\ \A row \in global \cup symbol : row.allowed
BY DEF GateVerdict

LEMMA ReadSymbolOK == ASSUME GateInv, ReadSymbol PROVE GateInv'
<1> DEFINE symbol  == Relevant("symbol", gate.signal)
           verdict == GateVerdict(gate.global, symbol, gate.now)
<1>1. DecisionInv' /\ UNCHANGED decision /\ gate.now \in Nat
  BY DecisionsStay DEF GateInv, GateOK, ReadSymbol, decisionVars
<1>2. /\ gate'.stage = "done" /\ gate'.verdict = verdict /\ gate'.now = gate.now
      /\ gate'.signal = gate.signal /\ gate'.global = gate.global /\ gate'.symbol = symbol
      /\ verdict = "pass" => gate'.ratio = Smallest(gate.global \cup symbol)
  BY DEF ReadSymbol
<1>3. RowsRead("global", gate.global) /\ RowsRead("symbol", symbol)
  BY RelevantOK DEF GateInv, GateOK, ReadSymbol, Targets
<1> HIDE DEF symbol, verdict
<1>4. RowsRead("global", gate.global)' /\ RowsRead("symbol", gate.symbol)'
  BY <1>1, <1>2, <1>3 DEF RowsRead
<1>5. ASSUME verdict = "pass"
      PROVE  /\ gate.global # {} /\ symbol # {}
             /\ \A row \in gate.global \cup symbol :
                  row.allowed /\ gate.now - row.at <= MaxDecisionAge
  <2>1. /\ gate.global # {} /\ symbol # {} /\ ~Stale(gate.global \cup symbol, gate.now)
        /\ \A row \in gate.global \cup symbol : row.allowed
    BY <1>5, PassVerdict DEF verdict
  <2>2. \A row \in gate.global \cup symbol : row.at \in Int
    BY <1>3 DEF RowsRead, RowOK
  <2> QED
    BY <1>1, <2>1, <2>2, GateAssumption DEF Stale
<1>6. ASSUME verdict = "pass"
      PROVE  /\ gate'.ratio \in Nat
             /\ \A row \in gate.global \cup symbol : gate'.ratio <= row.ratio
  <2> DEFINE ratios == {row.ratio : row \in gate.global \cup symbol}
  <2>1. ratios \in SUBSET Nat
    BY <1>3 DEF RowsRead, RowOK
  <2>2. ratios # {}
    BY <1>5, <1>6
  <2>3. gate'.ratio = Min(ratios)
    BY <1>2, <1>6 DEF Smallest
  <2>4. Min(ratios) \in ratios /\ \A y \in ratios : Min(ratios) <= y
    BY <2>1, <2>2, MinOfNat
  <2> QED
    BY <2>1, <2>3, <2>4
<1>7. GateOK'
  BY <1>1, <1>2, <1>4, <1>5, <1>6 DEF GateOK, Used
<1> QED
  BY <1>1, <1>7 DEF GateInv

LEMMA GateStepOK == GateInv /\ [GateNext]_gateVars => GateInv'
<1> SUFFICES ASSUME GateInv, [GateNext]_gateVars PROVE GateInv'
  OBVIOUS
<1>1. CASE UNCHANGED gateVars
  <2>1. DecisionInv' /\ UNCHANGED <<decision, gate>>
    BY <1>1, DecisionsStay DEF gateVars, decisionVars, GateInv
  <2> QED
    BY <2>1, GateKept
<1>2. CASE Gate
  BY <1>2, GateBeginsOK, ReadGlobalOK, ReadSymbolOK DEF Gate
<1>3. CASE DecisionNext /\ UNCHANGED gate
  BY <1>3, TickOK, RefreshOK, BeginsOK, FindExistingOK, CommitsOK, FailsOK
  DEF DecisionNext, Evaluate
<1> QED
  BY <1>1, <1>2, <1>3 DEF GateNext

-----------------------------------------------------------------------------
(* The inductive invariant behind the two theorems below.                   *)
THEOREM GateInvariance == GateSpec => []GateInv
BY DecisionInitOK, GateStepOK, PTL DEF GateSpec

(* A passed entry rests on snapshots no older than both age limits together *)
(* (_check_layer, _is_stale).                                               *)
THEOREM PassIsRecent == GateSpec => []PassRestsOnRecentStates
<1>1. GateInv => PassRestsOnRecentStates
  <2> SUFFICES ASSUME GateInv, Passed, NEW row \in Used
               PROVE  /\ row.logged.seen # Never
                      /\ gate.now - row.logged.seen <= MaxStateAge + MaxDecisionAge
    BY DEF PassRestsOnRecentStates
  <2>1. PICK s \in Strategies : RowOK(row, s)
    BY DEF Passed, Used, GateInv, GateOK, RowsRead
  <2>2. row.logged.allowed /\ gate.now \in Nat /\ gate.now - row.at <= MaxDecisionAge
    BY DEF Passed, Faithful, GateInv, GateOK
  <2> QED
    BY <2>1, <2>2, DecisionAssumption, GateAssumption DEF RowOK, ResultOK
<1> QED
  BY <1>1, GateInvariance, PTL

(* An entry passes only if every strategy concerned was judged, allowed it  *)
(* and gave at least the size it passes with (check, _load_decisions).      *)
THEOREM PassNeedsAll == GateSpec => []PassIsUnanimous
<1>1. GateInv => PassIsUnanimous
  <2> SUFFICES ASSUME GateInv, Passed PROVE PassIsUnanimous
    BY DEF PassIsUnanimous
  <2>1. /\ gate.global # {} /\ RowsRead("global", gate.global)
        /\ gate.symbol # {} /\ RowsRead("symbol", gate.symbol)
        /\ \A row \in Used : row.allowed /\ gate.ratio <= row.ratio
    BY DEF Passed, GateInv, GateOK
  <2>2. \A row \in Used : row.logged.allowed /\ gate.ratio <= row.logged.ratio
    BY <2>1 DEF Passed, Faithful
  <2>3. ASSUME NEW s \in Concerned(gate.signal), NEW x \in Targets
        PROVE  decision[x][s].at # Never /\ gate.ratio <= Def[s].maxSize
    <3>1. PICK row \in Used : RowOK(row, s) /\ decision["global"][s].at # Never
      BY <2>1, <2>3 DEF RowsRead, Used
    <3>2. decision["symbol"][s].at # Never
      BY <2>1, <2>3 DEF RowsRead
    <3>3. gate.ratio <= row.ratio /\ row.ratio <= Def[s].maxSize
      BY <2>1, <3>1 DEF RowOK
    <3>4. gate.ratio \in Nat /\ Def[s].maxSize \in Nat
      BY <2>3, DecisionAssumption DEF Passed, GateInv, GateOK, Concerned
    <3> QED
      BY <3>1, <3>2, <3>3, <3>4 DEF Targets, RowOK
  <2> QED
    BY <2>2, <2>3 DEF PassIsUnanimous, Concerned
<1> QED
  BY <1>1, GateInvariance, PTL
=============================================================================
