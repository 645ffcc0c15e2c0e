---------------------------- MODULE StrategyGate ----------------------------
(***************************************************************************)
(* services/signal_strategy_gate.py: the gate judges one entry signal by    *)
(* the decisions of every strategy of its direction, of all tickers         *)
(* together and of the signal's ticker, which it reads in two statements    *)
(* while evaluations go on.  An exit signal passes without them.            *)
(***************************************************************************)
EXTENDS StrategyDecisions

CONSTANTS
    Signals,          \* kinds of signals: "exit", or the direction of an entry
    MaxDecisionAge    \* SIGNAL_MAX_DECISION_AGE_SEC

ASSUME GateAssumption ==
    /\ Signals \subseteq {"exit", "long", "short"}
    /\ MaxDecisionAge \in Nat

VARIABLE gate    \* the signal at the gate and what was decided

gateVars == <<time, snapshot, evaluation, decision, gate>>

NoSignal == [stage |-> "idle", signal |-> "exit", now |-> Never]

GateInit == DecisionInit /\ gate = NoSignal

(* check(): now is taken before the decisions are read.                     *)
GateBegins(signal) ==
    /\ gate = NoSignal
    /\ gate' = IF signal = "exit"
               THEN [stage |-> "done", signal |-> signal, now |-> time,
                     verdict |-> "bypass", ratio |-> 100]
               ELSE [stage |-> "global", signal |-> signal, now |-> time]
    /\ UNCHANGED decisionVars

(* Mutant: only the strategies of exactly the signal's direction.           *)
RelevantExact(target, direction) ==
    {decision[target][s] :
        s \in {k \in Strategies : Def[k].direction = direction
                                  /\ decision[target][k].at # Never}}

(* The rows of a direction: those of a strategy for both count as well.     *)
Relevant(target, direction) ==
    {decision[target][s] :
        s \in {k \in Strategies : Def[k].direction \in {direction, "both"}
                                  /\ decision[target][k].at # Never}}

ReadGlobal ==
    /\ gate.stage = "global"
    /\ gate' = [stage |-> "symbol", signal |-> gate.signal, now |-> gate.now,
                global |-> Relevant("global", gate.signal)]
    /\ UNCHANGED decisionVars

(* Mutant: the age is judged against the newest decision only.              *)
StaleNewest(rows, now) ==
    now - Max({row.at : row \in rows}) > MaxDecisionAge

Stale(rows, now) == \E row \in rows : now - row.at > MaxDecisionAge

Smallest(rows) == Min({row.ratio : row \in rows})

GateVerdict(global, symbol, now) ==
    LET rows == global \cup symbol
    IN  CASE global = {} \/ symbol = {}            -> "missing"
          [] global # {} /\ symbol # {} /\ Stale(rows, now) -> "stale"
          [] OTHER -> IF \E row \in rows : ~row.allowed THEN "blocked"
                      ELSE IF Smallest(rows) <= 0 THEN "size_zero" ELSE "pass"

(* The ticker's decisions are read, and the verdict is stored with the      *)
(* signal whatever it is.                                                   *)
ReadSymbol ==
    /\ gate.stage = "symbol"
    /\ LET symbol  == Relevant("symbol", gate.signal)
           verdict == GateVerdict(gate.global, symbol, gate.now)
       IN  gate' = [stage |-> "done", signal |-> gate.signal, now |-> gate.now,
                    verdict |-> verdict, global |-> gate.global, symbol |-> symbol,
                    ratio |-> IF verdict = "pass"
                              THEN Smallest(gate.global \cup symbol) ELSE 0]
    /\ UNCHANGED decisionVars

Gate == (\E signal \in Signals : GateBegins(signal)) \/ ReadGlobal \/ ReadSymbol

GateNext == Gate \/ (DecisionNext /\ UNCHANGED gate)

GateSpec == GateInit /\ [][GateNext]_gateVars

-----------------------------------------------------------------------------
(* Properties.                                                              *)

Used == gate.global \cup gate.symbol

(* An entry passed, on rows none of which mixes two evaluations (which only *)
(* overlapping evaluations can cause).                                      *)
Passed ==
    gate.stage = "done" /\ gate.verdict = "pass" /\ \A row \in Used : Faithful(row)

(* A passed entry rests on two chains of cached judgements, each of which   *)
(* may be as old as its own limit and no older: the snapshots behind every  *)
(* decision used are at most both limits old, counted from the moment the   *)
(* gate took the time (signal_strategy_gate.py _is_stale, and _check_layer  *)
(* of the engine).                                                          *)
PassRestsOnRecentStates ==
    Passed => \A row \in Used :
        /\ row.logged.seen # Never
        /\ gate.now - row.logged.seen <= MaxStateAge + MaxDecisionAge

(* An entry passes only if every strategy of its direction was judged, for  *)
(* the ticker and for all tickers together, and allowed it, and with no     *)
(* more than the size each of them gave, whatever is evaluated between the  *)
(* two reads (signal_strategy_gate.py:25-32).                               *)
PassIsUnanimous ==
    Passed =>
      LET concerned == {s \in Strategies : Def[s].direction \in {gate.signal, "both"}}
      IN  /\ \A s \in concerned, x \in Targets :
                decision[x][s].at # Never /\ gate.ratio <= Def[s].maxSize
          /\ \A row \in Used : row.logged.allowed /\ gate.ratio <= row.logged.ratio

(* services/strategy/seed.py:35: an entry is allowed when the morning trend *)
(* zone and the ticker's up trend coincide.  Whenever the ticker's decision *)
(* says so and none is missing or stale, the gate lets a buy pass.          *)
SeededEntryPasses ==
    /\ gate.stage = "done"
    /\ gate.signal = "long"
    /\ gate.verdict \notin {"missing", "stale"}
    /\ \E row \in gate.symbol : row.allowed
    => gate.verdict = "pass"
=============================================================================
