------------------------- MODULE StrategyDecisions -------------------------
(***************************************************************************)
(* services/strategy: StrategyEngine.run reads the state snapshots, judges  *)
(* every strategy and stores one current_strategy_decisions row for each,   *)
(* for all tickers together ("global") or for one ticker ("symbol").  The   *)
(* runner does so in a loop and POST /strategies/recalculate on demand,     *)
(* each in a session of its own.                                            *)
(*                                                                          *)
(* The ORM writes only the columns whose value differs from what was        *)
(* loaded; a column another session changed since is then left as it is.    *)
(***************************************************************************)
EXTENDS Integers, FiniteSets, FiniteSetsExt

CONSTANTS
    Strategies,    \* codes of strategy_definitions
    Def,           \* each strategy's definition and conditions
    Snapshots,     \* for each layer, the sets of states it may show
    Evaluators,    \* sessions that may evaluate, the runner's and the API's
    Overlap,       \* may two evaluations overlap in time?
    MaxStateAge,   \* STRATEGY_MAX_STATE_AGE_SEC
    EndTime        \* bound: the clock stops here

Layers  == {"market", "time_window", "symbol"}
Targets == {"global", "symbol"}
States  == UNION {{l} \X UNION Snapshots[l] : l \in Layers}

(* Sizes are in hundredths.                                                 *)
ASSUME DecisionAssumption ==
    /\ \A s \in Strategies :
          /\ Def[s].direction \in {"long", "short", "both"}
          /\ Def[s].enabled \in BOOLEAN
          /\ Def[s].maxSize \in 0..100
          /\ \A m \in Def[s].modifiers : m.size \in 0..100
    /\ DOMAIN Snapshots = Layers
    /\ Overlap \in BOOLEAN
    /\ MaxStateAge \in Nat /\ EndTime \in Nat

VARIABLES
    time,
    snapshot,    \* current_state_snapshots of each layer
    evaluation,  \* what each evaluator's session holds
    decision     \* current_strategy_decisions, by target and strategy

decisionVars == <<time, snapshot, evaluation, decision>>

Never == -1
Absent == [at |-> Never, allowed |-> FALSE, ratio |-> 0,
           logged |-> [allowed |-> FALSE, ratio |-> 0, seen |-> Never]]
Idle == [stage |-> "idle"]

DecisionInit ==
    /\ time = 0
    /\ snapshot = [l \in Layers |-> [at |-> Never, states |-> {}]]
    /\ evaluation = [e \in Evaluators |-> Idle]
    /\ decision = [x \in Targets |-> [s \in Strategies |-> Absent]]

-----------------------------------------------------------------------------
(* StrategyEvaluator.evaluate().                                            *)

LayersOf(target) == IF target = "global" THEN Layers \ {"symbol"} ELSE Layers

(* _check_layer(): a layer that is missing or stale blocks every strategy,  *)
(* and its states do not count.                                             *)
Usable(l) == snapshot[l].at # Never /\ time - snapshot[l].at <= MaxStateAge

Safe(target) == \A l \in LayersOf(target) : Usable(l)

ActiveStates(target) ==
    UNION {{l} \X snapshot[l].states : l \in {k \in LayersOf(target) : Usable(k)}}

Modifier(s, active) ==
    Min({100} \cup {m.size : m \in {n \in Def[s].modifiers : n.state \in active}})

Ratio(s, active) == (Def[s].maxSize * Modifier(s, active)) \div 100

Allowed(s, active, safe) ==
    /\ Def[s].enabled
    /\ safe
    /\ Def[s].required \subseteq active
    /\ Def[s].forbidden \cap active = {}

(* The oldest snapshot an evaluation rests on.                              *)
Seen(target) == Min({snapshot[l].at : l \in LayersOf(target)})

Judge(s, target) ==
    LET active == ActiveStates(target)
        allow  == Allowed(s, active, Safe(target)) /\ Ratio(s, active) > 0
    IN  [allowed |-> allow, ratio |-> IF allow THEN Ratio(s, active) ELSE 0,
         seen |-> Seen(target)]

-----------------------------------------------------------------------------
(* The market state engine commits a cycle: the index and the time window   *)
(* together, the ticker only if its data could be fetched.                  *)
RefreshSnapshots ==
    /\ \E found \in {f \in [Layers -> UNION {Snapshots[l] : l \in Layers}] :
                      \A l \in Layers : f[l] \in Snapshots[l]},
          kept \in SUBSET {"symbol"} :
          snapshot' = [l \in Layers |->
              IF l \in kept THEN snapshot[l] ELSE [at |-> time, states |-> found[l]]]
    /\ UNCHANGED <<time, evaluation, decision>>

Tick ==
    /\ time < EndTime
    /\ time' = time + 1
    /\ UNCHANGED <<snapshot, evaluation, decision>>

(* The evaluation time is taken, then the snapshots are read by one         *)
(* statement.  No two evaluations have the same time.                       *)
EvaluationBegins(e, target) ==
    /\ evaluation[e] = Idle
    /\ Overlap \/ \A f \in Evaluators : evaluation[f] = Idle
    /\ time < EndTime
    /\ time' = time + 1
    /\ evaluation' = [evaluation EXCEPT ![e] =
          [stage |-> "upsert", target |-> target, at |-> time,
           results |-> [s \in Strategies |-> Judge(s, target)],
           loaded |-> <<>>]]
    /\ UNCHANGED <<snapshot, decision>>

Loaded(e) == DOMAIN evaluation[e].loaded

(* _find_existing(), strategy by strategy.                                  *)
FindExisting(e, s) ==
    /\ evaluation[e].stage = "upsert"
    /\ s \notin Loaded(e)
    /\ LET row == decision[evaluation[e].target][s]
       IN  evaluation' = [evaluation EXCEPT ![e].loaded =
              [k \in Loaded(e) \cup {s} |-> IF k = s THEN row ELSE @[k]]]
    /\ UNCHANGED <<time, snapshot, decision>>

(* One column of the UPDATE: written only if it differs from what was       *)
(* loaded.                                                                  *)
Written(old, new, current) == IF new # old THEN new ELSE current

UpdatedRow(current, loaded, at, result) ==
    [at      |-> at,
     allowed |-> Written(loaded.allowed, result.allowed, current.allowed),
     ratio   |-> Written(loaded.ratio, result.ratio, current.ratio),
     logged  |-> result]

(* Both sessions found no row: the unique index stops the second one's      *)
(* flush, its exception is swallowed, and the commit then raises.           *)
InsertClashes(e) ==
    \E s \in Loaded(e) :
        /\ evaluation[e].loaded[s].at = Never
        /\ decision[evaluation[e].target][s].at # Never

(* The rows of all strategies and their strategy_evaluations rows, of which *)
(* the one with the decision's evaluation_time is kept in it as logged, are *)
(* committed together.                                                      *)
EvaluationCommits(e) ==
    /\ evaluation[e].stage = "upsert"
    /\ Loaded(e) = Strategies
    /\ IF InsertClashes(e)
       THEN UNCHANGED decision
       ELSE LET ev == evaluation[e]
            IN  decision' = [decision EXCEPT ![ev.target] =
                    [s \in Strategies |->
                        UpdatedRow(@[s], ev.loaded[s], ev.at, ev.results[s])]]
    /\ evaluation' = [evaluation EXCEPT ![e] = Idle]
    /\ UNCHANGED <<time, snapshot>>

(* A database error or the end of the process.                              *)
EvaluationFails(e) ==
    /\ evaluation[e] # Idle
    /\ evaluation' = [evaluation EXCEPT ![e] = Idle]
    /\ UNCHANGED <<time, snapshot, decision>>

Evaluate(e) ==
    \/ \E target \in Targets : EvaluationBegins(e, target)
    \/ \E s \in Strategies : FindExisting(e, s)
    \/ EvaluationCommits(e)
    \/ EvaluationFails(e)

DecisionNext ==
    \/ Tick
    \/ RefreshSnapshots
    \/ \E e \in Evaluators : Evaluate(e)

DecisionSpec == DecisionInit /\ [][DecisionNext]_decisionVars

-----------------------------------------------------------------------------
(* The row says what the strategy_evaluations row it comes from says.       *)
Faithful(row) == row.allowed = row.logged.allowed /\ row.ratio = row.logged.ratio

(* models/current_strategy_decision.py:3 and :63: the row is the latest     *)
(* verdict on (strategy_id, ticker), and its evaluation_time that of the    *)
(* strategy_evaluations row it comes from; so it says what that row says.   *)
DecisionIsItsEvaluation ==
    \A x \in Targets, s \in Strategies : Faithful(decision[x][s])
=============================================================================
