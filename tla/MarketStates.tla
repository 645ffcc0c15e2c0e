---------------------------- MODULE MarketStates ----------------------------
(***************************************************************************)
(* services/market_state: MarketStateRunner fetches the watched tickers one *)
(* after the other, then MarketStateEngine.run evaluates, notifies and      *)
(* saves in one database session with a commit at its end.                  *)
(*                                                                          *)
(* current_state_snapshots holds the states of each target as of the last   *)
(* cycle, state_evaluations the rows ever inserted, of which log counts the *)
(* ones still is_active.  The index and the time window are replaced in     *)
(* every cycle; of a ticker only what changed against its snapshot is       *)
(* written.                                                                 *)
(***************************************************************************)
EXTENDS SymbolRules, FiniteSets

CONSTANTS
    Tickers,     \* WATCHED_SYMBOLS
    FeedsOf,     \* for each ticker, the data a cycle may find for it
    Times,       \* minutes of the day at which cycles may run
    Changes,     \* changes of the index; the runner passes none: None
    MayRaise     \* tickers whose rules may raise on the data they get

ASSUME MarketAssumption ==
    /\ DOMAIN FeedsOf = Tickers
    /\ \A t \in Tickers : FeedsOf[t] \subseteq SymbolData
    /\ Times \subseteq 0..1439
    /\ MayRaise \subseteq Tickers
    /\ Tickers \cap {"market", "time_window"} = {}

VARIABLES
    clock,       \* evaluation_time of the last cycle
    marketStage, \* "idle", "fetch" or "save"
    gathered,    \* what the cycle has of each ticker
    snap,        \* current_state_snapshots
    log,         \* number of active state_evaluations rows, by target and code
    \* history, read by no action, of the notices of a state until it is
    \* saved as ended
    told,        \* for each notice, how often it was dispatched
    missed,      \* and how often its failure was swallowed
    cyclesLost   \* cycles abandoned after their notices

marketVars == <<clock, marketStage, gathered, snap, log, told, missed, cyclesLost>>

MarketLayers  == {"market", "time_window"}
SnapTargets == MarketLayers \cup Tickers
Codes   == SymbolCodes \cup WindowCodes \cup TrendCodes

(* STATE_NOTIFICATION_PRIORITY 1; those of priority 2 depend on scores and  *)
(* are left out.                                                            *)
Alarms == {"wide_spread", "price_stale", "stale_bid_ask"}

Notices == Tickers \X Alarms

NoSnap == [seen |-> FALSE, states |-> {}, hints |-> GuardHints({})]
Snapshot(codes) == [seen |-> TRUE, states |-> codes, hints |-> GuardHints(codes)]

Finding(what, codes) == [what |-> what, codes |-> codes]
Pending == Finding("pending", {})

MarketInit ==
    /\ clock = 0
    /\ marketStage = "idle"
    /\ gathered = [t \in Tickers |-> Pending]
    /\ snap = [x \in SnapTargets |-> NoSnap]
    /\ log = [x \in SnapTargets |-> [c \in Codes |-> 0]]
    /\ told = [n \in Notices |-> 0] /\ missed = told /\ cyclesLost = 0

StartCycle(now) ==
    /\ marketStage = "idle"
    /\ now > clock
    /\ clock' = now
    /\ marketStage' = "fetch"
    /\ gathered' = [t \in Tickers |-> Pending]
    /\ UNCHANGED <<snap, log, told, missed, cyclesLost>>

Found(t, f) ==
    /\ marketStage = "fetch"
    /\ gathered[t] = Pending
    /\ gathered' = [gathered EXCEPT ![t] = f]
    /\ UNCHANGED <<clock, marketStage, snap, log, told, missed, cyclesLost>>

(* The broker answers; what the rules make of the answer is known already,  *)
(* since they read nothing else.                                            *)
FetchTicker(t) == \E d \in FeedsOf[t] : Found(t, Finding("evaluated", EvaluateSymbol(d)))

(* get_market_data raises: the ticker is not in symbol_data.                *)
FetchFails(t) == Found(t, Finding("missing", {}))

(* A rule raises: the ticker is in symbol_data and has no results.          *)
RulesRaise(t) == t \in MayRaise /\ Found(t, Finding("raised", {}))

InData == {t \in Tickers : gathered[t].what # "missing"}

(* Mutant: what was active before the cycle is not looked at.              *)
ActivatedAnew(t) == gathered[t].codes

(* is_new_activation, against _load_prev_active_states().                   *)
Activated(t) == gathered[t].codes \ snap[t].states

(* Mutant: a ticker without results is taken for one that did not change.   *)
DeactivatedIfAny(t) ==
    IF gathered[t].codes = {} THEN {} ELSE snap[t].states \ gathered[t].codes

Deactivated(t) == snap[t].states \ gathered[t].codes

(* extract_notification_candidates().                                       *)
Due == {n \in Notices : n[1] \in InData /\ n[2] \in Activated(n[1])}

Counted(count, N) == [n \in Notices |-> count[n] + IF n \in N THEN 1 ELSE 0]

(* The tickers are all fetched; the engine evaluates and notifies, before   *)
(* anything is saved.  What fails of a notice, or of finding out which are  *)
(* due, is swallowed, and the cycle goes on to save all the same.           *)
Notify ==
    /\ marketStage = "fetch"
    /\ \A t \in Tickers : gathered[t] # Pending
    /\ marketStage' = "save"
    /\ \E heard \in SUBSET Due :
          told' = Counted(told, heard) /\ missed' = Counted(missed, Due \ heard)
    /\ UNCHANGED <<clock, gathered, snap, log, cyclesLost>>

(* save_evaluations(): the target's active rows expire, one is inserted.    *)
ReplaceRows(code) == [c \in Codes |-> IF c = code THEN 1 ELSE 0]

(* save_evaluations_transitioned().                                         *)
TransitionRows(t) ==
    [c \in Codes |-> (IF c \in Deactivated(t) THEN 0 ELSE log[t][c])
                     + (IF c \in Activated(t) THEN 1 ELSE 0)]

SaveCycle(change) ==
    LET layer == [market |-> MarketTrend(change), time_window |-> TimeWindow(clock)]
    IN  /\ marketStage = "save"
        /\ marketStage' = "idle"
        /\ log' = [x \in SnapTargets |->
              IF x \in MarketLayers THEN ReplaceRows(layer[x])
              ELSE IF x \in InData THEN TransitionRows(x) ELSE log[x]]
        /\ snap' = [x \in SnapTargets |->
              IF x \in MarketLayers THEN Snapshot({layer[x]})
              ELSE IF x \in InData THEN Snapshot(gathered[x].codes) ELSE snap[x]]
        /\ told' = [n \in Notices |-> IF n[2] \in snap'[n[1]].states THEN told[n] ELSE 0]
        /\ missed' = [n \in Notices |-> IF n[2] \in snap'[n[1]].states THEN missed[n] ELSE 0]
        /\ gathered' = [t \in Tickers |-> Pending]
        /\ UNCHANGED <<clock, cyclesLost>>

(* An exception on the way to the commit, or the end of the process: the    *)
(* session is rolled back, and the next cycle starts over.                  *)
AbandonCycle ==
    /\ marketStage # "idle"
    /\ marketStage' = "idle"
    /\ gathered' = [t \in Tickers |-> Pending]
    /\ cyclesLost' = cyclesLost + IF marketStage = "save" THEN 1 ELSE 0
    /\ UNCHANGED <<clock, snap, log, told, missed>>

MarketNext ==
    \/ \E now \in Times : StartCycle(now)
    \/ \E t \in Tickers : FetchTicker(t) \/ FetchFails(t) \/ RulesRaise(t)
    \/ Notify
    \/ \E change \in Changes : SaveCycle(change)
    \/ AbandonCycle

MarketSpec == MarketInit /\ [][MarketNext]_marketVars

-----------------------------------------------------------------------------
(* Properties.                                                              *)

(* The log and the snapshots are written apart, one by difference and one   *)
(* as a whole, with cycles that miss a ticker, end early or have no results *)
(* in between: what is active in the log is what the snapshot says, and     *)
(* every state is active once.                                              *)
LogMatchesSnapshot ==
    \A x \in SnapTargets, c \in Codes :
        log[x][c] = IF c \in snap[x].states THEN 1 ELSE 0

(* What a strategy may read together of one ticker makes sense together: no *)
(* two of up, down and range, no range in high volatility, one kind of      *)
(* volume and of gap, and a breakout only on volume and without a gap.      *)
StatesConsistent ==
    \A t \in Tickers :
        LET has(codes) == Cardinality(snap[t].states \cap codes)
        IN  /\ has({"symbol_trend_up", "symbol_trend_down", "symbol_range"}) <= 1
            /\ has({"symbol_range", "symbol_volatility_high"}) <= 1
            /\ has({"high_relative_volume", "low_liquidity"}) <= 1
            /\ has({"gap_up_open", "gap_down_open", "breakout_candidate"}) <= 1
            /\ has({"breakout_candidate"}) <= has({"high_relative_volume"})

(* Notices go out before the commit that makes a state active, and their    *)
(* failure is swallowed: an alarm that is active, or about to be, had its   *)
(* notice once, heard or missed, and once more at most for every cycle that *)
(* was lost between its notices and its commit.  It is not repeated because *)
(* it was missed, nor because the alarm goes on.                            *)
AlarmsAreTriedOnce ==
    \A n \in Notices :
        LET active == n[2] \in snap[n[1]].states \/ (marketStage = "save" /\ n \in Due)
        IN  told[n] + missed[n] \in IF active THEN 1..(1 + cyclesLost) ELSE 0..cyclesLost
=============================================================================
