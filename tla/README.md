# Verification of trade-system

TLA+ modules, TLC runs and TLAPS proofs about `src/trade_app`, a service that
receives trading signals over HTTP, decides whether to trade, sends orders to a
broker, and closes the positions that result. Paths below are relative to
`src/trade_app/` unless they say otherwise.

1. [The system](#1-the-system)
2. [What is modelled, and how it corresponds to the code](#2-what-is-modelled)
3. [Runs](#3-runs)
4. [Faults, and what survives each](#4-faults)
5. [Fairness](#5-fairness)
6. [Proofs](#6-proofs)
7. [Findings](#7-findings)
8. [Not modelled](#8-not-modelled)
9. [Plan](#9-plan)

Working with it: `tlc -config ExitCycle.cfg MCExit`, `tlc -config
EntryTables.cfg MCEntry`, `tlc -config Services.cfg MCServices`, `tlapm
ExitLifecycle_proofs.tla`. Definitions that
begin with the comment *Mutant* are deliberate bugs; no specification uses
them. Replacing the definition that follows by one of them must make a named
property fail (PROJECT.json, "mutants"), which is how each property is known
to say something about the code.

## 1. The system

One asyncio process (`main.py`), PostgreSQL (READ COMMITTED), Redis, one
broker. Every HTTP request, background task and loop iteration has a database
session of its own; nothing is shared in memory except the Tachibana login.

| component | state | operations | talks to |
|---|---|---|---|
| Signal intake: `routes/signals.py`, `services/signal_receiver.py` | `trade_signals`; idempotency keys in Redis | receive: check the key, insert, commit, answer 202, schedule the pipeline | starts SignalPipeline as a background task |
| SignalPipeline: `services/pipeline.py` | `trade_signals.status` | gate, plan, risk checks, route, in this order | gate, planning, RiskManager, OrderRouter |
| Strategy gate: `services/signal_strategy_gate.py` | `signal_strategy_decisions` | accept, shrink or refuse by the newest decisions | reads what the strategy engine wrote |
| Planning: `services/planning/*` | the plan, with its trace | adjust the size step by step, round to lots | reads strategy decisions, market data |
| RiskManager: `services/risk_manager.py` | none of its own | halt, hours, balance, size, open positions, ticker, unresolved orders, daily loss; one query each | reads halts, positions, orders; may activate a halt |
| OrderRouter: `services/order_router.py` | `orders`, Redis lock | write PENDING, send, store the answer | broker |
| OrderPoller: `services/order_poller.py` | `orders`, `executions` | every 5 s: ask for up to 50 SUBMITTED or PARTIAL orders, oldest first; record fills, open or finalize positions, revert failed exits, mark stuck orders UNKNOWN | broker, PositionManager |
| PositionManager: `services/position_manager.py` | `positions`, exit `orders`, `trade_results` | open, initiate_exit, apply_exit_execution, finalize_exit, revert_to_open, close_position | broker, HaltManager |
| ExitWatcher: `services/exit_watcher.py`, `exit_policies.py` | one session per cycle | every 10 s: evaluate TP, SL and time stop for every OPEN position, start exits | PositionManager |
| RecoveryManager: `services/recovery_manager.py` | `orders`, `positions` | once, before the loops start: reconcile every order not ended | broker, PositionManager |
| HaltManager: `services/halt_manager.py` | `trading_halts` | activate, release, check | called by RiskManager, PositionManager, both admin APIs |
| Strategy engine: `services/strategy/*` | current decisions and their history | evaluate required and forbidden market states, upsert | runner loop and API |
| Market state engine: `services/market_state/*` | current states, evaluations | evaluate, compare with the previous cycle, store | runner loop and API |
| Broker adapters: `brokers/*` | the broker's orders; Tachibana's login session | place_order, get_order_status, get_executions, balance, prices | HTTP |
| Trading admin API: `routes/admin.py` | none | close a position, set and release halts | PositionManager, HaltManager |
| Management UI: `admin/*` | its own database: users, sessions, symbol settings, audit log | login with TOTP, settings, halt | HaltManager |
| Logs: `services/audit_logger.py`, `broker_call_logger.py` | append-only tables | rows in the caller's transaction | - |

**What is hard.** Three loops and any number of tasks work on the same rows,
each reading, awaiting the broker and writing. The broker works on its own
time and forgets nothing; the database forgets whatever was not committed.
Concretely: two sessions may want to exit one position; a failed send leaves
rows in a session that somebody else's commit stores; a fill is reported
cumulatively, late, in parts, twice, or while the process is down; a position
and the order it came from change places between two queries; an answer that
never arrives must neither lose nor double an order. PROJECT.json lists these
hazards by line.

**What makes each part correct.** *Exits*: nobody can start a second exit while
one may still sell, as long as the rows know of it; a CLOSING position has one
order that can end it, and `remaining_qty` agrees with it; a position has one
TradeResult exactly when it is CLOSED, and unless an operator closes it with a
price, only after all its shares are sold; a committed exit ends. *Entries*:
the signal, order and position rows tell one story; a position exists only for
what the broker filled; an ended order is never rewritten; an unresolved order
blocks its ticker for every pipeline whose queries can see it; a fill that no
fault hides opens its position even across a restart. *Intake*: a key starts
one pipeline at most; an error has a cause. *Halts*: a loss that reaches a limit
raises a halt, unless its flush is never committed, and releasing one halt
leaves the others in force. *Gate and planning*: a signal passes only on recent
decisions that all agree; the planned size is a multiple of the lot and at most
the request. *Strategy and market state*: log and snapshot agree; the notice of
an alarm is tried once, heard or not. *Tachibana*: calls share one login; an
order the broker has taken is kept, unless its error is one nobody translates;
a filled order is accounted for by its executions, unless two of them share
second and quantity. *Management UI*: served only after the second factor;
logged out for good. Each "unless" is what the code does; section 4 says where.

## 2. What is modelled

| module | what it is |
|---|---|
| `ExitLifecycle` | initiating and settling exits: ExitWatcher, admin close, PositionManager, the exit branches of OrderPoller and RecoveryManager, the unique index of migration 014, the broker |
| `PositionPromise` | the abstract specification of the above: a position's phase and the shares still held |
| `ExitPromise` | the refinement mapping from the first to the second |
| `EntryLifecycle` | signal tasks: SignalPipeline, the order and position reads of RiskManager, OrderRouter, the entry branches of OrderPoller and RecoveryManager, the broker |
| `SignalPromise` | the abstract specification of that: a signal's stage and the shares bought for it |
| `EntryPromise` | the refinement mapping between these two |
| `SignalIntake` | requests with one Idempotency-Key against Redis, the unique constraint, the commit and the background task |
| `StrategyDecisions` | the strategy engine: snapshots to decisions, by runner and API |
| `StrategyGate` | extends it by the gate a signal passes before planning |
| `PlanSizing` | planning: every stage of `plan()` and what `_save_plan` derives from the trace |
| `SymbolRules` | the rules for market, time window and symbol states, as operators |
| `MarketStates` | extends it by the cycle that fetches, evaluates, notifies and saves |
| `TradingHalts` | raising and releasing halts, from both admin APIs and from settlements |
| `TachibanaOrders` | one order from Tachibana's status codes and execution list to the poller's rows |
| `TachibanaSession` | the shared login under concurrent calls, and which error a failure becomes |
| `UiSessions` | login, second factor, expiry, logout of the management UI |
| `MCExit`, `MCEntry`, `MCDecisions`, `MCServices` | instances for TLC |
| `*_proofs` | inductive invariants and theorems of all of these: `ExitLifecycle_proofs` and `ExitClosing_proofs` (exits), `EntryLifecycle_proofs`, `SignalIntake_proofs`, `Decisions_proofs` (market states, strategies, gate), `PlanSizing_proofs`, `Tachibana_proofs` (orders, session), `Administration_proofs` (halts, UI sessions) |

The halves of a trade meet in one place: an entry order's fill creates an OPEN
position, and an exit moves it to CLOSING and CLOSED. `EntryLifecycle` has that
as the small environment `ExitStep` and `ExitReverts`; `ExitLifecycle` starts
from positions that are OPEN. The services around them are reached through
database rows only, and the lifecycle modules have them as free choices: gate,
planning, halts and limits may turn a signal down at any time (`Screen`). What
is proved of the lifecycles so holds whatever the services answer, and the
services are modelled with what they read as the free choice. `StrategyGate`
composes two components that do interact, engine and gate, and `MarketStates`
the rules with the cycle.

### ExitLifecycle

| variable | code |
|---|---|
| `position[p]` | the committed `positions` row: `status`, `remaining_qty` (`None` = NULL), and whether a `trade_results` row exists |
| `order[o]` | the committed exit order: `status`, `position_id`, `filled_quantity`, and whether it was sent |
| `broker[o]` | the broker's order for that `client_order_id` |
| `sess[x]` | the session of an admin request, or of the watcher's cycle, while it is inside `initiate_exit` |
| `todo`, `leftover` | the watcher's cycle: positions not yet evaluated; exits that failed to send, whose rows sit uncommitted in the cycle's session |
| `poll` | the poller's cycle: orders left, the one being worked on, the reply, the position status the handler read |
| `mode`, `rtodo`, `crashes` | recovery before start-up, and the process's deaths |

`initiate_exit` (`position_manager.py:171-340`) is split where another session
can act: `BeginExit` (the compare-and-set on `status = OPEN` and the flush of
the PENDING order), `PlaceAccepted` / `PlaceRefused` / `PlaceRaises` (the
broker's answer) and `CommitExit`. Between the first and the last the row is
locked (`RowLocked`): another UPDATE of it waits. `LoseRace` and `IndexRefuses`
are its other ways out. A send that raises leaves the watcher's session dirty
(`leftover`), and the next commit of that session - another position's, or the
cycle's own (`WatchEnd`) - stores it; an admin request rolls back.
The poller is split where it awaits: `PollAsk` (the broker's reply),
`PollLoad` (the handler reads the position) and one step for the handler's
writes, which are one transaction. Sessions use `expire_on_commit=False`
and one object per row, so a position that was read is not read again: that is
`poll.pst`.
Recovery is alone, so asking and writing are one step per order. It commits at
the end of the run and inside `finalize_exit`; a crash in between leaves the
rows of a run that skipped the later orders, which the model contains.

### EntryLifecycle

Tables are indexed by the signal, which has at most one order and the order at
most one position. `signal`, `order` and `position` are the committed
statuses; `pc[s]` is where the task of signal `s` is, and implies what it has
flushed and not committed (the PENDING order, the PROCESSING signal).
`RiskManager`'s reads are steps of their own, `CheckMax`, `CheckTicker`,
`CheckOrders`, in the code's order, because READ COMMITTED shows each query
the newest commits. The checks that look at neither orders nor positions
(`Screen`, and daily loss inside `CheckMax`) may pass, turn the signal down, or
raise. `Place*` and `RouteFails` are every outcome of `_do_route`; only
`PlaceAccepted` is followed by a separate `Commit`, for there a crash in
between matters. Pipelines are background tasks of one process and overlap at every
await, with nothing to serialise them: `Overlap = TRUE` is the code, and the
runs and theorems about it use it. Two orders of one ticker may then be
unresolved together, each sent on checks that came before the other's commit.
What the checks do ensure is a statement about what they could see. The
history variable `seen[s]` holds the trades of the same ticker that the two
queries of `s` came upon: those with a position when the positions are read,
and those with an order and no position yet when the orders are. `Overlap = FALSE`, which
lets a signal's checks begin only when no other pipeline is between its checks
and its commit, is used by the violation runs alone: what they show needs no
overlap.

### PositionPromise, SignalPromise

What the two halves amount to for somebody who sees neither sessions, rows nor
polls. *Exits*: a position's shares leave the account only while it is being
exited (`Sell`), an exit is given up only with all of them still there
(`GiveUp`, `Restart`), and it ends when none is (`Finish`). *Entries*: shares
are bought only for a signal whose order is placed (`Buy`), an order is dropped
only if it bought none (`Drop`, `Restart`), and once all are bought they are
held as one position (`Hold`). The mappings read the broker for the shares
and the rows for the phase, with what a session has claimed or sent and not
committed counted as begun: `Phase` and `HeldShares` in `ExitPromise`,
`Stage` and `BoughtShares` in `EntryPromise`.

### SignalIntake

`request[r]` is where a request's coroutine is (`new`, `checked`, `inserted`,
`registered`, `committed`, `answered`) and what it answers; `cached` is Redis's
`idem:<key>`, `holder` and `rowCommitted` the row that holds the key in
`trade_signals`, `tasks` and `runs` the background tasks. The steps are the
awaits of `receive()`: `CheckRedis`, `Insert` (a second INSERT of the key waits
for the first transaction), `InsertClash`, `Register`, `Commit`, `Accept`. The
answer to a duplicate is an error (`Duplicate`): the route returns a
`SignalDuplicateResponse` where its `response_model` requires an
`idempotency_key`, so the response does not validate and the client gets a 500;
that it is a duplicate, and of which signal, is only logged.
Validation and authentication are `Refuse`. Faults: Redis unreachable, a failed
commit, a failed refresh after the commit, a crash.

### StrategyDecisions, StrategyGate

Time is a counter; a snapshot is `[at, states]`. An evaluation reads the
snapshots of its layers and judges every strategy (`Judge`: required and
forbidden states, staleness, size modifiers) in one step, then selects the rows
one by one (`FindExisting`) and commits them (`EvaluationCommits`).
`decision[target][strategy]` is a row of `current_strategy_decisions`, for the
ticker or for all tickers; its field `logged` is the `strategy_evaluations` row
with the same evaluation time, so that `Faithful(row)` says whether the
decision's columns are one evaluation's. The UPDATE writes
only the columns that differ from what the session read, as SQLAlchemy does. The
gate (`check()`) takes the time, reads the global decisions, then the ticker's,
and combines.

### PlanSizing

`PlanBegin` chooses a context, then each stage of `plan()` is a step with its
way out to rejection; a step appends to `planReasons` as the code does.
`planTrace` is the trace as its readers see it: of each stage the latest event,
which is what the derived entries look up. Ratios are in hundredths and the
adjusters' halves and quarters are integer divisions, which is what
`math.floor` of those products gives. Python's `floor(qty * ratio)` differs
from the integer product where the double lies just below it: such pairs are
the constant `ShortProducts` (57 % of 100 is 56). The trace's derived entries
are functions of the trace in the code's order; what a stage does when the one
before it is missing is kept.

### SymbolRules, MarketStates

The rules of `symbol_evaluator.py` as one ordered list, each reading the flags
that earlier ones set (`AfterRule`, a function of the rules run so far), with
integer data around every threshold; time windows and the market layer
likewise. A cycle of `MarketStates` fetches tickers one by one (`FetchTicker`,
`FetchFails`, `RulesRaise`), then notifies (`Notify`) and saves (`SaveCycle`),
or ends early (`AbandonCycle`). `log` counts the active `state_evaluations`
rows, `snap` is `current_state_snapshots`. The engine swallows every failure
of a notice and saves all the same, so `Notify` lets any part of the notices
that are due be heard; `told` and `missed` count both kinds, per ticker and
alarm, and `cyclesLost` the cycles that ended between their notices and their
commit.

### TradingHalts

`halts` are the committed rows; `operator[o]` an admin request between its
read and its commits (the UI commits the halt, then its audit row in another
database); `settler[s]` a closing transaction from its commit of the trade
result, through the queries for the day's loss and the losing streak, to the
flush of a halt and the caller's commit, if the caller has one.

### TachibanaOrders, TachibanaSession

`TachibanaOrders`: the exchange changes `orderCode`, appends to `fills` and
counts the shares (`filled`, the field `sYakuzyouSuryou`); a poll reads the
status and the list (`Answered`), then writes (`order`, `executions`,
`handled`) in one of the `Takes...` steps. `StatusOf` is the code table of
`mapper.py`, and `ExecutionKey` what it makes of a fill: second and quantity.
`TachibanaSession`: calls of one adapter run concurrently through
`ensure_session`, its lock and the double check, the requests of their
operation, and the invalidation that makes the next call log in again; the
broker ends sessions when it likes. `RaisedAs` and `OrderAfter` follow an error
from the HTTP layer to the order row.

### UiSessions

Handlers of one account's sessions read a row, await, and commit; `verified`
and `served` record when a correct code was entered and a request served, for
the properties. TOTP codes are right or wrong for the current secret; passwords,
cookies and their hashes are not modelled.

### Abstractions

- Prices, profit, market data, policies and timing are free choices; whether a
  policy fires, an order is stuck, or an hour has passed may come out either way.
- The broker is one account that outlives the process, as a real one does. The
  polling loop builds a fresh `MockBroker` each cycle, which answers FAILED to
  every query; no branch of the poller handles FAILED or PENDING, so with the
  mock as wired the loop does nothing, a stutter of the model.
- A status reply and the executions of an order are read together.
- The Redis lock of OrderRouter is left out: its key is the signal's id, a
  signal has one task, so it is always free. The limit of 50 orders per cycle
  exceeds every instance checked.
- `filled_quantity` is bounded by `Qty` because the broker fills no more than
  ordered. Quantities are Python integers, without a width.
- Order ids are uuids; the model takes the least unused number.

## 3. Runs

| run | question | instance | distinct states |
|---|---|---|---|
| `exit_cycle` | are positions, exit orders, TradeResults and the broker consistent, and is nothing sold twice, when sessions race, orders stall, queries fail and the process restarts? | 2 positions, 3 orders, 2 shares, watcher and 1 admin request, 1 crash | 1.04 million |
| `exit_faults` | what still holds if every fault may happen in one execution, and how may shares be sold twice in it? | 1 position, 3 orders, 2 shares, 1 crash, all 8 faults | 310 000 |
| `exit_promise` | does it implement `PositionPromise`, and does every committed exit end? | 1 position, 3 orders, 2 shares, watcher and 2 admin requests, 1 crash, no faults | 6 600 |
| `exit_retry` | violation: can an OPEN position always be exited (the code's comment)? | 1 position, watcher only | - |
| `entry_tables` | do signal, order and position rows and the broker agree under every fault, and which trades of one ticker may meet? | 3 overlapping signals, 2 of one ticker, 2 shares, 1 crash, 7 faults | 1.26 million |
| `entry_ends` | does every order end and every fill open its position, and does the whole implement `SignalPromise`? | 2 overlapping signals of a ticker, 2 shares, 1 crash, answers REJECTED | 2 000 |
| `entry_limit` | violation: is the cap on held positions a cap? | 3 signals, cap 1, no faults, no overlap | - |
| `entry_ticker` | violation: at most one OPEN position per ticker? | 2 signals, no faults, no overlap | - |
| `entry_uncertain` | violation: does the signal of an uncertain send leave PROCESSING? | `apiError` only | - |
| `services` | does each of the eight services keep its promises under its own faults and interleavings? | below | 583 000 |
| `decision_mixed` | violation: is a decision row what one evaluation found? | 1 strategy, 2 evaluators that overlap | - |
| `gate_seeds` | violation: does a buy pass when the seeded strategy says it may? | the 2 seeded strategies, 1 evaluator | - |

`services` explores nine parts, chosen in the initial state by `part`; they
share no variable, so each is explored alone and the counts add up instead of
multiplying.

| part | instance | properties |
|---|---|---|
| plan | 4 quantities, 4 ratios (one with a short product, one above 1), lots of 1 and 100, every decision and hint | LargestLotAllowed, ReasonsAccountForSize, VerdictTellsHints |
| market | 2 tickers, one with data around every threshold, 2 cycles | LogMatchesSnapshot, StatesConsistent, AlarmsAreTriedOnce |
| gate | 2 strategies, 1 evaluator, ages 1 and 1, time to 3 | PassRestsOnRecentStates, PassIsUnanimous |
| overlap | the same with 2 overlapping evaluators, time to 2 | the same two |
| intake | 3 requests with one key, 4 faults | OnePipelinePerKey, ErrorsHaveCause, StoredSignalIsHandled |
| halts | two casts: both APIs; one operator and two settlements; 3 rows, limit 1 loss, streak 2 | LossesHaltTrading, DuplicatesAreBounded, UiAuditIsTrue |
| orders | 3 shares, 3 seconds | FilledIsHandled, LiveOrderIsFollowed |
| session | 3 calls: an order, a price, a balance of two requests; 2 sessions | LoginsHaveReasons, TakenOrderIsKept |
| ui | 1 session, 2 handlers, lifetimes 1 and 2, 2 secrets | ServedIsVerified, LogoutIsFinal |

**Bounds.** Two positions are enough for the watcher's shared session to carry
one position's failed exit into another's commit, and for a poller error to
lose the rest of a cycle; properties are about one position, its orders, or
two orders of one position. Three exit orders allow an exit that ends, a second
one and one in conflict with it. Two shares give partial fills. One crash gives
a restart from every reachable state; a second adds only another recovery of
rows of the same kind (the theorems hold for any number). Two signals of one
ticker and one of another distinguish the per-ticker from the global checks.
For the services: three requests are the writer, the one that meets its open
transaction and the one that comes after; a time of 3 lets both ages (1 + 1)
run out one after the other and be exceeded by one; three rows of halts, one
released and two active ones; two sessions let a call hold a url of the one
before; three shares come in one, two or three fills, within a second
or not; two handlers are the logout and the verification it races. Bounds
(`EndTime`, `MaxHalts`, `LastSecond`, `MaxSessions`, `LastTime`, `MaxSecret`)
stop a run where the counters have no end of their own.
In the exit configurations deadlock is checked. The entry ones switch it off:
when the `NSig` signals are done and their positions closed, nothing is left
to do. So do the services, where the parts' clocks and requests run out.

**What the runs show.** Without faults of the environment that break a promise
outright (next section) the exit half never oversells, never loses a position
in CLOSING, and every CLOSED row is truthful, across restarts. With them it
does oversell, but in two ways only (OversellHasCause): one of the two orders
is one the tables lost sight of, its reply or its commit lost, or one the
broker cancelled half filled. The entry half's tables agree under all faults
together; where two trades of one ticker are live at once, neither was there
for the other's queries to see (DoublesWereUnseen); and with a fair poller each
order reaches its end. The services keep what is proved or checked of them under all
their faults; where a property excepts a case, the exception is what the code
does there (section 4). The six violation runs are in [Findings](#7-findings).

## 4. Faults

Each is a behaviour of the environment that the code meets or handles, off
unless a configuration names it, so that a run can show what it breaks.

| fault | where | exit half: what fails under it alone |
|---|---|---|
| `stuck` | `order_poller.py:693`, no change for an hour | ClosingEnds: the order turns UNKNOWN and only a restart asks again |
| `unknownReply` | `order_poller.py:268`, an UNKNOWN status is stored | ClosingEnds, likewise |
| `lostReply` | `position_manager.py:285`, `place_order` raises after the order reached the broker | NoOversell, KeepsPromise: the position reopens while the order works |
| `crashInFlight` | `position_manager.py:316`, death between the broker's answer and the commit | NoOversell, KeepsPromise, likewise |
| `keyClash` | `order_poller.py:408`, an execution id that is stored already | ClosingHasOneExit, RemainingAddsUp, ClosingEnds: FILLED and never finalized |
| `pricedClose` | `position_manager.py:599`, an operator closes with a price | ResultIffClosed, ClosedMeansSold, ClosedIsFinal, ClosingEnds, KeepsPromise |
| `partialCancel` | `order_poller.py:241`, a partly filled exit is cancelled | NoOversell, KeepsPromise: the position reopens with its full quantity |
| `rejectReply` | `mock_broker.py:119`, `place_order` returns REJECTED without raising | ClosingHasOneExit, ClosingEnds: CLOSING with an ended order |

All other exit properties of section 3 hold under that fault, and
`OpenHasNoLiveExit`, `RecordedFillsAreReal` and `OversellHasCause` under all of
them together. The
failures are limits of the design that no document in the repository promises
away, so they are stated here and not as findings; `exit_cycle` includes the two
faults that leave every safety property intact.

In the entry half the tables agree under every fault (`apiError`,
`lostCommit`, `keyClash`, `partialCancel`, `stuck`, `unknownReply`,
`rejectReply`). Three of them break `KeepsSignalPromise`, each alone, for each
leaves shares nobody watches: `lostCommit` (`order_router.py:264`, an order
lost before its commit), `partialCancel` (`order_poller.py:220`, a partial
fill that is then cancelled) and `keyClash` (`order_poller.py:311`, an
execution id that is stored already). Under the other four it holds, which is
proved. `FillOpensPosition` and `OrderEnds` are checked without the
faults that hide an order from the poller - an order without an id is never
asked about, an UNKNOWN one at the next restart only - but with a crash between
commits and orders the broker answers REJECTED.

The services' faults are part of their specifications, and the properties name
what they admit:

- *Intake.* After a failed commit the Redis key stays, and every retry within
  its lifetime is turned away, with an error, as the duplicate of a signal that
  does not exist. A crash or a failed refresh after the commit leaves the signal RECEIVED, and nothing looks
  for such signals. Both are admitted by name (`broken`), all else excluded.
- *Halts.* `close_position` with a price flushes the halt after its last commit
  and never commits it (`lost`). Two activations that race both insert, and
  releasing one leaves the other in force.
- *Market states.* A notice that fails is not repeated while its alarm lasts; a
  cycle that dies between its notices and its commit repeats those it sent.
- *Gate.* Overlapping evaluations may mix a row; the two gate properties speak of
  rows that are one evaluation's.
- *Tachibana.* Two executions of one second and quantity share a key: the second
  is taken for a repetition and the order ends FILLED without its position,
  where `mapper.py:85-87` calls the key safe. httpx's RemoteProtocolError is
  not translated, and the row of an order the broker took is rolled back. A
  refusal by the broker is a BrokerAPIError, so a refused order stays SUBMITTED
  without an id; BrokerAuthError is outside that family, so its order's row is
  rolled back like that, with no order at the broker. A login
  whose answer has an empty url leaves a session that counts as usable, and
  nothing recovers it. A call that holds an old url invalidates the session
  another call has just opened.

## 5. Fairness

`Fairness` in both modules is weak fairness of what asyncio or the broker keeps
doing: a task past its broker call continues, the poller's `while True` loop
runs on, the recovery run continues, and the broker ends or fills every order it
works on. `PollAsk` has strong fairness per order: a status query may raise any
number of times (`PollAskRaises`), but not for ever, which is what retrying
every cycle counts on. Nothing makes a policy fire, an operator act, a signal
arrive, a position close or the process restart: `ClosingEnds` must not depend
on a second crash, and does not. The service modules state safety only and
assume no fairness.

## 6. Proofs

51 theorems in eight modules, for every value of the constants. Every invariant
that a passing run checks is one of them, so are the action properties and both
refinements; what is left to TLC is named at the end. Assumptions are the
modules' own, each weak: positive counts, sizes and lifetimes in Nat, `Faults`
any subset, any number of crashes, names that do not collide with the model's
own marks, finitely many operators and settlers. Four say more. A strategy's
size ratio is at most 100 (%). `DailyLimit` is not 0: at zero RiskManager
refuses every order before a halt could matter (`TradingHalts`). A product of
`ShortProducts` is exact in the integers, since only there the double can fall
below it (`PlanSizing`). The data a market cycle fetches is typed as
`SymbolData` is. Where a property is false under a fault, the theorem excludes
the fault by a named hypothesis (`Unforced`, `Counted`, `Benign`, `Careful`,
`Tracked`); section 4 says what each breaks. One exclusion is of the argument
and not of the property: `pricedClose` in `Benign`, `Counted` and `Careful`,
and in the `Unforced` of OversellIsCaused, for a closed position then still has
a live exit. TLC finds ClosingHasOneExit, RemainingAddsUp and NoOversell to hold
under it alone, and OversellHasCause with all faults.

**ExitLifecycle_proofs.** `Invariance`: Spec => []IInv, then `TypeCorrect` and
`NoLiveExitWhileOpen` (an OPEN position never has a live exit order, under all
faults). OpenHasNoLiveExit is not inductive: whether CommitExit keeps it depends
on what other sessions hold uncommitted. IInv adds that live orders of a
position are unique (`OneLive`); that a claimed or left-over row is OPEN for
everyone else and claimed once (`ClaimsOK`, `LeftoverOK`), which the row lock
gives; that uncommitted orders are not in the table and have distinct ids
(`DraftsOK`); that the poller's orders are SUBMITTED or PARTIAL, since nobody
else settles them (`PollOK`); and that recovery is alone (`AloneOK`). The
proof has a lemma per kind of write: `SettlesKeepsTables` covers every way of
settling an order, `OrdersAfterRows`/`PositionsAfterRows` the commits that
carry left-over rows.

**ExitClosing_proofs.** What the exits record, in three layers on top of IInv,
each a strengthening that is inductive together with those below it.

- `FillsAreReal` (RecordedFillsAreReal), under every fault. RealOK adds that a
  reply in the poller's hands is no more than the broker has by now, since the
  broker never takes a fill or an end back (`FillsOK`), and that what was sent
  is for the position of the row (`PlacedOK`). Poller and recovery write an
  order in a handful of ways (`Writes`); one lemma covers them.
- `OneResultEach`, `ClosedWasSold` and `ClosedFinal`, under `Unforced`: any
  faults but pricedClose. `RemainingIsExact`, under `Counted`: not keyClash
  either. `OneExitWhileClosing`, under `Benign`: nor rejectReply. All of them
  admit lost replies, crashes with an order in flight and partial cancels.
  ClosingOK adds that a live order's position is CLOSING, and that the position
  a handler of the poller has read was. A settlement then has one of four
  outcomes (`Outcome`): the exit goes on, the position is sold in full, it is
  given back because the broker ended the order, or, under keyClash, the order
  is FILLED and the position stays CLOSING. Each fault breaks what excludes it:
  a priced close leaves a live order behind, a key clash drops a fill, a
  REJECTED reply commits CLOSING without an order that could end it. ClosingOK
  states the parts that break under the condition that the fault is absent, so
  that one invariant serves all three hypotheses.
- `NothingSoldTwice` (NoOversell), under `Careful`: stuck orders, UNKNOWN and
  REJECTED replies, clashing execution ids, and crashes at any other moment
  than between the broker's answer and the commit. ExposedOK adds that an order
  the broker has sold for, or may yet, is live in the table, in the hands of
  the session about to commit it, or has left its position out of reach
  (`Spent`): no longer OPEN and without a live order, as after a full sale or a
  fill that was dropped. `Onward` says that a position once out of reach stays
  so. A session can send only for an OPEN position, which therefore has no
  such order.
- `OversellIsCaused` (OversellHasCause), under `Unforced`: with lost replies,
  crashes in flight and partial cancels, where NoOversell is false. SightedOK
  is ExposedOK without those orders that OversellHasCause names: any other
  order the broker has sold for, or may yet, is in sight of the rows or its
  position is out of reach. What the tables have lost they do not find again
  (`LostStaysLost`), a cancelled order stays cancelled, and a session sends only
  for a position without an order in sight (`SendingIsAloneInSight`).
- `PromiseIsKept`: the exits implement `PositionPromise`, under `Careful`, and
  with it `AccountFollowsRows`: an OPEN position that no session has claimed
  has all its shares in the account, a CLOSED one none. The mapping counts the
  shares sold as the cardinality of a set of pairs (order, share). ExposedOK
  leaves one order a position to count: only an exposed order has sold
  anything, so `Sold(p)` is that order's shares (`HeldExposed`) or empty
  (`HeldUnexposed`). The proof then follows the code: a claim is Begin or
  nothing (another session holds the row otherwise), a failed send or a lost
  race GiveUp, a commit nothing, a fill Sell, a settlement one of the four
  outcomes, a crash one Restart of all positions with a claim.

**EntryLifecycle_proofs.** `Invariance`, `TypeCorrect`, and for every number of
signals, overlapping or not, and all faults: `TablesAgree` (ExecutedIffPosition),
`Backed` (PositionIsBacked), `EndedFinal` (EndedIsFinal), `DoublesUnseen`
(DoublesWereUnseen). IInv adds that a running pipeline has
no committed order (`DraftsOK`), so no step of it can touch a row that matters;
that an order with a broker id is at the broker (`SentOK`), so a reply is one of
the statuses a handler expects; that FILLED at the broker means all shares
(`BrokerOK`); that recovery's list is unresolved and empty while the loops run
(`TodoOK`); and that what a signal's queries came upon is over, order ended and
position not held, once the signal is past the queries (`SeenOK`), and stays
over, since an ended order is not written again and opens no second position
(`SeenKept`). Three lemmas carry the proof: `SettlesKeeps` (poller and
recovery), `MoveKeeps` (pipeline steps without an order), `StoreKeeps`
(pipeline steps that store one).
`PromiseIsKept`: the entries implement `SignalPromise`, for any number of
overlapping signals, under `Tracked`: any faults but lostCommit, keyClash and
partialCancel. BoughtOK is the invariant the mapping needs on top of IInv: an
order that has bought shares or still may (`Exposed`) is unresolved in the
table, about to be committed, or a position; no other has bought anything.
`PipelineRows`, `BrokerRow` and the strengthened `Settles` say how each kind of
step changes the rows of its signal, and both BoughtOK and the step of
`SignalPromise` are read off that. `SharesAreWatched` is the consequence:
shares that were bought are watched by an unresolved order or held in full.

**SignalIntake_proofs.** `OnePipeline`, `ErrorsAreCaused`, `StoredIsHandled`.
IntakeInv adds that a request past its insert is the key's holder, uncommitted
until its commit (`HolderOK`), which makes acceptance unique; that what Redis
holds is a signal that is stored, in an open transaction or broken (`CacheOK`),
and that who holds the key for good, or met a fault, is past its commit
(`PlacesOK`), so that a cause once found stays one (`CausesStay`).

**Decisions_proofs**, in two parts. *Gate:* `PassIsRecent`, `PassNeedsAll`.
GateInv adds that every row, every judgement in progress and every row the gate
holds rests on snapshots within `MaxStateAge` of its own time (`RowOK`,
`EvaluationOK`), that a target has rows of all strategies or of none
(`AllOrNone`, because an evaluation writes all or nothing), and that rows, once
there, stay. The gate's two reads may then be arbitrarily far apart. That the
smallest ratio exists is `MinOfNat`, from the well-foundedness of Nat. *Market
states:* `LogAgrees`, `AlarmsTriedOnce`, `StatesAgree`. For AlarmsTriedOnce the
notices tried are counted against the cycles lost, with an alarm about to be
saved counted as active (`Raised`): a save turns the one into the other and a
lost cycle pays for what it takes back. Log and snapshot need nothing further.
For StatesAgree MarketInv adds that what a cycle has gathered is coherent like what it saves
(`StatesOK`). That one evaluation is coherent (`EvaluatedIsCoherent`) is shown
by running the fourteen rules once, symbolically: the list is fixed, so this is
no induction, and each rule is reduced to a condition on the data and on the
trends found before it.

**PlanSizing_proofs.** `PlanSpecLargestLot`, `PlanSpecReasons`,
`PlanSpecVerdict`, for any quantities, ratios and lots. SizeOK says of the
quantity under way that it is what base, ratio and the divisor so far allow,
and that one more (two, for a short product) would be too much; a floor
division (`Between`) and the rounding to lots keep that. ReasonsOK says that
the reasons form a chain from the signal's quantity to the present one, with
the zero reason only at its end. TraceOK ties the shadow event to the hints:
the verdict is then followed through the derived entries one by one, in the
code's order, each a function of the ones before it.

**Tachibana_proofs**, in two parts.
*Session:* `LoginsAreNeeded`, `TakenIsKept`. SessionInv adds
that an order call is one request: once the broker has its order the call is
over, with one of the results that `RaisedAs` allows (`OrdersOK`).
*Orders:* `OrderSpecHandlesFilled`, `OrderSpecFollowsLive`. OrderInv adds the
exchange's own account (`FillsOK`); that a reply under way may be late but not
about an end, since no end is undone (`ReplyOK`); and that the rows
are behind the broker, the key stored for a partly filled order being that of
an earlier execution than the last (`RowsOK`), which is why the last one is
new to the poller unless two share second and quantity.

**Administration_proofs**, in two parts.
*UI sessions:* `ServedAfterCode`, `LogoutStays`. UiInv adds that a
complete row was verified and expires at most `Ttl` later (`SessionOK`), and
that what a handler is about to write rests on such a code although the row
may have changed since it was read (`HandlerOK`); logout is final because no
commit clears the column.
*Halts:* `HaltSpecHaltsOnLosses`, `HaltSpecBoundsDuplicates`,
`HaltSpecAuditIsTrue`. HaltInv adds that a limit which is reached has its halt,
or a settlement that will still look at it or insert the halt (`Followed`);
that active rows of a type and the sessions about to insert one are together
no more than the sessions there are (`RaisersOK`), since a session begins to
insert only when it found no active row; and that what a
request will log is true already when its transaction commits (`AuditOK`).

**Only model-checked.** Liveness under fairness - ClosingEnds,
FillOpensPosition and OrderEnds - is out of the prover's reach. So are the
properties of the violation runs, which are false.

## 7. Findings

Six disagreements between the code and its own comments; each has a run whose
counterexample is the scenario.

1. `exit_retry` (code bug). After a failed send the position is put back to
   OPEN "so that it can be retried" (`position_manager.py:293`). The watcher
   commits the cycle's session all the same (`exit_watcher.py:147`), and with it
   the PENDING exit order. The partial unique index counts PENDING, nothing ever
   settles a PENDING order, and every later exit of that position is refused
   until the process restarts. The handler written for that refusal
   (`position_manager.py:237-253`) is not reached: the flush that raises is
   the one inside `record_exit_transition` (227).
2. `entry_limit` (documentation). `MAX_CONCURRENT_POSITIONS` is "the cap on
   concurrently held positions" (`config.py:66`); the check counts OPEN rows
   only, not CLOSING ones and not orders on their way.
3. `entry_ticker` (documentation). "At most one open position per ticker"
   (`risk_manager.py:10`): the poller's commit between the position query and
   the order query hides the trade from both.
4. `entry_uncertain` (documentation). After BrokerAPIError the signal stays
   PROCESSING "until OrderPoller/RecoveryManager completes it"
   (`order_router.py:182`); neither ever does, as the order has no broker id.
5. `decision_mixed` (documentation). A row of `current_strategy_decisions` is
   "the authoritative latest verdict" and its `evaluation_time` "that of the
   evaluation it comes from" (`models/current_strategy_decision.py:3`, `:63`).
   `upsert_decisions` (`strategy/decision_repository.py:55`) selects the row
   and assigns its attributes, and the UPDATE names only the columns that
   changed against the row as read: when the runner and POST /recalculate
   overlap, the row may have one's verdict and the other's time.
6. `gate_seeds` (documentation). The seeded long strategy is described as
   allowing entries in the morning zone with the ticker trending up
   (`strategy/seed.py:35`). The gate (`signal_strategy_gate.py:209`) also
   requires the decision for all tickers together, which is evaluated without
   symbol states and so is always blocked: no buy ever passes.

Smaller things met on the way, without a run because no state of theirs is
followed or nothing in the repository promises otherwise:

- `symbol_trend_down` fires on equality (`symbol_evaluator.py:510`), its text
  (469-471) says strictly below.
- The market layer is always "range" in production: the runner passes no index
  change. Nothing fills open prices or volume, and quotes are stamped when they
  are fetched, so gap, volume and `price_stale` / `stale_bid_ask` by age cannot
  arise outside tests. The runs include data that have them.
- A rule that raises for a ticker empties its snapshot, states and hints, with a
  new `updated_at`: the ticker looks calm and fresh.
- The "hold" verdict of the shadow guard review cannot be reached.
- A disabled strategy is a blocked one, and so blocks every entry of its
  direction.
- A duplicate POST /api/signals is answered 500, where the docs say 409
  (`routes/signals.py:83`, `:97`): `routes/signals.py:124` returns a
  `SignalDuplicateResponse` under `response_model=SignalAcceptedResponse`,
  which requires an `idempotency_key`.
- Every loop and request builds an adapter of its own (`main.py:97`,
  `order_poller.py:57`, `exit_watcher.py:44`, `pipeline.py:46`,
  `recovery_manager.py:48`, `routes/admin.py:321`), so the login that
  `TachibanaSession` shows shared is shared by the calls of one of them only.
- A reply to a new order without `sOrderNumber` is given the id "_".

## 8. Not modelled

Components without a module are in PROJECT.json with the reason: read-only
queries, logs, migrations (except 012 and 014), scripts, the front-end tests,
HTTP and encoding are pure I/O or set-up; of the management UI, symbol
settings, notifications and the audit log are single-row edits without
interplay. Values and formats (prices, profit, audit texts) are left out where
no property tells them apart: whether TP, SL or a time stop fires; execution
parameters of a plan; p_no and message layout of Tachibana. `cancel_order` is
never called. Scores of priority-2 notifications depend on floats that no
property reads. The poller's limit of 50 is not modelled: a queue longer than
the limit would only show the limit itself.

## 9. Plan

What is left, most valuable first.

1. The exits under `pricedClose`, with a CLOSED position that has a live exit as
   a state of its own: the proofs of NoOversell and OversellHasCause without
   that exclusion. Under lost replies, how much can be sold at most.
2. One composition of intake and `EntryLifecycle`: from a key to at most one
   position, proved from `OnePipeline` and `PromiseIsKept`.
3. Exit policies and `unrealized_pnl`, as functions with their boundary cases,
   among them the fill without a price (`position_manager.py:376`).
4. Abstract specifications of the gate and of halts: what a signal may rely on
   when it passes.
