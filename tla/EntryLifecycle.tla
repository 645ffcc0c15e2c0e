--------------------------- MODULE EntryLifecycle ---------------------------
(***************************************************************************)
(* The opening half of a position's life: each accepted signal is run      *)
(* through SignalPipeline in a task and a database session of its own,     *)
(* RiskManager reads what the other tasks have committed so far,           *)
(* OrderRouter sends the order, OrderPoller turns a fill into a position,  *)
(* and RecoveryManager does so after a restart.                            *)
(*                                                                         *)
(* A signal has at most one order and an order at most one position, so    *)
(* the three tables are indexed by the signal.  signal, order and position *)
(* are what is committed; what a pipeline has flushed but not committed is *)
(* implied by its pc and lost with it.                                     *)
(***************************************************************************)
EXTENDS Integers, FiniteSets

CONSTANTS
  NSig,        (* bound: signals ever received                             *)
  TickerOf,    (* the ticker of each signal                                *)
  Qty,         (* shares of each order                                     *)
  MaxPos,      (* MAX_CONCURRENT_POSITIONS                                 *)
  MaxCrash,    (* bound: process crashes                                   *)
  Overlap,     (* may the pipelines of two signals overlap in time?        *)
  Faults       (* which of EntryFaults the environment may show            *)

(* apiError      place_order raises BrokerAPIError, the order sent or not  *)
(* lostCommit    the order is sent and the session ends without its commit *)
(* keyClash      two fills share one broker_execution_id                   *)
(* partialCancel the broker cancels an order that is partly filled         *)
(* stuck         an order shows no change for STUCK_ORDER_SEC              *)
(* unknownReply  a status query answers UNKNOWN                            *)
(* rejectReply   place_order returns status REJECTED instead of raising    *)
EntryFaults == {"apiError", "lostCommit", "keyClash", "partialCancel", "stuck",
                "unknownReply", "rejectReply"}

Sig == 1..NSig

ASSUME EntryConstants ==
  /\ NSig \in Nat \ {0} /\ Qty \in Nat \ {0} /\ MaxPos \in Nat \ {0}
  /\ MaxCrash \in Nat /\ Overlap \in BOOLEAN
  /\ DOMAIN TickerOf = Sig
  /\ Faults \subseteq EntryFaults

VARIABLES
  signal,      (* trade_signals rows: their status                         *)
  order,       (* entry orders rows: status, filled_quantity, broker id?   *)
  position,    (* positions rows: their status                             *)
  broker,      (* the broker's orders, by client_order_id                  *)
  pc,          (* where each signal's pipeline is                          *)
  mode,        (* "up", or "recovering" during RecoveryManager's run       *)
  rtodo,       (* orders recovery has still to reconcile                   *)
  crashes,
  seen         (* history, read by no action: the trades of its ticker     *)
               (* that a signal's risk queries could tell of               *)

vars == <<signal, order, position, broker, pc, mode, rtodo, crashes, seen>>

Live    == {"submitted", "partial", "unknown"}   \* _UNRESOLVED_STATUSES
Ended   == {"filled", "cancelled", "rejected"}
Held    == {"open", "closing"}
Running == {"max", "ticker", "orders", "sending", "sent"}

SignalStatus == {"absent", "received", "processing", "executed", "rejected", "failed"}
OrderRow     == [status: Live \cup Ended \cup {"none"}, filled: 0..Qty, id: BOOLEAN]
BrokerOrder  == [st: Ended \cup {"none", "working"}, filled: 0..Qty]

TypeOK ==
  /\ signal \in [Sig -> SignalStatus]
  /\ order \in [Sig -> OrderRow]
  /\ position \in [Sig -> Held \cup {"none", "closed"}]
  /\ broker \in [Sig -> BrokerOrder]
  /\ pc \in [Sig -> Running \cup {"idle", "screen", "done"}]
  /\ mode \in {"up", "recovering"}
  /\ rtodo \subseteq Sig
  /\ crashes \in 0..MaxCrash
  /\ seen \in [Sig -> SUBSET Sig]

Init ==
  /\ signal = [s \in Sig |-> "absent"]
  /\ order = [s \in Sig |-> [status |-> "none", filled |-> 0, id |-> FALSE]]
  /\ position = [s \in Sig |-> "none"]
  /\ broker = [s \in Sig |-> [st |-> "none", filled |-> 0]]
  /\ pc = [s \in Sig |-> "idle"]
  /\ mode = "up" /\ rtodo = {} /\ crashes = 0
  /\ seen = [s \in Sig |-> {}]

-----------------------------------------------------------------------------
(* SignalPipeline.                                                         *)

Goto(s, l) == pc' = [pc EXCEPT ![s] = l]
At(s, l)   == mode = "up" /\ pc[s] = l

SameTicker(s) == {q \in Sig \ {s} : TickerOf[q] = TickerOf[s]}

(* The signal is stored, 202 is returned and the task is scheduled.        *)
Receive(s) ==
  /\ At(s, "idle") /\ signal[s] = "absent"
  /\ \A q \in Sig : q < s => signal[q] # "absent"     \* numbered as received
  /\ signal' = [signal EXCEPT ![s] = "received"]
  /\ Goto(s, "screen")
  /\ UNCHANGED <<order, position, broker, mode, rtodo, crashes, seen>>

(* Every way the signal is turned down before any order exists: REJECTED.  *)
TurnDown(s) ==
  /\ signal' = [signal EXCEPT ![s] = "rejected"]
  /\ Goto(s, "done")
  /\ UNCHANGED <<order, position, broker, mode, rtodo, crashes>>

Pass(s, l) ==
  /\ Goto(s, l)
  /\ UNCHANGED <<signal, order, position, broker, mode, rtodo, crashes>>

(* The strategy gate, planning, and the risk checks that do not look at    *)
(* orders or positions: halt, market hours, balance, position size.  One   *)
(* of them may raise: nothing is stored and the signal stays RECEIVED.     *)
Screen(s) ==
  /\ At(s, "screen")
  /\ Overlap \/ \A q \in Sig \ {s} : pc[q] \notin Running
  /\ TurnDown(s) \/ Pass(s, "max") \/ Pass(s, "done")
  /\ UNCHANGED seen

OpenCount == Cardinality({q \in Sig : position[q] = "open"})

(* _check_max_positions counts OPEN rows; daily loss may turn down next.   *)
CheckMax(s) ==
  /\ At(s, "max")
  /\ IF OpenCount >= MaxPos THEN TurnDown(s) ELSE TurnDown(s) \/ Pass(s, "ticker")
  /\ UNCHANGED seen

See(s, Q) == seen' = [seen EXCEPT ![s] = @ \cup (SameTicker(s) \cap Q)]

(* A query of positions: it tells of every trade that has opened one.      *)
CheckTicker(s) ==
  /\ At(s, "ticker")
  /\ See(s, {q \in Sig : position[q] # "none"})
  /\ IF \E q \in SameTicker(s) : position[q] \in Held
     THEN TurnDown(s) ELSE Pass(s, "orders")

(* Mutant: UNKNOWN orders do not block.                                    *)
BlindUnresolved(s) ==
  \E q \in SameTicker(s) : order[q].status \in Live \ {"unknown"}

Unresolved(s) == \E q \in SameTicker(s) : order[q].status \in Live

(* A query of orders: it tells of every trade that is still an order.      *)
CheckOrders(s) ==
  /\ At(s, "orders")
  /\ See(s, {q \in Sig : order[q].status # "none" /\ position[q] = "none"})
  /\ IF Unresolved(s) THEN TurnDown(s) ELSE Pass(s, "sending")

-----------------------------------------------------------------------------
(* OrderRouter.route.  Only this task ever routes this signal, so the      *)
(* Redis lock on the signal's id is always free and is left out.           *)

Send(s) == broker' = [broker EXCEPT ![s].st = "working"]

(* Mutant: PENDING kept, the status the router writes before it sends.     *)
StorePending(s, st, id) ==
  order' = [order EXCEPT ![s] = [status |-> "pending", filled |-> 0, id |-> id]]

Store(s, st, id) ==
  order' = [order EXCEPT ![s] = [status |-> st, filled |-> 0, id |-> id]]

(* place_order returns: the broker has the order, nothing is committed.    *)
PlaceAccepted(s) ==
  /\ At(s, "sending")
  /\ Send(s) /\ Goto(s, "sent")
  /\ UNCHANGED <<signal, order, position, mode, rtodo, crashes, seen>>

Commit(s) ==
  /\ At(s, "sent")
  /\ Store(s, "submitted", TRUE)
  /\ signal' = [signal EXCEPT ![s] = "processing"]
  /\ Goto(s, "done")
  /\ UNCHANGED <<position, broker, mode, rtodo, crashes, seen>>

(* BrokerAPIError: SUBMITTED without a broker_order_id.                    *)
PlaceUncertain(s) ==
  /\ At(s, "sending") /\ "apiError" \in Faults
  /\ Send(s) \/ UNCHANGED broker
  /\ Store(s, "submitted", FALSE)
  /\ signal' = [signal EXCEPT ![s] = "processing"]
  /\ Goto(s, "done")
  /\ UNCHANGED <<position, mode, rtodo, crashes, seen>>

(* BrokerOrderError.                                                       *)
PlaceRefused(s) ==
  /\ At(s, "sending")
  /\ Store(s, "rejected", FALSE)
  /\ signal' = [signal EXCEPT ![s] = "failed"]
  /\ Goto(s, "done")
  /\ UNCHANGED <<position, broker, mode, rtodo, crashes, seen>>

(* A REJECTED answer is stored like any other: the signal stays PROCESSING. *)
PlaceRejected(s) ==
  /\ At(s, "sending") /\ "rejectReply" \in Faults
  /\ Store(s, "rejected", FALSE)
  /\ signal' = [signal EXCEPT ![s] = "processing"]
  /\ Goto(s, "done")
  /\ UNCHANGED <<position, broker, mode, rtodo, crashes, seen>>

(* Any other exception: the session closes without a commit and the signal *)
(* stays RECEIVED, its task over.                                          *)
RouteFails(s) ==
  /\ At(s, "sending") \/ (At(s, "sent") /\ "lostCommit" \in Faults)
  /\ Goto(s, "done")
  /\ UNCHANGED <<signal, order, position, broker, mode, rtodo, crashes, seen>>

-----------------------------------------------------------------------------
(* The broker, on its own.                                                 *)

BrokerOnly == UNCHANGED <<signal, order, position, pc, mode, rtodo, crashes, seen>>

Fill(s, n) ==
  /\ broker[s].st = "working" /\ broker[s].filled + n <= Qty
  /\ broker' = [broker EXCEPT
       ![s] = [st |-> IF @.filled + n = Qty THEN "filled" ELSE "working",
               filled |-> @.filled + n]]
  /\ BrokerOnly

End(s, st) ==
  /\ broker[s].st = "working"
  /\ broker[s].filled = 0 \/ (st = "cancelled" /\ "partialCancel" \in Faults)
  /\ broker' = [broker EXCEPT ![s].st = st]
  /\ BrokerOnly

(* Mutant: a partly filled order reported as FILLED.                       *)
ReportedEarly(s) ==
  IF broker[s].filled > 0 /\ broker[s].st = "working" THEN "filled" ELSE broker[s].st

Reported(s) ==
  IF broker[s].st # "working" THEN broker[s].st
  ELSE IF broker[s].filled = 0 THEN "submitted" ELSE "partial"

Replies(s) == {Reported(s)} \cup
              (IF "unknownReply" \in Faults THEN {"unknown"} ELSE {})

-----------------------------------------------------------------------------
(* Settling an entry order.  Nobody but the poller, or recovery alone      *)
(* after a restart, writes a committed order, so a reply is still current  *)
(* when it is stored and asking and storing are one step.                  *)

Mark(s, st, n) == order' = [order EXCEPT ![s].status = st, ![s].filled = n]

(* Mutant: the position is opened and the signal left as it was.           *)
OpenPositionOnly(s) ==
  /\ Mark(s, "filled", Qty)
  /\ position' = [position EXCEPT ![s] = "open"]
  /\ UNCHANGED signal

(* Mutant: what is new in the report stored as the cumulative quantity.    *)
OpenPositionDelta(s) ==
  /\ Mark(s, "filled", Qty - order[s].filled)
  /\ position' = [position EXCEPT ![s] = "open"]
  /\ signal' = [signal EXCEPT ![s] = "executed"]

(* The order FILLED, the position and the signal EXECUTED in one commit.   *)
OpenPosition(s) ==
  /\ Mark(s, "filled", Qty)
  /\ position' = [position EXCEPT ![s] = "open"]
  /\ signal' = [signal EXCEPT ![s] = "executed"]

(* PARTIAL, CANCELLED, REJECTED and UNKNOWN touch the order only: shares   *)
(* of a partly filled order that is then cancelled get no position.        *)
OrderOnly(s, r) ==
  /\ Mark(s, r, IF r = "partial" THEN broker[s].filled ELSE order[s].filled)
  /\ UNCHANGED <<position, signal>>

(* Mutant: the poller reads SUBMITTED orders only.                         *)
PolledSubmitted(s) == order[s].status = "submitted"

(* Mutant: the poller reads every order it ever sent.                      *)
PolledAlways(s) == order[s].status # "none"

Polled(s) == order[s].status \in {"submitted", "partial"}

Poll(s) ==
  /\ mode = "up" /\ Polled(s) /\ order[s].id
  /\ \E r \in Replies(s) :
       \/ r # order[s].status /\ r = "filled" /\ OpenPosition(s)
       \/ r # order[s].status /\ r # "filled" /\ OrderOnly(s, r)
       \/ r = order[s].status /\ "stuck" \in Faults /\ OrderOnly(s, "unknown")
       \/ \* the fill's broker_execution_id is stored already: no position
          /\ r # order[s].status /\ r = "filled" /\ "keyClash" \in Faults
          /\ Mark(s, "filled", Qty) /\ UNCHANGED <<position, signal>>
  /\ UNCHANGED <<broker, pc, mode, rtodo, crashes, seen>>

(* _handle_no_broker_id: an hour without an id turns the order UNKNOWN (no *)
(* clock here: the hour may already be over).                              *)
PollNoId(s) ==
  /\ mode = "up" /\ Polled(s) /\ ~ order[s].id
  /\ OrderOnly(s, "unknown")
  /\ UNCHANGED <<broker, pc, mode, rtodo, crashes, seen>>

-----------------------------------------------------------------------------
(* The exit half, as this module sees it (module ExitLifecycle).           *)
ExitStep(s) ==
  /\ mode = "up" /\ position[s] \in Held
  /\ position' = [position EXCEPT ![s] = IF @ = "open" THEN "closing" ELSE "closed"]
  /\ UNCHANGED <<signal, order, broker, pc, mode, rtodo, crashes, seen>>

ExitReverts(s) ==
  /\ mode = "up" /\ position[s] = "closing"
  /\ position' = [position EXCEPT ![s] = "open"]
  /\ UNCHANGED <<signal, order, broker, pc, mode, rtodo, crashes, seen>>

-----------------------------------------------------------------------------
(* The process dies: background tasks are gone with their sessions, and    *)
(* nothing looks for RECEIVED signals at the next start.                   *)
Crash ==
  /\ crashes < MaxCrash
  /\ "lostCommit" \in Faults \/ \A s \in Sig : pc[s] # "sent"
  /\ crashes' = crashes + 1
  /\ pc' = [s \in Sig |-> IF pc[s] = "idle" THEN "idle" ELSE "done"]
  /\ mode' = "recovering"
  /\ rtodo' = {s \in Sig : order[s].status \in Live}
  /\ UNCHANGED <<signal, order, position, broker, seen>>

(* The order has no id, the query raises, the status is unchanged, or it   *)
(* is SUBMITTED for an order stored otherwise.                             *)
RecoverSkips(s) ==
  /\ mode = "recovering" /\ s \in rtodo
  /\ rtodo' = rtodo \ {s}
  /\ UNCHANGED <<signal, order, position, broker, pc, mode, crashes, seen>>

(* Recovery opens the position even if the execution is stored already.    *)
RecoverOrder(s) ==
  /\ mode = "recovering" /\ s \in rtodo /\ order[s].id
  /\ \E r \in Replies(s) \ {order[s].status, "submitted"} :
       IF r = "filled" THEN OpenPosition(s) ELSE OrderOnly(s, r)
  /\ rtodo' = rtodo \ {s}
  /\ UNCHANGED <<broker, pc, mode, crashes, seen>>

RecoveryDone ==
  /\ mode = "recovering" /\ rtodo = {}
  /\ mode' = "up"
  /\ UNCHANGED <<signal, order, position, broker, pc, rtodo, crashes, seen>>

-----------------------------------------------------------------------------
Place(s) ==
  \/ PlaceAccepted(s) \/ PlaceUncertain(s) \/ PlaceRefused(s)
  \/ PlaceRejected(s) \/ RouteFails(s)

Pipeline(s) ==
  Screen(s) \/ CheckMax(s) \/ CheckTicker(s) \/ CheckOrders(s) \/ Place(s) \/ Commit(s)

BrokerActs(s) ==
  End(s, "cancelled") \/ End(s, "rejected") \/ \E n \in 1..Qty : Fill(s, n)

Recover(s) == RecoverSkips(s) \/ RecoverOrder(s)

Next ==
  \/ \E s \in Sig :
       \/ Receive(s) \/ Pipeline(s) \/ BrokerActs(s)
       \/ Poll(s) \/ PollNoId(s) \/ ExitStep(s) \/ ExitReverts(s) \/ Recover(s)
  \/ Crash \/ RecoveryDone

Spec == Init /\ [][Next]_vars

(* asyncio runs every scheduled task on, the poller's loop asks again every *)
(* five seconds (its 50 orders a cycle are all there are), the broker ends  *)
(* every order it works on.  Nothing makes a signal arrive or a position    *)
(* close.                                                                   *)
Fairness ==
  /\ \A s \in Sig : WF_vars(Pipeline(s)) /\ WF_vars(BrokerActs(s))
                    /\ WF_vars(Poll(s)) /\ WF_vars(PollNoId(s))
                    /\ WF_vars(Recover(s))
  /\ WF_vars(RecoveryDone)

FairSpec == Spec /\ Fairness
-----------------------------------------------------------------------------
(* Properties.                                                             *)

(* A signal is EXECUTED exactly when its position exists, and only for a   *)
(* FILLED order, through crashes, stuck orders and lost replies: the three *)
(* tables never disagree about a trade.                                    *)
ExecutedIffPosition ==
  \A s \in Sig : /\ signal[s] = "executed" <=> position[s] # "none"
                 /\ position[s] # "none" => order[s].status = "filled"

(* A position holds what the broker filled, in full: no position is opened *)
(* on a partial, stale or lost report.                                     *)
PositionIsBacked ==
  \A s \in Sig : position[s] # "none" =>
    broker[s].st = "filled" /\ order[s].filled = broker[s].filled

(* Two trades of one ticker are never live at a time when the checks of    *)
(* either could tell of the other: an order that is SUBMITTED, PARTIAL or  *)
(* UNKNOWN when the orders are read, or a position that is OPEN or CLOSING *)
(* when the positions are, keeps the ticker until the trade is over, over  *)
(* polls, crashes and recovery.  What is left are the trades the queries   *)
(* miss: of a pipeline between its checks and its commit, or of a fill     *)
(* that is booked between the two queries.                                 *)
InTrade(s) == order[s].status \in Live \/ position[s] \in Held

DoublesWereUnseen ==
  \A s \in Sig : \A q \in SameTicker(s) : InTrade(s) /\ InTrade(q) => q \notin seen[s]

(* An order that has ended is never written again.                         *)
EndedIsFinal ==
  [][\A s \in Sig : order[s].status \in Ended => order'[s] = order[s]]_vars

(* Every fill the broker completes opens a position, across restarts, when *)
(* no fault hides the order.                                               *)
FillOpensPosition ==
  \A s \in Sig : (broker[s].st = "filled") ~> (position[s] # "none")

(* An order that is asked about comes to an end.                           *)
OrderEnds == \A s \in Sig : (order[s].status \in Live) ~> (order[s].status \in Ended)

(* "The cap on concurrently held positions".                               *)
HeldWithinLimit == Cardinality({s \in Sig : position[s] \in Held}) <= MaxPos

(* "At most one open position per ticker".                                 *)
OnePositionPerTicker ==
  \A s \in Sig : position[s] = "open" => \A q \in SameTicker(s) : position[q] # "open"

(* "OrderPoller or RecoveryManager completes it": the signal of an order   *)
(* whose sending was uncertain leaves PROCESSING.                          *)
UncertainSignalSettles ==
  \A s \in Sig : (signal[s] = "processing" /\ ~ order[s].id)
                   ~> (signal[s] \in {"executed", "rejected", "failed"})
=============================================================================
