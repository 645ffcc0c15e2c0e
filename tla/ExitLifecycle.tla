---------------------------- MODULE ExitLifecycle ----------------------------
(***************************************************************************)
(* The closing half of a position's life: ExitWatcher and the admin API    *)
(* start exits (PositionManager.initiate_exit), OrderPoller settles them,  *)
(* RecoveryManager settles them again after a restart, and the broker      *)
(* fills, cancels or refuses the exit orders on its own.                   *)
(*                                                                         *)
(* position, order and broker are what has been committed to PostgreSQL    *)
(* and what the broker knows.  What a database session has written but not *)
(* committed lives in that session's own variable (sess, leftover) until   *)
(* its commit step; a crash or an error drops it.                          *)
(***************************************************************************)
EXTENDS Integers, FiniteSets

CONSTANTS
  NPos,        (* positions, numbered in opened_at order                   *)
  NOrd,        (* bound: exit orders ever created                          *)
  Qty,         (* shares of each position                                  *)
  MaxCrash,    (* bound: process crashes                                   *)
  Watcher,     (* the ExitWatcher's session                                *)
  Clients,     (* concurrent admin requests                                *)
  Faults       (* which of AllFaults the environment may show              *)

(* lostReply     place_order reaches the broker and still raises           *)
(* crashInFlight the process dies between the broker's answer and commit   *)
(* pricedClose   an operator closes a position with a known price          *)
(* keyClash      two fills share one broker_execution_id                   *)
(* partialCancel the broker cancels an order that is partly filled         *)
(* stuck         an order shows no change for STUCK_ORDER_SEC              *)
(* unknownReply  a status query answers UNKNOWN                            *)
(* rejectReply   place_order returns status REJECTED instead of raising    *)
AllFaults == {"lostReply", "crashInFlight", "pricedClose", "keyClash",
              "partialCancel", "stuck", "unknownReply", "rejectReply"}

ASSUME ExitConstants ==
  /\ NPos \in Nat \ {0} /\ NOrd \in Nat \ {0} /\ Qty \in Nat \ {0}
  /\ MaxCrash \in Nat
  /\ Watcher \notin Clients
  /\ Faults \subseteq AllFaults

VARIABLES
  position,    (* positions rows: status, remaining_qty, TradeResult stored *)
  order,       (* exit orders rows: status, position, filled_quantity, id   *)
  broker,      (* the broker's orders, by client_order_id                   *)
  sess,        (* each session's initiate_exit in progress                  *)
  todo,        (* the watcher's cycle: positions still to evaluate          *)
  leftover,    (* exits that failed to send in this cycle, uncommitted      *)
  poll,        (* the poller's cycle and the order it is working on         *)
  mode,        (* "up", or "recovering" during RecoveryManager's run        *)
  rtodo,       (* orders recovery has still to reconcile                    *)
  crashes

vars == <<position, order, broker, sess, todo, leftover, poll, mode, rtodo,
          crashes>>

Pos   == 1..NPos
Oid   == 1..NOrd
Actor == Clients \cup {Watcher}
None  == -1                       \* remaining_qty NULL

Live    == {"submitted", "partial", "unknown"}
Active  == Live \cup {"pending"}  \* the statuses of the partial unique index
OrderStatus == Active \cup {"none", "filled", "cancelled", "rejected", "failed"}
BrokerStatus == {"none", "working", "filled", "cancelled", "rejected"}

NoOrder  == [status |-> "none", pos |-> 0, filled |-> 0, sent |-> FALSE]
NoBroker == [st |-> "none", pos |-> 0, filled |-> 0]
IdleSess == [pc |-> "idle", at |-> 0, oid |-> 0]
IdlePoll == [pc |-> "idle", todo |-> {}, oid |-> 0, reply |-> "none", seen |-> 0,
             pst |-> "none"]

PositionRow == [status: {"open", "closing", "closed"},
                remaining: {None} \cup 0..Qty, result: BOOLEAN]
OrderRow    == [status: OrderStatus, pos: 0..NPos, filled: 0..Qty, sent: BOOLEAN]
BrokerOrder == [st: BrokerStatus, pos: 0..NPos, filled: 0..Qty]
Session     == [pc: {"idle", "read", "sending", "sent", "refused"},
                at: 0..NPos, oid: 0..NOrd]
PollState   == [pc: {"idle", "cycle", "asked", "loaded"}, todo: SUBSET Oid,
                oid: 0..NOrd, seen: 0..Qty,
                reply: {"none"} \cup Live \cup {"filled", "cancelled", "rejected"},
                pst: {"none", "open", "closing", "closed"}]

TypeOK ==
  /\ position \in [Pos -> PositionRow]
  /\ order \in [Oid -> OrderRow]
  /\ broker \in [Oid -> BrokerOrder]
  /\ sess \in [Actor -> Session]
  /\ todo \subseteq Pos
  /\ leftover \subseteq [pos: Pos, oid: Oid]
  /\ poll \in PollState
  /\ mode \in {"up", "recovering"}
  /\ rtodo \subseteq Oid
  /\ crashes \in 0..MaxCrash

Init ==
  /\ position = [p \in Pos |-> [status |-> "open", remaining |-> None,
                                result |-> FALSE]]
  /\ order = [o \in Oid |-> NoOrder]
  /\ broker = [o \in Oid |-> NoBroker]
  /\ sess = [x \in Actor |-> IdleSess]
  /\ todo = {} /\ leftover = {}
  /\ poll = IdlePoll
  /\ mode = "up" /\ rtodo = {} /\ crashes = 0

-----------------------------------------------------------------------------
(* Shared by both callers of initiate_exit.                                *)

InFlight(x) == sess[x].pc \in {"sending", "sent", "refused"}

(* Another transaction holds the row of p: PostgreSQL makes an UPDATE wait. *)
RowLocked(p) ==
  \/ \E x \in Actor : InFlight(x) /\ sess[x].at = p
  \/ \E f \in leftover : f.pos = p

HasActive(p) == \E o \in Oid : order[o].pos = p /\ order[o].status \in Active

Unused(o) ==
  /\ order[o].status = "none" /\ broker[o].st = "none"
  /\ \A x \in Actor : sess[x].oid # o
  /\ \A f \in leftover : f.oid # o

(* A new order's id: the least unused one stands for a fresh uuid.         *)
FreshId(o) == Unused(o) /\ \A q \in Oid : Unused(q) => o <= q

Busy(x) == IF x = Watcher THEN sess[x].pc = "idle" /\ todo # {}
                          ELSE sess[x].pc = "read"

(* Where a session goes when initiate_exit has returned or raised.         *)
Idle(x) == sess' = [sess EXCEPT ![x] = IdleSess]

(* The watcher evaluates its positions in opened_at order.                 *)
Target(x, p) == IF x = Watcher THEN p \in todo /\ \A q \in todo : p <= q
                               ELSE p = sess[x].at

Visited(x, p) == IF x = Watcher THEN todo \ {p} ELSE todo

(* Mutant: the UPDATE without its WHERE status = OPEN.                     *)
AnyClaim(p) == TRUE

(* The row-level compare-and-set of initiate_exit: only an OPEN row moves. *)
CanClaim(p) == position[p].status = "open"

(* The flush that inserts the exit order: at most one active row a position *)
IndexAllows(p) == ~ HasActive(p)

(* initiate_exit up to the broker call: the row is claimed, the exit order *)
(* flushed, nothing committed.                                             *)
BeginExit(x, p, o) ==
  /\ mode = "up" /\ Busy(x) /\ Target(x, p)
  /\ ~ RowLocked(p)
  /\ CanClaim(p) /\ IndexAllows(p) /\ FreshId(o)
  /\ sess' = [sess EXCEPT ![x] = [pc |-> "sending", at |-> p, oid |-> o]]
  /\ todo' = Visited(x, p)
  /\ UNCHANGED <<position, order, broker, leftover, poll, mode, rtodo, crashes>>

(* The row was no longer OPEN: initiate_exit returns None.                 *)
LoseRace(x, p) ==
  /\ mode = "up" /\ Busy(x) /\ Target(x, p)
  /\ ~ RowLocked(p) /\ ~ CanClaim(p)
  /\ Idle(x)
  /\ todo' = Visited(x, p)
  /\ UNCHANGED <<position, order, broker, leftover, poll, mode, rtodo, crashes>>

(* The unique index refuses the exit order.  The flush inside              *)
(* record_exit_transition raises, so the handler written for this case is  *)
(* not reached: the exception leaves initiate_exit and the session cannot  *)
(* be used again.  An admin request rolls back; the watcher's cycle fails  *)
(* for every later position and its uncommitted writes are gone.           *)
IndexRefuses(x, p) ==
  /\ mode = "up" /\ Busy(x) /\ Target(x, p)
  /\ ~ RowLocked(p) /\ CanClaim(p) /\ ~ IndexAllows(p)
  /\ Idle(x)
  /\ IF x = Watcher THEN todo' = {} /\ leftover' = {}
                    ELSE UNCHANGED <<todo, leftover>>
  /\ UNCHANGED <<position, order, broker, poll, mode, rtodo, crashes>>

(* place_order returns: the broker has the order.                          *)
PlaceAccepted(x) ==
  /\ mode = "up" /\ sess[x].pc = "sending"
  /\ broker' = [broker EXCEPT ![sess[x].oid] =
                  [st |-> "working", pos |-> sess[x].at, filled |-> 0]]
  /\ sess' = [sess EXCEPT ![x].pc = "sent"]
  /\ UNCHANGED <<position, order, todo, leftover, poll, mode, rtodo, crashes>>

(* place_order returns status REJECTED (MockBroker REJECT_IMMEDIATELY).    *)
PlaceRefused(x) ==
  /\ mode = "up" /\ sess[x].pc = "sending"
  /\ "rejectReply" \in Faults
  /\ broker' = [broker EXCEPT ![sess[x].oid] =
                  [st |-> "rejected", pos |-> sess[x].at, filled |-> 0]]
  /\ sess' = [sess EXCEPT ![x].pc = "refused"]
  /\ UNCHANGED <<position, order, todo, leftover, poll, mode, rtodo, crashes>>

(* place_order raises, with or without the order having reached the broker. *)
(* The position object goes back to OPEN and the exception propagates: an  *)
(* admin request rolls everything back, the watcher's session keeps the    *)
(* position row and the PENDING exit order for its next commit.            *)
PlaceRaises(x) ==
  /\ mode = "up" /\ sess[x].pc = "sending"
  /\ \/ UNCHANGED broker
     \/ /\ "lostReply" \in Faults
        /\ broker' = [broker EXCEPT ![sess[x].oid] =
                        [st |-> "working", pos |-> sess[x].at, filled |-> 0]]
  /\ leftover' = IF x = Watcher
                 THEN leftover \cup {[pos |-> sess[x].at, oid |-> sess[x].oid]}
                 ELSE leftover
  /\ Idle(x)
  /\ UNCHANGED <<position, order, todo, poll, mode, rtodo, crashes>>

(* What the session's commit writes: the claimed row and its exit order,   *)
(* and every earlier failed exit of the same cycle.                        *)
Pending(fs) == {f.oid : f \in fs}

PositionsAfter(claimed, fs) ==
  [p \in Pos |->
     IF p \in claimed
     THEN [position[p] EXCEPT !.status = "closing", !.remaining = Qty]
     ELSE IF \E f \in fs : f.pos = p
     THEN [position[p] EXCEPT !.remaining = Qty]
     ELSE position[p]]

OrdersAfter(fs) ==
  [o \in Oid |->
     IF o \in Pending(fs)
     THEN [status |-> "pending", filled |-> 0, sent |-> FALSE,
           pos |-> (CHOOSE f \in fs : f.oid = o).pos]
     ELSE order[o]]

Leftover(x) == IF x = Watcher THEN leftover ELSE {}

CommitExit(x) ==
  /\ mode = "up" /\ sess[x].pc \in {"sent", "refused"}
  /\ position' = PositionsAfter({sess[x].at}, Leftover(x))
  /\ order' = [OrdersAfter(Leftover(x)) EXCEPT ![sess[x].oid] =
                 [status |-> IF sess[x].pc = "sent" THEN "submitted" ELSE "rejected",
                  pos |-> sess[x].at, filled |-> 0, sent |-> sess[x].pc = "sent"]]
  /\ leftover' = leftover \ Leftover(x)
  /\ Idle(x)
  /\ UNCHANGED <<broker, todo, poll, mode, rtodo, crashes>>

-----------------------------------------------------------------------------
(* ExitWatcher: one cycle over the OPEN positions, in one session.         *)

WatchBegin ==
  /\ mode = "up" /\ sess[Watcher].pc = "idle" /\ todo = {} /\ leftover = {}
  /\ todo' = {p \in Pos : position[p].status = "open"}
  /\ UNCHANGED <<position, order, broker, sess, leftover, poll, mode, rtodo,
                 crashes>>

(* No policy fires for the position.                                       *)
WatchSkip(p) ==
  /\ mode = "up" /\ Busy(Watcher) /\ Target(Watcher, p)
  /\ todo' = todo \ {p}
  /\ UNCHANGED <<position, order, broker, sess, leftover, poll, mode, rtodo,
                 crashes>>

(* The commit at the end of the cycle also stores the failed exits.        *)
WatchEnd ==
  /\ mode = "up" /\ sess[Watcher].pc = "idle" /\ todo = {} /\ leftover # {}
  /\ position' = PositionsAfter({}, leftover)
  /\ order' = OrdersAfter(leftover)
  /\ leftover' = {}
  /\ UNCHANGED <<broker, sess, todo, poll, mode, rtodo, crashes>>

-----------------------------------------------------------------------------
(* POST /positions/{id}/close: the request reads the row, then closes it   *)
(* with an exit order (BeginExit) or, given a price, directly.             *)

ApiRead(x, p) ==
  /\ mode = "up" /\ x \in Clients /\ sess[x].pc = "idle"
  /\ position[p].status = "open"
  /\ sess' = [sess EXCEPT ![x] = [pc |-> "read", at |-> p, oid |-> 0]]
  /\ UNCHANGED <<position, order, broker, todo, leftover, poll, mode, rtodo,
                 crashes>>

(* close_position tests the object it read, then overwrites the row        *)
(* whatever it holds now; a second TradeResult breaks its unique key.      *)
ApiClose(x) ==
  /\ "pricedClose" \in Faults
  /\ mode = "up" /\ x \in Clients /\ sess[x].pc = "read"
  /\ ~ RowLocked(sess[x].at)
  /\ position' = IF position[sess[x].at].result THEN position
                 ELSE [position EXCEPT ![sess[x].at].status = "closed",
                                       ![sess[x].at].result = TRUE]
  /\ Idle(x)
  /\ UNCHANGED <<order, broker, todo, leftover, poll, mode, rtodo, crashes>>

-----------------------------------------------------------------------------
(* The broker, on its own.                                                 *)

Fill(o, n) ==
  /\ broker[o].st = "working" /\ broker[o].filled + n <= Qty
  /\ broker' = [broker EXCEPT
       ![o].filled = @ + n,
       ![o].st = IF broker[o].filled + n = Qty THEN "filled" ELSE "working"]
  /\ UNCHANGED <<position, order, sess, todo, leftover, poll, mode, rtodo, crashes>>

Cancel(o) ==
  /\ broker[o].st = "working"
  /\ broker[o].filled = 0 \/ "partialCancel" \in Faults
  /\ broker' = [broker EXCEPT ![o].st = "cancelled"]
  /\ UNCHANGED <<position, order, sess, todo, leftover, poll, mode, rtodo, crashes>>

Refuse(o) ==
  /\ broker[o].st = "working" /\ broker[o].filled = 0
  /\ broker' = [broker EXCEPT ![o].st = "rejected"]
  /\ UNCHANGED <<position, order, sess, todo, leftover, poll, mode, rtodo, crashes>>

(* Mutant: a partly filled order reported as FILLED.                       *)
ReportedEarly(o) ==
  CASE broker[o].st = "working" -> IF broker[o].filled = 0 THEN "submitted" ELSE "filled"
    [] broker[o].st = "none"    -> "unknown"
    [] OTHER                    -> broker[o].st

(* The status get_order_status reports.                                    *)
Reported(o) ==
  CASE broker[o].st = "working" -> IF broker[o].filled = 0 THEN "submitted"
                                                           ELSE "partial"
    [] broker[o].st = "none"    -> "unknown"
    [] OTHER                    -> broker[o].st

Replies(o) == {Reported(o)} \cup
              (IF "unknownReply" \in Faults THEN {"unknown"} ELSE {})

(* Is the last fill's broker_execution_id already stored?  Only a key      *)
(* collision makes it so for a fill that has not been recorded.            *)
Duplicates(delta) == IF delta > 0 /\ "keyClash" \in Faults THEN BOOLEAN ELSE {FALSE}

-----------------------------------------------------------------------------
(* Settling an exit order, shared by the poller and by recovery.           *)

(* apply_exit_execution, clamped at zero.                                  *)
Remaining(p, n) ==
  LET before == IF position[p].remaining = None THEN Qty ELSE position[p].remaining
  IN  IF n > before THEN 0 ELSE before - n

Flat(p, n) == IF n > 0 THEN Remaining(p, n) = 0 ELSE position[p].remaining = 0

(* Mutant: the cumulative quantity of a report added to the stored one.    *)
SetOrderAdding(o, st, n) == [order EXCEPT ![o].status = st, ![o].filled = @ + n]

SetOrder(o, st, n) == [order EXCEPT ![o].status = st, ![o].filled = n]

(* Mutant: the order ends and the position is forgotten.                   *)
NeverReverted(o, pst) == position

(* revert_to_open, on the position as the session last read it.            *)
Reverted(o, pst) ==
  IF pst = "closing" THEN [position EXCEPT ![order[o].pos].status = "open"]
                     ELSE position

(* Mutant: the cumulative quantity instead of what is new.                 *)
PartlyFilledCumulative(o, n, dup, pst) ==
  /\ order' = SetOrder(o, "partial", n)
  /\ position' = IF n > 0 /\ pst = "closing"
                 THEN [position EXCEPT ![order[o].pos].remaining =
                                         Remaining(order[o].pos, n)]
                 ELSE position

(* A PARTIAL report: record what is new, reduce remaining_qty.             *)
PartlyFilled(o, n, dup, pst) ==
  LET p == order[o].pos
      delta == IF dup THEN 0 ELSE n - order[o].filled
  IN  /\ order' = SetOrder(o, "partial", n)
      /\ position' = IF delta > 0 /\ pst = "closing"
                     THEN [position EXCEPT ![p].remaining = Remaining(p, delta)]
                     ELSE position

(* Mutant: the position is closed and its TradeResult forgotten.           *)
FullyFilledNoResult(o, delta, pst) ==
  LET p == order[o].pos
  IN  /\ order' = SetOrder(o, "filled", Qty)
      /\ position' = IF pst = "closing" /\ Flat(p, delta)
                     THEN [position EXCEPT ![p].status = "closed"] ELSE position

(* finalize_exit, or the CLOSING position kept when shares remain.         *)
FullyFilled(o, delta, pst) ==
  LET p == order[o].pos
  IN  /\ order' = SetOrder(o, "filled", Qty)
      /\ position' =
           IF pst # "closing" THEN position
           ELSE [position EXCEPT
                   ![p] = [status    |-> IF Flat(p, delta) THEN "closed" ELSE @.status,
                           remaining |-> IF delta > 0 THEN Remaining(p, delta)
                                                      ELSE @.remaining,
                           result    |-> @.result \/ Flat(p, delta)]]

-----------------------------------------------------------------------------
(* OrderPoller: one cycle over the SUBMITTED and PARTIAL orders.           *)

NextOrder == [IdlePoll EXCEPT !.pc = IF poll.todo \ {poll.oid} = {} THEN "idle"
                                                                   ELSE "cycle",
                              !.todo = poll.todo \ {poll.oid}]

PollBegin ==
  /\ mode = "up" /\ poll.pc = "idle"
  /\ poll' = [IdlePoll EXCEPT !.pc = "cycle",
                !.todo = {o \in Oid : order[o].status \in {"submitted", "partial"}}]
  /\ poll'.todo # {}
  /\ UNCHANGED <<position, order, broker, sess, todo, leftover, mode, rtodo, crashes>>

(* The status query is answered; or it raises and the order is left alone. *)
PollAsk(o) ==
  /\ mode = "up" /\ poll.pc = "cycle" /\ o \in poll.todo
  /\ \E r \in Replies(o) :
       poll' = [poll EXCEPT !.pc = "asked", !.oid = o, !.reply = r,
                            !.seen = broker[o].filled]
  /\ UNCHANGED <<position, order, broker, sess, todo, leftover, mode, rtodo, crashes>>

PollAskRaises(o) ==
  /\ mode = "up" /\ poll.pc = "cycle" /\ o \in poll.todo
  /\ poll' = [IdlePoll EXCEPT !.pc = IF poll.todo = {o} THEN "idle" ELSE "cycle",
                              !.todo = poll.todo \ {o}]
  /\ UNCHANGED <<position, order, broker, sess, todo, leftover, mode, rtodo, crashes>>

(* Mutant: a stuck exit order also gives its position back.                *)
PollUnchangedReopens ==
  /\ mode = "up" /\ poll.pc = "asked" /\ poll.reply = order[poll.oid].status
  /\ \/ UNCHANGED <<order, position>>
     \/ /\ "stuck" \in Faults
        /\ order' = [order EXCEPT ![poll.oid].status = "unknown"]
        /\ position' = [position EXCEPT ![order[poll.oid].pos].status = "open"]
  /\ poll' = NextOrder
  /\ UNCHANGED <<broker, sess, todo, leftover, mode, rtodo, crashes>>

(* The reply is the stored status: nothing is recorded, not even a further *)
(* partial fill, except that a stuck order turns UNKNOWN.  An UNKNOWN      *)
(* reply is stored as it is.  Neither reads the position.                  *)
PollUnchanged ==
  /\ mode = "up" /\ poll.pc = "asked"
  /\ \/ /\ poll.reply = order[poll.oid].status
        /\ UNCHANGED order
     \/ /\ poll.reply = order[poll.oid].status /\ "stuck" \in Faults
        /\ order' = [order EXCEPT ![poll.oid].status = "unknown"]
     \/ /\ poll.reply = "unknown"
        /\ order' = [order EXCEPT ![poll.oid].status = "unknown"]
  /\ poll' = NextOrder
  /\ UNCHANGED <<position, broker, sess, todo, leftover, mode, rtodo, crashes>>

(* The handler reads the position of the order.                            *)
PollLoad ==
  /\ mode = "up" /\ poll.pc = "asked"
  /\ poll.reply # "unknown" /\ poll.reply # order[poll.oid].status
  /\ poll' = [poll EXCEPT !.pc = "loaded",
                          !.pst = position[order[poll.oid].pos].status]
  /\ UNCHANGED <<position, order, broker, sess, todo, leftover, mode, rtodo, crashes>>

PollPartial ==
  /\ mode = "up" /\ poll.pc = "loaded" /\ poll.reply = "partial"
  /\ \E dup \in Duplicates(poll.seen - order[poll.oid].filled) :
       PartlyFilled(poll.oid, poll.seen, dup, poll.pst)
  /\ poll' = NextOrder
  /\ UNCHANGED <<broker, sess, todo, leftover, mode, rtodo, crashes>>

(* The second TradeResult of a position breaks its unique key: the whole   *)
(* transaction is lost and so is the rest of the cycle.                    *)
ResultClash(o, delta, pst) ==
  /\ pst = "closing" /\ Flat(order[o].pos, delta) /\ position[order[o].pos].result

PollFilled ==
  /\ mode = "up" /\ poll.pc = "loaded" /\ poll.reply = "filled"
  /\ LET delta == Qty - order[poll.oid].filled
     IN  \/ /\ ~ ResultClash(poll.oid, delta, poll.pst)
            /\ FullyFilled(poll.oid, delta, poll.pst)
            /\ poll' = NextOrder
         \/ /\ ResultClash(poll.oid, delta, poll.pst)
            /\ poll' = IdlePoll
            /\ UNCHANGED <<position, order>>
         \/ \* the execution id is already stored: FILLED, and nothing else
            /\ TRUE \in Duplicates(delta)
            /\ order' = SetOrder(poll.oid, "filled", Qty)
            /\ poll' = NextOrder
            /\ UNCHANGED position
  /\ UNCHANGED <<broker, sess, todo, leftover, mode, rtodo, crashes>>

(* CANCELLED and REJECTED: the order ends and a CLOSING position reopens.  *)
PollEnded ==
  /\ mode = "up" /\ poll.pc = "loaded" /\ poll.reply \in {"cancelled", "rejected"}
  /\ order' = [order EXCEPT ![poll.oid].status = poll.reply]
  /\ position' = Reverted(poll.oid, poll.pst)
  /\ poll' = NextOrder
  /\ UNCHANGED <<broker, sess, todo, leftover, mode, rtodo, crashes>>

-----------------------------------------------------------------------------
(* The process dies: every session's uncommitted work is lost.  The next   *)
(* start runs RecoveryManager before it accepts requests or starts loops.  *)

Crash ==
  /\ crashes < MaxCrash
  /\ "crashInFlight" \in Faults \/ \A x \in Actor : sess[x].pc \notin {"sent", "refused"}
  /\ crashes' = crashes + 1
  /\ sess' = [x \in Actor |-> IdleSess]
  /\ todo' = {} /\ leftover' = {}
  /\ poll' = IdlePoll
  /\ mode' = "recovering"
  /\ rtodo' = {o \in Oid : order[o].status \in Active}
  /\ UNCHANGED <<position, order, broker>>

(* One order of the recovery run.  Nothing else runs meanwhile, so reading *)
(* the order, asking the broker and writing are one step.  The code        *)
(* commits at the end of the run and inside finalize_exit; a crash between *)
(* two orders leaves the same rows as a run that skipped the later ones.   *)
RecoverPending(o) ==
  /\ mode = "recovering" /\ o \in rtodo /\ order[o].status = "pending"
  /\ order' = [order EXCEPT ![o].status = "failed"]
  /\ rtodo' = rtodo \ {o}
  /\ UNCHANGED <<position, broker, sess, todo, leftover, poll, mode, crashes>>

(* The query raises, the status has not changed, or it is one recovery has *)
(* no branch for (SUBMITTED on an order stored as PARTIAL or UNKNOWN).     *)
RecoverSkips(o) ==
  /\ mode = "recovering" /\ o \in rtodo /\ order[o].status # "pending"
  /\ rtodo' = rtodo \ {o}
  /\ UNCHANGED <<position, order, broker, sess, todo, leftover, poll, mode, crashes>>

RecoverReply(o, r) ==
  LET pst == position[order[o].pos].status
      n   == broker[o].filled
  IN  /\ r # order[o].status
      /\ \/ /\ r = "filled"
            /\ \E dup \in Duplicates(n - order[o].filled) :
                 LET delta == IF dup THEN 0 ELSE n - order[o].filled
                 IN  IF ResultClash(o, delta, pst)
                     THEN UNCHANGED <<position, order>>
                     ELSE FullyFilled(o, delta, pst)
         \/ /\ r = "partial"
            /\ \E dup \in Duplicates(n - order[o].filled) : PartlyFilled(o, n, dup, pst)
         \/ /\ r \in {"cancelled", "rejected"}
            /\ order' = [order EXCEPT ![o].status = r]
            /\ position' = Reverted(o, pst)
         \/ /\ r = "unknown"
            /\ order' = [order EXCEPT ![o].status = "unknown"]
            /\ UNCHANGED position

RecoverOrder(o) ==
  /\ mode = "recovering" /\ o \in rtodo /\ order[o].status \in Live
  /\ \E r \in Replies(o) : RecoverReply(o, r)
  /\ rtodo' = rtodo \ {o}
  /\ UNCHANGED <<broker, sess, todo, leftover, poll, mode, crashes>>

RecoveryDone ==
  /\ mode = "recovering" /\ rtodo = {}
  /\ mode' = "up"
  /\ UNCHANGED <<position, order, broker, sess, todo, leftover, poll, rtodo, crashes>>

-----------------------------------------------------------------------------
Exits(x) ==
  \/ \E p \in Pos, o \in Oid : BeginExit(x, p, o)
  \/ \E p \in Pos : LoseRace(x, p) \/ IndexRefuses(x, p)
  \/ PlaceAccepted(x) \/ PlaceRefused(x) \/ PlaceRaises(x) \/ CommitExit(x)

Watch == WatchBegin \/ WatchEnd \/ \E p \in Pos : WatchSkip(p)

Api == \E x \in Clients : ApiClose(x) \/ \E p \in Pos : ApiRead(x, p)

Poll ==
  \/ PollBegin \/ \E o \in Oid : PollAsk(o) \/ PollAskRaises(o)
  \/ PollUnchanged \/ PollLoad \/ PollPartial \/ PollFilled \/ PollEnded

Broker == \E o \in Oid : Cancel(o) \/ Refuse(o) \/ \E n \in 1..Qty : Fill(o, n)

Recovery ==
  \/ \E o \in Oid : RecoverPending(o) \/ RecoverSkips(o) \/ RecoverOrder(o)
  \/ RecoveryDone

Next ==
  \/ \E x \in Actor : Exits(x)
  \/ Watch \/ Api \/ Poll \/ Broker \/ Crash \/ Recovery

Spec == Init /\ [][Next]_vars

(* asyncio keeps running the poller's loop, a request or a cycle that has  *)
(* reached the broker call, and the recovery run; a status query does not  *)
(* fail for ever; the broker ends every order it works on.  Nothing makes  *)
(* a policy fire or an operator act.                                       *)
Fairness ==
  /\ \A x \in Actor : WF_vars(PlaceAccepted(x) \/ PlaceRefused(x) \/ PlaceRaises(x))
                     /\ WF_vars(CommitExit(x))
  /\ WF_vars(PollBegin) /\ WF_vars(PollUnchanged) /\ WF_vars(PollLoad)
  /\ WF_vars(PollPartial) /\ WF_vars(PollFilled) /\ WF_vars(PollEnded)
  /\ \A o \in Oid : SF_vars(PollAsk(o))
  /\ \A o \in Oid : WF_vars(Cancel(o) \/ Refuse(o) \/ \E n \in 1..Qty : Fill(o, n))
  /\ \A o \in Oid : WF_vars(RecoverPending(o) \/ RecoverSkips(o) \/ RecoverOrder(o))
  /\ WF_vars(RecoveryDone)

FairSpec == Spec /\ Fairness
-----------------------------------------------------------------------------
(* Properties.                                                             *)

LiveOrders(p) == {o \in Oid : order[o].pos = p /\ order[o].status \in Live}

(* An OPEN position has no exit order that may still be working: whoever   *)
(* sees OPEN (the watcher, the admin API) may sell the position.           *)
OpenHasNoLiveExit ==
  \A p \in Pos : position[p].status = "open" => LiveOrders(p) = {}

(* A CLOSING position has exactly one exit order that can still end it;    *)
(* with none it would stay CLOSING for ever, nothing else leaves CLOSING.  *)
ClosingHasOneExit ==
  \A p \in Pos : position[p].status = "closing" => Cardinality(LiveOrders(p)) = 1

(* While CLOSING, remaining_qty and the fills recorded on the live exit    *)
(* order add up to the position.                                           *)
RemainingAddsUp ==
  \A p \in Pos : position[p].status = "closing" =>
    \A o \in LiveOrders(p) : position[p].remaining + order[o].filled = Qty

(* No fill is recorded before the broker made it.                          *)
RecordedFillsAreReal == \A o \in Oid : order[o].filled <= broker[o].filled

(* A position has a TradeResult exactly when it is CLOSED.                 *)
ResultIffClosed == \A p \in Pos : position[p].result <=> position[p].status = "closed"

(* CLOSED is final.                                                        *)
ClosedIsFinal ==
  [][\A p \in Pos : position[p].status = "closed" => position'[p].status = "closed"]_vars

(* A position closed through an exit order was sold in full by one order.  *)
ClosedMeansSold ==
  \A p \in Pos : position[p].status = "closed" =>
    \E o \in Oid : broker[o].pos = p /\ broker[o].st = "filled"

(* What the broker has sold, or may yet sell, for a position.              *)
Exposure(o) == IF broker[o].st = "working" THEN Qty ELSE broker[o].filled
NoOversell ==
  \A o, q \in Oid :
    (o # q /\ broker[o].pos = broker[q].pos /\ broker[o].pos # 0)
      => Exposure(o) + Exposure(q) <= Qty

(* When shares of a position may be sold twice, one of the two orders is   *)
(* one the tables lost sight of (its reply or its commit was lost: no row, *)
(* or one no loop asks about) or one the broker cancelled half filled.     *)
(* However priced closes, colliding execution ids, stuck orders and crashes *)
(* meet, they add no third way.                                            *)
LostSight(o) == /\ order[o].status \in {"none", "pending", "failed"}
                /\ \A x \in Actor : InFlight(x) => sess[x].oid # o

HalfCancelled(o) == broker[o].st = "cancelled" /\ broker[o].filled > 0

OversellHasCause ==
  \A o, q \in Oid :
    (/\ o # q /\ broker[o].pos = broker[q].pos /\ broker[o].pos # 0
     /\ Exposure(o) + Exposure(q) > Qty)
      => \E r \in {o, q} : LostSight(r) \/ HalfCancelled(r)

(* An exit that has been committed comes to an end: the position is CLOSED *)
(* or goes back to OPEN.                                                   *)
ClosingEnds ==
  \A p \in Pos : (position[p].status = "closing") ~> (position[p].status # "closing")

(* "So that it can be retried": nothing in the database stops the next     *)
(* exit of an OPEN position.                                               *)
OpenCanExit == \A p \in Pos : position[p].status = "open" => ~ HasActive(p)
=============================================================================
