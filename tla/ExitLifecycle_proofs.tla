------------------------ MODULE ExitLifecycle_proofs ------------------------
(***************************************************************************)
(* TLAPS proofs about ExitLifecycle, for every number of positions,        *)
(* orders, shares and crashes and every set of faults.                     *)
(***************************************************************************)
EXTENDS ExitLifecycle, TLAPS

Polled == {"submitted", "partial"}

(* At most one exit order of a position may still be working.              *)
OneLive ==
  \A o, q \in Oid :
    (order[o].status \in Live /\ order[q].status \in Live
       /\ order[o].pos = order[q].pos) => o = q

(* Every exit order row belongs to a position.                             *)
RowsOK == \A o \in Oid : order[o].status # "none" => order[o].pos \in Pos

(* A claimed row is still OPEN for everybody else, and claimed only once.  *)
ClaimsOK ==
  /\ \A x \in Actor :
       InFlight(x) => /\ sess[x].at \in Pos /\ sess[x].oid \in Oid
                      /\ position[sess[x].at].status = "open"
  /\ \A x \in Actor : sess[x].pc = "read" => sess[x].at \in Pos
  /\ \A x, y \in Actor :
       (InFlight(x) /\ InFlight(y) /\ x # y) => sess[x].at # sess[y].at

(* The same for the failed exits the watcher has still to commit.          *)
LeftoverOK ==
  /\ \A f \in leftover : position[f.pos].status = "open"
  /\ \A f \in leftover, x \in Actor : InFlight(x) => sess[x].at # f.pos

(* Orders of concurrent uncommitted exits are not in the table yet.        *)
DraftsOK ==
  /\ \A x \in Actor : InFlight(x) => order[sess[x].oid].status = "none"
  /\ \A f \in leftover : order[f.oid].status = "none"
  /\ \A f \in leftover, x \in Actor : InFlight(x) => sess[x].oid # f.oid
  /\ \A x, y \in Actor :
       (InFlight(x) /\ InFlight(y) /\ x # y) => sess[x].oid # sess[y].oid

(* The poller works on orders that nobody else settles.                    *)
PollOK ==
  /\ \A o \in poll.todo : order[o].status \in Polled
  /\ poll.pc \in {"asked", "loaded"} =>
       poll.oid \in Oid /\ order[poll.oid].status \in Polled

(* Recovery runs alone.                                                    *)
AloneOK ==
  mode = "recovering" =>
    /\ \A x \in Actor : sess[x] = IdleSess
    /\ leftover = {} /\ poll = IdlePoll

(* What the two tables need, and what is promised about them to sessions.  *)
TablesOK == OpenHasNoLiveExit /\ OneLive /\ RowsOK
SessionsOK == ClaimsOK /\ LeftoverOK /\ DraftsOK

IInv == TypeOK /\ TablesOK /\ SessionsOK /\ PollOK /\ AloneOK

-----------------------------------------------------------------------------
(* The operators the settling actions are built from.                      *)

(* How a step that settles the stored order o may change the two tables:   *)
(* only o and its position, never bringing a dead order back to life, and  *)
(* opening the position of a live order only when that order has ended.    *)
Settles(o) ==
  /\ order' \in [Oid -> OrderRow] /\ position' \in [Pos -> PositionRow]
  /\ \A q \in Oid : q # o => order'[q] = order[q]
  /\ order'[o].pos = order[o].pos /\ order'[o].status # "none"
  /\ order'[o].status \in Live => order[o].status \in Live
  /\ \A p \in Pos : p # order[o].pos => position'[p] = position[p]
  /\ position' = position \/ order[o].status \in Live
  /\ \A p \in Pos : p = order[o].pos /\ position'[p].status = "open"
                     /\ position[p].status # "open"
                       => order'[o].status \notin Live

(* SetOrder changes one row and keeps the table well typed.                *)
LEMMA SetOrderRow ==
  ASSUME order \in [Oid -> OrderRow], NEW o \in Oid, NEW st \in OrderStatus,
         NEW n \in 0..Qty
  PROVE  /\ SetOrder(o, st, n) \in [Oid -> OrderRow]
         /\ \A q \in Oid : q # o => SetOrder(o, st, n)[q] = order[q]
         /\ SetOrder(o, st, n)[o].pos = order[o].pos
         /\ SetOrder(o, st, n)[o].status = st
<1>1. order[o] \in OrderRow
  OBVIOUS
<1>2. SetOrder(o, st, n) = [order EXCEPT ![o] = [order[o] EXCEPT !.status = st, !.filled = n]]
  BY <1>1 DEF SetOrder, OrderRow
<1>3. [order[o] EXCEPT !.status = st, !.filled = n] \in OrderRow
  BY <1>1 DEF OrderRow
<1> QED
  BY <1>1, <1>2, <1>3 DEF OrderRow

(* So does writing only the status.                                        *)
LEMMA SetStatusRow ==
  ASSUME order \in [Oid -> OrderRow], NEW o \in Oid, NEW st \in OrderStatus
  PROVE  LET t == [order EXCEPT ![o].status = st]
         IN  /\ t \in [Oid -> OrderRow]
             /\ \A q \in Oid : q # o => t[q] = order[q]
             /\ t[o].pos = order[o].pos /\ t[o].status = st
<1>1. order[o] \in OrderRow
  OBVIOUS
<1>2. [order[o] EXCEPT !.status = st] \in OrderRow
  BY <1>1 DEF OrderRow
<1> QED
  BY <1>1, <1>2 DEF OrderRow

(* remaining_qty stays between nothing and the whole position.             *)
LEMMA RemainingBounds ==
  ASSUME position \in [Pos -> PositionRow], NEW p \in Pos, NEW n \in 1..Qty
  PROVE  Remaining(p, n) \in 0..Qty
<1>1. position[p].remaining \in {None} \cup 0..Qty
  BY DEF PositionRow
<1>2. Qty \in Nat
  BY ExitConstants
<1> QED
  BY <1>1, <1>2 DEF Remaining, None

(* A PARTIAL report only touches the order and its position's remaining.   *)
LEMMA PartlyFilledSettles ==
  ASSUME TypeOK, RowsOK, NEW o \in Oid, order[o].status \in Live, NEW n \in 0..Qty,
         NEW dup \in BOOLEAN, NEW pst, PartlyFilled(o, n, dup, pst)
  PROVE  Settles(o)
<1> DEFINE p == order[o].pos
           delta == IF dup THEN 0 ELSE n - order[o].filled
<1>1. p \in Pos
  BY DEF RowsOK, Live
<1>2. order' = SetOrder(o, "partial", n) /\ "partial" \in OrderStatus
  BY DEF PartlyFilled, OrderStatus, Active, Live
<1>3. Qty \in Nat /\ order[o].filled \in 0..Qty
  BY ExitConstants DEF TypeOK, OrderRow
<1>4. delta > 0 => delta \in 1..Qty
  BY <1>3
<1>5. position' = position \/
      /\ delta > 0
      /\ position' = [position EXCEPT ![p].remaining = Remaining(p, delta)]
  BY DEF PartlyFilled
<1>6. /\ position' \in [Pos -> PositionRow]
      /\ \A q \in Pos : q # p => position'[q] = position[q]
      /\ position'[p].status = position[p].status
  <2>1. CASE position' = position
    BY <2>1 DEF TypeOK
  <2>2. CASE delta > 0 /\ position' = [position EXCEPT ![p].remaining = Remaining(p, delta)]
    <3>1. Remaining(p, delta) \in 0..Qty
      BY <1>1, <1>4, <2>2, RemainingBounds DEF TypeOK
    <3>2. position[p] \in PositionRow
      BY <1>1 DEF TypeOK
    <3>3. [position[p] EXCEPT !.remaining = Remaining(p, delta)] \in PositionRow
      BY <3>1, <3>2 DEF PositionRow
    <3> QED
      BY <1>1, <2>2, <3>2, <3>3 DEF TypeOK, PositionRow
  <2> QED
    BY <1>5, <2>1, <2>2
<1>7. /\ order' \in [Oid -> OrderRow]
      /\ \A q \in Oid : q # o => order'[q] = order[q]
      /\ order'[o].pos = p /\ order'[o].status = "partial"
  BY <1>2, SetOrderRow DEF TypeOK
<1> QED
  BY <1>1, <1>6, <1>7 DEF Settles

(* A FILLED report closes the position or only reduces its remaining.      *)
LEMMA FullyFilledSettles ==
  ASSUME TypeOK, RowsOK, NEW o \in Oid, order[o].status \in Live,
         NEW delta \in Int, delta <= Qty, NEW pst, FullyFilled(o, delta, pst)
  PROVE  Settles(o)
<1> DEFINE p == order[o].pos
           row == [status    |-> IF Flat(p, delta) THEN "closed" ELSE position[p].status,
                   remaining |-> IF delta > 0 THEN Remaining(p, delta)
                                              ELSE position[p].remaining,
                   result    |-> position[p].result \/ Flat(p, delta)]
<1>1. p \in Pos
  BY DEF RowsOK, Live
<1>2. order' = SetOrder(o, "filled", Qty) /\ "filled" \in OrderStatus /\ Qty \in 0..Qty
  BY ExitConstants DEF FullyFilled, OrderStatus
<1>3. position' = position \/ position' = [position EXCEPT ![p] = row]
  BY DEF FullyFilled
<1>4. position[p] \in PositionRow
  BY <1>1 DEF TypeOK
<1>5. row \in PositionRow
  <2>1. delta > 0 => Remaining(p, delta) \in 0..Qty
    <3>1. delta > 0 => delta \in 1..Qty
      BY ExitConstants
    <3> QED
      BY <1>1, <3>1, RemainingBounds DEF TypeOK
  <2>2. row.status \in {"open", "closing", "closed"}
    BY <1>4 DEF PositionRow
  <2>3. row.remaining \in {None} \cup 0..Qty
    BY <1>4, <2>1 DEF PositionRow
  <2>4. row.result \in BOOLEAN
    OBVIOUS
  <2> QED
    BY <2>2, <2>3, <2>4 DEF PositionRow
<1>6. /\ position' \in [Pos -> PositionRow]
      /\ \A q \in Pos : q # p => position'[q] = position[q]
      /\ position'[p].status \in {"closed", position[p].status}
  <2>1. CASE position' = position
    BY <2>1 DEF TypeOK
  <2>2. CASE position' = [position EXCEPT ![p] = row]
    <3>1. position'[p] = row /\ row.status \in {"closed", position[p].status}
      BY <1>1, <2>2 DEF TypeOK
    <3>2. position' \in [Pos -> PositionRow]
      BY <1>1, <1>5, <2>2 DEF TypeOK
    <3> QED
      BY <2>2, <3>1, <3>2 DEF TypeOK
  <2> QED
    BY <1>3, <2>1, <2>2
<1>7. /\ order' \in [Oid -> OrderRow]
      /\ \A q \in Oid : q # o => order'[q] = order[q]
      /\ order'[o].pos = p /\ order'[o].status = "filled"
  BY <1>2, SetOrderRow DEF TypeOK
<1> QED
  BY <1>1, <1>6, <1>7 DEF Settles, Live

(* CANCELLED and REJECTED: the order is dead, its position may be OPEN.    *)
LEMMA EndedSettles ==
  ASSUME TypeOK, RowsOK, NEW o \in Oid, order[o].status \in Live, NEW pst,
         NEW st \in {"cancelled", "rejected"},
         order' = [order EXCEPT ![o].status = st],
         position' = Reverted(o, pst)
  PROVE  Settles(o)
<1> DEFINE p == order[o].pos
<1>1. p \in Pos
  BY DEF RowsOK, Live
<1>2. /\ order' \in [Oid -> OrderRow]
      /\ \A q \in Oid : q # o => order'[q] = order[q]
      /\ order'[o].pos = p /\ order'[o].status = st
  BY SetStatusRow DEF TypeOK, OrderStatus
<1>3. position[p] \in PositionRow
  BY <1>1 DEF TypeOK
<1>4. [position[p] EXCEPT !.status = "open"] \in PositionRow
  BY <1>3 DEF PositionRow
<1>5. position' \in {position, [position EXCEPT ![p] = [position[p] EXCEPT !.status = "open"]]}
  BY <1>1, <1>3 DEF Reverted, PositionRow
<1>6. /\ position' \in [Pos -> PositionRow]
      /\ \A q \in Pos : q # p => position'[q] = position[q]
  BY <1>1, <1>4, <1>5 DEF TypeOK
<1> QED
  BY <1>1, <1>2, <1>6 DEF Settles, Live

(* UNKNOWN, or stuck: only the order's status.                             *)
LEMMA UnknownSettles ==
  ASSUME TypeOK, RowsOK, NEW o \in Oid, order[o].status \in Live,
         order' = [order EXCEPT ![o].status = "unknown"], position' = position
  PROVE  Settles(o)
<1>1. /\ order' \in [Oid -> OrderRow]
      /\ \A q \in Oid : q # o => order'[q] = order[q]
      /\ order'[o].pos = order[o].pos /\ order'[o].status = "unknown"
  BY SetStatusRow DEF TypeOK, OrderStatus, Active, Live
<1> QED
  BY <1>1 DEF Settles, TypeOK

(* A PENDING order left over by a failed send becomes FAILED.              *)
LEMMA FailedSettles ==
  ASSUME TypeOK, RowsOK, NEW o \in Oid, order[o].status = "pending",
         order' = [order EXCEPT ![o].status = "failed"], position' = position
  PROVE  Settles(o)
<1>1. /\ order' \in [Oid -> OrderRow]
      /\ \A q \in Oid : q # o => order'[q] = order[q]
      /\ order'[o].pos = order[o].pos /\ order'[o].status = "failed"
  BY SetStatusRow DEF TypeOK, OrderStatus
<1> QED
  BY <1>1 DEF Settles, TypeOK, Live

-----------------------------------------------------------------------------
(* Settling an order keeps the tables in order: the only position it may   *)
(* open is that of a live order, which was its only one and has ended.     *)
LEMMA SettlesKeepsTables ==
  ASSUME TypeOK, TablesOK, NEW o \in Oid, Settles(o), order[o].status # "none"
  PROVE  TablesOK'
<1>1. RowsOK'
  BY DEF TablesOK, RowsOK, Settles
<1>2. OneLive'
  BY DEF TablesOK, OneLive, Settles
<1>3. OpenHasNoLiveExit'
  <2> SUFFICES ASSUME NEW p \in Pos, position'[p].status = "open", NEW q \in Oid,
                      order'[q].pos = p, order'[q].status \in Live
               PROVE  FALSE
    BY DEF OpenHasNoLiveExit, LiveOrders
  <2>1. order[q].pos = p /\ order[q].status \in Live
    BY DEF Settles
  <2>2. position[p].status # "open"
    BY <2>1 DEF TablesOK, OpenHasNoLiveExit, LiveOrders
  <2>3. p = order[o].pos /\ order[o].status \in Live
    BY <2>2 DEF Settles
  <2>4. q = o
    BY <2>1, <2>3 DEF TablesOK, OneLive
  <2> QED
    BY <2>2, <2>3, <2>4 DEF Settles
<1> QED
  BY <1>1, <1>2, <1>3 DEF TablesOK

(* A position in flight is OPEN, so it has no live order to be settled.    *)
LEMMA SettlesKeepsSessions ==
  ASSUME TypeOK, TablesOK, SessionsOK, NEW o \in Oid, Settles(o),
         order[o].status # "none", UNCHANGED <<sess, leftover>>
  PROVE  SessionsOK'
<1>1. \A p \in Pos : position[p].status = "open" => position'[p].status = "open"
  BY DEF Settles, TablesOK, OpenHasNoLiveExit, LiveOrders
<1>2. \A f \in leftover : f.pos \in Pos /\ f.oid \in Oid
  BY DEF TypeOK
<1>3. ClaimsOK'
  BY <1>1 DEF SessionsOK, ClaimsOK, InFlight
<1>4. LeftoverOK'
  BY <1>1, <1>2 DEF SessionsOK, LeftoverOK, InFlight
<1>5. DraftsOK'
  <2>1. \A q \in Oid : order[q].status = "none" => order'[q].status = "none"
    BY DEF Settles
  <2> QED
    BY <1>2, <2>1 DEF SessionsOK, DraftsOK, ClaimsOK, InFlight
<1> QED
  BY <1>3, <1>4, <1>5 DEF SessionsOK

(* Steps that leave the two tables alone.                                  *)
LEMMA TablesUnchanged ==
  ASSUME TablesOK, UNCHANGED <<position, order>>
  PROVE  TablesOK'
BY DEF TablesOK, OpenHasNoLiveExit, LiveOrders, OneLive, RowsOK

(* Steps that leave the sessions' promises alone.                          *)
LEMMA SessionsUnchanged ==
  ASSUME SessionsOK, UNCHANGED <<position, order, sess, leftover>>
  PROVE  SessionsOK'
BY DEF SessionsOK, ClaimsOK, LeftoverOK, DraftsOK, InFlight

(* A session that goes idle gives its claim up.                            *)
LEMMA IdleKeepsSessions ==
  ASSUME TypeOK, SessionsOK, NEW x \in Actor, Idle(x),
         UNCHANGED <<position, order>>, leftover' \in {leftover, {}}
  PROVE  SessionsOK'
<1>1. \A y \in Actor : sess'[y] = IF y = x THEN IdleSess ELSE sess[y]
  BY DEF Idle, TypeOK
<1>2. \A y \in Actor : InFlight(y)' => y # x /\ InFlight(y) /\ sess'[y] = sess[y]
  BY <1>1 DEF InFlight, IdleSess
<1>3. \A y \in Actor : sess'[y].pc = "read" => y # x /\ sess'[y] = sess[y]
  BY <1>1 DEF IdleSess
<1>4. ClaimsOK'
  BY <1>2, <1>3 DEF SessionsOK, ClaimsOK
<1>5. LeftoverOK'
  BY <1>2 DEF SessionsOK, LeftoverOK
<1>6. DraftsOK'
  BY <1>2 DEF SessionsOK, DraftsOK
<1> QED
  BY <1>4, <1>5, <1>6 DEF SessionsOK

(* A session whose claim and draft stay what they were.                    *)
LEMMA AdvanceKeepsSessions ==
  ASSUME TypeOK, SessionsOK, NEW x \in Actor, NEW pc \in {"sent", "refused"},
         sess[x].pc = "sending", sess' = [sess EXCEPT ![x].pc = pc],
         UNCHANGED <<position, order, leftover>>
  PROVE  SessionsOK'
<1>1. sess[x] \in Session
  BY DEF TypeOK
<1>2. \A y \in Actor : sess'[y].at = sess[y].at /\ sess'[y].oid = sess[y].oid
  BY <1>1 DEF TypeOK, Session
<1>3. \A y \in Actor : InFlight(y)' => InFlight(y)
  BY <1>1 DEF TypeOK, Session, InFlight
<1>4. \A y \in Actor : sess'[y].pc = "read" => sess[y].pc = "read"
  BY <1>1 DEF TypeOK, Session
<1>5. ClaimsOK'
  BY <1>2, <1>3, <1>4 DEF SessionsOK, ClaimsOK
<1>6. LeftoverOK'
  BY <1>2, <1>3 DEF SessionsOK, LeftoverOK
<1>7. DraftsOK'
  BY <1>2, <1>3 DEF SessionsOK, DraftsOK
<1> QED
  BY <1>5, <1>6, <1>7 DEF SessionsOK

-----------------------------------------------------------------------------
(* The commits of exits.                                                   *)

(* A commit moves the claimed rows to CLOSING and no other status.         *)
LEMMA PositionsAfterRows ==
  ASSUME TypeOK, NEW C \in SUBSET Pos, NEW fs \in SUBSET [pos: Pos, oid: Oid]
  PROVE  /\ PositionsAfter(C, fs) \in [Pos -> PositionRow]
         /\ \A p \in Pos : PositionsAfter(C, fs)[p].status =
              IF p \in C THEN "closing" ELSE position[p].status
<1> SUFFICES ASSUME NEW p \in Pos
             PROVE  /\ PositionsAfter(C, fs)[p] \in PositionRow
                    /\ PositionsAfter(C, fs)[p].status =
                         IF p \in C THEN "closing" ELSE position[p].status
  BY DEF PositionsAfter
<1>1. position[p] \in PositionRow
  BY DEF TypeOK
<1>2. Qty \in 0..Qty
  BY ExitConstants
<1>3. /\ [position[p] EXCEPT !.status = "closing", !.remaining = Qty] \in PositionRow
      /\ [position[p] EXCEPT !.status = "closing", !.remaining = Qty].status = "closing"
  BY <1>1, <1>2 DEF PositionRow
<1>4. /\ [position[p] EXCEPT !.remaining = Qty] \in PositionRow
      /\ [position[p] EXCEPT !.remaining = Qty].status = position[p].status
  BY <1>1, <1>2 DEF PositionRow
<1> QED
  BY <1>1, <1>3, <1>4 DEF PositionsAfter

(* A commit stores the failed exits as PENDING rows, the rest as it was.   *)
LEMMA OrdersAfterRows ==
  ASSUME TypeOK, NEW fs \in SUBSET [pos: Pos, oid: Oid]
  PROVE  /\ OrdersAfter(fs) \in [Oid -> OrderRow]
         /\ \A o \in Oid : IF \E f \in fs : f.oid = o
                           THEN /\ OrdersAfter(fs)[o].status = "pending"
                                /\ OrdersAfter(fs)[o].pos \in Pos
                           ELSE OrdersAfter(fs)[o] = order[o]
<1> SUFFICES ASSUME NEW o \in Oid
             PROVE  /\ OrdersAfter(fs)[o] \in OrderRow
                    /\ IF \E f \in fs : f.oid = o
                       THEN /\ OrdersAfter(fs)[o].status = "pending"
                            /\ OrdersAfter(fs)[o].pos \in Pos
                       ELSE OrdersAfter(fs)[o] = order[o]
  BY DEF OrdersAfter
<1>1. CASE \E f \in fs : f.oid = o
  <2> DEFINE g == CHOOSE f \in fs : f.oid = o
  <2>1. g \in fs /\ g.pos \in Pos
    BY <1>1
  <2>2. OrdersAfter(fs)[o] = [status |-> "pending", filled |-> 0, sent |-> FALSE,
                              pos |-> g.pos]
    BY <1>1 DEF OrdersAfter, Pending
  <2>3. "pending" \in OrderStatus /\ 0 \in 0..Qty /\ g.pos \in 0..NPos
    BY <2>1, ExitConstants DEF OrderStatus, Active, Pos
  <2> HIDE DEF g
  <2>4. OrdersAfter(fs)[o] \in OrderRow
    BY <2>2, <2>3 DEF OrderRow
  <2>5. OrdersAfter(fs)[o].status = "pending" /\ OrdersAfter(fs)[o].pos \in Pos
    BY <2>1, <2>2
  <2> QED
    BY <1>1, <2>4, <2>5
<1>2. CASE ~ \E f \in fs : f.oid = o
  BY <1>2 DEF OrdersAfter, Pending, TypeOK
<1> QED
  BY <1>1, <1>2

(* The end of the watcher's cycle only adds PENDING rows.                  *)
LEMMA WatchEndStores ==
  ASSUME TypeOK, TablesOK, SessionsOK, WatchEnd
  PROVE  /\ position' \in [Pos -> PositionRow] /\ order' \in [Oid -> OrderRow]
         /\ TablesOK' /\ SessionsOK'
         /\ \A o \in Oid : order[o].status # "none" => order'[o] = order[o]
<1>1. /\ position' \in [Pos -> PositionRow]
      /\ \A p \in Pos : position'[p].status = position[p].status
  BY PositionsAfterRows DEF WatchEnd, TypeOK
<1>2. /\ order' \in [Oid -> OrderRow]
      /\ \A o \in Oid : IF \E f \in leftover : f.oid = o
                        THEN order'[o].status = "pending" /\ order'[o].pos \in Pos
                        ELSE order'[o] = order[o]
  BY OrdersAfterRows DEF WatchEnd, TypeOK
<1>3. \A o \in Oid : order'[o].status \in Live => order'[o] = order[o]
  BY <1>2 DEF Live
<1>4. \A o \in Oid : order[o].status # "none" => order'[o] = order[o]
  BY <1>2 DEF SessionsOK, DraftsOK
<1>5. TablesOK'
  <2>1. OpenHasNoLiveExit' /\ OneLive'
    BY <1>1, <1>3 DEF TablesOK, OpenHasNoLiveExit, LiveOrders, OneLive
  <2>2. RowsOK'
    BY <1>2 DEF TablesOK, RowsOK
  <2> QED
    BY <2>1, <2>2 DEF TablesOK
<1>6. leftover' = {} /\ sess' = sess
  BY DEF WatchEnd
<1>7. ClaimsOK'
  BY <1>1, <1>6 DEF SessionsOK, ClaimsOK, InFlight
<1>8. LeftoverOK'
  BY <1>6 DEF LeftoverOK
<1>9. DraftsOK'
  BY <1>2, <1>6 DEF SessionsOK, DraftsOK, ClaimsOK, InFlight
<1> QED
  BY <1>1, <1>2, <1>4, <1>5, <1>7, <1>8, <1>9 DEF SessionsOK

(* The commit of an exit adds one live order, to a position that had none  *)
(* and is no longer OPEN, and disturbs no other session's claim.           *)
LEMMA CommitExitStores ==
  ASSUME TypeOK, TablesOK, SessionsOK, NEW x \in Actor, CommitExit(x)
  PROVE  /\ position' \in [Pos -> PositionRow] /\ order' \in [Oid -> OrderRow]
         /\ TablesOK' /\ SessionsOK'
         /\ \A o \in Oid : order[o].status # "none" => order'[o] = order[o]
<1> DEFINE fs == Leftover(x)
           at == sess[x].at
           new == [status |-> IF sess[x].pc = "sent" THEN "submitted" ELSE "rejected",
                   pos |-> at, filled |-> 0, sent |-> sess[x].pc = "sent"]
           oid == sess[x].oid
<1>1. /\ InFlight(x) /\ at \in Pos /\ oid \in Oid
      /\ position[at].status = "open" /\ order[oid].status = "none"
  BY DEF CommitExit, InFlight, SessionsOK, ClaimsOK, DraftsOK
<1>2. fs \in SUBSET [pos: Pos, oid: Oid] /\ fs \subseteq leftover
  BY DEF Leftover, TypeOK
<1>3. /\ position' \in [Pos -> PositionRow]
      /\ \A p \in Pos : position'[p].status = IF p = at THEN "closing"
                                                        ELSE position[p].status
  <2>1. {at} \in SUBSET Pos
    BY <1>1
  <2>2. position' = PositionsAfter({at}, fs)
    BY DEF CommitExit
  <2> QED
    BY <1>2, <2>1, <2>2, PositionsAfterRows
<1>4. /\ order' = [OrdersAfter(fs) EXCEPT ![oid] = new]
      /\ OrdersAfter(fs) \in [Oid -> OrderRow]
      /\ \A o \in Oid : IF \E f \in fs : f.oid = o
                        THEN /\ OrdersAfter(fs)[o].status = "pending"
                             /\ OrdersAfter(fs)[o].pos \in Pos
                        ELSE OrdersAfter(fs)[o] = order[o]
  BY <1>2, OrdersAfterRows DEF CommitExit
<1>5. new \in OrderRow /\ new.pos = at /\ new.status # "none"
  BY <1>1, ExitConstants DEF OrderRow, OrderStatus, Active, Live, Pos
<1>6. order' \in [Oid -> OrderRow]
  BY <1>4, <1>5
<1>7. order'[oid] = new
  BY <1>1, <1>4
<1>8. \A o \in Oid : o # oid => IF \E f \in fs : f.oid = o
                                THEN order'[o].status = "pending" /\ order'[o].pos \in Pos
                                ELSE order'[o] = order[o]
  BY <1>4
<1>9. \A o \in Oid : order[o].status # "none" => order'[o] = order[o]
  BY <1>1, <1>2, <1>8 DEF SessionsOK, DraftsOK
<1>10. \A o \in Oid : o # oid /\ order'[o].status \in Live => order'[o] = order[o]
  BY <1>8 DEF Live
<1>11. \A o \in Oid : order[o].pos = at => order[o].status \notin Live
  BY <1>1 DEF TablesOK, OpenHasNoLiveExit, LiveOrders
<1>12. TablesOK'
  <2>1. OpenHasNoLiveExit'
    <3> SUFFICES ASSUME NEW p \in Pos, position'[p].status = "open", NEW q \in Oid,
                        order'[q].pos = p, order'[q].status \in Live
                 PROVE  FALSE
      BY DEF OpenHasNoLiveExit, LiveOrders
    <3>1. p # at /\ position[p].status = "open"
      BY <1>3
    <3>2. q # oid
      BY <1>5, <1>7, <3>1
    <3> QED
      BY <1>10, <3>1, <3>2 DEF TablesOK, OpenHasNoLiveExit, LiveOrders
  <2>2. OneLive'
    <3> SUFFICES ASSUME NEW q \in Oid, NEW r \in Oid, q # r,
                        order'[q].status \in Live, order'[r].status \in Live,
                        order'[q].pos = order'[r].pos
                 PROVE  FALSE
      BY DEF OneLive
    <3>1. CASE q # oid /\ r # oid
      BY <1>10, <3>1 DEF TablesOK, OneLive
    <3>2. CASE q = oid
      BY <1>5, <1>7, <1>10, <1>11, <3>2
    <3>3. CASE r = oid
      BY <1>5, <1>7, <1>10, <1>11, <3>3
    <3> QED
      BY <3>1, <3>2, <3>3
  <2>3. RowsOK'
    BY <1>1, <1>5, <1>7, <1>8 DEF TablesOK, RowsOK
  <2> QED
    BY <2>1, <2>2, <2>3 DEF TablesOK
<1>13. \A y \in Actor : sess'[y] = IF y = x THEN IdleSess ELSE sess[y]
  BY DEF CommitExit, Idle, TypeOK
<1>14. \A y \in Actor : InFlight(y)' => y # x /\ InFlight(y) /\ sess'[y] = sess[y]
  BY <1>13 DEF InFlight, IdleSess
<1>15. \A y \in Actor : sess'[y].pc = "read" => y # x /\ sess'[y] = sess[y]
  BY <1>13 DEF IdleSess
<1>16. leftover' = leftover \ fs /\ (fs = leftover \/ fs = {})
  BY DEF CommitExit, Leftover
<1>17. ClaimsOK'
  BY <1>1, <1>3, <1>14, <1>15 DEF SessionsOK, ClaimsOK
<1>18. LeftoverOK'
  <2>1. \A f \in leftover' : f \in leftover /\ f.pos \in Pos /\ f.pos # at
    BY <1>1, <1>16 DEF SessionsOK, LeftoverOK, TypeOK
  <2> QED
    BY <1>3, <1>14, <2>1 DEF SessionsOK, LeftoverOK
<1>19. DraftsOK'
  <2>1. \A y \in Actor : InFlight(y)' =>
          /\ sess[y].oid \in Oid /\ sess[y].oid # oid
          /\ \A f \in leftover : f.oid # sess[y].oid
    BY <1>1, <1>14 DEF SessionsOK, DraftsOK, ClaimsOK
  <2>2. \A y \in Actor : InFlight(y)' => order'[sess'[y].oid].status = "none"
    BY <1>2, <1>8, <1>14, <2>1 DEF SessionsOK, DraftsOK
  <2>3. \A f \in leftover' : f \in leftover /\ f.oid \in Oid /\ f.oid # oid /\ fs = {}
    BY <1>1, <1>16 DEF SessionsOK, DraftsOK, TypeOK
  <2>4. \A f \in leftover' : order'[f.oid].status = "none"
    BY <1>8, <2>3 DEF SessionsOK, DraftsOK
  <2> QED
    BY <1>14, <2>2, <2>3, <2>4 DEF SessionsOK, DraftsOK
<1> QED
  BY <1>3, <1>6, <1>9, <1>12, <1>17, <1>18, <1>19 DEF SessionsOK

-----------------------------------------------------------------------------
(* initiate_exit until its commit.                                         *)

(* Only an unlocked OPEN row is claimed, and its draft is a fresh one.     *)
LEMMA BeginExitKeeps ==
  ASSUME IInv, NEW x \in Actor, NEW p \in Pos, NEW o \in Oid, BeginExit(x, p, o)
  PROVE  IInv'
<1> DEFINE new == [pc |-> "sending", at |-> p, oid |-> o]
<1>1. /\ ~ RowLocked(p) /\ position[p].status = "open" /\ Unused(o)
      /\ sess' = [sess EXCEPT ![x] = new]
      /\ UNCHANGED <<position, order, broker, leftover, poll, mode, rtodo, crashes>>
      /\ mode = "up" /\ todo' = Visited(x, p)
  BY DEF BeginExit, CanClaim, FreshId
<1>2. \A y \in Actor : sess'[y] = IF y = x THEN new ELSE sess[y]
  BY <1>1 DEF IInv, TypeOK
<1>3. \A y \in Actor : y # x /\ InFlight(y)' => InFlight(y) /\ sess'[y] = sess[y]
  BY <1>2 DEF InFlight
<1>4. \A y \in Actor : InFlight(y) => sess[y].at # p /\ sess[y].oid # o
  BY <1>1 DEF RowLocked, Unused
<1>5. \A f \in leftover : f.pos # p /\ f.oid # o
  BY <1>1 DEF RowLocked, Unused
<1>6. TypeOK'
  <2>1. new \in Session
    BY ExitConstants DEF Session, Pos, Oid
  <2>2. sess' \in [Actor -> Session]
    BY <1>1, <2>1 DEF IInv, TypeOK
  <2>3. todo' \subseteq Pos
    BY <1>1 DEF IInv, TypeOK, Visited
  <2> QED
    BY <1>1, <2>2, <2>3 DEF IInv, TypeOK
<1>7. TablesOK'
  BY <1>1, TablesUnchanged DEF IInv
<1>8. SessionsOK'
  <2>1. new.at = p /\ new.oid = o /\ new.pc = "sending"
    OBVIOUS
  <2>2. ClaimsOK'
    <3>1. \A y \in Actor : InFlight(y)' =>
            /\ sess'[y].at \in Pos /\ sess'[y].oid \in Oid
            /\ position'[sess'[y].at].status = "open"
      BY <1>1, <1>2, <1>3, <2>1 DEF IInv, SessionsOK, ClaimsOK
    <3>2. \A y \in Actor : sess'[y].pc = "read" => sess'[y].at \in Pos
      BY <1>2, <2>1 DEF IInv, SessionsOK, ClaimsOK
    <3>3. \A y, z \in Actor : InFlight(y)' /\ InFlight(z)' /\ y # z
                                => sess'[y].at # sess'[z].at
      BY <1>2, <1>3, <1>4, <2>1 DEF IInv, SessionsOK, ClaimsOK
    <3> QED
      BY <3>1, <3>2, <3>3 DEF ClaimsOK
  <2>3. LeftoverOK'
    BY <1>1, <1>2, <1>3, <1>5, <2>1 DEF IInv, SessionsOK, LeftoverOK
  <2>4. DraftsOK'
    <3>1. order[o].status = "none"
      BY <1>1 DEF Unused
    <3>2. \A y \in Actor : InFlight(y)' => order'[sess'[y].oid].status = "none"
      BY <1>1, <1>2, <1>3, <2>1, <3>1 DEF IInv, SessionsOK, DraftsOK
    <3>3. \A f \in leftover, y \in Actor : InFlight(y)' => sess'[y].oid # f.oid
      BY <1>2, <1>3, <1>5, <2>1 DEF IInv, SessionsOK, DraftsOK
    <3>4. \A y, z \in Actor : InFlight(y)' /\ InFlight(z)' /\ y # z
                                => sess'[y].oid # sess'[z].oid
      BY <1>2, <1>3, <1>4, <2>1 DEF IInv, SessionsOK, DraftsOK
    <3> QED
      BY <1>1, <3>2, <3>3, <3>4 DEF IInv, SessionsOK, DraftsOK
  <2> QED
    BY <2>2, <2>3, <2>4 DEF SessionsOK
<1>9. PollOK' /\ AloneOK'
  BY <1>1 DEF IInv, PollOK, AloneOK
<1> QED
  BY <1>6, <1>7, <1>8, <1>9 DEF IInv

(* A failed exit of the watcher joins the leftovers, keeping its claim.    *)
LEMMA PlaceRaisesKeeps ==
  ASSUME IInv, NEW x \in Actor, PlaceRaises(x)
  PROVE  IInv'
<1> DEFINE g == [pos |-> sess[x].at, oid |-> sess[x].oid]
<1>1. /\ mode = "up" /\ sess[x].pc = "sending" /\ Idle(x)
      /\ UNCHANGED <<position, order, todo, poll, mode, rtodo, crashes>>
      /\ leftover' \in {leftover, leftover \cup {g}}
  BY DEF PlaceRaises
<1>2. /\ InFlight(x) /\ sess[x].at \in Pos /\ sess[x].oid \in Oid
      /\ position[sess[x].at].status = "open"
      /\ order[sess[x].oid].status = "none"
  BY <1>1 DEF IInv, SessionsOK, ClaimsOK, DraftsOK, InFlight
<1>3. g.pos = sess[x].at /\ g.oid = sess[x].oid /\ g \in [pos: Pos, oid: Oid]
  BY <1>2
<1>4. \A f \in leftover' : f \in leftover \/ f = g
  BY <1>1
<1>5. \A y \in Actor : sess'[y] = IF y = x THEN IdleSess ELSE sess[y]
  BY <1>1 DEF Idle, IInv, TypeOK
<1>6. \A y \in Actor : InFlight(y)' => y # x /\ InFlight(y) /\ sess'[y] = sess[y]
  BY <1>5 DEF InFlight, IdleSess
<1>7. TypeOK'
  <2>1. IdleSess \in Session
    BY ExitConstants DEF IdleSess, Session
  <2>2. sess' \in [Actor -> Session]
    BY <1>1, <2>1 DEF Idle, IInv, TypeOK
  <2>3. broker' \in [Oid -> BrokerOrder]
    <3>1. [st |-> "working", pos |-> sess[x].at, filled |-> 0] \in BrokerOrder
      BY <1>2, ExitConstants DEF BrokerOrder, BrokerStatus, Pos
    <3> QED
      BY <3>1 DEF PlaceRaises, IInv, TypeOK
  <2>4. leftover' \subseteq [pos: Pos, oid: Oid]
    BY <1>3, <1>4 DEF IInv, TypeOK
  <2> QED
    BY <1>1, <2>2, <2>3, <2>4 DEF IInv, TypeOK
<1>8. TablesOK'
  BY <1>1, TablesUnchanged DEF IInv
<1>9. SessionsOK'
  <2>1. ClaimsOK'
    <3>1. \A y \in Actor : sess'[y].pc = "read" => sess'[y].at \in Pos
      BY <1>5 DEF IdleSess, IInv, SessionsOK, ClaimsOK
    <3> QED
      BY <1>1, <1>6, <3>1 DEF IInv, SessionsOK, ClaimsOK
  <2>2. LeftoverOK'
    BY <1>1, <1>2, <1>3, <1>4, <1>6 DEF IInv, SessionsOK, LeftoverOK, ClaimsOK
  <2>3. DraftsOK'
    BY <1>1, <1>2, <1>3, <1>4, <1>6 DEF IInv, SessionsOK, DraftsOK
  <2> QED
    BY <2>1, <2>2, <2>3 DEF SessionsOK
<1>10. PollOK' /\ AloneOK'
  BY <1>1 DEF IInv, PollOK, AloneOK
<1> QED
  BY <1>7, <1>8, <1>9, <1>10 DEF IInv

(* The broker answered: the session only moves on to its commit.           *)
LEMMA PlaceAnsweredKeeps ==
  ASSUME IInv, NEW x \in Actor, PlaceAccepted(x) \/ PlaceRefused(x)
  PROVE  IInv'
<1>1. PICK pc \in {"sent", "refused"}, st \in BrokerStatus :
        /\ mode = "up" /\ sess[x].pc = "sending"
        /\ sess' = [sess EXCEPT ![x].pc = pc]
        /\ broker' = [broker EXCEPT ![sess[x].oid] =
                        [st |-> st, pos |-> sess[x].at, filled |-> 0]]
        /\ UNCHANGED <<position, order, todo, leftover, poll, mode, rtodo, crashes>>
  BY DEF PlaceAccepted, PlaceRefused, BrokerStatus
<1>2. TypeOK'
  <2>1. sess[x] \in Session
    BY DEF IInv, TypeOK
  <2>2. [sess[x] EXCEPT !.pc = pc] \in Session
    BY <2>1 DEF Session
  <2>3. sess' \in [Actor -> Session]
    BY <1>1, <2>1, <2>2 DEF IInv, TypeOK, Session
  <2>4. sess[x].at \in 0..NPos
    BY <2>1 DEF Session
  <2>5. [st |-> st, pos |-> sess[x].at, filled |-> 0] \in BrokerOrder
    BY <2>4, ExitConstants DEF BrokerOrder
  <2>6. broker' \in [Oid -> BrokerOrder]
    BY <1>1, <2>5 DEF IInv, TypeOK
  <2> QED
    BY <1>1, <2>3, <2>6 DEF IInv, TypeOK
<1>3. TablesOK'
  BY <1>1, TablesUnchanged DEF IInv
<1>4. SessionsOK'
  BY <1>1, AdvanceKeepsSessions DEF IInv
<1>5. PollOK' /\ AloneOK'
  BY <1>1 DEF IInv, PollOK, AloneOK
<1> QED
  BY <1>2, <1>3, <1>4, <1>5 DEF IInv

(* A session gives up: the row was taken, or the index refuses its order.  *)
LEMMA GiveUpKeeps ==
  ASSUME IInv, NEW x \in Actor, NEW p \in Pos, LoseRace(x, p) \/ IndexRefuses(x, p)
  PROVE  IInv'
<1>1. /\ mode = "up" /\ Idle(x) /\ leftover' \in {leftover, {}}
      /\ todo' \in {todo, {}, Visited(x, p)}
      /\ UNCHANGED <<position, order, broker, poll, mode, rtodo, crashes>>
  BY DEF LoseRace, IndexRefuses
<1>2. TypeOK'
  <2>1. IdleSess \in Session
    BY ExitConstants DEF IdleSess, Session
  <2>2. sess' \in [Actor -> Session]
    BY <1>1, <2>1 DEF Idle, IInv, TypeOK
  <2>3. todo' \subseteq Pos /\ leftover' \subseteq [pos: Pos, oid: Oid]
    BY <1>1 DEF IInv, TypeOK, Visited
  <2> QED
    BY <1>1, <2>2, <2>3 DEF IInv, TypeOK
<1>3. TablesOK'
  BY <1>1, TablesUnchanged DEF IInv
<1>4. SessionsOK'
  BY <1>1, IdleKeepsSessions DEF IInv
<1>5. PollOK' /\ AloneOK'
  BY <1>1 DEF IInv, PollOK, AloneOK
<1> QED
  BY <1>2, <1>3, <1>4, <1>5 DEF IInv

(* The commits of sessions do not touch the orders the poller works on.    *)
LEMMA PollKept ==
  ASSUME TypeOK, PollOK, poll' = poll,
         \A o \in Oid : order[o].status # "none" => order'[o] = order[o]
  PROVE  PollOK'
<1>1. poll.todo \subseteq Oid
  BY DEF TypeOK, PollState
<1> QED
  BY <1>1 DEF PollOK, Polled

(* The commit of an exit: at most one live order, on a row now CLOSING.    *)
LEMMA CommitExitKeeps ==
  ASSUME IInv, NEW x \in Actor, CommitExit(x)
  PROVE  IInv'
<1>1. /\ mode = "up" /\ Idle(x) /\ leftover' \subseteq leftover
      /\ UNCHANGED <<broker, todo, poll, mode, rtodo, crashes>>
  BY DEF CommitExit
<1>2. /\ position' \in [Pos -> PositionRow] /\ order' \in [Oid -> OrderRow]
      /\ TablesOK' /\ SessionsOK'
      /\ \A o \in Oid : order[o].status # "none" => order'[o] = order[o]
  BY CommitExitStores DEF IInv
<1>3. TypeOK'
  <2>1. IdleSess \in Session
    BY ExitConstants DEF IdleSess, Session
  <2>2. sess' \in [Actor -> Session]
    BY <1>1, <2>1 DEF Idle, IInv, TypeOK
  <2> QED
    BY <1>1, <1>2, <2>2 DEF IInv, TypeOK
<1>4. PollOK' /\ AloneOK'
  BY <1>1, <1>2, PollKept DEF IInv, AloneOK
<1> QED
  BY <1>2, <1>3, <1>4 DEF IInv

(* The watcher's cycle.                                                    *)
LEMMA WatchKeeps ==
  ASSUME IInv, Watch
  PROVE  IInv'
<1>1. CASE WatchBegin \/ \E p \in Pos : WatchSkip(p)
  <2>1. /\ mode = "up" /\ todo' \subseteq Pos
        /\ UNCHANGED <<position, order, broker, sess, leftover, poll, mode, rtodo,
                       crashes>>
    BY <1>1 DEF WatchBegin, WatchSkip, IInv, TypeOK
  <2>2. TypeOK'
    BY <2>1 DEF IInv, TypeOK
  <2>3. TablesOK' /\ SessionsOK'
    BY <2>1, TablesUnchanged, SessionsUnchanged DEF IInv
  <2> QED
    BY <2>1, <2>2, <2>3 DEF IInv, PollOK, AloneOK
<1>2. CASE WatchEnd
  <2>1. /\ mode = "up" /\ leftover' = {}
        /\ UNCHANGED <<broker, sess, todo, poll, mode, rtodo, crashes>>
    BY <1>2 DEF WatchEnd
  <2>2. /\ position' \in [Pos -> PositionRow] /\ order' \in [Oid -> OrderRow]
        /\ TablesOK' /\ SessionsOK'
        /\ \A o \in Oid : order[o].status # "none" => order'[o] = order[o]
    BY <1>2, WatchEndStores DEF IInv
  <2>3. TypeOK'
    BY <2>1, <2>2 DEF IInv, TypeOK
  <2>4. PollOK' /\ AloneOK'
    BY <2>1, <2>2, PollKept DEF IInv, AloneOK
  <2> QED
    BY <2>2, <2>3, <2>4 DEF IInv
<1> QED
  BY <1>1, <1>2 DEF Watch

(* The admin requests.  Closing a row never reopens one.                   *)
LEMMA ApiKeeps ==
  ASSUME IInv, Api
  PROVE  IInv'
<1>1. CASE \E x \in Clients, p \in Pos : ApiRead(x, p)
  <2> PICK x \in Clients, p \in Pos : ApiRead(x, p)
    BY <1>1
  <2> DEFINE new == [pc |-> "read", at |-> p, oid |-> 0]
  <2>1. /\ mode = "up" /\ sess' = [sess EXCEPT ![x] = new] /\ x \in Actor
        /\ UNCHANGED <<position, order, broker, todo, leftover, poll, mode, rtodo,
                       crashes>>
    BY DEF ApiRead, Actor
  <2>2. \A y \in Actor : sess'[y] = IF y = x THEN new ELSE sess[y]
    BY <2>1 DEF IInv, TypeOK
  <2>3. \A y \in Actor : InFlight(y)' => y # x /\ InFlight(y) /\ sess'[y] = sess[y]
    BY <2>2 DEF InFlight
  <2>4. TypeOK'
    <3>1. new \in Session
      BY ExitConstants DEF Session, Pos
    <3>2. sess' \in [Actor -> Session]
      BY <2>1, <3>1 DEF IInv, TypeOK
    <3> QED
      BY <2>1, <3>2 DEF IInv, TypeOK
  <2>5. TablesOK'
    BY <2>1, TablesUnchanged DEF IInv
  <2>6. ClaimsOK'
    <3>1. \A y \in Actor : sess'[y].pc = "read" => sess'[y].at \in Pos
      BY <2>2 DEF IInv, SessionsOK, ClaimsOK
    <3> QED
      BY <2>1, <2>3, <3>1 DEF IInv, SessionsOK, ClaimsOK
  <2>7. LeftoverOK' /\ DraftsOK'
    BY <2>1, <2>3 DEF IInv, SessionsOK, LeftoverOK, DraftsOK
  <2> QED
    BY <2>1, <2>4, <2>5, <2>6, <2>7 DEF IInv, SessionsOK, PollOK, AloneOK
<1>2. CASE \E x \in Clients : ApiClose(x)
  <2> PICK x \in Clients : ApiClose(x)
    BY <1>2
  <2> DEFINE at == sess[x].at
             row == [position[at] EXCEPT !.status = "closed", !.result = TRUE]
  <2>1. /\ mode = "up" /\ sess[x].pc = "read" /\ Idle(x) /\ x \in Actor
        /\ ~ RowLocked(at) /\ leftover' = leftover
        /\ UNCHANGED <<order, broker, todo, leftover, poll, mode, rtodo, crashes>>
    BY DEF ApiClose, Actor
  <2>2. at \in Pos /\ position[at] \in PositionRow
    BY <2>1 DEF IInv, SessionsOK, ClaimsOK, TypeOK
  <2>3. row \in PositionRow /\ row.status = "closed"
    BY <2>2 DEF PositionRow
  <2>4. position' \in {position, [position EXCEPT ![at] = row]}
    BY <2>2 DEF ApiClose, PositionRow
  <2>5. /\ position' \in [Pos -> PositionRow]
        /\ \A p \in Pos : p # at => position'[p] = position[p]
        /\ position'[at].status \in {"closed", position[at].status}
    BY <2>2, <2>3, <2>4 DEF IInv, TypeOK
  <2>6. \A y \in Actor : sess'[y] = IF y = x THEN IdleSess ELSE sess[y]
    BY <2>1 DEF Idle, IInv, TypeOK
  <2>7. \A y \in Actor : InFlight(y)' =>
          y # x /\ InFlight(y) /\ sess'[y] = sess[y] /\ sess[y].at # at
    BY <2>1, <2>6 DEF InFlight, IdleSess, RowLocked
  <2>8. \A f \in leftover : f.pos \in Pos /\ f.pos # at
    BY <2>1 DEF RowLocked, IInv, TypeOK
  <2>9. TypeOK'
    <3>1. IdleSess \in Session
      BY ExitConstants DEF IdleSess, Session
    <3>2. sess' \in [Actor -> Session]
      BY <2>1, <3>1 DEF Idle, IInv, TypeOK
    <3> QED
      BY <2>1, <2>5, <3>2 DEF IInv, TypeOK
  <2>10. TablesOK'
    BY <2>1, <2>2, <2>5 DEF IInv, TablesOK, OpenHasNoLiveExit, LiveOrders, OneLive, RowsOK
  <2>11. ClaimsOK'
    <3>1. \A y \in Actor : sess'[y].pc = "read" => sess'[y].at \in Pos
      BY <2>6 DEF IdleSess, IInv, SessionsOK, ClaimsOK
    <3> QED
      BY <2>5, <2>7, <3>1 DEF IInv, SessionsOK, ClaimsOK
  <2>12. LeftoverOK'
    BY <2>1, <2>5, <2>7, <2>8 DEF IInv, SessionsOK, LeftoverOK
  <2>13. DraftsOK'
    BY <2>1, <2>7 DEF IInv, SessionsOK, DraftsOK
  <2> QED
    BY <2>1, <2>9, <2>10, <2>11, <2>12, <2>13 DEF IInv, SessionsOK, PollOK, AloneOK
<1> QED
  BY <1>1, <1>2 DEF Api

-----------------------------------------------------------------------------
(* The broker, the poller and recovery.                                    *)

(* The broker's own steps do not touch the database.                       *)
LEMMA BrokerKeeps ==
  ASSUME IInv, Broker
  PROVE  IInv'
<1>1. UNCHANGED <<position, order, sess, todo, leftover, poll, mode, rtodo, crashes>>
  BY DEF Broker, Fill, Cancel, Refuse
<1>2. broker' \in [Oid -> BrokerOrder]
  <2>1. CASE \E o \in Oid : Cancel(o) \/ Refuse(o)
    <3> PICK o \in Oid, st \in {"cancelled", "rejected"} :
               broker' = [broker EXCEPT ![o].st = st]
      BY <2>1 DEF Cancel, Refuse
    <3>1. broker[o] \in BrokerOrder
      BY DEF IInv, TypeOK
    <3>2. [broker[o] EXCEPT !.st = st] \in BrokerOrder
      BY <3>1 DEF BrokerOrder, BrokerStatus
    <3> QED
      BY <3>1, <3>2 DEF IInv, TypeOK, BrokerOrder
  <2>2. CASE \E o \in Oid, n \in 1..Qty : Fill(o, n)
    <3> PICK o \in Oid, n \in 1..Qty : Fill(o, n)
      BY <2>2
    <3>1. PICK st \in {"filled", "working"} :
            broker' = [broker EXCEPT ![o].filled = @ + n, ![o].st = st]
      BY DEF Fill
    <3>2. broker[o] \in BrokerOrder /\ broker[o].filled + n <= Qty
      BY DEF Fill, IInv, TypeOK
    <3>3. broker[o].filled + n \in 0..Qty
      BY <3>2, ExitConstants DEF BrokerOrder
    <3>4. [broker[o] EXCEPT !.filled = broker[o].filled + n, !.st = st] \in BrokerOrder
      BY <3>2, <3>3 DEF BrokerOrder, BrokerStatus
    <3>5. broker' = [broker EXCEPT ![o] =
                       [broker[o] EXCEPT !.filled = broker[o].filled + n, !.st = st]]
      BY <3>1, <3>2 DEF IInv, TypeOK, BrokerOrder
    <3> QED
      BY <3>4, <3>5 DEF IInv, TypeOK
  <2> QED
    BY <2>1, <2>2 DEF Broker
<1>3. TypeOK'
  BY <1>1, <1>2 DEF IInv, TypeOK
<1>4. TablesOK' /\ SessionsOK'
  BY <1>1, TablesUnchanged, SessionsUnchanged DEF IInv
<1> QED
  BY <1>1, <1>3, <1>4 DEF IInv, PollOK, AloneOK

(* Moving on to the next order of the cycle.                               *)
LEMMA NextOrderState ==
  ASSUME TypeOK
  PROVE  /\ NextOrder \in PollState /\ NextOrder.pc \in {"idle", "cycle"}
         /\ NextOrder.todo = poll.todo \ {poll.oid}
<1>1. IdlePoll \in PollState
  BY ExitConstants DEF IdlePoll, PollState
<1>2. poll.todo \subseteq Oid
  BY DEF TypeOK, PollState
<1> QED
  BY <1>1, <1>2 DEF NextOrder, IdlePoll, PollState

(* A settled order leaves the cycle's list, the others are as they were.   *)
LEMMA SettledKeeps ==
  ASSUME IInv, mode = "up", Settles(poll.oid), poll.pc \in {"asked", "loaded"},
         poll' \in {NextOrder, IdlePoll},
         UNCHANGED <<broker, sess, todo, leftover, mode, rtodo, crashes>>
  PROVE  IInv'
<1>1. poll.oid \in Oid /\ order[poll.oid].status # "none"
  BY DEF IInv, PollOK, Polled
<1>2. poll' \in PollState /\ poll'.pc \in {"idle", "cycle"}
      /\ \A o \in poll'.todo : o \in poll.todo /\ o # poll.oid
  <2>1. IdlePoll \in PollState /\ IdlePoll.todo = {} /\ IdlePoll.pc = "idle"
    BY ExitConstants DEF IdlePoll, PollState
  <2> QED
    BY <2>1, NextOrderState DEF IInv
<1>3. TypeOK'
  BY <1>2 DEF IInv, TypeOK, Settles
<1>4. TablesOK' /\ SessionsOK'
  BY <1>1, SettlesKeepsTables, SettlesKeepsSessions DEF IInv
<1>5. PollOK'
  <2>1. poll.todo \subseteq Oid
    BY DEF IInv, TypeOK, PollState
  <2> QED
    BY <1>2, <2>1 DEF IInv, PollOK, Settles
<1> QED
  BY <1>3, <1>4, <1>5 DEF IInv, AloneOK

(* The poller: reading an order and asking changes nothing stored, every   *)
(* handler settles the order it works on.                                  *)
LEMMA PollKeeps ==
  ASSUME IInv, Poll
  PROVE  IInv'
<1>1. CASE PollBegin \/ PollLoad \/ \E o \in Oid : PollAsk(o) \/ PollAskRaises(o)
  <2>1. /\ mode = "up"
        /\ UNCHANGED <<position, order, broker, sess, todo, leftover, mode, rtodo,
                       crashes>>
    BY <1>1 DEF PollBegin, PollLoad, PollAsk, PollAskRaises
  <2>2. poll' \in PollState /\ PollOK'
    <3>1. IdlePoll \in PollState
      BY ExitConstants DEF IdlePoll, PollState
    <3>2. CASE PollBegin
      <4> DEFINE T == {o \in Oid : order[o].status \in Polled}
      <4>1. poll' = [IdlePoll EXCEPT !.pc = "cycle", !.todo = T]
        BY <3>2 DEF PollBegin, Polled
      <4>2. T \subseteq Oid
        OBVIOUS
      <4>3. poll' \in PollState /\ poll'.todo = T /\ poll'.pc = "cycle"
        BY <4>1, <4>2, <3>1 DEF PollState, IdlePoll
      <4> QED
        BY <2>1, <4>3 DEF PollOK
    <3>3. CASE PollLoad
      <4>1. order[poll.oid].pos \in Pos
        BY <3>3 DEF PollLoad, IInv, PollOK, Polled, TablesOK, RowsOK
      <4> DEFINE st == position[order[poll.oid].pos].status
      <4>2. st \in {"open", "closing", "closed"}
        BY <4>1 DEF IInv, TypeOK, PositionRow
      <4>3. poll' = [poll EXCEPT !.pc = "loaded", !.pst = st] /\ poll.pc = "asked"
        BY <3>3 DEF PollLoad
      <4> HIDE DEF st
      <4>4. poll' \in PollState /\ poll'.todo = poll.todo /\ poll'.oid = poll.oid
        BY <4>2, <4>3 DEF IInv, TypeOK, PollState
      <4> QED
        BY <2>1, <4>3, <4>4 DEF IInv, PollOK
    <3>4. CASE \E o \in Oid : PollAsk(o)
      <4>1. PICK o \in Oid : PollAsk(o)
        BY <3>4
      <4>2. PICK r \in Replies(o) :
              poll' = [poll EXCEPT !.pc = "asked", !.oid = o, !.reply = r,
                                   !.seen = broker[o].filled]
        BY <4>1 DEF PollAsk
      <4>3. broker[o] \in BrokerOrder
        BY DEF IInv, TypeOK
      <4>4. r \in Live \cup {"filled", "cancelled", "rejected"}
        BY <4>3 DEF Replies, Reported, BrokerOrder, BrokerStatus, Live
      <4>5. broker[o].filled \in 0..Qty /\ o \in 0..NOrd
        BY <4>3, ExitConstants DEF BrokerOrder, Oid
      <4>6. poll' \in PollState /\ poll'.todo = poll.todo /\ poll'.oid = o
        BY <4>2, <4>4, <4>5 DEF IInv, TypeOK, PollState
      <4>7. order[o].status \in Polled
        BY <4>1 DEF PollAsk, IInv, PollOK
      <4> QED
        BY <2>1, <4>6, <4>7 DEF IInv, PollOK
    <3>5. CASE \E o \in Oid : PollAskRaises(o)
      <4>1. PICK o \in Oid, pc \in {"idle", "cycle"} :
              poll' = [IdlePoll EXCEPT !.pc = pc, !.todo = poll.todo \ {o}]
        BY <3>5 DEF PollAskRaises
      <4>2. poll.todo \ {o} \subseteq Oid
        BY DEF IInv, TypeOK, PollState
      <4>3. poll' \in PollState /\ poll'.todo = poll.todo \ {o} /\ poll'.pc = pc
        BY <3>1, <4>1, <4>2 DEF PollState, IdlePoll
      <4> QED
        BY <2>1, <4>3 DEF IInv, PollOK
    <3> QED
      BY <1>1, <3>2, <3>3, <3>4, <3>5
  <2>3. TypeOK'
    BY <2>1, <2>2 DEF IInv, TypeOK
  <2>4. TablesOK' /\ SessionsOK'
    BY <2>1, TablesUnchanged, SessionsUnchanged DEF IInv
  <2> QED
    BY <2>1, <2>2, <2>3, <2>4 DEF IInv, AloneOK
<1>2. CASE PollUnchanged \/ PollPartial \/ PollFilled \/ PollEnded
  <2> DEFINE o == poll.oid
  <2>1. /\ mode = "up" /\ poll.pc \in {"asked", "loaded"}
        /\ poll' \in {NextOrder, IdlePoll}
        /\ UNCHANGED <<broker, sess, todo, leftover, mode, rtodo, crashes>>
    BY <1>2 DEF PollUnchanged, PollPartial, PollFilled, PollEnded
  <2>2. o \in Oid /\ order[o].status \in Live /\ order[o] \in OrderRow
    BY <2>1 DEF IInv, TypeOK, PollOK, Polled, Live
  <2>3. poll.seen \in 0..Qty /\ Qty \in Nat /\ order[o].filled \in 0..Qty
    BY <2>2, ExitConstants DEF IInv, TypeOK, PollState, OrderRow
  <2>4. UNCHANGED <<position, order>> => Settles(o)
    BY <2>2 DEF Settles, IInv, TypeOK, Live
  <2>5. Settles(o)
    <3>1. CASE PollUnchanged
      <4>1. position' = position /\ (order' = order
              \/ order' = [order EXCEPT ![o].status = "unknown"])
        BY <3>1 DEF PollUnchanged
      <4> QED
        BY <2>2, <2>4, <4>1, UnknownSettles DEF IInv, TablesOK
    <3>2. CASE PollPartial
      <4>1. PICK dup \in BOOLEAN : PartlyFilled(o, poll.seen, dup, poll.pst)
        BY <3>2 DEF PollPartial, Duplicates
      <4> QED
        BY <2>2, <2>3, <4>1, PartlyFilledSettles DEF IInv, TablesOK
    <3>3. CASE PollFilled
      <4> DEFINE delta == Qty - order[o].filled
      <4>1. delta \in Int /\ delta <= Qty
        BY <2>3
      <4>2. \/ FullyFilled(o, delta, poll.pst)
            \/ UNCHANGED <<position, order>>
            \/ order' = SetOrder(o, "filled", Qty) /\ position' = position
        BY <3>3 DEF PollFilled
      <4>3. CASE FullyFilled(o, delta, poll.pst)
        BY <2>2, <4>1, <4>3, FullyFilledSettles DEF IInv, TablesOK
      <4>4. CASE order' = SetOrder(o, "filled", Qty) /\ position' = position
        <5>1. "filled" \in OrderStatus /\ Qty \in 0..Qty
          BY <2>3 DEF OrderStatus
        <5>2. /\ order' \in [Oid -> OrderRow]
              /\ \A q \in Oid : q # o => order'[q] = order[q]
              /\ order'[o].pos = order[o].pos /\ order'[o].status = "filled"
          BY <2>2, <4>4, <5>1, SetOrderRow DEF IInv, TypeOK
        <5> QED
          BY <4>4, <5>2 DEF Settles, IInv, TypeOK, Live
      <4> QED
        BY <2>4, <4>2, <4>3, <4>4
    <3>4. CASE PollEnded
      <4>1. /\ poll.reply \in {"cancelled", "rejected"}
            /\ order' = [order EXCEPT ![o].status = poll.reply]
            /\ position' = Reverted(o, poll.pst)
        BY <3>4 DEF PollEnded
      <4> QED
        BY <2>2, <4>1, EndedSettles DEF IInv, TablesOK
    <3> QED
      BY <1>2, <3>1, <3>2, <3>3, <3>4
  <2> QED
    BY <2>1, <2>5, SettledKeeps
<1> QED
  BY <1>1, <1>2 DEF Poll

(* A crash drops every session's uncommitted work.                         *)
LEMMA CrashKeeps ==
  ASSUME IInv, Crash
  PROVE  IInv'
<1>1. /\ leftover' = {} /\ todo' = {} /\ poll' = IdlePoll /\ mode' = "recovering"
      /\ rtodo' \subseteq Oid /\ sess' = [y \in Actor |-> IdleSess]
      /\ crashes < MaxCrash /\ crashes' = crashes + 1
      /\ UNCHANGED <<position, order, broker>>
  BY DEF Crash
<1>2. \A y \in Actor : sess'[y] = IdleSess
  BY <1>1
<1>3. \A y \in Actor : ~ InFlight(y)' /\ sess'[y].pc # "read"
  BY <1>2 DEF InFlight, IdleSess
<1>4. TypeOK'
  <2>1. IdleSess \in Session /\ IdlePoll \in PollState
    BY ExitConstants DEF IdleSess, Session, IdlePoll, PollState
  <2>2. sess' \in [Actor -> Session]
    BY <1>1, <2>1
  <2>3. crashes' \in 0..MaxCrash
    BY <1>1, ExitConstants DEF IInv, TypeOK
  <2> QED
    BY <1>1, <2>1, <2>2, <2>3 DEF IInv, TypeOK
<1>5. TablesOK'
  BY <1>1, TablesUnchanged DEF IInv
<1>6. SessionsOK'
  BY <1>1, <1>3 DEF SessionsOK, ClaimsOK, LeftoverOK, DraftsOK
<1>7. PollOK' /\ AloneOK'
  BY <1>1, <1>2 DEF PollOK, AloneOK, IdlePoll
<1> QED
  BY <1>4, <1>5, <1>6, <1>7 DEF IInv

(* Recovery settles each stored order, alone.                              *)
LEMMA RecoveryKeeps ==
  ASSUME IInv, Recovery
  PROVE  IInv'
<1>1. CASE (\E o \in Oid : RecoverSkips(o)) \/ RecoveryDone
  <2>1. /\ rtodo' \subseteq Oid /\ mode' \in {"up", mode}
        /\ UNCHANGED <<position, order, broker, sess, todo, leftover, poll, crashes>>
    BY <1>1 DEF RecoverSkips, RecoveryDone, IInv, TypeOK
  <2>2. TypeOK'
    BY <2>1 DEF IInv, TypeOK
  <2>3. TablesOK' /\ SessionsOK'
    BY <2>1, TablesUnchanged, SessionsUnchanged DEF IInv
  <2> QED
    BY <2>1, <2>2, <2>3 DEF IInv, PollOK, AloneOK
<1>2. CASE \E o \in Oid : RecoverPending(o) \/ RecoverOrder(o)
  <2>1. PICK o \in Oid : RecoverPending(o) \/ RecoverOrder(o)
    BY <1>2
  <2>2. /\ mode = "recovering" /\ rtodo' \subseteq Oid
        /\ order[o].status \in Live \cup {"pending"}
        /\ UNCHANGED <<broker, sess, todo, leftover, poll, mode, crashes>>
    BY <2>1 DEF RecoverPending, RecoverOrder, IInv, TypeOK
  <2>3. order[o].status # "none"
    BY <2>2 DEF Live
  <2>4. Settles(o)
    <3>1. CASE RecoverPending(o)
      BY <3>1, FailedSettles DEF RecoverPending, IInv, TablesOK
    <3>2. CASE RecoverOrder(o)
      <4> DEFINE pst == position[order[o].pos].status
                 n == broker[o].filled
      <4>1. order[o].status \in Live /\ \E r \in Replies(o) : RecoverReply(o, r)
        BY <3>2 DEF RecoverOrder
      <4>2. /\ broker[o] \in BrokerOrder /\ order[o] \in OrderRow
            /\ n \in 0..Qty /\ order[o].filled \in 0..Qty /\ Qty \in Nat
        BY ExitConstants DEF IInv, TypeOK, BrokerOrder, OrderRow
      <4>3. UNCHANGED <<position, order>> => Settles(o)
        BY <4>1 DEF Settles, IInv, TypeOK, Live
      <4>4. \/ \E dup \in BOOLEAN :
                 FullyFilled(o, IF dup THEN 0 ELSE n - order[o].filled, pst)
            \/ UNCHANGED <<position, order>>
            \/ \E dup \in BOOLEAN : PartlyFilled(o, n, dup, pst)
            \/ \E st \in {"cancelled", "rejected"} :
                 order' = [order EXCEPT ![o].status = st] /\ position' = Reverted(o, pst)
            \/ order' = [order EXCEPT ![o].status = "unknown"] /\ position' = position
        BY <4>1 DEF RecoverReply, Duplicates
      <4>5. ASSUME NEW dup \in BOOLEAN,
                   FullyFilled(o, IF dup THEN 0 ELSE n - order[o].filled, pst)
            PROVE  Settles(o)
        <5> DEFINE delta == IF dup THEN 0 ELSE n - order[o].filled
        <5>1. delta \in Int /\ delta <= Qty
          BY <4>2
        <5>2. FullyFilled(o, delta, pst)
          BY <4>5
        <5> HIDE DEF delta
        <5> QED
          BY <4>1, <5>1, <5>2, FullyFilledSettles DEF IInv, TablesOK
      <4>6. ASSUME NEW dup \in BOOLEAN, PartlyFilled(o, n, dup, pst)
            PROVE  Settles(o)
        BY <4>1, <4>2, <4>6, PartlyFilledSettles DEF IInv, TablesOK
      <4>7. ASSUME NEW st \in {"cancelled", "rejected"},
                   order' = [order EXCEPT ![o].status = st],
                   position' = Reverted(o, pst)
            PROVE  Settles(o)
        BY <4>1, <4>7, EndedSettles DEF IInv, TablesOK
      <4>8. CASE order' = [order EXCEPT ![o].status = "unknown"] /\ position' = position
        BY <4>1, <4>8, UnknownSettles DEF IInv, TablesOK
      <4> QED
        BY <4>3, <4>4, <4>5, <4>6, <4>7, <4>8
    <3> QED
      BY <2>1, <3>1, <3>2
  <2>5. TypeOK'
    BY <2>2, <2>4 DEF Settles, IInv, TypeOK
  <2>6. TablesOK' /\ SessionsOK'
    BY <2>2, <2>3, <2>4, SettlesKeepsTables, SettlesKeepsSessions DEF IInv
  <2>7. PollOK' /\ AloneOK'
    BY <2>2 DEF IInv, PollOK, AloneOK, IdlePoll
  <2> QED
    BY <2>5, <2>6, <2>7 DEF IInv
<1> QED
  BY <1>1, <1>2 DEF Recovery

-----------------------------------------------------------------------------
(* The initial state satisfies the inductive invariant.                    *)
LEMMA InitIInv == Init => IInv
<1> SUFFICES ASSUME Init PROVE IInv
  OBVIOUS
<1>1. TypeOK
  BY ExitConstants DEF Init, TypeOK, PositionRow, OrderRow, OrderStatus, BrokerOrder,
       BrokerStatus, Session, PollState, NoOrder, NoBroker, IdleSess, IdlePoll, None
<1>2. \A o \in Oid : order[o].status = "none"
  BY DEF Init, NoOrder
<1>3. TablesOK
  BY <1>2 DEF TablesOK, OpenHasNoLiveExit, LiveOrders, OneLive, RowsOK, Live
<1>4. \A x \in Actor : ~ InFlight(x) /\ sess[x].pc # "read"
  BY DEF Init, InFlight, IdleSess
<1>5. leftover = {} /\ poll = IdlePoll /\ mode = "up"
  BY DEF Init
<1>6. SessionsOK
  BY <1>4, <1>5 DEF SessionsOK, ClaimsOK, LeftoverOK, DraftsOK
<1>7. PollOK /\ AloneOK
  BY <1>5 DEF PollOK, AloneOK, IdlePoll
<1> QED
  BY <1>1, <1>3, <1>6, <1>7 DEF IInv

(* Every step keeps the inductive invariant.                               *)
LEMMA NextIInv == IInv /\ [Next]_vars => IInv'
<1> SUFFICES ASSUME IInv, [Next]_vars PROVE IInv'
  OBVIOUS
<1>1. CASE \E x \in Actor : Exits(x)
  <2> PICK x \in Actor : Exits(x)
    BY <1>1
  <2> QED
    BY BeginExitKeeps, GiveUpKeeps, PlaceAnsweredKeeps, PlaceRaisesKeeps, CommitExitKeeps
       DEF Exits
<1>2. CASE Watch
  BY <1>2, WatchKeeps
<1>3. CASE Api
  BY <1>3, ApiKeeps
<1>4. CASE Poll
  BY <1>4, PollKeeps
<1>5. CASE Broker
  BY <1>5, BrokerKeeps
<1>6. CASE Crash
  BY <1>6, CrashKeeps
<1>7. CASE Recovery
  BY <1>7, RecoveryKeeps
<1>8. CASE UNCHANGED vars
  <2>1. TablesOK' /\ SessionsOK'
    BY <1>8, TablesUnchanged, SessionsUnchanged DEF vars, IInv
  <2> QED
    BY <1>8, <2>1 DEF vars, IInv, TypeOK, PollOK, AloneOK
<1> QED
  BY <1>1, <1>2, <1>3, <1>4, <1>5, <1>6, <1>7, <1>8 DEF Next

(* The inductive invariant holds in every reachable state.                 *)
THEOREM Invariance == Spec => []IInv
BY InitIInv, NextIInv, PTL DEF Spec

(* TypeOK holds in every reachable state.                                  *)
THEOREM TypeCorrect == Spec => []TypeOK
<1>1. IInv => TypeOK
  BY DEF IInv
<1> QED
  BY Invariance, <1>1, PTL

(* Whoever sees a position OPEN may sell it: no exit order of it is still  *)
(* live, under every fault, with any number of positions, orders, clients  *)
(* and crashes.                                                            *)
THEOREM NoLiveExitWhileOpen == Spec => []OpenHasNoLiveExit
<1>1. IInv => OpenHasNoLiveExit
  BY DEF IInv, TablesOK
<1> QED
  BY Invariance, <1>1, PTL
=============================================================================
