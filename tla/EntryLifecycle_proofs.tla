----------------------- MODULE EntryLifecycle_proofs ------------------------
(***************************************************************************)
(* TLAPS proofs about EntryLifecycle, for every number of signals, shares, *)
(* tickers and crashes and every set of faults.                            *)
(***************************************************************************)
EXTENDS EntryPromise, TLAPS

(* Until its pipeline is over a signal has no committed order.             *)
DraftsOK ==
  \A s \in Sig : pc[s] \in Running \cup {"idle", "screen"} => order[s].status = "none"

(* An order with a broker id is at the broker.                             *)
SentOK ==
  /\ \A s \in Sig : pc[s] = "sent" => broker[s].st # "none"
  /\ \A s \in Sig : order[s].id => broker[s].st # "none"

(* The broker calls an order filled when all its shares are.               *)
BrokerOK == \A s \in Sig : broker[s].st = "filled" => broker[s].filled = Qty

(* Recovery has only unresolved orders to settle, and settles them alone.  *)
TodoOK ==
  /\ mode = "up" => rtodo = {}
  /\ \A s \in rtodo : order[s].status \in Live

(* A trade that is over stays over: its order has ended and its position,  *)
(* if it ever had one, is closed.                                          *)
Over(q) == order[q].status \in Ended /\ position[q] \notin Held

(* Has the order of s been sent, or can it be without another look at the  *)
(* positions?                                                              *)
Cleared(s) == pc[s] \in {"orders", "sending", "sent"} \/ order[s].status # "none"

(* Nothing is seen before the positions are read, and what is seen is over *)
(* by the time the signal that asked is cleared.                           *)
Early == {"idle", "screen", "max", "ticker"}

SeenOK ==
  \A s \in Sig : /\ pc[s] \in Early => seen[s] = {}
                 /\ Cleared(s) => \A q \in seen[s] : Over(q)

IInv ==
  /\ TypeOK /\ DraftsOK /\ SentOK /\ BrokerOK /\ TodoOK
  /\ ExecutedIffPosition /\ PositionIsBacked
  /\ SeenOK

-----------------------------------------------------------------------------
(* A step that clears no signal, moves none back and revives no trade      *)
(* keeps what was seen over.                                               *)
LEMMA SeenKept ==
  ASSUME IInv, UNCHANGED seen,
         \A q \in Sig : order[q].status \in Ended => order'[q].status \in Ended,
         \A q \in Sig : order[q].status \in Ended /\ position[q] \notin Held
                          => position'[q] \notin Held,
         \A s \in Sig : pc'[s] = pc[s] \/ pc'[s] = "done",
         \A s \in Sig : order'[s].status # "none" => Cleared(s)
  PROVE  SeenOK'
<1>1. \A s \in Sig : seen[s] \subseteq Sig
  BY DEF IInv, TypeOK
<1>2. \A q \in Sig : Over(q) => Over(q)'
  BY DEF Over
<1>3. \A s \in Sig : Cleared(s)' => Cleared(s)
  BY DEF Cleared
<1>4. \A s \in Sig : pc'[s] \in Early => pc[s] \in Early
  BY DEF Early
<1> QED
  BY <1>1, <1>2, <1>3, <1>4 DEF IInv, SeenOK

(* Rows.                                                                   *)

(* Mark writes one row's status and quantity.                              *)
LEMMA MarkRow ==
  ASSUME order \in [Sig -> OrderRow], NEW s \in Sig,
         NEW st \in Live \cup Ended, NEW n \in 0..Qty, Mark(s, st, n)
  PROVE  /\ order' \in [Sig -> OrderRow]
         /\ \A q \in Sig : q # s => order'[q] = order[q]
         /\ order'[s].status = st /\ order'[s].filled = n
         /\ order'[s].id = order[s].id
<1>1. order[s] \in OrderRow
  OBVIOUS
<1>2. order' = [order EXCEPT ![s] = [order[s] EXCEPT !.status = st, !.filled = n]]
  BY <1>1 DEF Mark, OrderRow
<1>3. [order[s] EXCEPT !.status = st, !.filled = n] \in OrderRow
  BY <1>1 DEF OrderRow
<1> QED
  BY <1>1, <1>2, <1>3 DEF OrderRow

(* What settling a stored order may do: only an unresolved order, ended    *)
(* only as the broker ended it, and a position only for one it has filled. *)
Settles(s) ==
  /\ order[s].status \in Live
  /\ order' \in [Sig -> OrderRow]
  /\ \A q \in Sig : q # s => order'[q] = order[q]
  /\ order'[s].status \in Live \cup Ended /\ order'[s].id = order[s].id
  /\ order'[s].status \in Ended => broker[s].st = order'[s].status
  /\ \/ /\ UNCHANGED <<position, signal>>
        /\ order'[s].status # "filled" \/ "keyClash" \in Faults
     \/ /\ order'[s].status = "filled" /\ order'[s].filled = Qty
        /\ position' = [position EXCEPT ![s] = "open"]
        /\ signal' = [signal EXCEPT ![s] = "executed"]

(* A complete fill reported by the broker settles its order.               *)
LEMMA OpenPositionSettles ==
  ASSUME IInv, NEW s \in Sig, order[s].status \in Live, broker[s].st = "filled",
         OpenPosition(s)
  PROVE  Settles(s)
<1>1. Qty \in 0..Qty /\ "filled" \in Live \cup Ended
  BY EntryConstants DEF Ended
<1>2. Mark(s, "filled", Qty) /\ order \in [Sig -> OrderRow]
  BY DEF OpenPosition, IInv, TypeOK
<1> QED
  BY <1>1, <1>2, MarkRow DEF OpenPosition, Settles

(* So does a report that leaves the position alone.                        *)
LEMMA OrderOnlySettles ==
  ASSUME IInv, NEW s \in Sig, order[s].status \in Live,
         NEW r \in (Live \cup Ended) \ {"filled"}, OrderOnly(s, r), r \in Ended => broker[s].st = r
  PROVE  Settles(s)
<1> DEFINE n == IF r = "partial" THEN broker[s].filled ELSE order[s].filled
<1>1. order \in [Sig -> OrderRow] /\ broker \in [Sig -> BrokerOrder]
  BY DEF IInv, TypeOK
<1>2. n \in 0..Qty
  BY <1>1 DEF OrderRow, BrokerOrder
<1>3. Mark(s, r, n)
  BY DEF OrderOnly
<1> HIDE DEF n
<1> QED
  BY <1>1, <1>2, <1>3, MarkRow DEF OrderOnly, Settles

(* What the broker reports is a status, and "filled" only when it is.      *)
LEMMA RepliesOK ==
  ASSUME IInv, NEW s \in Sig, order[s].id, NEW r \in Replies(s)
  PROVE  /\ r \in Live \cup Ended
         /\ r \in Ended => broker[s].st = r
<1>1. broker[s] \in BrokerOrder
  BY DEF IInv, TypeOK
<1>2. broker[s].st # "none"
  BY DEF IInv, SentOK
<1> QED
  BY <1>1, <1>2 DEF Replies, Reported, BrokerOrder, Live, Ended

-----------------------------------------------------------------------------
(* Steps that settle an order: the poller's and recovery's.                *)

(* Settling keeps what the tables promise each other.                      *)
LEMMA SettlesKeeps ==
  ASSUME IInv, NEW s \in Sig, Settles(s), UNCHANGED <<broker, pc, mode, crashes, seen>>,
         rtodo' \subseteq rtodo \ {s}
  PROVE  IInv'
<1>1. order[s].status \in Live /\ position[s] = "none"
  BY DEF Settles, IInv, ExecutedIffPosition, Live
<1>2. pc[s] = "done"
  BY <1>1 DEF IInv, TypeOK, DraftsOK, Live
<1>3. TypeOK'
  <2>1. signal' \in [Sig -> SignalStatus]
    BY DEF Settles, IInv, TypeOK, SignalStatus
  <2>2. position' \in [Sig -> Held \cup {"none", "closed"}]
    BY DEF Settles, IInv, TypeOK, Held
  <2> QED
    BY <2>1, <2>2 DEF Settles, IInv, TypeOK
<1>4. DraftsOK' /\ SentOK' /\ BrokerOK'
  BY <1>2 DEF Settles, IInv, DraftsOK, SentOK, BrokerOK, Running
<1>5. TodoOK'
  <2>1. rtodo' \subseteq Sig /\ \A q \in rtodo' : q # s /\ q \in rtodo
    BY DEF IInv, TypeOK
  <2>2. \A q \in rtodo' : order'[q].status \in Live
    BY <2>1 DEF Settles, IInv, TodoOK
  <2>3. mode' = "up" => rtodo' = {}
    BY DEF IInv, TodoOK
  <2> QED
    BY <2>2, <2>3 DEF TodoOK
<1>6. ExecutedIffPosition'
  BY <1>1 DEF Settles, IInv, TypeOK, ExecutedIffPosition
<1>7. PositionIsBacked'
  BY <1>1 DEF Settles, IInv, TypeOK, PositionIsBacked, BrokerOK, Ended
<1>8. SeenOK'
  <2>1. \A q \in Sig : order[q].status \in Ended =>
          order'[q].status \in Ended /\ position'[q] = position[q]
    BY <1>1 DEF Settles, IInv, TypeOK, Live, Ended
  <2>2. \A q \in Sig : order'[q].status # "none" => Cleared(q)
    BY <1>1 DEF Settles, Cleared, Live
  <2> QED
    BY <2>1, <2>2, SeenKept
<1> QED
  BY <1>3, <1>4, <1>5, <1>6, <1>7, <1>8 DEF IInv

(* The poller's answer for one order.                                      *)
LEMMA PollSettles ==
  ASSUME IInv, NEW s \in Sig, Poll(s) \/ PollNoId(s)
  PROVE  Settles(s)
<1>1. order[s].status \in Live
  BY DEF Poll, PollNoId, Polled, Live
<1>2. "unknown" \in Live \ Ended
  BY DEF Live, Ended
<1>3. CASE PollNoId(s)
  BY <1>1, <1>2, <1>3, OrderOnlySettles DEF PollNoId, Ended
<1>4. CASE Poll(s)
  <2>1. PICK r \in Replies(s) :
          \/ r = "filled" /\ OpenPosition(s)
          \/ r # "filled" /\ OrderOnly(s, r)
          \/ OrderOnly(s, "unknown")
          \/ /\ r = "filled" /\ "keyClash" \in Faults
             /\ Mark(s, "filled", Qty) /\ UNCHANGED <<position, signal>>
    BY <1>4 DEF Poll
  <2>2. order[s].id
    BY <1>4 DEF Poll
  <2>3. r \in Live \cup Ended /\ (r \in Ended => broker[s].st = r) /\ "filled" \in Ended
    BY <2>2, RepliesOK DEF Ended
  <2>4. CASE r = "filled" /\ OpenPosition(s)
    BY <1>1, <2>3, <2>4, OpenPositionSettles
  <2>5. CASE r # "filled" /\ OrderOnly(s, r)
    BY <1>1, <2>3, <2>5, OrderOnlySettles
  <2>6. CASE OrderOnly(s, "unknown")
    BY <1>1, <1>2, <2>3, <2>6, OrderOnlySettles
  <2>7. CASE /\ r = "filled" /\ "keyClash" \in Faults
             /\ Mark(s, "filled", Qty) /\ UNCHANGED <<position, signal>>
    <3>1. Qty \in 0..Qty /\ order \in [Sig -> OrderRow]
      BY EntryConstants DEF IInv, TypeOK
    <3> QED
      BY <1>1, <2>3, <2>7, <3>1, MarkRow DEF Settles
  <2> QED
    BY <2>1, <2>4, <2>5, <2>6, <2>7
<1> QED
  BY <1>3, <1>4

LEMMA PollKeeps ==
  ASSUME IInv, NEW s \in Sig, Poll(s) \/ PollNoId(s)
  PROVE  IInv'
<1>1. mode = "up" /\ rtodo = {}
  BY DEF Poll, PollNoId, IInv, TodoOK
<1>2. UNCHANGED <<broker, pc, mode, rtodo, crashes, seen>>
  BY DEF Poll, PollNoId
<1> QED
  BY <1>1, <1>2, PollSettles, SettlesKeeps

(* Recovery's answer.                                                      *)
LEMMA RecoverSettles ==
  ASSUME IInv, NEW s \in Sig, RecoverOrder(s)
  PROVE  Settles(s)
<1>1. order[s].status \in Live
  BY DEF RecoverOrder, IInv, TodoOK
<1>2. PICK r \in Replies(s) : IF r = "filled" THEN OpenPosition(s) ELSE OrderOnly(s, r)
  BY DEF RecoverOrder
<1>3. r \in Live \cup Ended /\ (r \in Ended => broker[s].st = r) /\ "filled" \in Ended
  BY RepliesOK DEF RecoverOrder, Ended
<1> QED
  BY <1>1, <1>2, <1>3, OpenPositionSettles, OrderOnlySettles

(* Recovery's answer for one order, or none.                               *)
LEMMA RecoverKeeps ==
  ASSUME IInv, NEW s \in Sig, Recover(s)
  PROVE  IInv'
<1>1. s \in rtodo /\ rtodo' = rtodo \ {s} /\ order[s].status \in Live
  BY DEF Recover, RecoverSkips, RecoverOrder, IInv, TodoOK
<1>2. UNCHANGED <<broker, pc, mode, crashes, seen>>
  BY DEF Recover, RecoverSkips, RecoverOrder
<1>3. CASE RecoverOrder(s)
  BY <1>1, <1>2, <1>3, RecoverSettles, SettlesKeeps
<1>4. CASE RecoverSkips(s)
  <2>1. UNCHANGED <<signal, order, position>>
    BY <1>4 DEF RecoverSkips
  <2>2. SeenOK'
    BY <1>2, <2>1, SeenKept DEF Cleared
  <2> QED
    BY <1>1, <1>2, <2>1, <2>2 DEF IInv, TypeOK, DraftsOK, SentOK, BrokerOK, TodoOK,
         ExecutedIffPosition, PositionIsBacked
<1> QED
  BY <1>3, <1>4 DEF Recover
-----------------------------------------------------------------------------
(* Steps of a signal's own pipeline.                                       *)

(* Until a pipeline is over its signal has no order, so no position, and   *)
(* is not EXECUTED.                                                        *)
LEMMA DraftIsFresh ==
  ASSUME IInv, NEW s \in Sig, pc[s] \in Running \cup {"idle", "screen"}
  PROVE  order[s].status = "none" /\ position[s] = "none" /\ signal[s] # "executed"
<1>1. order[s].status = "none"
  BY DEF IInv, DraftsOK
<1> QED
  BY <1>1 DEF IInv, ExecutedIffPosition

(* A step that only writes this signal's status and moves its pipeline,    *)
(* past a check only if what the check could tell of is over.              *)
LEMMA MoveKeeps ==
  ASSUME IInv, NEW s \in Sig, pc[s] \in Running \cup {"idle", "screen"},
         NEW l \in Running \cup {"screen", "done"}, Goto(s, l),
         NEW st \in SignalStatus \ {"executed"},
         UNCHANGED signal \/ signal' = [signal EXCEPT ![s] = st],
         UNCHANGED <<order, position, mode, rtodo, crashes>>,
         UNCHANGED broker \/ Send(s),
         l = "sent" => Send(s),
         seen' \in [Sig -> SUBSET Sig], \A q \in Sig \ {s} : seen'[q] = seen[q],
         l \in Early => seen'[s] = {},
         l \in {"orders", "sending", "sent"} => \A q \in seen'[s] : Over(q)
  PROVE  IInv'
<1>1. order[s].status = "none" /\ position[s] = "none" /\ signal[s] # "executed"
  BY DraftIsFresh
<1>2. /\ pc' \in [Sig -> Running \cup {"idle", "screen", "done"}]
      /\ pc'[s] = l /\ \A q \in Sig : q # s => pc'[q] = pc[q]
  BY DEF Goto, IInv, TypeOK
<1>3. /\ signal' \in [Sig -> SignalStatus]
      /\ signal'[s] # "executed" /\ \A q \in Sig : q # s => signal'[q] = signal[q]
  BY <1>1 DEF IInv, TypeOK
<1>4. /\ broker' \in [Sig -> BrokerOrder]
      /\ \A q \in Sig : q # s => broker'[q] = broker[q]
      /\ broker'[s].filled = broker[s].filled
      /\ broker'[s].st \in {broker[s].st, "working"}
      /\ Send(s) => broker'[s].st = "working"
  BY DEF Send, IInv, TypeOK, BrokerOrder
<1>5. TypeOK'
  BY <1>2, <1>3, <1>4 DEF IInv, TypeOK
<1>6. DraftsOK'
  BY <1>1, <1>2 DEF IInv, DraftsOK
<1>7. SentOK'
  BY <1>2, <1>4 DEF IInv, SentOK
<1>8. BrokerOK'
  BY <1>4 DEF IInv, BrokerOK
<1>9. ExecutedIffPosition'
  BY <1>1, <1>3 DEF IInv, ExecutedIffPosition
<1>10. PositionIsBacked'
  BY <1>1, <1>4 DEF IInv, PositionIsBacked
<1>11. SeenOK'
  <2>1. \A q \in Sig : Over(q)' <=> Over(q)
    BY DEF Over
  <2>2. \A p \in Sig : seen'[p] \subseteq Sig
    OBVIOUS
  <2>3. Cleared(s)' => l \in {"orders", "sending", "sent"}
    BY <1>1, <1>2 DEF Cleared
  <2>4. \A p \in Sig \ {s} : (Cleared(p)' <=> Cleared(p)) /\ pc'[p] = pc[p]
    BY <1>2 DEF Cleared
  <2>5. SeenOK
    BY DEF IInv
  <2> QED
    BY <1>2, <2>1, <2>2, <2>3, <2>4, <2>5 DEF SeenOK
<1> QED
  BY <1>5, <1>6, <1>7, <1>8, <1>9, <1>10, <1>11 DEF IInv, TodoOK

(* A step that stores the order and ends the pipeline.                     *)
LEMMA StoreKeeps ==
  ASSUME IInv, NEW s \in Sig, pc[s] \in {"sending", "sent"}, mode = "up",
         NEW st \in {"submitted", "rejected"}, NEW id \in BOOLEAN, Store(s, st, id),
         NEW sg \in {"processing", "failed"}, signal' = [signal EXCEPT ![s] = sg],
         Goto(s, "done"), UNCHANGED <<position, mode, rtodo, crashes, seen>>,
         UNCHANGED broker \/ Send(s), id => pc[s] = "sent"
  PROVE  IInv'
<1>1. order[s].status = "none" /\ position[s] = "none" /\ signal[s] # "executed"
  BY DraftIsFresh DEF Running
<1>2. /\ pc' \in [Sig -> Running \cup {"idle", "screen", "done"}]
      /\ pc'[s] = "done" /\ \A q \in Sig : q # s => pc'[q] = pc[q]
  BY DEF Goto, IInv, TypeOK
<1>3. /\ signal' \in [Sig -> SignalStatus]
      /\ signal'[s] # "executed" /\ \A q \in Sig : q # s => signal'[q] = signal[q]
  BY DEF IInv, TypeOK, SignalStatus
<1>4. /\ broker' \in [Sig -> BrokerOrder]
      /\ \A q \in Sig : q # s => broker'[q] = broker[q]
      /\ broker'[s].filled = broker[s].filled
      /\ broker'[s].st \in {broker[s].st, "working"}
  BY DEF Send, IInv, TypeOK, BrokerOrder
<1>5. /\ order' \in [Sig -> OrderRow]
      /\ order'[s].status = st /\ order'[s].id = id
      /\ \A q \in Sig : q # s => order'[q] = order[q]
  <2>1. [status |-> st, filled |-> 0, id |-> id] \in OrderRow
    BY EntryConstants DEF OrderRow, Live, Ended
  <2> QED
    BY <2>1 DEF Store, IInv, TypeOK
<1>6. TypeOK'
  BY <1>2, <1>3, <1>4, <1>5 DEF IInv, TypeOK
<1>7. DraftsOK'
  BY <1>2, <1>5 DEF IInv, DraftsOK, Running
<1>8. SentOK'
  BY <1>2, <1>4, <1>5 DEF IInv, SentOK
<1>9. BrokerOK'
  BY <1>4 DEF IInv, BrokerOK
<1>10. TodoOK'
  BY DEF IInv, TodoOK
<1>11. ExecutedIffPosition'
  BY <1>1, <1>3, <1>5 DEF IInv, ExecutedIffPosition
<1>12. PositionIsBacked'
  BY <1>1, <1>4, <1>5 DEF IInv, PositionIsBacked
<1>13. SeenOK'
  <2>1. Cleared(s)
    BY DEF Cleared
  <2>2. \A q \in Sig : order'[q].status # "none" => Cleared(q)
    BY <1>5, <2>1 DEF Cleared
  <2>3. \A q \in Sig : order[q].status \in Ended => order'[q].status \in Ended
    BY <1>1, <1>5 DEF Ended
  <2> QED
    BY <1>2, <2>2, <2>3, SeenKept
<1> QED
  BY <1>6, <1>7, <1>8, <1>9, <1>10, <1>11, <1>12, <1>13 DEF IInv
(* A signal's arrival.                                                     *)
LEMMA ReceiveKeeps ==
  ASSUME IInv, NEW s \in Sig, Receive(s)
  PROVE  IInv'
<1>1. pc[s] = "idle" /\ Goto(s, "screen")
  BY DEF Receive, At
<1>2. "received" \in SignalStatus \ {"executed"} /\ "screen" \notin Running
  BY DEF SignalStatus, Running
<1>3. signal' = [signal EXCEPT ![s] = "received"]
  BY DEF Receive
<1>4. UNCHANGED <<order, position, broker, mode, rtodo, crashes, seen>>
  BY DEF Receive
<1>5. /\ pc[s] \in Running \cup {"idle", "screen"} /\ "screen" \in Running \cup {"screen", "done"}
      /\ "screen" \notin {"orders", "sending", "sent"}
  BY <1>1 DEF Running
<1>6. seen \in [Sig -> SUBSET Sig] /\ seen[s] = {}
  BY <1>1 DEF IInv, TypeOK, SeenOK, Early
<1> QED
  BY <1>1, <1>2, <1>3, <1>4, <1>5, <1>6, MoveKeeps

(* Turning a signal down, at any of its checks.                            *)
LEMMA TurnDownKeeps ==
  ASSUME IInv, NEW s \in Sig, pc[s] \in Running \cup {"screen"}, TurnDown(s),
         seen' \in [Sig -> SUBSET Sig], \A q \in Sig \ {s} : seen'[q] = seen[q]
  PROVE  IInv'
<1>1. "rejected" \in SignalStatus \ {"executed"} /\ "done" \notin Running
  BY DEF SignalStatus, Running
<1>2. /\ pc[s] \in Running \cup {"idle", "screen"} /\ "done" \in Running \cup {"screen", "done"}
      /\ "done" \notin {"orders", "sending", "sent"} /\ "done" \notin Early
  BY DEF Early
<1>3. signal' = [signal EXCEPT ![s] = "rejected"] /\ Goto(s, "done")
  BY DEF TurnDown
<1>4. UNCHANGED <<order, position, broker, mode, rtodo, crashes>>
  BY DEF TurnDown
<1> QED
  BY <1>1, <1>2, <1>3, <1>4, MoveKeeps

(* Going on to the next check, or giving up without a trace.               *)
LEMMA PassKeeps ==
  ASSUME IInv, NEW s \in Sig, pc[s] \in Running \cup {"screen"},
         NEW l \in Running \cup {"done"}, Pass(s, l),
         l # "sent",
         seen' \in [Sig -> SUBSET Sig], \A q \in Sig \ {s} : seen'[q] = seen[q],
         l \in Early => seen'[s] = {},
         l \in {"orders", "sending"} => \A q \in seen'[s] : Over(q)
  PROVE  IInv'
<1>1. "received" \in SignalStatus \ {"executed"}
  BY DEF SignalStatus
<1> QED
  BY <1>1, MoveKeeps DEF Pass

(* The gate and the risk checks.                                           *)
LEMMA ChecksKeep ==
  ASSUME IInv, NEW s \in Sig,
         Screen(s) \/ CheckMax(s) \/ CheckTicker(s) \/ CheckOrders(s)
  PROVE  IInv'
<1>1. /\ {"max", "ticker", "orders", "sending", "sent"} = Running /\ "done" \notin Running
      /\ "done" \notin Early /\ "orders" \notin Early /\ "sending" \notin Early
  BY DEF Running, Early
<1>2. seen \in [Sig -> SUBSET Sig] /\ (pc[s] \in Early => seen[s] = {})
  BY DEF IInv, TypeOK, SeenOK
<1>3. CASE Screen(s) \/ CheckMax(s)
  <2>1. pc[s] \in {"screen", "max"} /\ UNCHANGED seen
    BY <1>3 DEF Screen, CheckMax, At
  <2>2. seen'[s] = {}
    BY <1>2, <2>1 DEF Early
  <2>3. TurnDown(s) \/ \E l \in {"max", "ticker", "done"} : Pass(s, l)
    BY <1>3 DEF Screen, CheckMax
  <2> QED
    BY <1>1, <1>2, <2>1, <2>2, <2>3, TurnDownKeeps, PassKeeps
<1>4. ASSUME NEW Q \in SUBSET Sig, See(s, Q)
      PROVE  /\ seen' \in [Sig -> SUBSET Sig] /\ \A q \in Sig \ {s} : seen'[q] = seen[q]
             /\ seen'[s] = seen[s] \cup (SameTicker(s) \cap Q)
  BY <1>2, <1>4 DEF See, SameTicker
<1>5. CASE CheckTicker(s)
  <2> DEFINE Q == {q \in Sig : position[q] # "none"}
  <2>1. pc[s] = "ticker" /\ See(s, Q)
    BY <1>5 DEF CheckTicker, At
  <2>2. seen[s] = {}
    BY <1>2, <2>1 DEF Early
  <2>3. \/ TurnDown(s)
        \/ Pass(s, "orders") /\ \A q \in SameTicker(s) : position[q] \notin Held
    BY <1>5 DEF CheckTicker
  <2>4. \A q \in Q : order[q].status \in Ended
    BY DEF IInv, ExecutedIffPosition, Ended
  <2>5. Pass(s, "orders") /\ ~ TurnDown(s) => \A q \in seen'[s] : Over(q)
    BY <1>4, <2>1, <2>2, <2>3, <2>4 DEF Over
  <2> HIDE DEF Q
  <2>6. Q \in SUBSET Sig
    BY DEF Q
  <2> QED
    BY <1>1, <1>4, <2>1, <2>3, <2>5, <2>6, TurnDownKeeps, PassKeeps
<1>6. CASE CheckOrders(s)
  <2> DEFINE Q == {q \in Sig : order[q].status # "none" /\ position[q] = "none"}
  <2>1. pc[s] = "orders" /\ See(s, Q)
    BY <1>6 DEF CheckOrders, At
  <2>2. \A q \in seen[s] : Over(q)
    BY <2>1 DEF IInv, SeenOK, Cleared
  <2>3. \/ TurnDown(s)
        \/ Pass(s, "sending") /\ \A q \in SameTicker(s) : order[q].status \notin Live
    BY <1>6 DEF CheckOrders, Unresolved
  <2>4. \A q \in Q : order[q].status \in Live \cup Ended /\ position[q] \notin Held
    BY DEF IInv, TypeOK, OrderRow, Held
  <2>5. Pass(s, "sending") /\ ~ TurnDown(s) => \A q \in seen'[s] : Over(q)
    BY <1>4, <2>1, <2>2, <2>3, <2>4 DEF Over
  <2> HIDE DEF Q
  <2>6. Q \in SUBSET Sig
    BY DEF Q
  <2> QED
    BY <1>1, <1>4, <2>1, <2>3, <2>5, <2>6, TurnDownKeeps, PassKeeps
<1> QED
  BY <1>3, <1>5, <1>6

(* Sending the order, and every way that ends.                             *)
LEMMA PlaceKeeps ==
  ASSUME IInv, NEW s \in Sig, Place(s) \/ Commit(s)
  PROVE  IInv'
<1>1. /\ {"sending", "sent"} \subseteq Running /\ "done" \notin Running
      /\ "sent" \notin Early /\ "done" \notin Early
  BY DEF Running, Early
<1>2. CASE PlaceAccepted(s)
  <2>1. "received" \in SignalStatus \ {"executed"}
    BY DEF SignalStatus
  <2>2. /\ pc[s] = "sending" /\ Send(s) /\ Goto(s, "sent")
        /\ UNCHANGED <<signal, order, position, mode, rtodo, crashes, seen>>
    BY <1>2 DEF PlaceAccepted, At
  <2>3. seen \in [Sig -> SUBSET Sig] /\ \A q \in seen[s] : Over(q)
    BY <2>2 DEF IInv, TypeOK, SeenOK, Cleared
  <2> QED
    BY <1>1, <2>1, <2>2, <2>3, MoveKeeps
<1>3. CASE Commit(s)
  BY <1>3, StoreKeeps DEF Commit, At
<1>4. CASE PlaceUncertain(s)
  BY <1>4, StoreKeeps DEF PlaceUncertain, At
<1>5. CASE PlaceRefused(s)
  BY <1>5, StoreKeeps DEF PlaceRefused, At
<1>6. CASE PlaceRejected(s)
  BY <1>6, StoreKeeps DEF PlaceRejected, At
<1>7. CASE RouteFails(s)
  <2>1. pc[s] \in {"sending", "sent"} /\ Pass(s, "done") /\ UNCHANGED seen
    BY <1>7 DEF RouteFails, At, Pass
  <2>2. seen \in [Sig -> SUBSET Sig]
    BY DEF IInv, TypeOK
  <2> QED
    BY <1>1, <2>1, <2>2, PassKeeps
<1> QED
  BY <1>2, <1>3, <1>4, <1>5, <1>6, <1>7 DEF Place

-----------------------------------------------------------------------------
(* The broker, the exit half and the process.                              *)

(* The broker only ends and fills orders it is working on.                 *)
LEMMA BrokerKeeps ==
  ASSUME IInv, NEW s \in Sig, BrokerActs(s)
  PROVE  IInv'
<1>1. broker[s].st = "working" /\ BrokerOnly
  BY DEF BrokerActs, End, Fill
<1>2. broker \in [Sig -> BrokerOrder] /\ position[s] = "none"
  BY <1>1 DEF IInv, TypeOK, PositionIsBacked
<1> DEFINE RowOK == /\ broker' \in [Sig -> BrokerOrder]
                    /\ \A q \in Sig : q # s => broker'[q] = broker[q]
                    /\ broker'[s].st # "none"
                    /\ broker'[s].st = "filled" => broker'[s].filled = Qty
<1>3. RowOK
  <2>1. ASSUME NEW st \in {"cancelled", "rejected"}, End(s, st)
        PROVE  RowOK
    <3>1. broker' = [broker EXCEPT ![s] = [broker[s] EXCEPT !.st = st]]
      BY <1>2, <2>1 DEF End, BrokerOrder
    <3>2. [broker[s] EXCEPT !.st = st] \in BrokerOrder
      BY <1>2 DEF BrokerOrder, Ended
    <3> QED
      BY <1>2, <3>1, <3>2 DEF BrokerOrder
  <2>2. ASSUME NEW n \in 1..Qty, Fill(s, n)
        PROVE  RowOK
    <3> DEFINE m == broker[s].filled + n
               row == [st |-> IF m = Qty THEN "filled" ELSE "working", filled |-> m]
    <3>1. broker' = [broker EXCEPT ![s] = row] /\ m <= Qty
      BY <1>2, <2>2 DEF Fill
    <3>2. m \in 0..Qty
      BY EntryConstants, <1>2, <3>1 DEF BrokerOrder
    <3>3. row \in BrokerOrder
      BY <3>2 DEF BrokerOrder, Ended
    <3> QED
      BY <1>2, <3>1, <3>3
  <2> QED
    BY <2>1, <2>2 DEF BrokerActs
<1>4. TypeOK' /\ SentOK' /\ BrokerOK'
  BY <1>1, <1>3 DEF BrokerOnly, IInv, TypeOK, SentOK, BrokerOK
<1>5. PositionIsBacked'
  BY <1>1, <1>2, <1>3 DEF BrokerOnly, IInv, PositionIsBacked
<1>6. SeenOK'
  BY <1>1, SeenKept DEF BrokerOnly, Cleared
<1> QED
  BY <1>1, <1>4, <1>5, <1>6 DEF BrokerOnly, IInv, DraftsOK, TodoOK, ExecutedIffPosition

(* The exit half moves positions that exist, and makes and deletes none.   *)
LEMMA ExitKeeps ==
  ASSUME IInv, NEW s \in Sig, ExitStep(s) \/ ExitReverts(s)
  PROVE  IInv'
<1>1. /\ position[s] # "none" /\ position' \in [Sig -> Held \cup {"none", "closed"}]
      /\ position'[s] # "none" /\ \A q \in Sig : q # s => position'[q] = position[q]
      /\ position[s] \in Held
  BY DEF ExitStep, ExitReverts, IInv, TypeOK, Held
<1>2. UNCHANGED <<signal, order, broker, pc, mode, rtodo, crashes, seen>>
  BY DEF ExitStep, ExitReverts
<1>3. TypeOK'
  BY <1>1, <1>2 DEF IInv, TypeOK
<1>4. ExecutedIffPosition' /\ PositionIsBacked'
  BY <1>1, <1>2 DEF IInv, ExecutedIffPosition, PositionIsBacked
<1>5. SeenOK'
  BY <1>1, <1>2, SeenKept DEF Cleared
<1> QED
  BY <1>2, <1>3, <1>4, <1>5 DEF IInv, DraftsOK, SentOK, BrokerOK, TodoOK

(* A crash ends every task; what is committed stays.                       *)
LEMMA CrashKeeps ==
  ASSUME IInv, Crash
  PROVE  IInv'
<1>1. /\ pc' \in [Sig -> {"idle", "done"}]
      /\ \A s \in Sig : pc'[s] = "idle" => pc[s] = "idle"
  BY DEF Crash
<1>2. UNCHANGED <<signal, order, position, broker, seen>> /\ mode' = "recovering"
  BY DEF Crash
<1>3. rtodo' \subseteq Sig /\ \A s \in rtodo' : order[s].status \in Live
  BY DEF Crash
<1>4. crashes' \in 0..MaxCrash
  BY EntryConstants DEF Crash, IInv, TypeOK
<1>5. TypeOK'
  BY <1>1, <1>2, <1>3, <1>4 DEF IInv, TypeOK
<1>6. DraftsOK' /\ SentOK' /\ BrokerOK' /\ TodoOK'
  BY <1>1, <1>2, <1>3 DEF IInv, DraftsOK, SentOK, BrokerOK, TodoOK, Running
<1>7. ExecutedIffPosition' /\ PositionIsBacked'
  BY <1>2 DEF IInv, ExecutedIffPosition, PositionIsBacked
<1>8. SeenOK'
  <2>1. \A s \in Sig : pc'[s] = pc[s] \/ pc'[s] = "done"
    BY <1>1
  <2> QED
    BY <1>2, <2>1, SeenKept DEF Cleared
<1> QED
  BY <1>5, <1>6, <1>7, <1>8 DEF IInv

(* Recovery is over when nothing is left to reconcile.                     *)
LEMMA RecoveryDoneKeeps ==
  ASSUME IInv, RecoveryDone
  PROVE  IInv'
<1>1. UNCHANGED <<signal, order, position, broker, pc, rtodo, crashes, seen>>
  BY DEF RecoveryDone
<1>2. mode' = "up" /\ rtodo' = {}
  BY DEF RecoveryDone
<1>3. SeenOK'
  BY <1>1, SeenKept DEF Cleared
<1> QED
  BY <1>1, <1>2, <1>3 DEF IInv, TypeOK, DraftsOK, SentOK, BrokerOK, TodoOK,
     ExecutedIffPosition, PositionIsBacked

-----------------------------------------------------------------------------
(* The inductive invariant.                                                *)

LEMMA InitIInv == Init => IInv
<1> SUFFICES ASSUME Init PROVE IInv
  OBVIOUS
<1>1. TypeOK
  BY EntryConstants DEF Init, TypeOK, SignalStatus, OrderRow, BrokerOrder, Held
<1> QED
  BY <1>1 DEF Init, IInv, DraftsOK, SentOK, BrokerOK, TodoOK, ExecutedIffPosition,
     PositionIsBacked, SeenOK, Cleared, Live, Running

LEMMA NextIInv == IInv /\ [Next]_vars => IInv'
<1> SUFFICES ASSUME IInv, [Next]_vars PROVE IInv'
  OBVIOUS
<1>1. ASSUME NEW s \in Sig, Receive(s) PROVE IInv'
  BY <1>1, ReceiveKeeps
<1>2. ASSUME NEW s \in Sig, Pipeline(s) PROVE IInv'
  BY <1>2, ChecksKeep, PlaceKeeps DEF Pipeline
<1>3. ASSUME NEW s \in Sig, BrokerActs(s) PROVE IInv'
  BY <1>3, BrokerKeeps
<1>4. ASSUME NEW s \in Sig, Poll(s) \/ PollNoId(s) PROVE IInv'
  BY <1>4, PollKeeps
<1>5. ASSUME NEW s \in Sig, ExitStep(s) \/ ExitReverts(s) PROVE IInv'
  BY <1>5, ExitKeeps
<1>6. ASSUME NEW s \in Sig, Recover(s) PROVE IInv'
  BY <1>6, RecoverKeeps
<1>7. CASE Crash
  BY <1>7, CrashKeeps
<1>8. CASE RecoveryDone
  BY <1>8, RecoveryDoneKeeps
<1>9. CASE UNCHANGED vars
  <2>1. SeenOK'
    BY <1>9, SeenKept DEF vars, Cleared
  <2> QED
    BY <1>9, <2>1 DEF vars, IInv, TypeOK, DraftsOK, SentOK, BrokerOK, TodoOK,
       ExecutedIffPosition, PositionIsBacked
<1> QED
  BY <1>1, <1>2, <1>3, <1>4, <1>5, <1>6, <1>7, <1>8, <1>9 DEF Next

(* The inductive invariant holds in every reachable state.                 *)
THEOREM Invariance == Spec => []IInv
  BY InitIInv, NextIInv, PTL DEF Spec

(* Every row stays in its type.                                            *)
THEOREM TypeCorrect == Spec => []TypeOK
<1>1. IInv => TypeOK
  BY DEF IInv
<1> QED
  BY Invariance, <1>1, PTL

(* Signal, order and position rows agree under every fault.                *)
THEOREM TablesAgree == Spec => []ExecutedIffPosition
<1>1. IInv => ExecutedIffPosition
  BY DEF IInv
<1> QED
  BY Invariance, <1>1, PTL

(* A position is opened only for what the broker filled, in full, under    *)
(* every fault.                                                            *)
THEOREM Backed == Spec => []PositionIsBacked
<1>1. IInv => PositionIsBacked
  BY DEF IInv
<1> QED
  BY Invariance, <1>1, PTL

(* However the pipelines overlap, two trades of one ticker are live at a   *)
(* time only if neither could be seen by the other's risk queries.         *)
THEOREM DoublesUnseen == Spec => []DoublesWereUnseen
<1>1. IInv => DoublesWereUnseen
  <2> SUFFICES ASSUME IInv, NEW s \in Sig, NEW q \in SameTicker(s), InTrade(s), InTrade(q),
                      q \in seen[s]
               PROVE  FALSE
    BY DEF DoublesWereUnseen
  <2>1. order[s].status # "none"
    BY DEF InTrade, Live, Held, IInv, ExecutedIffPosition
  <2>2. Over(q)
    BY <2>1 DEF IInv, SeenOK, Cleared
  <2> QED
    BY <2>2 DEF Over, InTrade, Live, Ended
<1> QED
  BY Invariance, <1>1, PTL
-----------------------------------------------------------------------------
(* Orders that have ended.                                                 *)

(* Mark writes no other row, whatever it writes.                           *)
LEMMA MarkOthers ==
  ASSUME order \in [Sig -> OrderRow], NEW s \in Sig, NEW st, NEW n, Mark(s, st, n)
  PROVE  \A q \in Sig : q # s => order'[q] = order[q]
<1>1. order' = [order EXCEPT ![s] = [order[s] EXCEPT !.status = st, !.filled = n]]
  BY DEF Mark, OrderRow
<1> QED
  BY <1>1

(* No step of the system writes the row of an order that has ended.        *)
LEMMA EndedStays ==
  ASSUME IInv, Next, NEW s \in Sig, order[s].status \in Ended
  PROVE  order'[s] = order[s]
<1>1. order \in [Sig -> OrderRow] /\ order[s].status \notin Live \cup {"none"}
  BY DEF IInv, TypeOK, Live, Ended
<1>2. ASSUME NEW q \in Sig, Receive(q)
      PROVE  order'[s] = order[s]
  BY <1>2 DEF Receive
<1>3. ASSUME NEW q \in Sig, Pipeline(q)
      PROVE  order'[s] = order[s]
  <2>1. CASE UNCHANGED order
    BY <2>1
  <2>2. CASE /\ pc[q] \in Running
             /\ \E st, id : Store(q, st, id)
    <3>1. order[q].status = "none"
      BY <2>2, DraftIsFresh
    <3> QED
      BY <1>1, <2>2, <3>1 DEF Store
  <2> QED
    BY <1>3, <2>1, <2>2 DEF Pipeline, Screen, CheckMax, CheckTicker, CheckOrders, TurnDown,
       Pass, Place, PlaceAccepted, PlaceUncertain, PlaceRefused, PlaceRejected, RouteFails,
       Commit, At, Running
<1>4. ASSUME NEW q \in Sig, BrokerActs(q)
      PROVE  order'[s] = order[s]
  BY <1>4 DEF BrokerActs, End, Fill, BrokerOnly
<1>5. ASSUME NEW q \in Sig, Poll(q) \/ PollNoId(q) \/ RecoverOrder(q)
      PROVE  order'[s] = order[s]
  <2>1. order[q].status \in Live
    BY <1>5 DEF Poll, PollNoId, RecoverOrder, Polled, Live, IInv, TodoOK
  <2>2. \E st, n : Mark(q, st, n)
    BY <1>5 DEF Poll, PollNoId, RecoverOrder, OpenPosition, OrderOnly
  <2> QED
    BY <1>1, <2>1, <2>2, MarkOthers
<1>6. ASSUME NEW q \in Sig, ExitStep(q) \/ ExitReverts(q) \/ RecoverSkips(q)
      PROVE  order'[s] = order[s]
  BY <1>6 DEF ExitStep, ExitReverts, RecoverSkips
<1>7. CASE Crash \/ RecoveryDone
  BY <1>7 DEF Crash, RecoveryDone
<1> QED
  BY <1>2, <1>3, <1>4, <1>5, <1>6, <1>7 DEF Next, Recover

(* An order that has ended is never written again, under every fault.      *)
THEOREM EndedFinal == Spec => EndedIsFinal
<1>1. IInv /\ [Next]_vars
        => [\A s \in Sig : order[s].status \in Ended => order'[s] = order[s]]_vars
  BY EndedStays
<1> QED
  BY Invariance, <1>1, PTL DEF Spec, EndedIsFinal

-----------------------------------------------------------------------------
(* What the broker has bought is kept track of.                            *)

(* The faults under which the tables lose no share the broker buys: no     *)
(* order is sent and never committed, no fill mistaken for another, and no *)
(* order cancelled half filled.                                            *)
Tracked == Faults \cap {"lostCommit", "keyClash", "partialCancel"} = {}

(* The broker has bought for s, or may yet.                                *)
Exposed(s) == broker[s].st \in {"working", "filled"}

(* An order that is exposed is unresolved, about to be committed, or a     *)
(* position; no other has bought anything.                                 *)
BoughtOK ==
  /\ \A s \in Sig : order[s].status = "filled" => position[s] # "none"
  /\ \A s \in Sig : ~ Exposed(s) => broker[s].filled = 0
  /\ \A s \in Sig : Exposed(s) =>
       order[s].status \in Live \/ pc[s] = "sent" \/ position[s] # "none"

(* How a step of its pipeline, or its arrival, changes the rows of a       *)
(* signal: the order that was sent is committed; the order is on its way,  *)
(* sent or left uncertain; or the pipeline goes on, or ends, without one.  *)
LEMMA PipelineRows ==
  ASSUME Tracked, IInv, BoughtOK, NEW s \in Sig, Receive(s) \/ Pipeline(s)
  PROVE  /\ \A q \in Sig : q # s => /\ pc'[q] = pc[q] /\ order'[q] = order[q]
                                    /\ broker'[q] = broker[q]
         /\ UNCHANGED position /\ broker'[s].filled = broker[s].filled
         /\ pc[s] # "done" /\ order[s].status = "none" /\ position[s] = "none"
         /\ pc[s] # "sent" => ~ Exposed(s)
         /\ \/ pc[s] = "sent" /\ order'[s].status \in Live /\ broker'[s] = broker[s]
            \/ /\ pc[s] # "sent" /\ broker'[s].st \in {broker[s].st, "working"}
               /\ order'[s].status \in Live \/ (pc'[s] = "sent" /\ order'[s] = order[s])
            \/ /\ pc[s] # "sent" /\ broker'[s] = broker[s]
               /\ \/ pc'[s] \notin {"sent", "done"} /\ order'[s] = order[s]
                  \/ pc'[s] = "done" /\ order'[s].status \in {"none", "rejected"}
<1>1. /\ pc \in [Sig -> Running \cup {"idle", "screen", "done"}]
      /\ order \in [Sig -> OrderRow] /\ broker \in [Sig -> BrokerOrder]
  BY DEF IInv, TypeOK
<1>2. pc[s] \in Running \cup {"idle", "screen"}
  BY DEF Receive, Pipeline, Screen, CheckMax, CheckTicker, CheckOrders, Place, PlaceAccepted,
     PlaceUncertain, PlaceRefused, PlaceRejected, RouteFails, Commit, At, Running
<1>3. /\ pc[s] # "done" /\ order[s].status = "none" /\ position[s] = "none"
      /\ pc[s] # "sent" => ~ Exposed(s)
  BY <1>2, DraftIsFresh DEF BoughtOK, Live, Running
<1>4. CASE Receive(s)
  BY <1>1, <1>3, <1>4 DEF Receive, At, Goto
<1>5. CASE Screen(s) \/ CheckMax(s) \/ CheckTicker(s) \/ CheckOrders(s) \/ RouteFails(s)
  <2>1. pc[s] # "sent" /\ UNCHANGED <<order, position, broker>>
    BY <1>5 DEF Tracked, Screen, CheckMax, CheckTicker, CheckOrders, RouteFails, At, TurnDown,
       Pass
  <2>2. \E l \in {"max", "ticker", "orders", "sending", "done"} : Goto(s, l)
    BY <1>5 DEF Screen, CheckMax, CheckTicker, CheckOrders, RouteFails, TurnDown, Pass
  <2> QED
    BY <1>1, <1>3, <2>1, <2>2 DEF Goto
<1>6. CASE PlaceAccepted(s)
  <2>1. /\ pc[s] # "sent" /\ pc'[s] = "sent" /\ UNCHANGED <<order, position>>
        /\ \A q \in Sig : q # s => pc'[q] = pc[q]
    BY <1>1, <1>6 DEF PlaceAccepted, At, Goto
  <2>2. /\ \A q \in Sig : q # s => broker'[q] = broker[q]
        /\ broker'[s].st = "working" /\ broker'[s].filled = broker[s].filled
    BY <1>1, <1>6 DEF PlaceAccepted, Send, BrokerOrder
  <2> QED
    BY <1>3, <2>1, <2>2
<1>7. CASE PlaceUncertain(s) \/ PlaceRefused(s) \/ PlaceRejected(s) \/ Commit(s)
  <2>1. /\ pc'[s] = "done" /\ UNCHANGED position
        /\ \A q \in Sig : q # s => pc'[q] = pc[q]
    BY <1>1, <1>7 DEF PlaceUncertain, PlaceRefused, PlaceRejected, Commit, Goto
  <2>2. /\ \A q \in Sig : q # s => broker'[q] = broker[q]
        /\ broker'[s].st \in {broker[s].st, "working"} /\ broker'[s].filled = broker[s].filled
        /\ ~ PlaceUncertain(s) => broker'[s] = broker[s]
    <3>1. UNCHANGED broker \/ (PlaceUncertain(s) /\ Send(s))
      BY <1>7 DEF PlaceUncertain, PlaceRefused, PlaceRejected, Commit
    <3>2. CASE UNCHANGED broker
      BY <3>2
    <3>3. CASE PlaceUncertain(s) /\ Send(s)
      BY <1>1, <3>3 DEF Send, BrokerOrder
    <3> QED
      BY <3>1, <3>2, <3>3
  <2>3. PICK st \in {"submitted", "rejected"}, id \in BOOLEAN :
          /\ Store(s, st, id)
          /\ st = "submitted" <=> PlaceUncertain(s) \/ Commit(s)
    <3>1. CASE PlaceUncertain(s) \/ Commit(s)
      BY <3>1 DEF PlaceUncertain, Commit
    <3>2. CASE ~ (PlaceUncertain(s) \/ Commit(s))
      BY <1>7, <3>2 DEF PlaceRefused, PlaceRejected
    <3> QED
      BY <3>1, <3>2
  <2>4. /\ \A q \in Sig : q # s => order'[q] = order[q]
        /\ order'[s].status = st
    BY <1>1, <2>3 DEF Store
  <2>5. pc[s] = "sent" <=> Commit(s)
    BY <1>7 DEF PlaceUncertain, PlaceRefused, PlaceRejected, Commit, At
  <2>6. "submitted" \in Live /\ "rejected" \notin Live
    BY DEF Live
  <2>7. CASE Commit(s)
    <3>1. pc[s] = "sent" /\ ~ PlaceUncertain(s)
      BY <2>5, <2>7 DEF PlaceUncertain, At
    <3>2. order'[s].status = "submitted" /\ broker'[s] = broker[s]
      BY <2>2, <2>3, <2>4, <2>7, <3>1
    <3> QED
      BY <1>3, <2>1, <2>2, <2>4, <2>6, <3>1, <3>2
  <2>8. CASE PlaceUncertain(s)
    <3>1. pc[s] # "sent" /\ ~ Commit(s)
      BY <2>5, <2>8 DEF PlaceUncertain, Commit, At
    <3>2. order'[s].status = "submitted"
      BY <2>3, <2>4, <2>8
    <3> QED
      BY <1>3, <2>1, <2>2, <2>4, <2>6, <3>1, <3>2
  <2>9. CASE ~ Commit(s) /\ ~ PlaceUncertain(s)
    <3>1. pc[s] # "sent" /\ order'[s].status = "rejected" /\ broker'[s] = broker[s]
      BY <2>2, <2>3, <2>4, <2>5, <2>9
    <3> QED
      BY <1>3, <2>1, <2>2, <2>4, <2>6, <3>1
  <2> QED
    BY <2>7, <2>8, <2>9
<1> QED
  BY <1>4, <1>5, <1>6, <1>7 DEF Pipeline, Place

(* How the broker changes a row: shares are bought, or the order ends with *)
(* none.                                                                   *)
LEMMA BrokerRow ==
  ASSUME Tracked, IInv, NEW s \in Sig, BrokerActs(s)
  PROVE  /\ broker[s].st = "working" /\ BrokerOnly
         /\ \A q \in Sig : q # s => broker'[q] = broker[q]
         /\ \/ /\ broker'[s].st \in {"working", "filled"}
               /\ \E n \in 1..(Qty - broker[s].filled) :
                    broker'[s].filled = broker[s].filled + n
            \/ /\ broker'[s].st \notin {"working", "filled"}
               /\ broker[s].filled = 0 /\ broker'[s].filled = 0
<1>1. broker \in [Sig -> BrokerOrder] /\ broker[s].filled \in 0..Qty /\ Qty \in Nat
  BY EntryConstants DEF IInv, TypeOK, BrokerOrder
<1>2. broker[s].st = "working" /\ BrokerOnly
  BY DEF BrokerActs, End, Fill
<1>3. ASSUME NEW n \in 1..Qty, Fill(s, n)
      PROVE  /\ \A q \in Sig : q # s => broker'[q] = broker[q]
             /\ broker'[s].st \in {"working", "filled"}
             /\ n \in 1..(Qty - broker[s].filled) /\ broker'[s].filled = broker[s].filled + n
  <2>1. n \in 1..(Qty - broker[s].filled)
    BY <1>1, <1>3 DEF Fill
  <2>2. broker' = [broker EXCEPT ![s] =
          [st |-> IF broker[s].filled + n = Qty THEN "filled" ELSE "working",
           filled |-> broker[s].filled + n]]
    BY <1>1, <1>3 DEF Fill
  <2> QED
    BY <1>1, <2>1, <2>2
<1>4. ASSUME NEW st \in {"cancelled", "rejected"}, End(s, st)
      PROVE  /\ \A q \in Sig : q # s => broker'[q] = broker[q]
             /\ broker'[s].st \notin {"working", "filled"}
             /\ broker[s].filled = 0 /\ broker'[s].filled = 0
  <2>1. broker[s].filled = 0
    BY <1>4 DEF End, Tracked
  <2>2. /\ \A q \in Sig : q # s => broker'[q] = broker[q]
        /\ broker'[s].st = st /\ broker'[s].filled = broker[s].filled
    BY <1>1, <1>4 DEF End, BrokerOrder
  <2> QED
    BY <2>1, <2>2
<1> QED
  BY <1>2, <1>3, <1>4 DEF BrokerActs

LEMMA NextBought ==
  ASSUME Tracked
  PROVE  IInv /\ BoughtOK /\ [Next]_vars => BoughtOK'
<1> SUFFICES ASSUME IInv, BoughtOK, [Next]_vars
             PROVE  BoughtOK'
  OBVIOUS
<1>1. ASSUME NEW s \in Sig, Receive(s) \/ Pipeline(s)
      PROVE  BoughtOK'
  BY <1>1, PipelineRows DEF BoughtOK, Exposed, Live
<1>2. ASSUME NEW s \in Sig, BrokerActs(s)
      PROVE  BoughtOK'
  <2>1. UNCHANGED <<order, position, pc>>
    BY <1>2, BrokerRow DEF BrokerOnly
  <2> QED
    BY <1>2, <2>1, BrokerRow DEF BoughtOK, Exposed
<1>3. ASSUME NEW s \in Sig, Settles(s), UNCHANGED <<broker, pc>>
      PROVE  BoughtOK'
  <2>1. order'[s].status = "filled" => position'[s] # "none"
    BY <1>3 DEF Settles, Tracked, IInv, TypeOK
  <2>2. \A q \in Sig : position[q] # "none" => position'[q] # "none"
    BY <1>3 DEF Settles, IInv, TypeOK
  <2>3. Exposed(s) => order'[s].status \in Live \/ position'[s] # "none"
    BY <1>3, <2>1 DEF Settles, Exposed, Ended
  <2> QED
    BY <1>3, <2>1, <2>2, <2>3 DEF Settles, BoughtOK, Exposed
<1>4. ASSUME NEW s \in Sig, Poll(s) \/ PollNoId(s) \/ RecoverOrder(s)
      PROVE  BoughtOK'
  <2>1. UNCHANGED <<broker, pc>>
    BY <1>4 DEF Poll, PollNoId, RecoverOrder
  <2> QED
    BY <1>3, <1>4, <2>1, PollSettles, RecoverSettles
<1>5. ASSUME NEW s \in Sig, ExitStep(s) \/ ExitReverts(s)
      PROVE  BoughtOK'
  <2>1. \A q \in Sig : position[q] # "none" => position'[q] # "none"
    BY <1>5 DEF ExitStep, ExitReverts, Held, IInv, TypeOK
  <2>2. UNCHANGED <<order, broker, pc>>
    BY <1>5 DEF ExitStep, ExitReverts
  <2> QED
    BY <2>1, <2>2 DEF BoughtOK, Exposed
<1>6. CASE Crash
  <2>1. UNCHANGED <<order, position, broker>> /\ \A s \in Sig : pc[s] # "sent"
    BY <1>6 DEF Crash, Tracked
  <2> QED
    BY <2>1 DEF BoughtOK, Exposed
<1>7. CASE RecoveryDone \/ UNCHANGED vars \/ \E s \in Sig : RecoverSkips(s)
  BY <1>7 DEF RecoveryDone, RecoverSkips, vars, BoughtOK, Exposed
<1> QED
  BY <1>1, <1>2, <1>4, <1>5, <1>6, <1>7 DEF Next, Recover

LEMMA BoughtInvariance ==
  ASSUME Tracked
  PROVE  Spec => [](IInv /\ BoughtOK)
<1>1. Init => BoughtOK
  BY DEF Init, BoughtOK, Exposed
<1>2. IInv /\ BoughtOK /\ [Next]_vars => BoughtOK'
  BY NextBought
<1> QED
  BY <1>1, <1>2, Invariance, PTL DEF Spec

-----------------------------------------------------------------------------
(* The entries keep the promise.                                           *)

(* A step of the abstract specification or none.                           *)
PromiseStep == [Promise!Next]_<<Stage, BoughtShares>>

(* One signal is placed, buys, is held or dropped, or none is.             *)
LEMMA PromiseMoves ==
  ASSUME NEW s \in Sig, \A q \in Sig : q # s => Stage'[q] = Stage[q],
         \/ Stage'[s] = Stage[s] /\ UNCHANGED BoughtShares
         \/ /\ Stage[s] = "waiting" /\ Stage'[s] = "ordered"
            /\ UNCHANGED BoughtShares
         \/ /\ Stage[s] = "ordered" /\ Stage'[s] = "ordered"
            /\ \E n \in 1..(Qty - BoughtShares[s]) :
                 BoughtShares' = [BoughtShares EXCEPT ![s] = @ + n]
         \/ /\ Stage[s] = "ordered" /\ Stage'[s] = "held" /\ BoughtShares[s] = Qty
            /\ UNCHANGED BoughtShares
         \/ /\ Stage[s] \in {"waiting", "ordered"} /\ Stage'[s] = "dropped"
            /\ BoughtShares[s] = 0 /\ UNCHANGED BoughtShares
  PROVE  PromiseStep
<1>1. Stage = [q \in Sig |-> Stage[q]]
  BY DEF Stage
<1>2. Stage' = [q \in Sig |-> Stage'[q]]
  BY DEF Stage
<1>3. /\ Stage' = [Stage EXCEPT ![s] = Stage'[s]]
      /\ Stage'[s] = Stage[s] => Stage' = Stage
  BY <1>1, <1>2
<1>4. \/ UNCHANGED <<Stage, BoughtShares>>
      \/ Promise!Place(s) \/ Promise!Buy(s) \/ Promise!Hold(s) \/ Promise!Drop(s)
  BY <1>3 DEF Promise!Place, Promise!Buy, Promise!Hold, Promise!Drop
<1> QED
  BY <1>4 DEF PromiseStep, Promise!Next

(* A signal keeps its stage with its rows.                                 *)
LEMMA StageKept ==
  ASSUME NEW q \in Sig, position'[q] = "none" <=> position[q] = "none",
         order'[q].status \in Live <=> order[q].status \in Live,
         pc'[q] = pc[q] \/ {pc[q], pc'[q]} \cap {"sent", "done"} = {}
  PROVE  Stage'[q] = Stage[q]
BY DEF Stage

(* Nothing is bought when no row of the broker says so.                    *)
LEMMA BoughtKept ==
  ASSUME \A q \in Sig : broker'[q].filled = broker[q].filled
  PROVE  UNCHANGED BoughtShares
BY DEF BoughtShares

LEMMA PipelinePromise ==
  ASSUME Tracked, IInv, BoughtOK, NEW s \in Sig, Receive(s) \/ Pipeline(s)
  PROVE  PromiseStep
<1>1. /\ \A q \in Sig : q # s => pc'[q] = pc[q] /\ order'[q] = order[q]
      /\ \A q \in Sig : broker'[q].filled = broker[q].filled
      /\ UNCHANGED position
  BY PipelineRows
<1>2. /\ pc[s] # "done" /\ order[s].status = "none" /\ position[s] = "none"
      /\ pc[s] # "sent" => BoughtShares[s] = 0
  BY PipelineRows DEF BoughtOK, BoughtShares
<1>3. UNCHANGED BoughtShares /\ \A q \in Sig : q # s => Stage'[q] = Stage[q]
  BY <1>1, BoughtKept, StageKept
<1>4. Stage[s] = IF pc[s] = "sent" THEN "ordered" ELSE "waiting"
  BY <1>2 DEF Stage, Live
<1>5. Stage'[s] = IF order'[s].status \in Live \/ pc'[s] = "sent" THEN "ordered"
                  ELSE IF pc'[s] = "done" THEN "dropped" ELSE "waiting"
  BY <1>1, <1>2 DEF Stage
<1>6. \/ pc[s] = "sent" /\ Stage'[s] = "ordered"
      \/ pc[s] # "sent" /\ Stage'[s] \in {"ordered", "dropped", "waiting"}
  BY <1>5, PipelineRows
<1> QED
  BY <1>2, <1>3, <1>4, <1>6, PromiseMoves

(* The broker buys for an order that is placed.                            *)
LEMMA BrokerPromise ==
  ASSUME Tracked, IInv, BoughtOK, NEW s \in Sig, BrokerActs(s)
  PROVE  PromiseStep
<1>1. UNCHANGED <<position, order, pc>> /\ \A q \in Sig : q # s => broker'[q] = broker[q]
  BY BrokerRow DEF BrokerOnly
<1>2. \A q \in Sig : Stage'[q] = Stage[q]
  BY <1>1, StageKept
<1>3. CASE broker'[s].filled = broker[s].filled
  BY <1>1, <1>2, <1>3, BoughtKept, PromiseMoves
<1>4. CASE \E n \in 1..(Qty - broker[s].filled) : broker'[s].filled = broker[s].filled + n
  <2>1. PICK n \in 1..(Qty - broker[s].filled) : broker'[s].filled = broker[s].filled + n
    BY <1>4
  <2>2. BoughtShares' = [BoughtShares EXCEPT ![s] = @ + n]
    BY <1>1, <2>1 DEF BoughtShares
  <2>3. position[s] = "none"
    BY BrokerRow DEF IInv, PositionIsBacked
  <2>4. Stage[s] = "ordered"
    BY <2>3, BrokerRow DEF BoughtOK, Exposed, Stage
  <2>5. BoughtShares[s] = broker[s].filled
    BY DEF BoughtShares
  <2> QED
    BY <1>2, <2>1, <2>2, <2>4, <2>5, PromiseMoves
<1> QED
  BY <1>3, <1>4, BrokerRow

(* Settling an order holds what it bought, drops one that bought nothing   *)
(* or leaves it placed.                                                    *)
LEMMA SettlesPromise ==
  ASSUME Tracked, IInv, BoughtOK, NEW s \in Sig, Settles(s), UNCHANGED <<broker, pc>>
  PROVE  PromiseStep
<1>1. /\ order[s].status \in Live /\ position[s] = "none" /\ pc[s] = "done"
  BY DEF Settles, IInv, TypeOK, DraftsOK, ExecutedIffPosition, Live
<1>2. UNCHANGED BoughtShares
  BY BoughtKept
<1>3. \A q \in Sig : q # s => Stage'[q] = Stage[q]
  <2> SUFFICES ASSUME NEW q \in Sig, q # s
               PROVE  Stage'[q] = Stage[q]
    OBVIOUS
  <2>1. position'[q] = position[q] /\ order'[q] = order[q]
    BY DEF Settles, IInv, TypeOK
  <2> QED
    BY <2>1, StageKept
<1>4. Stage[s] = "ordered"
  BY <1>1 DEF Stage
<1>5. CASE order'[s].status = "filled"
  <2>1. position'[s] # "none"
    BY <1>5 DEF Settles, Tracked, IInv, TypeOK
  <2>2. broker[s].filled = Qty
    BY <1>5 DEF Settles, Ended, IInv, BrokerOK
  <2>3. Stage'[s] = "held" /\ BoughtShares[s] = Qty
    BY <2>1, <2>2 DEF Stage, BoughtShares
  <2> QED
    BY <1>2, <1>3, <1>4, <2>3, PromiseMoves
<1>6. CASE order'[s].status \in {"cancelled", "rejected"}
  <2>1. UNCHANGED position /\ broker[s].st = order'[s].status
    BY <1>6 DEF Settles, Ended
  <2>2. BoughtShares[s] = 0
    BY <1>6, <2>1 DEF BoughtOK, Exposed, BoughtShares
  <2>3. Stage'[s] = "dropped"
    BY <1>1, <1>6, <2>1 DEF Stage, Live
  <2> QED
    BY <1>2, <1>3, <1>4, <2>2, <2>3, PromiseMoves
<1>7. CASE order'[s].status \in Live
  <2>1. UNCHANGED position
    BY <1>7 DEF Settles, Live
  <2>2. Stage'[s] = "ordered"
    BY <1>1, <1>7, <2>1 DEF Stage
  <2> QED
    BY <1>2, <1>3, <1>4, <2>2, PromiseMoves
<1> QED
  BY <1>5, <1>6, <1>7 DEF Settles, Ended

(* A crash drops the signals whose order was not sent yet.                 *)
LEMMA CrashPromise ==
  ASSUME Tracked, IInv, BoughtOK, Crash
  PROVE  PromiseStep
<1> DEFINE S == {s \in Sig : pc[s] \in (Running \cup {"screen"})}
<1>1. /\ UNCHANGED <<order, position, broker>> /\ \A s \in Sig : pc[s] # "sent"
      /\ \A s \in Sig : pc'[s] = IF pc[s] = "idle" THEN "idle" ELSE "done"
  BY DEF Crash, Tracked
<1>2. pc \in [Sig -> Running \cup {"idle", "screen", "done"}]
  BY DEF IInv, TypeOK
<1>3. \A s \in S : order[s].status = "none" /\ position[s] = "none" /\ pc'[s] = "done"
  BY <1>1, DraftIsFresh DEF Running
<1>4. \A s \in S : Stage[s] = "waiting" /\ Stage'[s] = "dropped"
  BY <1>1, <1>3 DEF Stage, Live, Running
<1>5. \A s \in Sig : s \notin S => Stage'[s] = Stage[s]
  BY <1>1, <1>2, StageKept
<1>6. S \in SUBSET Sig
  OBVIOUS
<1> HIDE DEF S
<1>7. Stage' = [s \in Sig |-> IF s \in S THEN "dropped" ELSE Stage[s]]
  <2>1. Stage' = [s \in Sig |-> Stage'[s]]
    BY DEF Stage
  <2> QED
    BY <1>4, <1>5, <2>1
<1>8. UNCHANGED BoughtShares
  BY <1>1, BoughtKept
<1>9. Promise!Restart(S)
  BY <1>4, <1>7, <1>8 DEF Promise!Restart
<1> QED
  BY <1>6, <1>9 DEF PromiseStep, Promise!Next

LEMMA NextPromise ==
  ASSUME Tracked
  PROVE  IInv /\ BoughtOK /\ [Next]_vars => PromiseStep
<1> SUFFICES ASSUME IInv, BoughtOK, [Next]_vars
             PROVE  PromiseStep
  OBVIOUS
<1>1. ASSUME NEW s \in Sig, Receive(s) \/ Pipeline(s)
      PROVE  PromiseStep
  BY <1>1, PipelinePromise
<1>2. ASSUME NEW s \in Sig, BrokerActs(s)
      PROVE  PromiseStep
  BY <1>2, BrokerPromise
<1>3. ASSUME NEW s \in Sig, Poll(s) \/ PollNoId(s) \/ RecoverOrder(s)
      PROVE  PromiseStep
  <2>1. UNCHANGED <<broker, pc>>
    BY <1>3 DEF Poll, PollNoId, RecoverOrder
  <2> QED
    BY <1>3, <2>1, PollSettles, RecoverSettles, SettlesPromise
<1>4. CASE \/ \E s \in Sig : ExitStep(s) \/ ExitReverts(s) \/ RecoverSkips(s)
          \/ RecoveryDone \/ UNCHANGED vars
  <2>1. UNCHANGED <<order, broker, pc>>
    BY <1>4 DEF ExitStep, ExitReverts, RecoverSkips, RecoveryDone, vars
  <2>2. \A q \in Sig : position'[q] = "none" <=> position[q] = "none"
    BY <1>4 DEF ExitStep, ExitReverts, RecoverSkips, RecoveryDone, vars, Held, IInv, TypeOK
  <2>3. \A q \in Sig : Stage'[q] = Stage[q]
    BY <2>1, <2>2, StageKept
  <2>4. Stage' = Stage
    BY <2>3 DEF Stage
  <2> QED
    BY <2>1, <2>4, BoughtKept DEF PromiseStep
<1>5. CASE Crash
  BY <1>5, CrashPromise
<1> QED
  BY <1>1, <1>2, <1>3, <1>4, <1>5 DEF Next, Recover

(* The entries implement SignalPromise: shares are bought only for an order *)
(* that is placed, an order is dropped only if it bought none and a        *)
(* position holds all of them, through uncertain sends, stuck orders,      *)
(* UNKNOWN and REJECTED replies and crashes at any other moment than       *)
(* between the broker's answer and the commit.                             *)
THEOREM PromiseIsKept ==
  ASSUME Tracked
  PROVE  Spec => KeepsSignalPromise
<1>1. Init => Promise!Init
  BY DEF Init, Promise!Init, Stage, BoughtShares, Live
<1>2. IInv /\ BoughtOK /\ [Next]_vars => [Promise!Next]_<<Stage, BoughtShares>>
  BY NextPromise DEF PromiseStep
<1> QED
  BY <1>1, <1>2, BoughtInvariance, PTL DEF Spec, KeepsSignalPromise, Promise!Spec

(* Hence no share is forgotten: whatever the broker has bought is watched  *)
(* by an order that blocks its ticker, or is a position, in full.          *)
THEOREM SharesAreWatched ==
  ASSUME Tracked
  PROVE  Spec => []Promise!NothingUnwatched
<1>1. Promise!Init => Promise!NothingUnwatched
  BY EntryConstants DEF Promise!Init, Promise!NothingUnwatched
<1>2. Promise!NothingUnwatched /\ [Promise!Next]_<<Stage, BoughtShares>>
        => Promise!NothingUnwatched'
  <2> SUFFICES ASSUME Promise!NothingUnwatched, [Promise!Next]_<<Stage, BoughtShares>>,
                      NEW q \in Sig
               PROVE  /\ BoughtShares'[q] \in 0..Qty
                      /\ BoughtShares'[q] > 0 => Stage'[q] \in {"ordered", "held"}
                      /\ Stage'[q] = "held" => BoughtShares'[q] = Qty
    BY DEF Promise!NothingUnwatched
  <2>1. /\ BoughtShares[q] \in 0..Qty
        /\ BoughtShares[q] > 0 => Stage[q] \in {"ordered", "held"}
        /\ Stage[q] = "held" => BoughtShares[q] = Qty
    BY DEF Promise!NothingUnwatched
  <2>2. DOMAIN Stage = Sig /\ DOMAIN BoughtShares = Sig
    BY DEF Stage, BoughtShares
  <2>3. CASE UNCHANGED <<Stage, BoughtShares>>
    BY <2>1, <2>3
  <2>4. CASE \E s \in Sig : Promise!Place(s) \/ Promise!Hold(s) \/ Promise!Drop(s)
    BY <2>1, <2>2, <2>4 DEF Promise!Place, Promise!Hold, Promise!Drop
  <2>5. CASE \E s \in Sig : Promise!Buy(s)
    <3>1. PICK s \in Sig : Promise!Buy(s)
      BY <2>5
    <3>2. PICK n \in 1..(Qty - BoughtShares[s]) : BoughtShares' = [BoughtShares EXCEPT ![s] = @ + n]
      BY <3>1 DEF Promise!Buy
    <3>3. BoughtShares'[q] = IF q = s THEN BoughtShares[q] + n ELSE BoughtShares[q]
      BY <2>2, <3>2
    <3> QED
      BY <2>1, <3>1, <3>2, <3>3, EntryConstants DEF Promise!Buy
  <2>6. CASE \E S \in SUBSET Sig : Promise!Restart(S)
    BY <2>1, <2>6, EntryConstants DEF Promise!Restart
  <2> QED
    BY <2>3, <2>4, <2>5, <2>6 DEF Promise!Next
<1> QED
  BY <1>1, <1>2, PromiseIsKept, PTL DEF KeepsSignalPromise, Promise!Spec
=============================================================================
