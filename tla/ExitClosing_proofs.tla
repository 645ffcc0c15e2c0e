------------------------- MODULE ExitClosing_proofs -------------------------
(***************************************************************************)
(* TLAPS proofs about what ExitLifecycle records: fills are real under      *)
(* every fault; unless an operator closes with a price (Unforced), a CLOSED *)
(* position was sold and stays CLOSED, and where something is sold twice    *)
(* there is one of two causes; unless execution ids clash too               *)
(* (Counted) remaining_qty adds up; unless place_order answers REJECTED as  *)
(* well (Benign) a CLOSING position has its one exit order; and without     *)
(* lost replies, crashes in flight and partial cancels (Careful) nothing is *)
(* sold twice and PositionPromise is implemented.                           *)
(***************************************************************************)
EXTENDS ExitLifecycle_proofs, ExitPromise, FiniteSetTheorems

(* How an order ends at the broker.                                         *)
Ended == {"filled", "cancelled", "rejected"}

(* What is recorded of an order, and what the poller has been told of it,   *)
(* is behind the broker, which never takes a fill back.                     *)
FillsOK ==
  /\ RecordedFillsAreReal
  /\ \A o \in Oid : order[o].status = "none" => order[o].filled = 0
  /\ \A o \in Oid : broker[o].st = "filled" => broker[o].filled = Qty
  /\ poll.pc \in {"asked", "loaded"} =>
       /\ order[poll.oid].filled <= poll.seen
       /\ poll.seen <= broker[poll.oid].filled
       /\ poll.reply \in Ended => broker[poll.oid].st = poll.reply

(* A draft is unknown to the broker until it is sent, and what was sent is  *)
(* for the position of the row.                                             *)
PlacedOK ==
  /\ \A x \in Actor : sess[x].pc = "sending" => broker[sess[x].oid].st = "none"
  /\ \A x \in Actor : sess[x].pc = "sent" => broker[sess[x].oid].pos = sess[x].at
  /\ \A o \in Oid : order[o].status \in Live => broker[o].pos = order[o].pos

RealOK == FillsOK /\ PlacedOK

(* No operator closes a position past its exit order.                       *)
Unforced == "pricedClose" \notin Faults

(* Nor is an execution taken for one that is stored already.                *)
Counted == Faults \cap {"pricedClose", "keyClash"} = {}

(* Nor is an exit committed that the broker has REJECTED: the faults under  *)
(* which no exit is lost.                                                   *)
Benign == Faults \cap {"pricedClose", "keyClash", "rejectReply"} = {}

(* Live orders are of CLOSING positions, as every handler of the poller     *)
(* finds them.  Where nothing is lost, a CLOSING position has one.          *)
ClosingOK ==
  /\ "rejectReply" \notin Faults => \A x \in Actor : sess[x].pc # "refused"
  /\ \A o \in Oid : order[o].status \in Live => position[order[o].pos].status = "closing"
  /\ Benign => \A p \in Pos : position[p].status = "closing" => LiveOrders(p) # {}
  /\ Counted => RemainingAddsUp
  /\ ResultIffClosed /\ ClosedMeansSold
  /\ poll.pc = "loaded" => poll.pst = "closing"

-----------------------------------------------------------------------------
(* What happens at the broker.                                              *)

(* The broker adds fills and ends orders it works on, and nothing else.     *)
LEMMA BrokerRows ==
  ASSUME IInv, FillsOK, Broker, NEW o \in Oid
  PROVE  /\ broker'[o].filled >= broker[o].filled
         /\ broker'[o].pos = broker[o].pos
         /\ broker[o].st # "working" => broker'[o] = broker[o]
         /\ broker'[o].st = "filled" => broker'[o].filled = Qty
<1>1. broker \in [Oid -> BrokerOrder] /\ Qty \in Nat
  BY ExitConstants DEF IInv, TypeOK
<1>2. broker[o].filled \in 0..Qty
  BY <1>1 DEF BrokerOrder
<1>3. CASE \E q \in Oid : Cancel(q) \/ Refuse(q)
  <2>1. PICK q \in Oid, st \in {"cancelled", "rejected"} :
          broker[q].st = "working" /\ broker' = [broker EXCEPT ![q].st = st]
    BY <1>3 DEF Cancel, Refuse
  <2>2. CASE q = o
    BY <1>1, <1>2, <2>1, <2>2 DEF BrokerOrder
  <2>3. CASE q # o
    BY <1>1, <1>2, <2>1, <2>3 DEF FillsOK
  <2> QED
    BY <2>2, <2>3
<1>4. CASE \E q \in Oid, n \in 1..Qty : Fill(q, n)
  <2>1. PICK q \in Oid, n \in 1..Qty : Fill(q, n)
    BY <1>4
  <2>2. CASE q = o
    <3>1. broker[o] \in BrokerOrder
      BY <1>1
    <3>2. /\ broker[o].st = "working"
          /\ broker'[o].filled = broker[o].filled + n
          /\ broker'[o].pos = broker[o].pos
          /\ broker'[o].st = IF broker[o].filled + n = Qty THEN "filled" ELSE "working"
      BY <1>1, <2>1, <2>2, <3>1 DEF Fill, BrokerOrder
    <3> QED
      BY <1>1, <1>2, <2>1, <3>2
  <2>3. CASE q # o
    <3>1. broker'[o] = broker[o]
      BY <1>1, <2>1, <2>3 DEF Fill
    <3> QED
      BY <1>2, <3>1 DEF FillsOK
  <2> QED
    BY <2>2, <2>3
<1> QED
  BY <1>3, <1>4 DEF Broker

(* What place_order does to the order of session x, whether it returns.     *)
Placing(x) ==
  /\ sess[x].pc = "sending"
  /\ \/ UNCHANGED broker
     \/ \E st \in {"working", "rejected"} :
          broker' = [broker EXCEPT ![sess[x].oid] =
                       [st |-> st, pos |-> sess[x].at, filled |-> 0]]

LEMMA PlacingRows ==
  ASSUME IInv, RealOK, NEW x \in Actor, Placing(x)
  PROVE  /\ sess[x].oid \in Oid /\ order[sess[x].oid].status = "none"
         /\ \A o \in Oid : o # sess[x].oid => broker'[o] = broker[o]
         /\ broker[sess[x].oid].st = "none" /\ broker'[sess[x].oid].st # "filled"
         /\ broker'[sess[x].oid].filled >= 0
<1>1. InFlight(x) /\ sess[x].oid \in Oid /\ order[sess[x].oid].status = "none"
  BY DEF Placing, InFlight, IInv, SessionsOK, ClaimsOK, DraftsOK
<1>2. broker \in [Oid -> BrokerOrder] /\ broker[sess[x].oid].st = "none"
  BY DEF Placing, IInv, TypeOK, RealOK, PlacedOK
<1>3. broker[sess[x].oid].filled >= 0
  BY <1>1, <1>2, ExitConstants DEF BrokerOrder
<1> QED
  BY <1>1, <1>2, <1>3 DEF Placing

-----------------------------------------------------------------------------
(* Fills.                                                                   *)

(* Nothing is recorded and nothing happens at the broker.                   *)
LEMMA FillsKept ==
  ASSUME FillsOK, UNCHANGED <<order, broker>>,
         poll' = poll \/ poll'.pc \notin {"asked", "loaded"}
  PROVE  FillsOK'
BY DEF FillsOK, RecordedFillsAreReal

(* The broker moves on.                                                     *)
LEMMA FillsBehindBroker ==
  ASSUME IInv, FillsOK, UNCHANGED <<order, poll>>,
         broker' \in [Oid -> BrokerOrder],
         \A o \in Oid : /\ order[o].filled <= broker'[o].filled
                        /\ broker'[o].st = "filled" => broker'[o].filled = Qty
                        /\ order[o].status # "none" =>
                             /\ broker'[o].filled >= broker[o].filled
                             /\ broker[o].st \in Ended => broker'[o].st = broker[o].st
  PROVE  FillsOK'
<1>1. poll.pc \in {"asked", "loaded"} =>
        /\ poll.oid \in Oid /\ order[poll.oid].status # "none"
        /\ poll.seen \in Int /\ broker[poll.oid].filled \in Int
        /\ broker'[poll.oid].filled \in Int
  BY ExitConstants DEF IInv, TypeOK, PollOK, Polled, PollState, BrokerOrder
<1>2. poll'.pc \in {"asked", "loaded"} =>
        /\ order'[poll'.oid].filled <= poll'.seen
        /\ poll'.seen <= broker'[poll'.oid].filled
        /\ poll'.reply \in Ended => broker'[poll'.oid].st = poll'.reply
  BY <1>1 DEF FillsOK
<1> QED
  BY <1>2 DEF FillsOK, RecordedFillsAreReal

(* Exits are committed as orders without fills.                             *)
LEMMA FillsStored ==
  ASSUME IInv, FillsOK, order' \in [Oid -> OrderRow], UNCHANGED <<broker, poll>>,
         \A o \in Oid : order[o].status # "none" => order'[o] = order[o],
         \A o \in Oid : order'[o] = order[o] \/ order'[o].filled = 0
  PROVE  FillsOK'
<1>1. poll.pc \in {"asked", "loaded"} =>
        poll.oid \in Oid /\ order'[poll.oid] = order[poll.oid]
  BY DEF IInv, PollOK, Polled
<1>2. \A o \in Oid : broker[o].filled \in Nat
  BY ExitConstants DEF IInv, TypeOK, BrokerOrder
<1> QED
  BY <1>1, <1>2 DEF FillsOK, RecordedFillsAreReal

-----------------------------------------------------------------------------
(* Sent orders.                                                             *)

(* Neither sessions in flight nor live orders appear or change.             *)
LEMMA PlacedKept ==
  ASSUME PlacedOK, UNCHANGED broker,
         \A x \in Actor : sess'[x].pc \in {"sending", "sent"} => sess'[x] = sess[x],
         \A o \in Oid : order'[o].status \in Live =>
                          order[o].status \in Live /\ order'[o].pos = order[o].pos
  PROVE  PlacedOK'
BY DEF PlacedOK

(* The same with the broker moving on.                                      *)
LEMMA PlacedBehindBroker ==
  ASSUME PlacedOK, IInv, UNCHANGED <<sess, order>>,
         \A o \in Oid : /\ broker'[o].pos = broker[o].pos
                        /\ broker[o].st = "none" => broker'[o] = broker[o]
  PROVE  PlacedOK'
<1>1. \A x \in Actor : sess[x].pc \in {"sending", "sent"} => sess[x].oid \in Oid
  BY DEF IInv, SessionsOK, ClaimsOK, InFlight
<1> QED
  BY <1>1 DEF PlacedOK

(* Session x goes on or gives up, its order at the broker or not.           *)
LEMMA PlacedPlacing ==
  ASSUME IInv, RealOK, NEW x \in Actor, Placing(x), UNCHANGED order,
         \A y \in Actor : y # x => sess'[y] = sess[y],
         \/ sess'[x].pc \notin {"sending", "sent"}
         \/ /\ sess'[x].pc = "sent" /\ sess'[x].oid = sess[x].oid
            /\ broker'[sess[x].oid].pos = sess'[x].at
  PROVE  PlacedOK'
<1>1. \A o \in Oid : o # sess[x].oid => broker'[o] = broker[o]
  BY PlacingRows
<1>2. order[sess[x].oid].status = "none"
  BY PlacingRows
<1>3. \A y \in Actor : y # x /\ sess'[y].pc \in {"sending", "sent"} =>
        /\ sess[y].oid \in Oid /\ sess[y].oid # sess[x].oid
  BY DEF Placing, IInv, SessionsOK, ClaimsOK, DraftsOK, InFlight
<1>4. \A o \in Oid : order'[o].status \in Live => o # sess[x].oid
  BY <1>2 DEF Live
<1>5. \A o \in Oid : order'[o].status \in Live => broker'[o].pos = order'[o].pos
  BY <1>1, <1>4 DEF RealOK, PlacedOK
<1>6. \A y \in Actor : sess'[y].pc = "sending" => broker'[sess'[y].oid].st = "none"
  BY <1>1, <1>3 DEF RealOK, PlacedOK
<1>7. \A y \in Actor : sess'[y].pc = "sent" => broker'[sess'[y].oid].pos = sess'[y].at
  <2> SUFFICES ASSUME NEW y \in Actor, sess'[y].pc = "sent"
               PROVE  broker'[sess'[y].oid].pos = sess'[y].at
    OBVIOUS
  <2>1. CASE y = x
    BY <2>1
  <2>2. CASE y # x
    BY <1>1, <1>3, <2>2 DEF RealOK, PlacedOK
  <2> QED
    BY <2>1, <2>2
<1> QED
  BY <1>5, <1>6, <1>7 DEF PlacedOK

-----------------------------------------------------------------------------
(* Commits.                                                                 *)

(* Rows that a commit of failed exits adds have no fills.                   *)
LEMMA OrdersAfterFills ==
  ASSUME TypeOK, NEW fs \in SUBSET [pos: Pos, oid: Oid], NEW o \in Oid
  PROVE  \/ OrdersAfter(fs)[o] = order[o]
         \/ OrdersAfter(fs)[o].filled = 0 /\ OrdersAfter(fs)[o].status = "pending"
BY DEF OrdersAfter

(* The rows a commit writes: the claimed position is CLOSING in full, those *)
(* of failed exits and every TradeResult stay.                              *)
LEMMA PositionsAfterClaim ==
  ASSUME TypeOK, NEW C \in SUBSET Pos, NEW fs \in SUBSET [pos: Pos, oid: Oid],
         NEW p \in Pos
  PROVE  /\ PositionsAfter(C, fs)[p].result = position[p].result
         /\ p \in C => PositionsAfter(C, fs)[p].remaining = Qty
         /\ p \notin C /\ (\A f \in fs : f.pos # p) => PositionsAfter(C, fs)[p] = position[p]
<1>1. position[p] \in PositionRow
  BY DEF TypeOK
<1> QED
  BY <1>1 DEF PositionsAfter, PositionRow

(* What the commit of an exit leaves in the order table.                    *)
LEMMA CommitOrders ==
  ASSUME IInv, NEW x \in Actor, CommitExit(x)
  PROVE  /\ sess[x].oid \in Oid /\ sess[x].at \in Pos /\ InFlight(x)
         /\ order'[sess[x].oid] =
              [status |-> IF sess[x].pc = "sent" THEN "submitted" ELSE "rejected",
               pos |-> sess[x].at, filled |-> 0, sent |-> sess[x].pc = "sent"]
         /\ \A o \in Oid : o # sess[x].oid =>
              \/ order'[o] = order[o]
              \/ order'[o].filled = 0 /\ order'[o].status = "pending"
<1> DEFINE fs == Leftover(x)
<1>1. fs \in SUBSET [pos: Pos, oid: Oid]
  BY DEF Leftover, IInv, TypeOK
<1>2. InFlight(x) /\ sess[x].oid \in Oid /\ sess[x].at \in Pos
  BY DEF CommitExit, InFlight, IInv, SessionsOK, ClaimsOK
<1>3. OrdersAfter(fs) \in [Oid -> OrderRow]
  BY <1>1, OrdersAfterRows DEF IInv
<1>4. \A o \in Oid : \/ OrdersAfter(fs)[o] = order[o]
                     \/ OrdersAfter(fs)[o].filled = 0 /\ OrdersAfter(fs)[o].status = "pending"
  BY <1>1, OrdersAfterFills DEF IInv
<1> QED
  BY <1>2, <1>3, <1>4 DEF CommitExit

-----------------------------------------------------------------------------
(* Settling an order with what the broker reported.                         *)

(* SetOrder records the fills it is given.                                  *)
LEMMA SetOrderFills ==
  ASSUME order \in [Oid -> OrderRow], NEW o \in Oid, NEW st, NEW n
  PROVE  SetOrder(o, st, n)[o].filled = n
<1>1. order[o] \in OrderRow
  OBVIOUS
<1>2. SetOrder(o, st, n) = [order EXCEPT ![o] = [order[o] EXCEPT !.status = st, !.filled = n]]
  BY <1>1 DEF SetOrder, OrderRow
<1> QED
  BY <1>1, <1>2 DEF OrderRow

LEMMA SetStatusFills ==
  ASSUME order \in [Oid -> OrderRow], NEW o \in Oid, NEW st,
         order' = [order EXCEPT ![o].status = st]
  PROVE  order'[o].filled = order[o].filled /\ order'[o].status = st
<1>1. order[o] \in OrderRow
  OBVIOUS
<1> QED
  BY <1>1 DEF OrderRow

(* What settling an order writes to its row, by the poller or recovery.     *)
Writes(o) ==
  \/ /\ order[o].status \in Live
     /\ \/ order' = SetOrder(o, "filled", Qty) /\ broker[o].st = "filled"
        \/ \E n \in 0..Qty : order' = SetOrder(o, "partial", n) /\ n <= broker[o].filled
        \/ \E st \in {"unknown", "cancelled", "rejected"} :
             order' = [order EXCEPT ![o].status = st]
  \/ order' = [order EXCEPT ![o].status = "failed"]
  \/ UNCHANGED order

(* It changes that row alone, which stays what it is an order for, revives  *)
(* nothing and is no more filled than at the broker.                        *)
LEMMA WritesRows ==
  ASSUME IInv, FillsOK, NEW o \in Oid, order[o].status # "none", Writes(o)
  PROVE  /\ \A q \in Oid : q # o => order'[q] = order[q]
         /\ order'[o].pos = order[o].pos /\ order'[o].status # "none"
         /\ order'[o].status \in Live => order[o].status \in Live
         /\ order'[o].filled <= broker[o].filled
<1>1. order \in [Oid -> OrderRow]
  BY DEF IInv, TypeOK
<1>2. broker[o].st = "filled" => broker[o].filled = Qty
  BY DEF FillsOK
<1>3. order[o].filled <= broker[o].filled
  BY DEF FillsOK, RecordedFillsAreReal
<1>4. Qty \in Nat /\ Qty <= Qty /\ Qty \in 0..Qty
  BY ExitConstants
<1>5. {"filled", "partial", "unknown", "cancelled", "rejected", "failed"} \subseteq OrderStatus
  BY DEF OrderStatus, Active, Live
<1>6. CASE /\ order[o].status \in Live
           /\ order' = SetOrder(o, "filled", Qty) /\ broker[o].st = "filled"
  BY <1>1, <1>2, <1>4, <1>5, <1>6, SetOrderRow, SetOrderFills
<1>7. CASE /\ order[o].status \in Live
           /\ \E n \in 0..Qty : order' = SetOrder(o, "partial", n) /\ n <= broker[o].filled
  BY <1>1, <1>5, <1>7, SetOrderRow, SetOrderFills
<1>8. CASE /\ order[o].status \in Live
           /\ \E st \in {"unknown", "cancelled", "rejected"} :
                order' = [order EXCEPT ![o].status = st]
  <2>1. PICK st \in {"unknown", "cancelled", "rejected"} :
          order' = [order EXCEPT ![o].status = st]
    BY <1>8
  <2>2. st \in OrderStatus
    BY <1>5
  <2> QED
    BY <1>1, <1>3, <1>8, <2>1, <2>2, SetStatusRow, SetStatusFills
<1>9. CASE order' = [order EXCEPT ![o].status = "failed"]
  <2>1. "failed" \in OrderStatus /\ "failed" \notin Live
    BY <1>5 DEF Live
  <2> QED
    BY <1>1, <1>3, <1>9, <2>1, SetStatusRow, SetStatusFills
<1>10. CASE UNCHANGED order
  BY <1>3, <1>10
<1> QED
  BY <1>6, <1>7, <1>8, <1>9, <1>10 DEF Writes

LEMMA WritesReal ==
  ASSUME IInv, RealOK, NEW o \in Oid, order[o].status # "none", Writes(o),
         UNCHANGED <<broker, sess>>, poll'.pc \notin {"asked", "loaded"}
  PROVE  RealOK'
<1>1. /\ \A q \in Oid : q # o => order'[q] = order[q]
      /\ order'[o].pos = order[o].pos /\ order'[o].status # "none"
      /\ order'[o].status \in Live => order[o].status \in Live
      /\ order'[o].filled <= broker[o].filled
  BY WritesRows DEF RealOK
<1>2. FillsOK'
  BY <1>1 DEF RealOK, FillsOK, RecordedFillsAreReal
<1>3. PlacedOK'
  BY <1>1, PlacedKept DEF RealOK
<1> QED
  BY <1>2, <1>3 DEF RealOK

(* Every handler of the poller writes so, to the order it works on.         *)
LEMMA PollWrites ==
  ASSUME IInv, FillsOK, PollUnchanged \/ PollPartial \/ PollFilled \/ PollEnded
  PROVE  /\ poll.oid \in Oid /\ order[poll.oid].status \in Live /\ Writes(poll.oid)
         /\ poll'.pc \in {"idle", "cycle"} /\ poll.pc \in {"asked", "loaded"}
<1>1. poll.pc \in {"asked", "loaded"} /\ poll' \in {NextOrder, IdlePoll}
  BY DEF PollUnchanged, PollPartial, PollFilled, PollEnded
<1>2. poll.oid \in Oid /\ order[poll.oid].status \in Live
  BY <1>1 DEF IInv, PollOK, Polled, Live
<1>3. poll'.pc \in {"idle", "cycle"}
  BY <1>1, NextOrderState DEF IInv, IdlePoll
<1>4. /\ poll.seen \in 0..Qty /\ poll.seen <= broker[poll.oid].filled
      /\ poll.reply = "filled" => broker[poll.oid].st = "filled"
  BY <1>1 DEF IInv, TypeOK, PollState, FillsOK, Ended
<1>5. Writes(poll.oid)
  <2>1. CASE PollUnchanged
    BY <1>2, <2>1 DEF PollUnchanged, Writes
  <2>2. CASE PollPartial
    BY <1>2, <1>4, <2>2 DEF PollPartial, PartlyFilled, Writes
  <2>3. CASE PollFilled
    BY <1>2, <1>4, <2>3 DEF PollFilled, FullyFilled, Writes
  <2>4. CASE PollEnded
    BY <1>2, <2>4 DEF PollEnded, Writes
  <2> QED
    BY <2>1, <2>2, <2>3, <2>4
<1> QED
  BY <1>1, <1>2, <1>3, <1>5

(* Recovery writes the same of the orders it reconciles.                    *)
LEMMA RecoveryWrites ==
  ASSUME IInv, FillsOK, NEW o \in Oid, RecoverPending(o) \/ RecoverOrder(o)
  PROVE  order[o].status # "none" /\ Writes(o)
<1>1. CASE RecoverPending(o)
  BY <1>1 DEF RecoverPending, Writes
<1>2. CASE RecoverOrder(o)
  <2>1. PICK r \in Replies(o) : RecoverReply(o, r)
    BY <1>2 DEF RecoverOrder
  <2>2. order[o].status \in Live /\ order[o].status # "none"
    BY <1>2 DEF RecoverOrder, Live
  <2>3. broker[o] \in BrokerOrder
    BY DEF IInv, TypeOK
  <2>4. broker[o].filled \in 0..Qty /\ broker[o].filled <= broker[o].filled
    BY <2>3, ExitConstants DEF BrokerOrder
  <2>5. r = "filled" => broker[o].st = "filled"
    BY <2>3 DEF Replies, Reported, BrokerOrder, BrokerStatus
  <2>6. CASE r = "filled"
    BY <2>1, <2>2, <2>5, <2>6 DEF RecoverReply, FullyFilled, Writes
  <2>7. CASE r = "partial"
    BY <2>1, <2>2, <2>4, <2>7 DEF RecoverReply, PartlyFilled, Writes
  <2>8. CASE r \in {"cancelled", "rejected", "unknown"}
    BY <2>1, <2>2, <2>8 DEF RecoverReply, Writes
  <2> QED
    BY <2>1, <2>2, <2>6, <2>7, <2>8 DEF RecoverReply
<1> QED
  BY <1>1, <1>2

-----------------------------------------------------------------------------
(* Every step keeps the records real.                                       *)

(* place_order, whether it returns or raises.                               *)
LEMMA PlacingReal ==
  ASSUME IInv, RealOK, NEW x \in Actor,
         PlaceAccepted(x) \/ PlaceRefused(x) \/ PlaceRaises(x)
  PROVE  RealOK'
<1>1. Placing(x) /\ UNCHANGED <<order, poll>>
  BY DEF PlaceAccepted, PlaceRefused, PlaceRaises, Placing
<1>2. /\ sess[x].oid \in Oid /\ order[sess[x].oid].status = "none"
      /\ \A o \in Oid : o # sess[x].oid => broker'[o] = broker[o]
      /\ broker[sess[x].oid].st = "none" /\ broker'[sess[x].oid].st # "filled"
      /\ broker'[sess[x].oid].filled >= 0
  BY <1>1, PlacingRows
<1>3. broker' \in [Oid -> BrokerOrder]
  BY PlaceAnsweredKeeps, PlaceRaisesKeeps DEF IInv, TypeOK
<1>4. \A o \in Oid : broker[o].filled \in Int /\ order[o].filled \in Int
  BY ExitConstants DEF IInv, TypeOK, BrokerOrder, OrderRow
<1>5. order[sess[x].oid].filled = 0 /\ broker'[sess[x].oid].filled \in Int
  BY <1>2, <1>3, ExitConstants DEF RealOK, FillsOK, BrokerOrder
<1>6. FillsOK'
  <2>1. \A o \in Oid : /\ order[o].filled <= broker'[o].filled
                       /\ broker'[o].st = "filled" => broker'[o].filled = Qty
                       /\ order[o].status # "none" =>
                            /\ broker'[o].filled >= broker[o].filled
                            /\ broker[o].st \in Ended => broker'[o].st = broker[o].st
    BY <1>2, <1>4, <1>5 DEF RealOK, FillsOK, RecordedFillsAreReal
  <2> QED
    BY <1>1, <1>3, <2>1, FillsBehindBroker DEF RealOK
<1>7. PlacedOK'
  <2>1. \A y \in Actor : y # x => sess'[y] = sess[y]
    BY DEF PlaceAccepted, PlaceRefused, PlaceRaises, Idle, IInv, TypeOK
  <2>2. CASE PlaceAccepted(x)
    <3>1. sess[x] \in Session
      BY DEF IInv, TypeOK
    <3>2. sess'[x].pc = "sent" /\ sess'[x].oid = sess[x].oid /\ sess'[x].at = sess[x].at
      BY <2>2, <3>1 DEF PlaceAccepted, IInv, TypeOK, Session
    <3>3. broker'[sess[x].oid].pos = sess[x].at
      BY <1>2, <2>2 DEF PlaceAccepted, IInv, TypeOK
    <3> QED
      BY <1>1, <2>1, <3>2, <3>3, PlacedPlacing
  <2>3. CASE PlaceRefused(x) \/ PlaceRaises(x)
    <3>1. sess[x] \in Session
      BY DEF IInv, TypeOK
    <3>2. sess'[x].pc \in {"refused", "idle"}
      BY <2>3, <3>1 DEF PlaceRefused, PlaceRaises, Idle, IdleSess, IInv, TypeOK, Session
    <3> QED
      BY <1>1, <2>1, <3>2, PlacedPlacing
  <2> QED
    BY <2>2, <2>3
<1> QED
  BY <1>6, <1>7 DEF RealOK

(* The commit of an exit.                                                   *)
LEMMA CommitReal ==
  ASSUME IInv, RealOK, NEW x \in Actor, CommitExit(x)
  PROVE  RealOK'
<1>1. /\ sess[x].oid \in Oid /\ sess[x].at \in Pos /\ InFlight(x)
      /\ order'[sess[x].oid] =
           [status |-> IF sess[x].pc = "sent" THEN "submitted" ELSE "rejected",
            pos |-> sess[x].at, filled |-> 0, sent |-> sess[x].pc = "sent"]
      /\ \A o \in Oid : o # sess[x].oid =>
           \/ order'[o] = order[o]
           \/ order'[o].filled = 0 /\ order'[o].status = "pending"
  BY CommitOrders
<1>2. /\ order' \in [Oid -> OrderRow]
      /\ \A o \in Oid : order[o].status # "none" => order'[o] = order[o]
  BY CommitExitStores DEF IInv
<1>3. UNCHANGED <<broker, poll>>
  BY DEF CommitExit
<1>4. order'[sess[x].oid].filled = 0
  BY <1>1
<1>5. FillsOK'
  BY <1>1, <1>2, <1>3, <1>4, FillsStored DEF RealOK
<1>6. \A y \in Actor : sess'[y] = IF y = x THEN IdleSess ELSE sess[y]
  BY DEF CommitExit, Idle, IInv, TypeOK
<1>7. \A y \in Actor : sess'[y].pc \in {"sending", "sent"} => sess'[y] = sess[y]
  BY <1>6 DEF IdleSess
<1>8. \A o \in Oid : order'[o].status \in Live => broker'[o].pos = order'[o].pos
  <2> SUFFICES ASSUME NEW o \in Oid, order'[o].status \in Live
               PROVE  broker[o].pos = order'[o].pos
    BY <1>3
  <2>1. CASE o = sess[x].oid
    <3>1. sess[x].pc = "sent" /\ order'[o].pos = sess[x].at
      BY <1>1, <2>1 DEF Live
    <3> QED
      BY <2>1, <3>1 DEF RealOK, PlacedOK
  <2>2. CASE o # sess[x].oid
    BY <1>1, <2>2 DEF RealOK, PlacedOK, Live
  <2> QED
    BY <2>1, <2>2
<1>9. PlacedOK'
  BY <1>3, <1>7, <1>8 DEF RealOK, PlacedOK
<1> QED
  BY <1>5, <1>9 DEF RealOK

(* initiate_exit.                                                           *)
LEMMA ExitsReal ==
  ASSUME IInv, RealOK, NEW x \in Actor, Exits(x)
  PROVE  RealOK'
<1>1. CASE \E p \in Pos, o \in Oid : BeginExit(x, p, o)
  <2> PICK p \in Pos, o \in Oid : BeginExit(x, p, o)
    BY <1>1
  <2>1. /\ UNCHANGED <<order, broker, poll>> /\ broker[o].st = "none"
        /\ \A y \in Actor : sess'[y] = IF y = x
                                       THEN [pc |-> "sending", at |-> p, oid |-> o]
                                       ELSE sess[y]
    BY DEF BeginExit, FreshId, Unused, IInv, TypeOK
  <2>2. FillsOK'
    BY <2>1, FillsKept DEF RealOK
  <2>3. PlacedOK'
    BY <2>1 DEF RealOK, PlacedOK
  <2> QED
    BY <2>2, <2>3 DEF RealOK
<1>2. CASE \E p \in Pos : LoseRace(x, p) \/ IndexRefuses(x, p)
  <2>1. UNCHANGED <<order, broker, poll>> /\ Idle(x)
    BY <1>2 DEF LoseRace, IndexRefuses
  <2>2. \A y \in Actor : sess'[y].pc \in {"sending", "sent"} => sess'[y] = sess[y]
    BY <2>1 DEF Idle, IdleSess, IInv, TypeOK
  <2>3. FillsOK' /\ PlacedOK'
    BY <2>1, <2>2, FillsKept, PlacedKept DEF RealOK
  <2> QED
    BY <2>3 DEF RealOK
<1>3. CASE PlaceAccepted(x) \/ PlaceRefused(x) \/ PlaceRaises(x)
  BY <1>3, PlacingReal
<1>4. CASE CommitExit(x)
  BY <1>4, CommitReal
<1> QED
  BY <1>1, <1>2, <1>3, <1>4 DEF Exits

(* The watcher's cycle and the admin requests.                              *)
LEMMA WatchApiReal ==
  ASSUME IInv, RealOK, Watch \/ Api
  PROVE  RealOK'
<1>1. CASE WatchEnd
  <2>1. /\ order' \in [Oid -> OrderRow] /\ UNCHANGED <<broker, poll, sess>>
        /\ \A o \in Oid : order[o].status # "none" => order'[o] = order[o]
    BY <1>1, WatchEndStores DEF IInv, WatchEnd
  <2>2. \A o \in Oid : \/ order'[o] = order[o]
                       \/ order'[o].filled = 0 /\ order'[o].status = "pending"
    BY <1>1, OrdersAfterFills DEF WatchEnd, IInv, TypeOK
  <2>3. FillsOK'
    BY <2>1, <2>2, FillsStored DEF RealOK
  <2>4. PlacedOK'
    BY <2>1, <2>2, PlacedKept DEF RealOK, Live
  <2> QED
    BY <2>3, <2>4 DEF RealOK
<1>2. CASE WatchBegin \/ (\E p \in Pos : WatchSkip(p)) \/ Api
  <2>1. UNCHANGED <<order, broker, poll>>
    BY <1>2 DEF WatchBegin, WatchSkip, Api, ApiClose, ApiRead
  <2>2. \A y \in Actor : sess'[y].pc \in {"sending", "sent"} => sess'[y] = sess[y]
    <3>1. \/ sess' = sess
          \/ \E x \in Clients, p \in Pos :
               sess' = [sess EXCEPT ![x] = [pc |-> "read", at |-> p, oid |-> 0]]
          \/ \E x \in Clients : sess' = [sess EXCEPT ![x] = IdleSess]
      BY <1>2 DEF WatchBegin, WatchSkip, Api, ApiClose, ApiRead, Idle
    <3> QED
      BY <3>1 DEF IdleSess, IInv, TypeOK
  <2>3. FillsOK' /\ PlacedOK'
    BY <2>1, <2>2, FillsKept, PlacedKept DEF RealOK
  <2> QED
    BY <2>3 DEF RealOK
<1> QED
  BY <1>1, <1>2 DEF Watch

(* The poller: what it was told is what the broker had, and still has.      *)
LEMMA PollReal ==
  ASSUME IInv, RealOK, Poll
  PROVE  RealOK'
<1>1. CASE PollUnchanged \/ PollPartial \/ PollFilled \/ PollEnded
  <2>1. UNCHANGED <<broker, sess>>
    BY <1>1 DEF PollUnchanged, PollPartial, PollFilled, PollEnded
  <2>2. /\ poll.oid \in Oid /\ order[poll.oid].status # "none" /\ Writes(poll.oid)
        /\ poll'.pc \notin {"asked", "loaded"}
    BY <1>1, PollWrites DEF RealOK, Live
  <2> QED
    BY <2>1, <2>2, WritesReal
<1>2. CASE PollBegin \/ PollLoad \/ \E o \in Oid : PollAsk(o) \/ PollAskRaises(o)
  <2>1. UNCHANGED <<order, broker, sess>>
    BY <1>2 DEF PollBegin, PollLoad, PollAsk, PollAskRaises
  <2>2. PlacedOK'
    BY <2>1, PlacedKept DEF RealOK
  <2>3. poll \in PollState
    BY DEF IInv, TypeOK
  <2>4. FillsOK'
    <3>1. CASE PollBegin
      <4>1. poll'.pc = "cycle"
        BY <3>1 DEF PollBegin, IdlePoll
      <4> QED
        BY <2>1, <4>1, FillsKept DEF RealOK
    <3>2. CASE PollLoad
      <4>1. /\ poll.pc = "asked" /\ poll'.oid = poll.oid /\ poll'.seen = poll.seen
            /\ poll'.reply = poll.reply
        BY <2>3, <3>2 DEF PollLoad, PollState
      <4> QED
        BY <2>1, <4>1 DEF RealOK, FillsOK, RecordedFillsAreReal
    <3>3. CASE \E o \in Oid : PollAsk(o)
      <4>1. PICK o \in Oid : PollAsk(o)
        BY <3>3
      <4>2. PICK r \in Replies(o) :
              poll' = [poll EXCEPT !.pc = "asked", !.oid = o, !.reply = r,
                                   !.seen = broker[o].filled]
        BY <4>1 DEF PollAsk
      <4>3. poll'.oid = o /\ poll'.reply = r /\ poll'.seen = broker[o].filled
        BY <2>3, <4>2 DEF PollState
      <4>4. broker[o] \in BrokerOrder
        BY DEF IInv, TypeOK
      <4>5. r \in Ended => broker[o].st = r
        BY <4>4 DEF Replies, Reported, BrokerOrder, BrokerStatus, Ended
      <4>6. broker[o].filled <= broker[o].filled
        BY <4>4, ExitConstants DEF BrokerOrder
      <4> QED
        BY <2>1, <4>3, <4>5, <4>6 DEF RealOK, FillsOK, RecordedFillsAreReal
    <3>4. CASE \E o \in Oid : PollAskRaises(o)
      <4>1. poll'.pc \in {"idle", "cycle"}
        BY <3>4 DEF PollAskRaises, IdlePoll
      <4> QED
        BY <2>1, <4>1, FillsKept DEF RealOK
    <3> QED
      BY <1>2, <3>1, <3>2, <3>3, <3>4
  <2> QED
    BY <2>2, <2>4 DEF RealOK
<1> QED
  BY <1>1, <1>2 DEF Poll

(* The broker goes on, the process dies, recovery reconciles.               *)
LEMMA RestReal ==
  ASSUME IInv, RealOK, Broker \/ Crash \/ Recovery
  PROVE  RealOK'
<1>1. CASE Broker
  <2>1. UNCHANGED <<order, poll, sess>>
    BY <1>1 DEF Broker, Fill, Cancel, Refuse
  <2>2. broker' \in [Oid -> BrokerOrder]
    BY <1>1, BrokerKeeps DEF IInv, TypeOK
  <2>3. \A o \in Oid : /\ broker'[o].filled >= broker[o].filled
                       /\ broker'[o].pos = broker[o].pos
                       /\ broker[o].st # "working" => broker'[o] = broker[o]
                       /\ broker'[o].st = "filled" => broker'[o].filled = Qty
    BY <1>1, BrokerRows DEF RealOK
  <2>4. \A o \in Oid : /\ broker[o].filled \in Int /\ order[o].filled \in Int
                       /\ broker'[o].filled \in Int
    BY <2>2, ExitConstants DEF IInv, TypeOK, BrokerOrder, OrderRow
  <2>5. \A o \in Oid : order[o].filled <= broker'[o].filled
    BY <2>3, <2>4 DEF RealOK, FillsOK, RecordedFillsAreReal
  <2>6. FillsOK'
    BY <2>1, <2>2, <2>3, <2>5, FillsBehindBroker DEF RealOK, Ended
  <2>7. PlacedOK'
    BY <2>1, <2>3, PlacedBehindBroker DEF RealOK
  <2> QED
    BY <2>6, <2>7 DEF RealOK
<1>2. CASE Crash
  <2>1. /\ UNCHANGED <<order, broker>> /\ poll'.pc = "idle"
        /\ \A y \in Actor : sess'[y].pc = "idle"
    BY <1>2 DEF Crash, IdlePoll, IdleSess
  <2>2. FillsOK' /\ PlacedOK'
    BY <2>1, FillsKept, PlacedKept DEF RealOK
  <2> QED
    BY <2>2 DEF RealOK
<1>3. CASE (\E o \in Oid : RecoverSkips(o)) \/ RecoveryDone
  <2>1. UNCHANGED <<order, broker, poll, sess>>
    BY <1>3 DEF RecoverSkips, RecoveryDone
  <2>2. FillsOK' /\ PlacedOK'
    BY <2>1, FillsKept, PlacedKept DEF RealOK
  <2> QED
    BY <2>2 DEF RealOK
<1>4. CASE \E o \in Oid : RecoverPending(o) \/ RecoverOrder(o)
  <2>1. PICK o \in Oid : RecoverPending(o) \/ RecoverOrder(o)
    BY <1>4
  <2>2. order[o].status # "none" /\ Writes(o)
    BY <2>1, RecoveryWrites DEF RealOK
  <2>3. UNCHANGED <<broker, sess, poll>> /\ mode = "recovering"
    BY <2>1 DEF RecoverPending, RecoverOrder
  <2>4. poll'.pc = "idle"
    BY <2>3 DEF IInv, AloneOK, IdlePoll
  <2> QED
    BY <2>2, <2>3, <2>4, WritesReal
<1> QED
  BY <1>1, <1>2, <1>3, <1>4 DEF Recovery

LEMMA InitReal == Init => RealOK
<1> SUFFICES ASSUME Init PROVE RealOK
  OBVIOUS
<1>1. \A o \in Oid : /\ order[o].status = "none" /\ order[o].filled = 0
                     /\ broker[o].st = "none" /\ broker[o].filled = 0
  BY DEF Init, NoOrder, NoBroker
<1>2. \A x \in Actor : sess[x].pc = "idle"
  BY DEF Init, IdleSess
<1>3. poll.pc = "idle"
  BY DEF Init, IdlePoll
<1> QED
  BY <1>1, <1>2, <1>3 DEF RealOK, FillsOK, PlacedOK, RecordedFillsAreReal, Live

LEMMA NextReal == IInv /\ RealOK /\ [Next]_vars => RealOK'
<1> SUFFICES ASSUME IInv, RealOK, [Next]_vars PROVE RealOK'
  OBVIOUS
<1>1. CASE UNCHANGED vars
  <2>1. UNCHANGED <<order, broker, poll, sess>>
    BY <1>1 DEF vars
  <2>2. FillsOK' /\ PlacedOK'
    BY <2>1, FillsKept, PlacedKept DEF RealOK
  <2> QED
    BY <2>2 DEF RealOK
<1> QED
  BY <1>1, ExitsReal, WatchApiReal, PollReal, RestReal DEF Next

(* What is recorded of an order stays behind the broker in every reachable  *)
(* state.                                                                   *)
THEOREM RealInvariance == Spec => [](IInv /\ RealOK)
<1>1. Init => IInv /\ RealOK
  BY InitIInv, InitReal
<1>2. IInv /\ RealOK /\ [Next]_vars => IInv' /\ RealOK'
  BY NextIInv, NextReal
<1> QED
  BY <1>1, <1>2, PTL DEF Spec

(* No fill is recorded on an exit order before the broker made it, by the   *)
(* poller or by recovery, under every fault: replies that were overtaken,   *)
(* lost replies, colliding execution ids and crashes between any two steps. *)
THEOREM FillsAreReal == Spec => []RecordedFillsAreReal
<1>1. IInv /\ RealOK => RecordedFillsAreReal
  BY DEF RealOK, FillsOK
<1> QED
  BY RealInvariance, <1>1, PTL

-----------------------------------------------------------------------------
(* CLOSING positions and their exit orders.                                 *)

(* No exit can change the position any more.                                *)
Spent(p) == position[p].status # "open" /\ LiveOrders(p) = {}

Onward ==
  \A p \in Pos : /\ position[p].status = "closed" => position'[p].status = "closed"
                 /\ Spent(p) => Spent(p)'

(* No live order and no position changes in a way that matters here.        *)
LEMMA ClosingKept ==
  ASSUME IInv, ClosingOK,
         "rejectReply" \notin Faults => \A x \in Actor : sess'[x].pc # "refused",
         \A o \in Oid : /\ order[o].status \in Live => order'[o] = order[o]
                        /\ order'[o].status \in Live => order[o].status \in Live,
         \A p \in Pos : /\ position'[p].status = position[p].status
                        /\ position'[p].result = position[p].result
                        /\ position[p].status = "closing" => position'[p] = position[p],
         \A o \in Oid : broker[o].st = "filled" => broker'[o] = broker[o],
         poll'.pc = "loaded" => poll'.pst = "closing"
  PROVE  ClosingOK' /\ Onward
<1>1. \A o \in Oid : order'[o].status \in Live =>
        /\ order'[o] = order[o] /\ order[o].pos \in Pos
        /\ position'[order'[o].pos].status = "closing"
  BY DEF ClosingOK, IInv, TablesOK, RowsOK, Live
<1>2. Benign => \A p \in Pos : position'[p].status = "closing" => LiveOrders(p)' # {}
  BY DEF ClosingOK, LiveOrders
<1>3. Counted => RemainingAddsUp'
  BY <1>1 DEF ClosingOK, RemainingAddsUp, LiveOrders
<1>4. ResultIffClosed'
  BY DEF ClosingOK, ResultIffClosed
<1>5. ClosedMeansSold'
  BY DEF ClosingOK, ClosedMeansSold
<1>6. Onward
  BY <1>1 DEF Onward, Spent, LiveOrders
<1> QED
  BY <1>1, <1>2, <1>3, <1>4, <1>5, <1>6 DEF ClosingOK, Benign, Counted

(* How settling the live order o may end: the exit goes on, the position is *)
(* sold, or it is given back; or the order ends and the position, an        *)
(* execution being taken for an old one, does not.                          *)
Outcome(o) ==
  LET p == order[o].pos
  IN  /\ \A q \in Oid : q # o => order'[q] = order[q]
      /\ \A q \in Pos : q # p => position'[q] = position[q]
      /\ order'[o].pos = p
      /\ \/ /\ order'[o].status \in Live
            /\ position'[p].status = "closing" /\ position'[p].result = position[p].result
            /\ Counted => position'[p].remaining + order'[o].filled = Qty
         \/ /\ order'[o].status = "filled" /\ broker[o].st = "filled"
            /\ position'[p].status = "closed" /\ position'[p].result = TRUE
         \/ /\ order'[o].status \in {"cancelled", "rejected"}
            /\ broker[o].st = order'[o].status
            /\ position'[p].status = "open" /\ position'[p].result = position[p].result
         \/ /\ "keyClash" \in Faults
            /\ order'[o].status = "filled" /\ broker[o].st = "filled"
            /\ position'[p].status = "closing" /\ position'[p].result = position[p].result

LEMMA OutcomeKeeps ==
  ASSUME IInv, PlacedOK, ClosingOK, NEW o \in Oid, order[o].status \in Live, Outcome(o),
         UNCHANGED <<broker, sess>>, poll'.pc # "loaded"
  PROVE  ClosingOK' /\ Onward
<1> DEFINE p == order[o].pos
<1>1. p \in Pos /\ position[p].status = "closing" /\ position[p].result \in BOOLEAN
  BY DEF ClosingOK, IInv, TypeOK, TablesOK, RowsOK, Live, PositionRow
<1>2. ~ position[p].result /\ broker[o].pos = p
  BY <1>1 DEF ClosingOK, ResultIffClosed, PlacedOK
<1>3. /\ \A q \in Oid : q # o => order'[q] = order[q]
      /\ \A q \in Pos : q # p => position'[q] = position[q]
      /\ order'[o].pos = p
  BY DEF Outcome
<1>4. \A q \in Oid : q # o /\ order[q].status \in Live => order[q].pos # p /\ order[q].pos \in Pos
  BY DEF IInv, TablesOK, OneLive, RowsOK, Live
<1>5. \/ /\ order'[o].status \in Live
         /\ position'[p].status = "closing" /\ position'[p].result = position[p].result
         /\ Counted => position'[p].remaining + order'[o].filled = Qty
      \/ /\ order'[o].status = "filled" /\ broker[o].st = "filled"
         /\ position'[p].status = "closed" /\ position'[p].result = TRUE
      \/ /\ order'[o].status \in {"cancelled", "rejected"}
         /\ position'[p].status = "open" /\ position'[p].result = position[p].result
      \/ /\ ~ Benign /\ order'[o].status = "filled"
         /\ position'[p].status = "closing" /\ position'[p].result = position[p].result
  BY DEF Outcome, Benign
<1>6. \A q \in Oid : order'[q].status \in Live => position'[order'[q].pos].status = "closing"
  BY <1>3, <1>4, <1>5 DEF ClosingOK, Live
<1>7. Benign => \A q \in Pos : position'[q].status = "closing" => LiveOrders(q)' # {}
  BY <1>1, <1>3, <1>5 DEF ClosingOK, LiveOrders
<1>8. Counted => RemainingAddsUp'
  <2> SUFFICES ASSUME Counted, NEW q \in Pos, position'[q].status = "closing", NEW r \in Oid,
                      order'[r].pos = q, order'[r].status \in Live
               PROVE  position'[q].remaining + order'[r].filled = Qty
    BY DEF RemainingAddsUp, LiveOrders
  <2>1. CASE r = o
    BY <1>3, <1>5, <2>1 DEF Live
  <2>2. CASE r # o
    BY <1>3, <1>4, <2>2 DEF ClosingOK, RemainingAddsUp, LiveOrders
  <2> QED
    BY <2>1, <2>2
<1>9. ResultIffClosed'
  BY <1>1, <1>2, <1>3, <1>5 DEF ClosingOK, ResultIffClosed
<1>10. ClosedMeansSold'
  <2>1. position'[p].status = "closed" => broker[o].st = "filled"
    BY <1>1 DEF Outcome
  <2> QED
    BY <1>2, <1>3, <2>1 DEF ClosingOK, ClosedMeansSold
<1>11. Onward
  <2>1. o \in LiveOrders(p)
    BY DEF LiveOrders
  <2>2. \A q \in Pos : q # p => LiveOrders(q)' = LiveOrders(q)
    BY <1>3 DEF LiveOrders
  <2> QED
    BY <1>1, <1>3, <2>1, <2>2 DEF Onward, Spent
<1> QED
  BY <1>6, <1>7, <1>8, <1>9, <1>10, <1>11 DEF ClosingOK, Benign, Counted

LEMMA LiveIsClosing ==
  ASSUME IInv, ClosingOK, NEW o \in Oid, order[o].status \in Live
  PROVE  /\ order[o].pos \in Pos /\ position[order[o].pos].status = "closing"
         /\ position[order[o].pos].result = FALSE
         /\ position[order[o].pos] \in PositionRow
         /\ order[o].filled \in 0..Qty /\ Qty \in Nat
<1> DEFINE p == order[o].pos
<1>1. p \in Pos /\ position[p].status = "closing" /\ position[p] \in PositionRow
  BY DEF ClosingOK, IInv, TypeOK, TablesOK, RowsOK, Live
<1>2. position[p].result = FALSE
  BY <1>1 DEF ClosingOK, ResultIffClosed, PositionRow
<1>3. order[o].filled \in 0..Qty /\ Qty \in Nat
  BY ExitConstants DEF IInv, TypeOK, OrderRow
<1> QED
  BY <1>1, <1>2, <1>3

(* While CLOSING, what remains is a number, and what the order lacks.       *)
LEMMA RemainingKnown ==
  ASSUME Counted, IInv, ClosingOK, NEW o \in Oid, order[o].status \in Live
  PROVE  /\ position[order[o].pos].remaining = Qty - order[o].filled
         /\ \A n \in 1..Qty : n <= Qty - order[o].filled =>
              Remaining(order[o].pos, n) = Qty - order[o].filled - n
<1> DEFINE p == order[o].pos
<1>1. /\ p \in Pos /\ position[p].status = "closing" /\ position[p] \in PositionRow
      /\ order[o].filled \in 0..Qty /\ Qty \in Nat
  BY LiveIsClosing
<1>2. position[p].remaining + order[o].filled = Qty
  BY <1>1 DEF ClosingOK, RemainingAddsUp, LiveOrders
<1>3. position[p].remaining \in {None} \cup 0..Qty
  BY <1>1 DEF PositionRow
<1>4. position[p].remaining = Qty - order[o].filled /\ position[p].remaining # None
  BY <1>1, <1>2, <1>3 DEF None
<1>5. ASSUME NEW n \in 1..Qty, n <= Qty - order[o].filled
      PROVE  Remaining(p, n) = Qty - order[o].filled - n
  BY <1>1, <1>4, <1>5 DEF Remaining
<1> QED
  BY <1>4, <1>5

LEMMA PartlyFilledOutcome ==
  ASSUME IInv, ClosingOK, NEW o \in Oid, order[o].status \in Live, NEW n \in 0..Qty,
         order[o].filled <= n, NEW dup \in BOOLEAN, Counted => ~ dup,
         PartlyFilled(o, n, dup, "closing")
  PROVE  Outcome(o)
<1> DEFINE p == order[o].pos
           delta == IF dup THEN 0 ELSE n - order[o].filled
<1>1. /\ p \in Pos /\ position[p].status = "closing" /\ position[p] \in PositionRow
      /\ order[o].filled \in 0..Qty /\ Qty \in Nat
  BY LiveIsClosing
<1>2. order' = SetOrder(o, "partial", n) /\ "partial" \in OrderStatus /\ "partial" \in Live
  BY DEF PartlyFilled, OrderStatus, Active, Live
<1>3. /\ \A q \in Oid : q # o => order'[q] = order[q]
      /\ order'[o].pos = p /\ order'[o].status \in Live /\ order'[o].filled = n
  BY <1>2, SetOrderRow, SetOrderFills DEF IInv, TypeOK
<1>4. position' = IF delta > 0 THEN [position EXCEPT ![p].remaining = Remaining(p, delta)]
                              ELSE position
  BY DEF PartlyFilled
<1>5. /\ \A q \in Pos : q # p => position'[q] = position[q]
      /\ position'[p].status = "closing" /\ position'[p].result = position[p].result
  <2>1. CASE delta > 0
    <3>1. position' = [position EXCEPT ![p].remaining = Remaining(p, delta)]
      BY <1>4, <2>1
    <3> QED
      BY <1>1, <3>1 DEF IInv, TypeOK, PositionRow
  <2>2. CASE ~ (delta > 0)
    BY <1>1, <1>4, <2>2
  <2> QED
    BY <2>1, <2>2
<1>6. ASSUME Counted
      PROVE  position'[p].remaining + order'[o].filled = Qty
  <2>1. /\ position[p].remaining = Qty - order[o].filled
        /\ \A m \in 1..Qty : m <= Qty - order[o].filled =>
             Remaining(p, m) = Qty - order[o].filled - m
    BY <1>6, RemainingKnown
  <2>2. delta = n - order[o].filled
    BY <1>6
  <2>3. CASE delta > 0
    <3>1. Remaining(p, delta) = Qty - n
      BY <1>1, <2>1, <2>2, <2>3
    <3>2. position' = [position EXCEPT ![p].remaining = Remaining(p, delta)]
      BY <1>4, <2>3
    <3>3. position'[p].remaining = Qty - n
      BY <1>1, <3>1, <3>2 DEF IInv, TypeOK, PositionRow
    <3> QED
      BY <1>1, <1>3, <3>3
  <2>4. CASE ~ (delta > 0)
    <3>1. n = order[o].filled
      BY <1>1, <2>2, <2>4
    <3> QED
      BY <1>1, <1>3, <1>4, <2>1, <2>4, <3>1
  <2> QED
    BY <2>3, <2>4
<1> HIDE DEF delta
<1> QED
  BY <1>3, <1>5, <1>6 DEF Outcome

(* A fill that was taken for an old one may leave the position CLOSING.     *)
LEMMA FullyFilledOutcome ==
  ASSUME IInv, ClosingOK, NEW o \in Oid, order[o].status \in Live,
         broker[o].st = "filled", NEW delta, FullyFilled(o, delta, "closing"),
         Counted => delta = Qty - order[o].filled, Unforced
  PROVE  Outcome(o)
<1> DEFINE p == order[o].pos
<1>1. /\ p \in Pos /\ position[p].status = "closing" /\ position[p] \in PositionRow
      /\ position[p].result = FALSE
      /\ order[o].filled \in 0..Qty /\ Qty \in Nat
  BY LiveIsClosing
<1>2. order' = SetOrder(o, "filled", Qty) /\ "filled" \in OrderStatus /\ Qty \in 0..Qty
  BY <1>1 DEF FullyFilled, OrderStatus
<1>3. /\ \A q \in Oid : q # o => order'[q] = order[q]
      /\ order'[o].pos = p /\ order'[o].status = "filled"
  BY <1>2, SetOrderRow DEF IInv, TypeOK
<1>4. position' = [position EXCEPT
        ![p] = [status    |-> IF Flat(p, delta) THEN "closed" ELSE position[p].status,
                remaining |-> IF delta > 0 THEN Remaining(p, delta)
                                           ELSE position[p].remaining,
                result    |-> position[p].result \/ Flat(p, delta)]]
  BY DEF FullyFilled
<1>5. /\ \A q \in Pos : q # p => position'[q] = position[q]
      /\ position'[p].status = IF Flat(p, delta) THEN "closed" ELSE "closing"
      /\ position'[p].result = (position[p].result \/ Flat(p, delta))
  BY <1>1, <1>4 DEF IInv, TypeOK
<1>6. Counted => Flat(p, delta)
  <2> SUFFICES ASSUME Counted
               PROVE  Flat(p, delta)
    OBVIOUS
  <2>1. /\ position[p].remaining = delta /\ delta \in 0..Qty
        /\ \A m \in 1..Qty : m <= delta => Remaining(p, m) = delta - m
    BY <1>1, RemainingKnown
  <2> QED
    BY <1>1, <2>1 DEF Flat
<1>7. CASE Flat(p, delta)
  <2>1. position'[p].status = "closed" /\ position'[p].result = TRUE
    BY <1>5, <1>7
  <2> QED
    BY <1>3, <1>5, <2>1 DEF Outcome
<1>8. CASE ~ Flat(p, delta)
  <2>1. position'[p].status = "closing" /\ position'[p].result = position[p].result
    BY <1>1, <1>5, <1>8
  <2>2. "keyClash" \in Faults
    BY <1>6, <1>8 DEF Counted, Unforced
  <2> QED
    BY <1>3, <1>5, <2>1, <2>2 DEF Outcome
<1> QED
  BY <1>7, <1>8

(* An execution that was taken for an old one ends the order alone.         *)
LEMMA ClashOutcome ==
  ASSUME IInv, ClosingOK, NEW o \in Oid, order[o].status \in Live, "keyClash" \in Faults,
         broker[o].st = "filled", order' = SetOrder(o, "filled", Qty), position' = position
  PROVE  Outcome(o)
<1>1. position[order[o].pos].status = "closing" /\ Qty \in 0..Qty /\ "filled" \in OrderStatus
  <2>1. position[order[o].pos].status = "closing" /\ Qty \in Nat
    BY LiveIsClosing
  <2> QED
    BY <2>1 DEF OrderStatus
<1>2. /\ \A q \in Oid : q # o => order'[q] = order[q]
      /\ order'[o].pos = order[o].pos /\ order'[o].status = "filled"
  BY <1>1, SetOrderRow DEF IInv, TypeOK
<1> QED
  BY <1>1, <1>2 DEF Outcome

LEMMA EndedOutcome ==
  ASSUME IInv, ClosingOK, NEW o \in Oid, order[o].status \in Live,
         NEW st \in {"cancelled", "rejected"}, broker[o].st = st,
         order' = [order EXCEPT ![o].status = st], position' = Reverted(o, "closing")
  PROVE  Outcome(o)
<1> DEFINE p == order[o].pos
<1>1. p \in Pos /\ position[p] \in PositionRow
  BY LiveIsClosing
<1>2. /\ \A q \in Oid : q # o => order'[q] = order[q]
      /\ order'[o].pos = p /\ order'[o].status = st
  BY SetStatusRow DEF IInv, TypeOK, OrderStatus
<1>3. position' = [position EXCEPT ![p].status = "open"]
  BY DEF Reverted
<1>4. /\ \A q \in Pos : q # p => position'[q] = position[q]
      /\ position'[p].status = "open" /\ position'[p].result = position[p].result
  BY <1>1, <1>3 DEF IInv, TypeOK, PositionRow
<1> QED
  BY <1>2, <1>4 DEF Outcome

LEMMA UnknownOutcome ==
  ASSUME IInv, ClosingOK, NEW o \in Oid, order[o].status \in Live, position' = position,
         order' = order \/ order' = [order EXCEPT ![o].status = "unknown"]
  PROVE  Outcome(o)
<1>1. /\ position[order[o].pos].status = "closing"
      /\ Counted => position[order[o].pos].remaining = Qty - order[o].filled
      /\ order[o].filled \in 0..Qty /\ Qty \in Nat
  BY LiveIsClosing, RemainingKnown
<1>2. /\ \A q \in Oid : q # o => order'[q] = order[q]
      /\ order'[o].pos = order[o].pos /\ order'[o].status \in Live
      /\ order'[o].filled = order[o].filled
  <2>1. order \in [Oid -> OrderRow] /\ "unknown" \in OrderStatus /\ "unknown" \in Live
    BY DEF IInv, TypeOK, OrderStatus, Active, Live
  <2>2. CASE order' = order
    BY <2>2
  <2>3. CASE order' = [order EXCEPT ![o].status = "unknown"]
    BY <2>1, <2>3, SetStatusRow, SetStatusFills
  <2> QED
    BY <2>2, <2>3
<1>3. Counted => position'[order[o].pos].remaining + order'[o].filled = Qty
  BY <1>1, <1>2
<1>4. position'[order[o].pos] = position[order[o].pos]
  OBVIOUS
<1> QED
  BY <1>1, <1>2, <1>3, <1>4 DEF Outcome

-----------------------------------------------------------------------------
(* Every step keeps them.                                                   *)

(* initiate_exit: only its commit makes a position CLOSING, with one order. *)
LEMMA CommitClosing ==
  ASSUME IInv, RealOK, ClosingOK, NEW x \in Actor, CommitExit(x)
  PROVE  ClosingOK' /\ Onward
<1> DEFINE at == sess[x].at
           oid == sess[x].oid
<1>1. /\ oid \in Oid /\ at \in Pos /\ sess[x].pc \in {"sent", "refused"}
      /\ "rejectReply" \notin Faults => sess[x].pc = "sent"
      /\ position[at].status = "open" /\ order[oid].status = "none"
      /\ \A o \in Oid : order[o].pos = at => order[o].status \notin Live
  BY CommitOrders DEF CommitExit, ClosingOK, IInv, SessionsOK, ClaimsOK, DraftsOK, TablesOK,
                      OpenHasNoLiveExit, LiveOrders
<1>2. /\ order'[oid].pos = at /\ order'[oid].filled = 0
      /\ order'[oid].status = IF sess[x].pc = "sent" THEN "submitted" ELSE "rejected"
  <2>1. order'[oid] = [status |-> IF sess[x].pc = "sent" THEN "submitted" ELSE "rejected",
                       pos |-> at, filled |-> 0, sent |-> sess[x].pc = "sent"]
    BY CommitOrders
  <2> QED
    BY <2>1
<1>3. \A o \in Oid : o # oid =>
        /\ order'[o].status \in Live => order'[o] = order[o]
        /\ order[o].status # "none" => order'[o] = order[o]
  BY CommitOrders, CommitExitStores DEF IInv, Live
<1>4. /\ Leftover(x) \in SUBSET [pos: Pos, oid: Oid] /\ {at} \in SUBSET Pos
      /\ position' = PositionsAfter({at}, Leftover(x))
      /\ \A f \in Leftover(x) : f.pos \in Pos /\ position[f.pos].status = "open"
  BY <1>1 DEF CommitExit, Leftover, IInv, TypeOK, SessionsOK, LeftoverOK
<1>5. \A p \in Pos : /\ position'[p].result = position[p].result
                     /\ position'[p].status = IF p = at THEN "closing" ELSE position[p].status
  BY <1>4, PositionsAfterRows, PositionsAfterClaim DEF IInv
<1>6. position'[at].remaining = Qty
  BY <1>1, <1>4, PositionsAfterClaim DEF IInv
<1>7. \A p \in Pos : p # at /\ position[p].status # "open" => position'[p] = position[p]
  BY <1>4, PositionsAfterClaim DEF IInv
<1>8. "rejectReply" \notin Faults => \A y \in Actor : sess'[y].pc # "refused"
  BY DEF CommitExit, Idle, IdleSess, IInv, TypeOK, ClosingOK
<1>9. UNCHANGED <<broker, poll>>
  BY DEF CommitExit
<1>10. \A o \in Oid : o # oid /\ order'[o].status \in Live =>
         /\ order'[o] = order[o] /\ order[o].pos \in Pos /\ order[o].pos # at
         /\ position[order[o].pos].status = "closing"
  BY <1>1, <1>3 DEF ClosingOK, IInv, TablesOK, RowsOK, Live
<1>11. \A o \in Oid : order'[o].status \in Live => position'[order'[o].pos].status = "closing"
  BY <1>1, <1>2, <1>5, <1>10
<1>12. Benign => \A p \in Pos : position'[p].status = "closing" => LiveOrders(p)' # {}
  <2> SUFFICES ASSUME Benign, NEW p \in Pos, position'[p].status = "closing"
               PROVE  \E o \in Oid : order'[o].pos = p /\ order'[o].status \in Live
    BY DEF LiveOrders
  <2>1. CASE p = at
    BY <1>1, <1>2, <2>1 DEF Live, Benign
  <2>2. CASE p # at
    <3>1. PICK o \in Oid : order[o].pos = p /\ order[o].status \in Live
      BY <1>5, <2>2 DEF ClosingOK, LiveOrders
    <3>2. o # oid /\ order'[o] = order[o]
      BY <1>1, <1>3, <3>1 DEF Live
    <3> QED
      BY <3>1, <3>2
  <2> QED
    BY <2>1, <2>2
<1>13. Counted => RemainingAddsUp'
  <2> SUFFICES ASSUME Counted, NEW p \in Pos, position'[p].status = "closing", NEW o \in Oid,
                      order'[o].pos = p, order'[o].status \in Live
               PROVE  position'[p].remaining + order'[o].filled = Qty
    BY DEF RemainingAddsUp, LiveOrders
  <2>1. CASE o = oid
    BY <1>2, <1>6, <2>1, ExitConstants
  <2>2. CASE o # oid
    BY <1>7, <1>10, <2>2 DEF ClosingOK, RemainingAddsUp, LiveOrders
  <2> QED
    BY <2>1, <2>2
<1>14. ResultIffClosed'
  BY <1>1, <1>5 DEF ClosingOK, ResultIffClosed
<1>15. ClosedMeansSold'
  BY <1>1, <1>5, <1>9 DEF ClosingOK, ClosedMeansSold
<1>16. Onward
  <2> SUFFICES ASSUME NEW p \in Pos, position[p].status # "open"
               PROVE  /\ position'[p].status = position[p].status
                      /\ LiveOrders(p) = {} => LiveOrders(p)' = {}
    BY DEF Onward, Spent
  <2>1. p # at /\ position'[p].status = position[p].status
    BY <1>1, <1>5
  <2>2. \A o \in Oid : order'[o].pos = p /\ order'[o].status \in Live => o \in LiveOrders(p)
    BY <1>2, <1>10, <2>1 DEF LiveOrders
  <2> QED
    BY <2>1, <2>2 DEF LiveOrders
<1> QED
  BY <1>8, <1>9, <1>11, <1>12, <1>13, <1>14, <1>15, <1>16
  DEF ClosingOK, Benign, Counted

LEMMA ExitsClosing ==
  ASSUME IInv, RealOK, ClosingOK, NEW x \in Actor, Exits(x)
  PROVE  ClosingOK' /\ Onward
<1>1. CASE CommitExit(x)
  BY <1>1, CommitClosing
<1>2. CASE ~ CommitExit(x)
  <2>1. /\ UNCHANGED <<position, order, poll>>
        /\ UNCHANGED broker \/ Placing(x)
    BY <1>2 DEF Exits, BeginExit, LoseRace, IndexRefuses, PlaceAccepted, PlaceRefused,
                PlaceRaises, Placing
  <2>2. \A o \in Oid : broker[o].st = "filled" => broker'[o] = broker[o]
    BY <2>1, PlacingRows
  <2>3. "rejectReply" \notin Faults => \A y \in Actor : sess'[y].pc # "refused"
    <3> SUFFICES ASSUME "rejectReply" \notin Faults
                 PROVE  \A y \in Actor : sess'[y].pc # "refused"
      OBVIOUS
    <3>1. \E pc \in {"idle", "sending", "sent"} :
            \/ sess' = [sess EXCEPT ![x].pc = pc]
            \/ \E row : row.pc = pc /\ sess' = [sess EXCEPT ![x] = row]
      <4>1. CASE \E p \in Pos, o \in Oid : BeginExit(x, p, o)
        <5>1. PICK p \in Pos, o \in Oid :
                sess' = [sess EXCEPT ![x] = [pc |-> "sending", at |-> p, oid |-> o]]
          BY <4>1 DEF BeginExit
        <5> QED
          BY <5>1
      <4>2. CASE PlaceAccepted(x)
        BY <4>2 DEF PlaceAccepted
      <4>3. CASE PlaceRaises(x) \/ \E p \in Pos : LoseRace(x, p) \/ IndexRefuses(x, p)
        <5>1. sess' = [sess EXCEPT ![x] = IdleSess] /\ IdleSess.pc = "idle"
          BY <4>3 DEF PlaceRaises, LoseRace, IndexRefuses, Idle, IdleSess
        <5> QED
          BY <5>1
      <4> QED
        BY <1>2, <4>1, <4>2, <4>3 DEF Exits, PlaceRefused
    <3>2. \A y \in Actor : sess[y] \in Session
      BY DEF IInv, TypeOK
    <3> QED
      BY <3>1, <3>2 DEF ClosingOK, IInv, TypeOK, Session
  <2> QED
    BY <2>1, <2>2, <2>3, ClosingKept DEF ClosingOK
<1> QED
  BY <1>1, <1>2

(* The watcher and the admin requests: failed exits are stored as PENDING   *)
(* orders of OPEN positions.                                                *)
LEMMA WatchApiClosing ==
  ASSUME Unforced, IInv, ClosingOK, Watch \/ Api
  PROVE  ClosingOK' /\ Onward
<1>1. CASE WatchEnd
  <2>1. /\ leftover \in SUBSET [pos: Pos, oid: Oid] /\ {} \in SUBSET Pos
        /\ position' = PositionsAfter({}, leftover)
        /\ \A f \in leftover : f.pos \in Pos /\ position[f.pos].status = "open"
        /\ UNCHANGED <<broker, poll, sess>>
    BY <1>1 DEF WatchEnd, IInv, TypeOK, SessionsOK, LeftoverOK
  <2>2. \A p \in Pos : /\ position'[p].status = position[p].status
                       /\ position'[p].result = position[p].result
                       /\ position[p].status = "closing" => position'[p] = position[p]
    <3>1. TypeOK
      BY DEF IInv
    <3> SUFFICES ASSUME NEW p \in Pos
                 PROVE  /\ PositionsAfter({}, leftover)[p].status = position[p].status
                        /\ PositionsAfter({}, leftover)[p].result = position[p].result
                        /\ position[p].status = "closing" =>
                             PositionsAfter({}, leftover)[p] = position[p]
      BY <2>1
    <3>2. leftover \in SUBSET [pos: Pos, oid: Oid] /\ {} \in SUBSET Pos
      BY <2>1
    <3>3. PositionsAfter({}, leftover)[p].status = position[p].status
      BY <3>1, <3>2, PositionsAfterRows
    <3>4. position[p].status = "closing" => \A f \in leftover : f.pos # p
      BY <2>1
    <3>5. /\ PositionsAfter({}, leftover)[p].result = position[p].result
          /\ (\A f \in leftover : f.pos # p) =>
               PositionsAfter({}, leftover)[p] = position[p]
      BY <3>1, <3>2, PositionsAfterClaim
    <3> QED
      BY <3>3, <3>4, <3>5
  <2>3. \A o \in Oid : order[o].status # "none" => order'[o] = order[o]
    BY <1>1, WatchEndStores DEF IInv
  <2>4. \A o \in Oid : order'[o] = order[o] \/ order'[o].status = "pending"
    BY <1>1, OrdersAfterFills DEF WatchEnd, IInv, TypeOK
  <2> QED
    BY <2>1, <2>2, <2>3, <2>4, ClosingKept DEF ClosingOK, Live
<1>2. CASE WatchBegin \/ (\E p \in Pos : WatchSkip(p)) \/ Api
  <2>1. UNCHANGED <<position, order, broker, poll>>
    BY <1>2 DEF WatchBegin, WatchSkip, Api, ApiClose, ApiRead, Unforced
  <2>2. "rejectReply" \notin Faults => \A y \in Actor : sess'[y].pc # "refused"
    <3>1. \/ sess' = sess
          \/ \E x \in Clients, p \in Pos :
               sess' = [sess EXCEPT ![x] = [pc |-> "read", at |-> p, oid |-> 0]]
      BY <1>2 DEF WatchBegin, WatchSkip, Api, ApiClose, ApiRead, Unforced
    <3> QED
      BY <3>1 DEF ClosingOK, IInv, TypeOK
  <2> QED
    BY <2>1, <2>2, ClosingKept DEF ClosingOK
<1> QED
  BY <1>1, <1>2 DEF Watch

(* The poller settles its order one way or the other.                       *)
LEMMA PollOutcome ==
  ASSUME Unforced, IInv, RealOK, ClosingOK,
         PollUnchanged \/ PollPartial \/ PollFilled \/ PollEnded
  PROVE  Outcome(poll.oid)
<1> DEFINE o == poll.oid
<1>1. o \in Oid /\ order[o].status \in Live /\ poll.pc \in {"asked", "loaded"}
  BY PollWrites DEF RealOK
<1>2. /\ poll.seen \in 0..Qty /\ order[o].filled <= poll.seen
      /\ poll.reply \in Ended => broker[o].st = poll.reply
  BY <1>1 DEF IInv, TypeOK, PollState, RealOK, FillsOK
<1>3. \A delta : Duplicates(delta) \subseteq BOOLEAN /\ (TRUE \in Duplicates(delta) => ~ Counted
                                                     /\ "keyClash" \in Faults)
  BY DEF Duplicates, Counted
<1>4. CASE PollUnchanged
  <2>1. position' = position /\ (order' = order
          \/ order' = [order EXCEPT ![o].status = "unknown"])
    BY <1>4 DEF PollUnchanged
  <2> QED
    BY <1>1, <2>1, UnknownOutcome
<1>5. CASE PollPartial
  <2>1. PICK dup \in Duplicates(poll.seen - order[o].filled) :
          PartlyFilled(o, poll.seen, dup, "closing")
    BY <1>5 DEF PollPartial, ClosingOK
  <2>2. dup \in BOOLEAN /\ (Counted => ~ dup)
    BY <1>3
  <2> QED
    BY <1>1, <1>2, <2>1, <2>2, PartlyFilledOutcome
<1>6. CASE PollFilled
  <2> DEFINE delta == Qty - order[o].filled
  <2>1. ~ ResultClash(o, delta, poll.pst)
    BY <1>1, LiveIsClosing DEF ResultClash
  <2>2. broker[o].st = "filled" /\ poll.pst = "closing"
    BY <1>2, <1>6 DEF PollFilled, ClosingOK, Ended
  <2>3. \/ FullyFilled(o, delta, "closing")
        \/ /\ TRUE \in Duplicates(delta)
           /\ order' = SetOrder(o, "filled", Qty) /\ position' = position
    BY <1>6, <2>1, <2>2 DEF PollFilled
  <2>4. CASE FullyFilled(o, delta, "closing")
    BY <1>1, <2>2, <2>4, FullyFilledOutcome
  <2>5. CASE TRUE \in Duplicates(delta) /\ order' = SetOrder(o, "filled", Qty)
             /\ position' = position
    BY <1>1, <1>3, <2>2, <2>5, ClashOutcome
  <2> QED
    BY <2>3, <2>4, <2>5
<1>7. CASE PollEnded
  <2>1. /\ poll.reply \in {"cancelled", "rejected"}
        /\ order' = [order EXCEPT ![o].status = poll.reply]
        /\ position' = Reverted(o, "closing") /\ broker[o].st = poll.reply
    BY <1>2, <1>7 DEF PollEnded, ClosingOK, Ended
  <2> QED
    BY <1>1, <2>1, EndedOutcome
<1> QED
  BY <1>4, <1>5, <1>6, <1>7

LEMMA PollClosing ==
  ASSUME Unforced, IInv, RealOK, ClosingOK, Poll
  PROVE  ClosingOK' /\ Onward
<1>1. CASE PollUnchanged \/ PollPartial \/ PollFilled \/ PollEnded
  <2>1. UNCHANGED <<broker, sess>>
    BY <1>1 DEF PollUnchanged, PollPartial, PollFilled, PollEnded
  <2>2. /\ poll.oid \in Oid /\ order[poll.oid].status \in Live /\ poll'.pc # "loaded"
        /\ Outcome(poll.oid)
    BY <1>1, PollWrites, PollOutcome DEF RealOK
  <2> QED
    BY <2>1, <2>2, OutcomeKeeps DEF RealOK
<1>2. CASE PollBegin \/ PollLoad \/ \E o \in Oid : PollAsk(o) \/ PollAskRaises(o)
  <2>1. UNCHANGED <<position, order, broker, sess>>
    BY <1>2 DEF PollBegin, PollLoad, PollAsk, PollAskRaises
  <2>2. poll'.pc = "loaded" => poll'.pst = "closing"
    <3>1. poll \in PollState
      BY DEF IInv, TypeOK
    <3>2. CASE PollLoad
      <4>1. poll.oid \in Oid /\ order[poll.oid].status \in Live
        BY <3>2 DEF PollLoad, IInv, PollOK, Polled, Live
      <4>2. position[order[poll.oid].pos].status = "closing"
        BY <4>1 DEF ClosingOK
      <4> QED
        BY <3>1, <3>2, <4>2 DEF PollLoad, PollState
    <3>3. CASE PollBegin
      BY <3>3 DEF PollBegin, IdlePoll
    <3>4. CASE \E o \in Oid : PollAsk(o)
      <4>1. poll'.pc = "asked"
        BY <3>1, <3>4 DEF PollAsk, PollState
      <4> QED
        BY <4>1
    <3>5. CASE \E o \in Oid : PollAskRaises(o)
      <4>1. poll'.pc \in {"idle", "cycle"}
        BY <3>5 DEF PollAskRaises, IdlePoll
      <4> QED
        BY <4>1
    <3> QED
      BY <1>2, <3>2, <3>3, <3>4, <3>5
  <2> QED
    BY <2>1, <2>2, ClosingKept DEF ClosingOK
<1> QED
  BY <1>1, <1>2 DEF Poll

(* Recovery settles as the poller does, from what the broker now reports.   *)
LEMMA RecoverOrderOutcome ==
  ASSUME Unforced, IInv, RealOK, ClosingOK, NEW o \in Oid, RecoverOrder(o)
  PROVE  order[o].status \in Live /\ Outcome(o)
<1>1. order[o].status \in Live /\ position[order[o].pos].status = "closing"
  BY DEF RecoverOrder, ClosingOK
<1>2. PICK r \in Replies(o) : RecoverReply(o, r)
  BY DEF RecoverOrder
<1>3. broker[o] \in BrokerOrder
  BY DEF IInv, TypeOK
<1>4. /\ broker[o].filled \in 0..Qty /\ order[o].filled <= broker[o].filled
      /\ broker[o].st = "filled" => broker[o].filled = Qty
  BY <1>3 DEF BrokerOrder, RealOK, FillsOK, RecordedFillsAreReal
<1>5. \A delta : /\ Duplicates(delta) \subseteq BOOLEAN
                 /\ TRUE \in Duplicates(delta) => ~ Counted
  BY DEF Duplicates, Counted
<1>6. CASE r = "filled"
  <2>1. broker[o].st = "filled" /\ broker[o].filled = Qty
    BY <1>3, <1>4, <1>6 DEF Replies, Reported, BrokerOrder, BrokerStatus
  <2>2. \A delta : ~ ResultClash(o, delta, "closing")
    BY <1>1, LiveIsClosing DEF ResultClash
  <2>3. PICK dup \in Duplicates(Qty - order[o].filled) :
          FullyFilled(o, IF dup THEN 0 ELSE Qty - order[o].filled, "closing")
    BY <1>1, <1>2, <1>6, <2>1, <2>2 DEF RecoverReply
  <2>4. Counted => ~ dup
    BY <1>5
  <2>5. \E delta : /\ FullyFilled(o, delta, "closing")
                   /\ Counted => delta = Qty - order[o].filled
    BY <2>3, <2>4
  <2> QED
    BY <1>1, <2>1, <2>5, FullyFilledOutcome
<1>7. CASE r = "partial"
  <2>1. PICK dup \in Duplicates(broker[o].filled - order[o].filled) :
          PartlyFilled(o, broker[o].filled, dup, "closing")
    BY <1>1, <1>2, <1>7 DEF RecoverReply
  <2>2. dup \in BOOLEAN /\ (Counted => ~ dup)
    BY <1>5
  <2> QED
    BY <1>1, <1>4, <2>1, <2>2, PartlyFilledOutcome
<1>8. CASE r \in {"cancelled", "rejected"}
  <2>1. order' = [order EXCEPT ![o].status = r] /\ position' = Reverted(o, "closing")
    BY <1>1, <1>2, <1>8 DEF RecoverReply
  <2>2. broker[o].st = r
    BY <1>3, <1>8 DEF Replies, Reported, BrokerOrder, BrokerStatus
  <2> QED
    BY <1>1, <1>8, <2>1, <2>2, EndedOutcome
<1>9. CASE r = "unknown"
  <2>1. order' = [order EXCEPT ![o].status = "unknown"] /\ position' = position
    BY <1>2, <1>9 DEF RecoverReply
  <2> QED
    BY <1>1, <2>1, UnknownOutcome
<1> QED
  BY <1>1, <1>2, <1>6, <1>7, <1>8, <1>9 DEF RecoverReply

LEMMA RestClosing ==
  ASSUME Unforced, IInv, RealOK, ClosingOK, Broker \/ Crash \/ Recovery
  PROVE  ClosingOK' /\ Onward
<1>1. CASE Broker
  <2>1. UNCHANGED <<position, order, poll, sess>>
    BY <1>1 DEF Broker, Fill, Cancel, Refuse
  <2>2. \A o \in Oid : broker[o].st = "filled" => broker'[o] = broker[o]
    BY <1>1, BrokerRows DEF RealOK
  <2> QED
    BY <2>1, <2>2, ClosingKept DEF ClosingOK
<1>2. CASE Crash
  <2>1. /\ UNCHANGED <<position, order, broker>> /\ poll'.pc = "idle"
        /\ \A y \in Actor : sess'[y].pc = "idle"
    BY <1>2 DEF Crash, IdlePoll, IdleSess
  <2> QED
    BY <2>1, ClosingKept DEF ClosingOK
<1>3. CASE (\E o \in Oid : RecoverSkips(o)) \/ RecoveryDone
  <2>1. UNCHANGED <<position, order, broker, poll, sess>>
    BY <1>3 DEF RecoverSkips, RecoveryDone
  <2> QED
    BY <2>1, ClosingKept DEF ClosingOK
<1>4. CASE \E o \in Oid : RecoverPending(o)
  <2>1. PICK o \in Oid : RecoverPending(o)
    BY <1>4
  <2>2. /\ UNCHANGED <<position, broker, poll, sess>> /\ order[o].status = "pending"
        /\ order' = [order EXCEPT ![o].status = "failed"] /\ "failed" \in OrderStatus
    BY <2>1 DEF RecoverPending, OrderStatus
  <2>3. /\ \A q \in Oid : q # o => order'[q] = order[q]
        /\ order'[o].status = "failed"
    BY <2>2, SetStatusRow DEF IInv, TypeOK
  <2> QED
    BY <2>2, <2>3, ClosingKept DEF ClosingOK, Live
<1>5. CASE \E o \in Oid : RecoverOrder(o)
  <2>1. PICK o \in Oid : RecoverOrder(o)
    BY <1>5
  <2>2. UNCHANGED <<broker, sess, poll>> /\ mode = "recovering"
    BY <2>1 DEF RecoverOrder
  <2>3. poll'.pc # "loaded"
    BY <2>2 DEF IInv, AloneOK, IdlePoll
  <2> QED
    BY <2>1, <2>2, <2>3, RecoverOrderOutcome, OutcomeKeeps DEF RealOK
<1> QED
  BY <1>1, <1>2, <1>3, <1>4, <1>5 DEF Recovery

LEMMA InitClosing == Init => ClosingOK
<1> SUFFICES ASSUME Init PROVE ClosingOK
  OBVIOUS
<1>1. /\ \A o \in Oid : order[o].status = "none"
      /\ \A x \in Actor : sess[x].pc = "idle"
      /\ \A p \in Pos : position[p].status = "open" /\ position[p].result = FALSE
      /\ poll.pc = "idle"
  BY DEF Init, NoOrder, IdleSess, IdlePoll
<1> QED
  BY <1>1 DEF ClosingOK, RemainingAddsUp, ResultIffClosed, ClosedMeansSold, Live

LEMMA NextClosing ==
  ASSUME Unforced
  PROVE  IInv /\ RealOK /\ ClosingOK /\ [Next]_vars => ClosingOK' /\ Onward
<1> SUFFICES ASSUME IInv, RealOK, ClosingOK, [Next]_vars
             PROVE  ClosingOK' /\ Onward
  OBVIOUS
<1>1. CASE UNCHANGED vars
  <2>1. UNCHANGED <<position, order, broker, poll, sess>>
    BY <1>1 DEF vars
  <2> QED
    BY <2>1, ClosingKept DEF ClosingOK
<1> QED
  BY <1>1, ExitsClosing, WatchApiClosing, PollClosing, RestClosing DEF Next

(* The inductive invariant of the exits.                                    *)
THEOREM ClosingInvariance ==
  ASSUME Unforced
  PROVE  Spec => [](IInv /\ RealOK /\ ClosingOK)
<1>1. Init => IInv /\ RealOK /\ ClosingOK
  BY InitIInv, InitReal, InitClosing
<1>2. IInv /\ RealOK /\ ClosingOK /\ [Next]_vars => IInv' /\ RealOK' /\ ClosingOK'
  BY NextIInv, NextReal, NextClosing
<1> QED
  BY <1>1, <1>2, PTL DEF Spec

(* A CLOSING position has exactly one exit order that can still end it,     *)
(* through lost replies, crashes with an order in flight, partial cancels,  *)
(* stuck orders and UNKNOWN replies.                                        *)
THEOREM OneExitWhileClosing ==
  ASSUME Benign
  PROVE  Spec => []ClosingHasOneExit
<1>1. Unforced
  BY DEF Benign, Unforced
<1>2. IInv /\ ClosingOK => ClosingHasOneExit
  <2> SUFFICES ASSUME IInv, ClosingOK, NEW p \in Pos, position[p].status = "closing"
               PROVE  Cardinality(LiveOrders(p)) = 1
    BY DEF ClosingHasOneExit
  <2>1. PICK o : o \in LiveOrders(p)
    BY DEF ClosingOK
  <2>2. LiveOrders(p) = {o}
    BY <2>1 DEF LiveOrders, IInv, TablesOK, OneLive
  <2> QED
    BY <2>2, FS_Singleton
<1> QED
  BY ClosingInvariance, <1>1, <1>2, PTL

(* While it is CLOSING its remaining_qty and the fills recorded on that     *)
(* order add up to the position: partial reports, in whatever steps they    *)
(* come and by whomever they are recorded, are counted once.                *)
THEOREM RemainingIsExact ==
  ASSUME Counted
  PROVE  Spec => []RemainingAddsUp
<1>1. Unforced
  BY DEF Counted, Unforced
<1>2. ClosingOK => RemainingAddsUp
  BY DEF ClosingOK
<1> QED
  BY ClosingInvariance, <1>1, <1>2, PTL

(* A TradeResult is stored exactly for CLOSED positions.                    *)
THEOREM OneResultEach ==
  ASSUME Unforced
  PROVE  Spec => []ResultIffClosed
<1>1. ClosingOK => ResultIffClosed
  BY DEF ClosingOK
<1> QED
  BY ClosingInvariance, <1>1, PTL

(* A CLOSED position was sold in full by one order the broker filled, also  *)
(* where executions are taken for old ones and rejected exits are stored.   *)
THEOREM ClosedWasSold ==
  ASSUME Unforced
  PROVE  Spec => []ClosedMeansSold
<1>1. ClosingOK => ClosedMeansSold
  BY DEF ClosingOK
<1> QED
  BY ClosingInvariance, <1>1, PTL

(* And it stays CLOSED, whatever poller, recovery and requests do.          *)
THEOREM ClosedFinal ==
  ASSUME Unforced
  PROVE  Spec => ClosedIsFinal
<1>1. IInv /\ RealOK /\ ClosingOK /\ [Next]_vars =>
        [\A p \in Pos : position[p].status = "closed" => position'[p].status = "closed"]_vars
  BY NextClosing DEF Onward
<1> QED
  BY ClosingInvariance, <1>1, PTL DEF Spec, ClosedIsFinal

-----------------------------------------------------------------------------
(* Nothing is sold twice.                                                   *)

(* The faults that leave the broker with no order the tables do not know    *)
(* of, nor with a part of one sold.                                         *)
Careful ==
  Faults \cap {"lostReply", "crashInFlight", "partialCancel", "pricedClose"} = {}

(* The broker has sold for o, or may yet.                                   *)
Exposed(o) == broker[o].st \in {"working", "filled"}

(* An exposed order is live in the table, or about to be committed, or its  *)
(* position can never be exited again, so that a position has one at most.  *)
ExposedOK ==
  /\ \A o \in Oid : ~ Exposed(o) => broker[o].filled = 0
  /\ \A o \in Oid : Exposed(o) =>
       \/ order[o].status \in Live
       \/ \E x \in Actor : sess[x].pc = "sent" /\ sess[x].oid = o
       \/ \E p \in Pos : broker[o].pos = p /\ Spent(p)
  /\ \A o, q \in Oid : Exposed(o) /\ Exposed(q) /\ o # q => broker[o].pos # broker[q].pos

LEMMA CarefulIsUnforced == Careful => Unforced
BY DEF Careful, Unforced

(* Orders and sessions go on as they were, or end without exposure.         *)
LEMMA ExposedKept ==
  ASSUME IInv, ExposedOK, Onward,
         \A o \in Oid : /\ Exposed(o)' => Exposed(o) /\ broker'[o].pos = broker[o].pos
                        /\ ~ Exposed(o)' => broker'[o].filled = 0,
         \A o \in Oid : Exposed(o)' /\ order[o].status \in Live =>
           \/ order'[o].status \in Live
           \/ \E p \in Pos : broker[o].pos = p /\ Spent(p)',
         \A x \in Actor : sess[x].pc = "sent" =>
           sess'[x] = sess[x] \/ order'[sess[x].oid].status \in Live
  PROVE  ExposedOK'
<1>1. \A o \in Oid : Exposed(o)' =>
        \/ order'[o].status \in Live
        \/ \E x \in Actor : sess'[x].pc = "sent" /\ sess'[x].oid = o
        \/ \E p \in Pos : broker'[o].pos = p /\ Spent(p)'
  BY DEF ExposedOK, Onward
<1> QED
  BY <1>1 DEF ExposedOK

(* A position whose exit is being sent is OPEN: nothing else is exposed.    *)
LEMMA SendingIsAlone ==
  ASSUME IInv, RealOK, ClosingOK, ExposedOK, NEW x \in Actor, sess[x].pc = "sending",
         NEW o \in Oid, Exposed(o)
  PROVE  broker[o].pos # sess[x].at
<1>1. InFlight(x) /\ position[sess[x].at].status = "open"
  BY DEF InFlight, IInv, SessionsOK, ClaimsOK
<1>2. CASE order[o].status \in Live
  BY <1>1, <1>2 DEF RealOK, PlacedOK, ClosingOK
<1>3. CASE \E y \in Actor : sess[y].pc = "sent" /\ sess[y].oid = o
  <2>1. PICK y \in Actor : sess[y].pc = "sent" /\ sess[y].oid = o
    BY <1>3
  <2>2. y # x /\ InFlight(y) /\ broker[o].pos = sess[y].at
    BY <2>1 DEF InFlight, RealOK, PlacedOK
  <2> QED
    BY <1>1, <2>2 DEF IInv, SessionsOK, ClaimsOK
<1>4. CASE \E p \in Pos : broker[o].pos = p /\ Spent(p)
  BY <1>1, <1>4 DEF Spent
<1> QED
  BY <1>2, <1>3, <1>4 DEF ExposedOK

(* A session's step leaves the other sessions alone.                        *)
LEMMA OneSession ==
  ASSUME IInv, NEW x \in Actor, Exits(x)
  PROVE  \A y \in Actor : y # x => sess'[y] = sess[y]
<1>1. CASE \E p \in Pos, o \in Oid : BeginExit(x, p, o)
  BY <1>1 DEF BeginExit, IInv, TypeOK
<1>2. CASE PlaceRaises(x) \/ CommitExit(x) \/ \E p \in Pos : LoseRace(x, p) \/ IndexRefuses(x, p)
  BY <1>2 DEF PlaceRaises, CommitExit, LoseRace, IndexRefuses, Idle, IInv, TypeOK
<1>3. CASE PlaceAccepted(x) \/ PlaceRefused(x)
  BY <1>3 DEF PlaceAccepted, PlaceRefused, IInv, TypeOK
<1> QED
  BY <1>1, <1>2, <1>3 DEF Exits

LEMMA ExitsExposed ==
  ASSUME Careful, IInv, RealOK, ClosingOK, ExposedOK, NEW x \in Actor, Exits(x)
  PROVE  ExposedOK'
<1>1. Onward
  BY CarefulIsUnforced, ExitsClosing
<1>2. CASE PlaceAccepted(x)
  <2> DEFINE oid == sess[x].oid
  <2>1. /\ oid \in Oid /\ \A o \in Oid : o # oid => broker'[o] = broker[o]
        /\ broker[oid].st = "none" /\ ~ Exposed(oid) /\ sess[x].pc = "sending"
    BY <1>2, PlacingRows DEF PlaceAccepted, Placing, Exposed
  <2>2. broker'[oid] = [st |-> "working", pos |-> sess[x].at, filled |-> 0]
    BY <1>2, <2>1 DEF PlaceAccepted, IInv, TypeOK
  <2>3. sess[x] \in Session /\ UNCHANGED <<position, order>>
    BY <1>2 DEF PlaceAccepted, IInv, TypeOK
  <2>4. /\ sess'[x].pc = "sent" /\ sess'[x].oid = oid
        /\ \A y \in Actor : y # x => sess'[y] = sess[y]
    BY <1>2, <2>3 DEF PlaceAccepted, IInv, TypeOK, Session
  <2>5. \A o \in Oid : o # oid => (Exposed(o)' <=> Exposed(o))
    BY <2>1 DEF Exposed
  <2>6. \A o \in Oid : Exposed(o) => broker[o].pos # sess[x].at
    BY <2>1, SendingIsAlone
  <2>7. \A o \in Oid : ~ Exposed(o)' => broker'[o].filled = 0
    BY <2>1, <2>2, <2>5 DEF ExposedOK
  <2>8. \A o \in Oid : Exposed(o)' =>
          \/ order'[o].status \in Live
          \/ \E y \in Actor : sess'[y].pc = "sent" /\ sess'[y].oid = o
          \/ \E p \in Pos : broker'[o].pos = p /\ Spent(p)'
    <3> SUFFICES ASSUME NEW o \in Oid, Exposed(o)', o # oid
                 PROVE  \/ order'[o].status \in Live
                        \/ \E y \in Actor : sess'[y].pc = "sent" /\ sess'[y].oid = o
                        \/ \E p \in Pos : broker'[o].pos = p /\ Spent(p)'
      BY <2>4
    <3>1. Exposed(o) /\ broker'[o] = broker[o]
      BY <2>1, <2>5
    <3>2. \A y \in Actor : sess[y].pc = "sent" => sess'[y] = sess[y]
      BY <2>1, <2>4
    <3> QED
      BY <1>1, <2>3, <3>1, <3>2 DEF ExposedOK, Onward
  <2>9. \A o, q \in Oid : Exposed(o)' /\ Exposed(q)' /\ o # q => broker'[o].pos # broker'[q].pos
    <3> SUFFICES ASSUME NEW o \in Oid, NEW q \in Oid, Exposed(o)', Exposed(q)', o # q,
                        broker'[o].pos = broker'[q].pos
                 PROVE  FALSE
      OBVIOUS
    <3>1. CASE o # oid /\ q # oid
      BY <2>1, <2>5, <3>1 DEF ExposedOK
    <3>2. CASE o = oid
      BY <2>1, <2>2, <2>5, <2>6, <3>2
    <3>3. CASE q = oid
      BY <2>1, <2>2, <2>5, <2>6, <3>3
    <3> QED
      BY <3>1, <3>2, <3>3
  <2> QED
    BY <2>7, <2>8, <2>9 DEF ExposedOK
<1>3. CASE CommitExit(x)
  <2>1. broker' = broker /\ \A y \in Actor : y # x => sess'[y] = sess[y]
    BY <1>3 DEF CommitExit, Idle, IInv, TypeOK
  <2>2. order'[sess[x].oid].status = IF sess[x].pc = "sent" THEN "submitted" ELSE "rejected"
    <3>1. order'[sess[x].oid] =
            [status |-> IF sess[x].pc = "sent" THEN "submitted" ELSE "rejected",
             pos |-> sess[x].at, filled |-> 0, sent |-> sess[x].pc = "sent"]
      BY <1>3, CommitOrders
    <3> QED
      BY <3>1
  <2>3. \A o \in Oid : order[o].status \in Live => order'[o] = order[o]
    BY <1>3, CommitExitStores DEF IInv, Live
  <2> QED
    BY <1>1, <2>1, <2>2, <2>3, ExposedKept DEF Exposed, ExposedOK, Live
<1>4. CASE PlaceRefused(x)
  <2> DEFINE oid == sess[x].oid
  <2>1. /\ oid \in Oid /\ \A o \in Oid : o # oid => broker'[o] = broker[o]
        /\ sess[x].pc = "sending" /\ UNCHANGED order
    BY <1>4, PlacingRows DEF PlaceRefused, Placing
  <2>2. broker'[oid].st = "rejected" /\ broker'[oid].filled = 0
    BY <1>4, <2>1 DEF PlaceRefused, IInv, TypeOK
  <2>3. \A y \in Actor : y # x => sess'[y] = sess[y]
    BY OneSession
  <2> QED
    BY <1>1, <2>1, <2>2, <2>3, ExposedKept DEF Exposed, ExposedOK
<1>5. CASE ~ PlaceAccepted(x) /\ ~ PlaceRefused(x) /\ ~ CommitExit(x)
  <2>1. UNCHANGED <<order, broker>> /\ sess[x].pc # "sent"
    BY <1>5 DEF Exits, BeginExit, LoseRace, IndexRefuses, PlaceRaises, Busy, Careful
  <2>2. \A y \in Actor : y # x => sess'[y] = sess[y]
    BY OneSession
  <2> QED
    BY <1>1, <2>1, <2>2, ExposedKept DEF Exposed, ExposedOK
<1> QED
  BY <1>2, <1>3, <1>4, <1>5

(* The poller and recovery: an order that is no longer live has closed its  *)
(* position, or left it without an exit, or was ended by the broker.        *)
LEMMA OutcomeExposed ==
  ASSUME IInv, RealOK, ExposedOK, Onward, NEW o \in Oid, order[o].status \in Live,
         Outcome(o), UNCHANGED <<broker, sess>>
  PROVE  ExposedOK'
<1>1. order[o].pos \in Pos /\ broker[o].pos = order[o].pos
  BY DEF IInv, TablesOK, RowsOK, Live, RealOK, PlacedOK
<1>2. \A q \in Oid : q # o => order'[q] = order[q]
  BY DEF Outcome
<1>3. ASSUME Exposed(o), order'[o].status \notin Live
      PROVE  \E p \in Pos : broker[o].pos = p /\ Spent(p)'
  <2>1. PICK p \in Pos : p = order[o].pos
    BY <1>1
  <2>2. position'[p].status # "open"
    BY <1>3, <2>1 DEF Outcome, Exposed
  <2>3. \A q \in Oid : order'[q].status \in Live => order'[q].pos # p
    BY <1>2, <1>3, <2>1 DEF IInv, TablesOK, OneLive
  <2>4. Spent(p)'
    BY <2>2, <2>3 DEF Spent, LiveOrders
  <2> QED
    BY <1>1, <2>1, <2>4
<1> QED
  BY <1>1, <1>2, <1>3, ExposedKept DEF Exposed, ExposedOK

LEMMA RestExposed ==
  ASSUME Careful, IInv, RealOK, ClosingOK, ExposedOK,
         Watch \/ Api \/ Poll \/ Broker \/ Crash \/ Recovery
  PROVE  ExposedOK'
<1>1. Onward
  BY CarefulIsUnforced, WatchApiClosing, PollClosing, RestClosing
<1>2. CASE Watch \/ Api
  <2>1. UNCHANGED broker
    BY <1>2 DEF Watch, WatchBegin, WatchSkip, WatchEnd, Api, ApiClose, ApiRead
  <2>2. \A o \in Oid : order[o].status \in Live => order'[o] = order[o]
    <3>1. CASE WatchEnd
      BY <3>1, WatchEndStores DEF IInv, Live
    <3>2. CASE ~ WatchEnd
      BY <1>2, <3>2 DEF Watch, WatchBegin, WatchSkip, Api, ApiClose, ApiRead
    <3> QED
      BY <3>1, <3>2
  <2>3. \A y \in Actor : sess[y].pc = "sent" => sess'[y] = sess[y]
    <3>1. \/ sess' = sess
          \/ \E x \in Clients : /\ sess[x].pc = "idle"
                                /\ \E row : sess' = [sess EXCEPT ![x] = row]
      <4>1. CASE \E x \in Clients, p \in Pos : ApiRead(x, p)
        <5>1. PICK x \in Clients, p \in Pos :
                /\ sess[x].pc = "idle"
                /\ sess' = [sess EXCEPT ![x] = [pc |-> "read", at |-> p, oid |-> 0]]
          BY <4>1 DEF ApiRead
        <5> QED
          BY <5>1
      <4> QED
        BY <1>2, <4>1 DEF Watch, WatchBegin, WatchSkip, WatchEnd, Api, ApiClose, Careful
    <3> QED
      BY <3>1 DEF IInv, TypeOK
  <2> QED
    BY <1>1, <2>1, <2>2, <2>3, ExposedKept DEF Exposed, ExposedOK
<1>3. CASE PollUnchanged \/ PollPartial \/ PollFilled \/ PollEnded
  <2>1. UNCHANGED <<broker, sess>>
    BY <1>3 DEF PollUnchanged, PollPartial, PollFilled, PollEnded
  <2>2. poll.oid \in Oid /\ order[poll.oid].status \in Live /\ Outcome(poll.oid)
    BY <1>3, CarefulIsUnforced, PollWrites, PollOutcome DEF RealOK
  <2> QED
    BY <1>1, <2>1, <2>2, OutcomeExposed
<1>4. CASE PollBegin \/ PollLoad \/ \E o \in Oid : PollAsk(o) \/ PollAskRaises(o)
  <2>1. UNCHANGED <<order, broker, sess>>
    BY <1>4 DEF PollBegin, PollLoad, PollAsk, PollAskRaises
  <2> QED
    BY <1>1, <2>1, ExposedKept DEF Exposed, ExposedOK
<1>5. CASE Broker
  <2>1. UNCHANGED <<order, sess>>
    BY <1>5 DEF Broker, Fill, Cancel, Refuse
  <2>2. \A o \in Oid : /\ broker'[o].pos = broker[o].pos
                       /\ broker[o].st # "working" => broker'[o] = broker[o]
    BY <1>5, BrokerRows DEF RealOK
  <2>3. \A o \in Oid : ~ Exposed(o)' => broker'[o].filled = 0
    <3>1. CASE \E q \in Oid : Cancel(q) \/ Refuse(q)
      <4>1. PICK q \in Oid, st \in {"cancelled", "rejected"} :
              broker[q].filled = 0 /\ broker' = [broker EXCEPT ![q].st = st]
        BY <3>1 DEF Cancel, Refuse, Careful
      <4>2. broker[q] \in BrokerOrder
        BY DEF IInv, TypeOK
      <4> QED
        BY <4>1, <4>2 DEF Exposed, ExposedOK, IInv, TypeOK, BrokerOrder
    <3>2. CASE \E q \in Oid, n \in 1..Qty : Fill(q, n)
      <4>1. PICK q \in Oid, n \in 1..Qty : Fill(q, n)
        BY <3>2
      <4>2. broker[q] \in BrokerOrder
        BY DEF IInv, TypeOK
      <4>3. broker'[q].st \in {"filled", "working"} /\ \A o \in Oid : o # q => broker'[o] = broker[o]
        BY <4>1, <4>2 DEF Fill, IInv, TypeOK, BrokerOrder
      <4> QED
        BY <4>3 DEF Exposed, ExposedOK
    <3> QED
      BY <1>5, <3>1, <3>2 DEF Broker
  <2> QED
    BY <1>1, <2>1, <2>2, <2>3, ExposedKept DEF Exposed
<1>6. CASE Crash
  <2>1. UNCHANGED <<order, broker>> /\ \A y \in Actor : sess[y].pc # "sent"
    BY <1>6 DEF Crash, Careful
  <2> QED
    BY <1>1, <2>1, ExposedKept DEF Exposed, ExposedOK
<1>7. CASE \E o \in Oid : RecoverOrder(o)
  <2>1. PICK o \in Oid : RecoverOrder(o)
    BY <1>7
  <2>2. UNCHANGED <<broker, sess>>
    BY <2>1 DEF RecoverOrder
  <2> QED
    BY <1>1, <2>1, <2>2, CarefulIsUnforced, RecoverOrderOutcome, OutcomeExposed
<1>8. CASE RecoveryDone \/ \E o \in Oid : RecoverPending(o) \/ RecoverSkips(o)
  <2>1. UNCHANGED <<broker, sess>>
    BY <1>8 DEF RecoveryDone, RecoverPending, RecoverSkips
  <2>2. \A q \in Oid : order[q].status \in Live => order'[q] = order[q]
    <3>1. CASE \E o \in Oid : RecoverPending(o)
      <4>1. PICK o \in Oid : /\ order[o].status = "pending"
                             /\ order' = [order EXCEPT ![o].status = "failed"]
        BY <3>1 DEF RecoverPending
      <4> QED
        BY <4>1 DEF Live, IInv, TypeOK
    <3> QED
      BY <1>8, <3>1 DEF RecoveryDone, RecoverSkips
  <2> QED
    BY <1>1, <2>1, <2>2, ExposedKept DEF Exposed, ExposedOK
<1> QED
  BY <1>2, <1>3, <1>4, <1>5, <1>6, <1>7, <1>8 DEF Poll, Recovery

LEMMA NextExposed ==
  ASSUME Careful
  PROVE  IInv /\ RealOK /\ ClosingOK /\ ExposedOK /\ [Next]_vars => ExposedOK'
<1> SUFFICES ASSUME IInv, RealOK, ClosingOK, ExposedOK, [Next]_vars
             PROVE  ExposedOK'
  OBVIOUS
<1>1. CASE UNCHANGED vars
  BY <1>1 DEF vars, ExposedOK, Exposed, Spent, LiveOrders
<1> QED
  BY <1>1, ExitsExposed, RestExposed DEF Next

LEMMA ExposedInvariance ==
  ASSUME Careful
  PROVE  Spec => [](IInv /\ RealOK /\ ClosingOK /\ ExposedOK)
<1>1. Init => ExposedOK
  BY DEF Init, NoBroker, ExposedOK, Exposed
<1>2. IInv /\ RealOK /\ ClosingOK /\ ExposedOK /\ [Next]_vars => ExposedOK'
  BY NextExposed
<1>3. Spec => [](IInv /\ RealOK /\ ClosingOK)
  BY CarefulIsUnforced, ClosingInvariance
<1> QED
  BY <1>1, <1>2, <1>3, PTL DEF Spec

(* As long as every order the broker has is known to the session that sent  *)
(* it, and none is cancelled half filled, the shares of a position are      *)
(* never at two orders: not by the watcher and requests racing, nor after   *)
(* a stuck order, an UNKNOWN or REJECTED reply, a fill that is taken for an *)
(* old one, or a restart.                                                   *)
THEOREM NothingSoldTwice ==
  ASSUME Careful
  PROVE  Spec => []NoOversell
<1>1. IInv /\ ExposedOK => NoOversell
  <2> SUFFICES ASSUME IInv, ExposedOK, NEW o \in Oid, NEW q \in Oid, o # q,
                      broker[o].pos = broker[q].pos
               PROVE  Exposure(o) + Exposure(q) <= Qty
    BY DEF NoOversell
  <2>1. \A r \in Oid : Exposure(r) \in 0..Qty /\ (~ Exposed(r) => Exposure(r) = 0)
    BY ExitConstants DEF Exposure, Exposed, ExposedOK, IInv, TypeOK, BrokerOrder
  <2>2. ~ Exposed(o) \/ ~ Exposed(q)
    BY DEF ExposedOK
  <2> QED
    BY <2>1, <2>2, ExitConstants
<1> QED
  BY <1>1, ExposedInvariance, PTL

-----------------------------------------------------------------------------
(* Where something is sold twice, and why.                                  *)

(* An order the broker has sold for, or may, that the tables know of.       *)
Sighted(o) == Exposed(o) /\ ~ LostSight(o)

(* ExposedOK without Careful: what it says of exposed orders still holds of *)
(* those in sight, and an order that is over sold nothing unless it was     *)
(* cancelled half filled.                                                   *)
SightedOK ==
  /\ \A o \in Oid : ~ Exposed(o) => broker[o].filled = 0 \/ HalfCancelled(o)
  /\ \A o \in Oid : Sighted(o) =>
       \/ order[o].status \in Live
       \/ \E x \in Actor : sess[x].pc = "sent" /\ sess[x].oid = o
       \/ \E p \in Pos : broker[o].pos = p /\ Spent(p)
  /\ \A o, q \in Oid : Sighted(o) /\ Sighted(q) /\ o # q => broker[o].pos # broker[q].pos

(* Nothing comes into sight, and what was in sight goes on or is lost.      *)
LEMMA SightedKept ==
  ASSUME IInv, SightedOK, Onward,
         \A o \in Oid : ~ Exposed(o)' => broker'[o].filled = 0 \/ HalfCancelled(o)',
         \A o \in Oid : Sighted(o)' => Sighted(o) /\ broker'[o].pos = broker[o].pos,
         \A o \in Oid : Sighted(o)' /\ order[o].status \in Live =>
           \/ order'[o].status \in Live
           \/ \E p \in Pos : broker[o].pos = p /\ Spent(p)',
         \A x \in Actor, o \in Oid : sess[x].pc = "sent" /\ sess[x].oid = o =>
           \/ sess'[x] = sess[x]
           \/ order'[o].status \in Live
           \/ ~ Sighted(o)'
  PROVE  SightedOK'
<1>1. \A o \in Oid : Sighted(o)' =>
        \/ order'[o].status \in Live
        \/ \E x \in Actor : sess'[x].pc = "sent" /\ sess'[x].oid = o
        \/ \E p \in Pos : broker'[o].pos = p /\ Spent(p)'
  <2> SUFFICES ASSUME NEW o \in Oid, Sighted(o)'
               PROVE  \/ order'[o].status \in Live
                      \/ \E x \in Actor : sess'[x].pc = "sent" /\ sess'[x].oid = o
                      \/ \E p \in Pos : broker'[o].pos = p /\ Spent(p)'
    OBVIOUS
  <2>1. Sighted(o) /\ broker'[o].pos = broker[o].pos
    OBVIOUS
  <2>2. CASE order[o].status \in Live
    BY <2>1, <2>2
  <2>3. CASE \E x \in Actor : sess[x].pc = "sent" /\ sess[x].oid = o
    BY <2>3
  <2>4. CASE \E p \in Pos : broker[o].pos = p /\ Spent(p)
    BY <2>1, <2>4 DEF Onward
  <2> QED
    BY <2>1, <2>2, <2>3, <2>4 DEF SightedOK
<1>2. \A o, q \in Oid : Sighted(o)' /\ Sighted(q)' /\ o # q => broker'[o].pos # broker'[q].pos
  BY DEF SightedOK
<1> QED
  BY <1>1, <1>2 DEF SightedOK

(* The tables do not find what they lost: a step that brings no order back  *)
(* from none, pending or failed, and takes up no order the broker has.      *)
LEMMA LostStaysLost ==
  ASSUME \A o \in Oid : order[o].status \in {"none", "pending", "failed"} =>
           \/ order'[o].status \in {"none", "pending", "failed"}
           \/ \E x \in Actor : InFlight(x) /\ sess[x].oid = o,
         \A x \in Actor, o \in Oid : InFlight(x)' /\ sess'[x].oid = o =>
           (InFlight(x) /\ sess[x].oid = o) \/ ~ Exposed(o)',
         \A o \in Oid : Exposed(o)' => Exposed(o)
  PROVE  \A o \in Oid : Sighted(o)' => Sighted(o)
<1> SUFFICES ASSUME NEW o \in Oid, Exposed(o)', LostSight(o)
             PROVE  LostSight(o)'
  BY DEF Sighted
<1>1. order'[o].status \in {"none", "pending", "failed"}
  BY DEF LostSight
<1>2. \A x \in Actor : InFlight(x)' => sess'[x].oid # o
  BY DEF LostSight
<1> QED
  BY <1>1, <1>2 DEF LostSight

(* A position whose exit is being sent is OPEN: nothing else is in sight.   *)
LEMMA SendingIsAloneInSight ==
  ASSUME IInv, RealOK, ClosingOK, SightedOK, NEW x \in Actor, sess[x].pc = "sending",
         NEW o \in Oid, Sighted(o)
  PROVE  broker[o].pos # sess[x].at
<1>1. InFlight(x) /\ position[sess[x].at].status = "open"
  BY DEF InFlight, IInv, SessionsOK, ClaimsOK
<1>2. CASE order[o].status \in Live
  BY <1>1, <1>2 DEF RealOK, PlacedOK, ClosingOK
<1>3. CASE \E y \in Actor : sess[y].pc = "sent" /\ sess[y].oid = o
  <2>1. PICK y \in Actor : sess[y].pc = "sent" /\ sess[y].oid = o
    BY <1>3
  <2>2. y # x /\ InFlight(y) /\ broker[o].pos = sess[y].at
    BY <2>1 DEF InFlight, RealOK, PlacedOK
  <2> QED
    BY <1>1, <2>2 DEF IInv, SessionsOK, ClaimsOK
<1>4. CASE \E p \in Pos : broker[o].pos = p /\ Spent(p)
  BY <1>1, <1>4 DEF Spent
<1> QED
  BY <1>2, <1>3, <1>4 DEF SightedOK

LEMMA AcceptedSighted ==
  ASSUME IInv, RealOK, ClosingOK, SightedOK, Onward, NEW x \in Actor, PlaceAccepted(x)
  PROVE  SightedOK'
<1> DEFINE oid == sess[x].oid
<1>1. /\ oid \in Oid /\ \A o \in Oid : o # oid => broker'[o] = broker[o]
      /\ broker[oid].st = "none" /\ sess[x].pc = "sending"
  BY PlacingRows DEF PlaceAccepted, Placing
<1>2. broker'[oid] = [st |-> "working", pos |-> sess[x].at, filled |-> 0]
  BY <1>1 DEF PlaceAccepted, IInv, TypeOK
<1>3. sess[x] \in Session /\ UNCHANGED <<position, order>>
  BY DEF PlaceAccepted, IInv, TypeOK
<1>4. /\ sess'[x].pc = "sent" /\ sess'[x].oid = oid
      /\ \A y \in Actor : y # x => sess'[y] = sess[y]
  BY <1>3 DEF PlaceAccepted, IInv, TypeOK, Session
<1>5. \A o \in Oid : o # oid => (Sighted(o)' <=> Sighted(o))
  <2>1. \A y \in Actor : (InFlight(y)' <=> InFlight(y)) /\ sess'[y].oid = sess[y].oid
    BY <1>1, <1>4 DEF InFlight
  <2> QED
    BY <1>1, <1>3, <2>1 DEF Sighted, Exposed, LostSight
<1>6. \A o \in Oid : Sighted(o) => broker[o].pos # sess[x].at
  BY <1>1, SendingIsAloneInSight
<1>7. \A o \in Oid : ~ Exposed(o)' => broker'[o].filled = 0 \/ HalfCancelled(o)'
  BY <1>1, <1>2 DEF Exposed, HalfCancelled, SightedOK
<1>8. \A o \in Oid : Sighted(o)' =>
        \/ order'[o].status \in Live
        \/ \E y \in Actor : sess'[y].pc = "sent" /\ sess'[y].oid = o
        \/ \E p \in Pos : broker'[o].pos = p /\ Spent(p)'
  <2> SUFFICES ASSUME NEW o \in Oid, Sighted(o)', o # oid
               PROVE  \/ order'[o].status \in Live
                      \/ \E y \in Actor : sess'[y].pc = "sent" /\ sess'[y].oid = o
                      \/ \E p \in Pos : broker'[o].pos = p /\ Spent(p)'
    BY <1>4
  <2>1. Sighted(o) /\ broker'[o] = broker[o]
    BY <1>1, <1>5
  <2>2. \A y \in Actor : sess[y].pc = "sent" => sess'[y] = sess[y]
    BY <1>1, <1>4
  <2> QED
    BY <1>3, <2>1, <2>2 DEF SightedOK, Onward
<1>9. \A o, q \in Oid : Sighted(o)' /\ Sighted(q)' /\ o # q => broker'[o].pos # broker'[q].pos
  <2> SUFFICES ASSUME NEW o \in Oid, NEW q \in Oid, Sighted(o)', Sighted(q)', o # q,
                      broker'[o].pos = broker'[q].pos
               PROVE  FALSE
    OBVIOUS
  <2>1. CASE o # oid /\ q # oid
    BY <1>1, <1>5, <2>1 DEF SightedOK
  <2>2. CASE o = oid
    BY <1>1, <1>2, <1>5, <1>6, <2>2
  <2>3. CASE q = oid
    BY <1>1, <1>2, <1>5, <1>6, <2>3
  <2> QED
    BY <2>1, <2>2, <2>3
<1> QED
  BY <1>7, <1>8, <1>9 DEF SightedOK

LEMMA ExitsSighted ==
  ASSUME IInv, RealOK, ClosingOK, SightedOK, NEW x \in Actor, Exits(x)
  PROVE  SightedOK'
<1>1. Onward
  BY ExitsClosing
<1>2. CASE PlaceAccepted(x)
  BY <1>1, <1>2, AcceptedSighted
<1>3. \A y \in Actor : y # x => sess'[y] = sess[y]
  BY OneSession
<1>4. CASE CommitExit(x)
  <2>1. broker' = broker /\ InFlight(x) /\ sess'[x] = IdleSess
    BY <1>4 DEF CommitExit, Idle, InFlight, IInv, TypeOK
  <2>2. /\ sess[x].oid \in Oid
        /\ order'[sess[x].oid].status = IF sess[x].pc = "sent" THEN "submitted" ELSE "rejected"
        /\ \A o \in Oid : o # sess[x].oid => order'[o] = order[o] \/ order'[o].status = "pending"
    <3>1. order'[sess[x].oid] =
            [status |-> IF sess[x].pc = "sent" THEN "submitted" ELSE "rejected",
             pos |-> sess[x].at, filled |-> 0, sent |-> sess[x].pc = "sent"]
      BY <1>4, CommitOrders
    <3> QED
      BY <1>4, <3>1, CommitOrders
  <2>3. \A o \in Oid : order[o].status \in Live => order'[o] = order[o]
    BY <1>4, CommitExitStores DEF IInv, Live
  <2>4. \A o \in Oid : Sighted(o)' => Sighted(o)
    <3>1. \A y \in Actor : InFlight(y)' => InFlight(y) /\ sess'[y].oid = sess[y].oid
      BY <1>3, <2>1 DEF InFlight, IdleSess
    <3>2. \A o \in Oid : Exposed(o)' => Exposed(o)
      BY <2>1 DEF Exposed
    <3> QED
      BY <2>1, <2>2, <3>1, <3>2, LostStaysLost
  <2>5. \A o \in Oid : ~ Exposed(o)' => broker'[o].filled = 0 \/ HalfCancelled(o)'
    BY <2>1 DEF Exposed, HalfCancelled, SightedOK
  <2>6. \A y \in Actor : sess[y].pc = "sent" =>
          sess'[y] = sess[y] \/ order'[sess[y].oid].status \in Live
    BY <1>3, <2>2 DEF Live
  <2> QED
    BY <1>1, <2>1, <2>3, <2>4, <2>5, <2>6, SightedKept
<1>5. CASE PlaceRefused(x) \/ PlaceRaises(x)
  <2> DEFINE oid == sess[x].oid
  <2>1. /\ oid \in Oid /\ \A o \in Oid : o # oid => broker'[o] = broker[o]
        /\ sess[x].pc = "sending" /\ UNCHANGED order
        /\ broker[oid].st = "none" /\ order[oid].status = "none" /\ InFlight(x)
    BY <1>5, PlacingRows DEF PlaceRefused, PlaceRaises, Placing, InFlight
  <2>2. broker'[oid] = broker[oid] \/ broker'[oid].filled = 0
    BY <1>5, <2>1 DEF PlaceRefused, PlaceRaises, IInv, TypeOK
  <2>3. \A o \in Oid : o = oid => ~ Sighted(o)'
    <3>1. CASE PlaceRefused(x)
      <4>1. broker'[oid].st = "rejected"
        BY <2>1, <3>1 DEF PlaceRefused, IInv, TypeOK
      <4> QED
        BY <4>1 DEF Sighted, Exposed
    <3>2. CASE PlaceRaises(x)
      <4>1. sess'[x] = IdleSess
        BY <3>2 DEF PlaceRaises, Idle, IInv, TypeOK
      <4>2. \A y \in Actor : InFlight(y)' => y # x /\ InFlight(y) /\ sess'[y] = sess[y]
        BY <1>3, <4>1 DEF InFlight, IdleSess
      <4>3. \A y \in Actor : InFlight(y)' => sess'[y].oid # oid
        BY <2>1, <4>2 DEF IInv, SessionsOK, DraftsOK
      <4> QED
        BY <2>1, <4>3 DEF Sighted, LostSight
    <3> QED
      BY <1>5, <3>1, <3>2
  <2>4. \A o \in Oid : Sighted(o)' => Sighted(o) /\ broker'[o].pos = broker[o].pos
    <3> SUFFICES ASSUME NEW o \in Oid, Sighted(o)'
                 PROVE  Sighted(o) /\ broker'[o].pos = broker[o].pos
      OBVIOUS
    <3>1. o # oid /\ broker'[o] = broker[o]
      BY <2>1, <2>3
    <3>2. \A y \in Actor : y # x => (InFlight(y)' <=> InFlight(y)) /\ sess'[y].oid = sess[y].oid
      BY <1>3 DEF InFlight
    <3>3. InFlight(x)' => sess'[x].oid = oid
      BY <1>5 DEF PlaceRefused, PlaceRaises, Idle, InFlight, IdleSess, IInv, TypeOK, Session
    <3> QED
      BY <2>1, <3>1, <3>2, <3>3 DEF Sighted, Exposed, LostSight
  <2>5. \A o \in Oid : ~ Exposed(o)' => broker'[o].filled = 0 \/ HalfCancelled(o)'
    <3> SUFFICES ASSUME NEW o \in Oid, ~ Exposed(o)'
                 PROVE  broker'[o].filled = 0 \/ HalfCancelled(o)'
      OBVIOUS
    <3>1. CASE broker'[o] = broker[o]
      BY <3>1 DEF Exposed, HalfCancelled, SightedOK
    <3> QED
      BY <2>1, <2>2, <3>1
  <2> QED
    BY <1>1, <1>3, <2>1, <2>4, <2>5, SightedKept
<1>6. CASE ~ PlaceAccepted(x) /\ ~ PlaceRefused(x) /\ ~ CommitExit(x) /\ ~ PlaceRaises(x)
  <2>1. UNCHANGED <<order, broker>> /\ sess[x].pc # "sent"
    BY <1>6 DEF Exits, BeginExit, LoseRace, IndexRefuses, Busy
  <2>2. \A o \in Oid : InFlight(x)' /\ sess'[x].oid = o => ~ Exposed(o)'
    <3>1. CASE \E p \in Pos, o \in Oid : BeginExit(x, p, o)
      <4>1. PICK p \in Pos, o \in Oid : /\ broker[o].st = "none"
                                        /\ sess'[x].oid = o
        BY <3>1 DEF BeginExit, FreshId, Unused, IInv, TypeOK
      <4> QED
        BY <2>1, <4>1 DEF Exposed
    <3>2. CASE \E p \in Pos : LoseRace(x, p) \/ IndexRefuses(x, p)
      BY <3>2 DEF LoseRace, IndexRefuses, Idle, IdleSess, InFlight, IInv, TypeOK
    <3> QED
      BY <1>6, <3>1, <3>2 DEF Exits
  <2>3. \A o \in Oid : Sighted(o)' => Sighted(o)
    <3>1. \A o \in Oid : Exposed(o)' => Exposed(o)
      BY <2>1 DEF Exposed
    <3>2. \A y \in Actor, o \in Oid : InFlight(y)' /\ sess'[y].oid = o =>
            (InFlight(y) /\ sess[y].oid = o) \/ ~ Exposed(o)'
      BY <1>3, <2>2 DEF InFlight
    <3> QED
      BY <2>1, <3>1, <3>2, LostStaysLost
  <2>4. \A o \in Oid : ~ Exposed(o)' => broker'[o].filled = 0 \/ HalfCancelled(o)'
    BY <2>1 DEF Exposed, HalfCancelled, SightedOK
  <2> QED
    BY <1>1, <1>3, <2>1, <2>3, <2>4, SightedKept
<1> QED
  BY <1>2, <1>4, <1>5, <1>6

(* The poller and recovery.                                                 *)
LEMMA OutcomeSighted ==
  ASSUME IInv, RealOK, SightedOK, Onward, NEW o \in Oid, order[o].status \in Live,
         Outcome(o), UNCHANGED <<broker, sess>>
  PROVE  SightedOK'
<1>1. order[o].pos \in Pos /\ broker[o].pos = order[o].pos
  BY DEF IInv, TablesOK, RowsOK, Live, RealOK, PlacedOK
<1>2. \A q \in Oid : q # o => order'[q] = order[q]
  BY DEF Outcome
<1>3. ASSUME Exposed(o), order'[o].status \notin Live
      PROVE  \E p \in Pos : broker[o].pos = p /\ Spent(p)'
  <2>1. PICK p \in Pos : p = order[o].pos
    BY <1>1
  <2>2. position'[p].status # "open"
    BY <1>3, <2>1 DEF Outcome, Exposed
  <2>3. \A q \in Oid : order'[q].status \in Live => order'[q].pos # p
    BY <1>2, <1>3, <2>1 DEF IInv, TablesOK, OneLive
  <2>4. Spent(p)'
    BY <2>2, <2>3 DEF Spent, LiveOrders
  <2> QED
    BY <1>1, <2>1, <2>4
<1>4. \A q \in Oid : Sighted(q)' => Sighted(q)
  <2>1. \A q \in Oid : order[q].status \in {"none", "pending", "failed"} => order'[q] = order[q]
    BY <1>2 DEF Live
  <2>2. \A y \in Actor : InFlight(y)' => InFlight(y) /\ sess'[y].oid = sess[y].oid
    BY DEF InFlight
  <2>3. \A q \in Oid : Exposed(q)' => Exposed(q)
    BY DEF Exposed
  <2> QED
    BY <2>1, <2>2, <2>3, LostStaysLost
<1>5. \A q \in Oid : ~ Exposed(q)' => broker'[q].filled = 0 \/ HalfCancelled(q)'
  BY DEF Exposed, HalfCancelled, SightedOK
<1>6. \A q \in Oid : Sighted(q)' /\ order[q].status \in Live =>
        \/ order'[q].status \in Live
        \/ \E p \in Pos : broker[q].pos = p /\ Spent(p)'
  BY <1>2, <1>3, <1>4 DEF Sighted
<1> QED
  BY <1>4, <1>5, <1>6, SightedKept

LEMMA WatchApiSighted ==
  ASSUME IInv, RealOK, SightedOK, Onward, Watch \/ Api
  PROVE  SightedOK'
<1>1. UNCHANGED broker
  BY DEF Watch, WatchBegin, WatchSkip, WatchEnd, Api, ApiClose, ApiRead
<1>2. /\ \A o \in Oid : order[o].status \in Live => order'[o] = order[o]
      /\ \A o \in Oid : order[o].status \in {"none", "pending", "failed"} =>
                          order'[o].status \in {"none", "pending", "failed"}
  <2>1. CASE WatchEnd
    <3>1. \A o \in Oid : order[o].status # "none" => order'[o] = order[o]
      BY <2>1, WatchEndStores DEF IInv
    <3>2. \A o \in Oid : order'[o].status = "pending" \/ order'[o] = order[o]
      BY <2>1, OrdersAfterRows DEF WatchEnd, IInv, TypeOK
    <3> QED
      BY <3>1, <3>2 DEF Live
  <2>2. CASE ~ WatchEnd
    BY <2>2 DEF Watch, WatchBegin, WatchSkip, Api, ApiClose, ApiRead
  <2> QED
    BY <2>1, <2>2
<1>3. \A y \in Actor : \/ sess'[y] = sess[y]
                       \/ ~ InFlight(y) /\ ~ InFlight(y)'
  <2>1. CASE \E x \in Clients, p \in Pos : ApiRead(x, p)
    <3>1. PICK x \in Clients, p \in Pos :
            /\ sess[x].pc = "idle"
            /\ sess' = [sess EXCEPT ![x] = [pc |-> "read", at |-> p, oid |-> 0]]
      BY <2>1 DEF ApiRead
    <3> QED
      BY <3>1 DEF InFlight, IInv, TypeOK
  <2>2. CASE \E x \in Clients : ApiClose(x)
    <3>1. PICK x \in Clients : sess[x].pc = "read" /\ sess' = [sess EXCEPT ![x] = IdleSess]
      BY <2>2 DEF ApiClose, Idle
    <3> QED
      BY <3>1 DEF InFlight, IdleSess, IInv, TypeOK
  <2> QED
    BY <2>1, <2>2 DEF Watch, WatchBegin, WatchSkip, WatchEnd, Api
<1>4. \A o \in Oid : Sighted(o)' => Sighted(o)
  <2>1. \A o \in Oid : Exposed(o)' => Exposed(o)
    BY <1>1 DEF Exposed
  <2>2. \A y \in Actor : InFlight(y)' => InFlight(y) /\ sess'[y].oid = sess[y].oid
    BY <1>3 DEF InFlight
  <2> QED
    BY <1>2, <2>1, <2>2, LostStaysLost
<1>5. \A o \in Oid : ~ Exposed(o)' => broker'[o].filled = 0 \/ HalfCancelled(o)'
  BY <1>1 DEF Exposed, HalfCancelled, SightedOK
<1>6. \A y \in Actor : sess[y].pc = "sent" => sess'[y] = sess[y]
  BY <1>3 DEF InFlight
<1> QED
  BY <1>1, <1>2, <1>4, <1>5, <1>6, SightedKept

LEMMA BrokerSighted ==
  ASSUME IInv, RealOK, SightedOK, Onward, Broker
  PROVE  SightedOK'
<1>1. UNCHANGED <<order, sess>>
  BY DEF Broker, Fill, Cancel, Refuse
<1>2. \A o \in Oid : /\ broker'[o].pos = broker[o].pos
                     /\ broker[o].st # "working" => broker'[o] = broker[o]
  BY BrokerRows DEF RealOK
<1>3. \A o \in Oid : ~ Exposed(o)' => broker'[o].filled = 0 \/ HalfCancelled(o)'
  <2>1. CASE \E q \in Oid : Cancel(q) \/ Refuse(q)
    <3>1. PICK q \in Oid, st \in {"cancelled", "rejected"} :
            /\ st = "rejected" => broker[q].filled = 0
            /\ broker' = [broker EXCEPT ![q].st = st]
      BY <2>1 DEF Cancel, Refuse
    <3>2. broker[q] \in BrokerOrder
      BY DEF IInv, TypeOK
    <3>3. broker[q].filled \in Nat
      BY <3>2, ExitConstants DEF BrokerOrder
    <3>4. /\ broker'[q].st = st /\ broker'[q].filled = broker[q].filled
          /\ \A o \in Oid : o # q => broker'[o] = broker[o]
      BY <3>1, <3>2 DEF IInv, TypeOK, BrokerOrder
    <3>5. broker'[q].filled = 0 \/ HalfCancelled(q)'
      BY <3>1, <3>3, <3>4 DEF HalfCancelled
    <3>6. \A o \in Oid : o # q /\ ~ Exposed(o)' => broker'[o].filled = 0 \/ HalfCancelled(o)'
      BY <3>4 DEF Exposed, HalfCancelled, SightedOK
    <3> QED
      BY <3>5, <3>6
  <2>2. CASE \E q \in Oid, n \in 1..Qty : Fill(q, n)
    <3>1. PICK q \in Oid, n \in 1..Qty : Fill(q, n)
      BY <2>2
    <3>2. broker[q] \in BrokerOrder
      BY DEF IInv, TypeOK
    <3>3. broker'[q].st \in {"filled", "working"} /\ \A o \in Oid : o # q => broker'[o] = broker[o]
      BY <3>1, <3>2 DEF Fill, IInv, TypeOK, BrokerOrder
    <3> QED
      BY <3>3 DEF Exposed, HalfCancelled, SightedOK
  <2> QED
    BY <2>1, <2>2 DEF Broker
<1>4. \A o \in Oid : Sighted(o)' => Sighted(o)
  <2>1. \A o \in Oid : Exposed(o)' => Exposed(o)
    BY <1>2 DEF Exposed
  <2>2. \A y \in Actor : InFlight(y)' => InFlight(y) /\ sess'[y].oid = sess[y].oid
    BY <1>1 DEF InFlight
  <2> QED
    BY <1>1, <2>1, <2>2, LostStaysLost
<1> QED
  BY <1>1, <1>2, <1>3, <1>4, SightedKept

LEMMA RestSighted ==
  ASSUME Unforced, IInv, RealOK, ClosingOK, SightedOK, Poll \/ Crash \/ Recovery
  PROVE  SightedOK'
<1>1. Onward
  BY PollClosing, RestClosing
<1>2. CASE PollUnchanged \/ PollPartial \/ PollFilled \/ PollEnded
  <2>1. UNCHANGED <<broker, sess>>
    BY <1>2 DEF PollUnchanged, PollPartial, PollFilled, PollEnded
  <2>2. poll.oid \in Oid /\ order[poll.oid].status \in Live /\ Outcome(poll.oid)
    BY <1>2, PollWrites, PollOutcome DEF RealOK
  <2> QED
    BY <1>1, <2>1, <2>2, OutcomeSighted
<1>3. CASE PollBegin \/ PollLoad \/ \E o \in Oid : PollAsk(o) \/ PollAskRaises(o)
  <2>1. UNCHANGED order /\ UNCHANGED broker /\ UNCHANGED sess
    <3>1. CASE PollBegin
      BY <3>1 DEF PollBegin
    <3>2. CASE PollLoad
      BY <3>2 DEF PollLoad
    <3>3. CASE \E o \in Oid : PollAsk(o) \/ PollAskRaises(o)
      BY <3>3 DEF PollAsk, PollAskRaises
    <3> QED
      BY <1>3, <3>1, <3>2, <3>3
  <2> QED
    BY <1>1, <2>1, SightedKept DEF Sighted, Exposed, LostSight, HalfCancelled, InFlight, SightedOK
<1>4. CASE Crash
  <2>1. UNCHANGED <<order, broker>> /\ \A y \in Actor : ~ InFlight(y)'
    BY <1>4 DEF Crash, InFlight, IdleSess
  <2>2. \A o \in Oid : Sighted(o)' => Sighted(o)
    <3>1. \A o \in Oid : Exposed(o)' => Exposed(o)
      BY <2>1 DEF Exposed
    <3> QED
      BY <2>1, <3>1, LostStaysLost
  <2>3. \A y \in Actor, o \in Oid : sess[y].pc = "sent" /\ sess[y].oid = o => ~ Sighted(o)'
    BY <2>1 DEF Sighted, LostSight, InFlight, IInv, SessionsOK, DraftsOK
  <2>4. \A o \in Oid : ~ Exposed(o)' => broker'[o].filled = 0 \/ HalfCancelled(o)'
    BY <2>1 DEF Exposed, HalfCancelled, SightedOK
  <2> QED
    BY <1>1, <2>1, <2>2, <2>3, <2>4, SightedKept
<1>5. CASE \E o \in Oid : RecoverOrder(o)
  <2>1. PICK o \in Oid : RecoverOrder(o)
    BY <1>5
  <2>2. UNCHANGED <<broker, sess>>
    BY <2>1 DEF RecoverOrder
  <2> QED
    BY <1>1, <2>1, <2>2, RecoverOrderOutcome, OutcomeSighted
<1>6. CASE RecoveryDone \/ \E o \in Oid : RecoverPending(o) \/ RecoverSkips(o)
  <2>1. UNCHANGED <<broker, sess>>
    BY <1>6 DEF RecoveryDone, RecoverPending, RecoverSkips
  <2>2. \A q \in Oid : \/ order'[q] = order[q]
                       \/ order[q].status = "pending" /\ order'[q].status = "failed"
    <3>1. CASE \E o \in Oid : RecoverPending(o)
      <4>1. PICK o \in Oid : /\ order[o].status = "pending"
                             /\ order' = [order EXCEPT ![o].status = "failed"]
        BY <3>1 DEF RecoverPending
      <4>2. order[o] \in OrderRow
        BY DEF IInv, TypeOK
      <4> QED
        BY <4>1, <4>2 DEF IInv, TypeOK, OrderRow
    <3> QED
      BY <1>6, <3>1 DEF RecoveryDone, RecoverSkips
  <2>3. \A o \in Oid : Sighted(o)' => Sighted(o)
    <3>1. \A o \in Oid : Exposed(o)' => Exposed(o)
      BY <2>1 DEF Exposed
    <3>2. \A y \in Actor : InFlight(y)' => InFlight(y) /\ sess'[y].oid = sess[y].oid
      BY <2>1 DEF InFlight
    <3> QED
      BY <2>2, <3>1, <3>2, LostStaysLost
  <2>4. \A o \in Oid : ~ Exposed(o)' => broker'[o].filled = 0 \/ HalfCancelled(o)'
    BY <2>1 DEF Exposed, HalfCancelled, SightedOK
  <2> QED
    BY <1>1, <2>1, <2>2, <2>3, <2>4, SightedKept DEF Live
<1> QED
  BY <1>2, <1>3, <1>4, <1>5, <1>6 DEF Poll, Recovery

LEMMA NextSighted ==
  ASSUME Unforced
  PROVE  IInv /\ RealOK /\ ClosingOK /\ SightedOK /\ [Next]_vars => SightedOK'
<1> SUFFICES ASSUME IInv, RealOK, ClosingOK, SightedOK, [Next]_vars
             PROVE  SightedOK'
  OBVIOUS
<1>1. CASE UNCHANGED vars
  BY <1>1 DEF vars, SightedOK, Sighted, Exposed, LostSight, HalfCancelled, InFlight, Spent,
              LiveOrders
<1>2. CASE Watch \/ Api
  BY <1>2, WatchApiClosing, WatchApiSighted
<1>3. CASE Broker
  BY <1>3, RestClosing, BrokerSighted
<1> QED
  BY <1>1, <1>2, <1>3, ExitsSighted, RestSighted DEF Next

(* Whatever happens but a priced close, a second sale has one of two causes: *)
(* an order the tables lost sight of, or one cancelled half filled.  Racing  *)
(* clients, stuck orders, colliding execution ids, UNKNOWN and REJECTED      *)
(* replies and crashes add no third, not even together with these.           *)
THEOREM OversellIsCaused ==
  ASSUME Unforced
  PROVE  Spec => []OversellHasCause
<1>1. IInv /\ SightedOK => OversellHasCause
  <2> SUFFICES ASSUME IInv, SightedOK, NEW o \in Oid, NEW q \in Oid, o # q,
                      broker[o].pos = broker[q].pos,
                      \A r \in {o, q} : ~ LostSight(r) /\ ~ HalfCancelled(r)
               PROVE  ~ (Exposure(o) + Exposure(q) > Qty)
    BY DEF OversellHasCause
  <2>1. \A r \in {o, q} : Exposure(r) \in 0..Qty /\ (~ Exposed(r) => Exposure(r) = 0)
    BY ExitConstants DEF Exposure, Exposed, SightedOK, IInv, TypeOK, BrokerOrder
  <2>2. ~ Exposed(o) \/ ~ Exposed(q)
    BY DEF SightedOK, Sighted
  <2> QED
    BY <2>1, <2>2, ExitConstants
<1>2. Init => SightedOK
  BY DEF Init, NoBroker, SightedOK, Sighted, Exposed
<1>3. IInv /\ RealOK /\ ClosingOK /\ SightedOK /\ [Next]_vars => SightedOK'
  BY NextSighted
<1> QED
  BY <1>1, <1>2, <1>3, ClosingInvariance, PTL DEF Spec

-----------------------------------------------------------------------------
(* The exits keep the promise.                                              *)

(* A step of the abstract specification or none.                            *)
PromiseStep == [Promise!Next]_<<Phase, HeldShares>>

(* HeldShares of p when the broker's orders are b.                          *)
HeldBy(b, p) ==
  Qty - Cardinality({s \in Oid \X (1..Qty) : b[s[1]].pos = p /\ s[2] <= b[s[1]].filled})

(* Nothing has been sold: all shares are held.                              *)
LEMMA HeldAll ==
  ASSUME NEW b \in [Oid -> BrokerOrder], NEW p \in Pos,
         \A o \in Oid : b[o].pos = p => b[o].filled = 0
  PROVE  HeldBy(b, p) = Qty
<1> DEFINE S == {s \in Oid \X (1..Qty) : b[s[1]].pos = p /\ s[2] <= b[s[1]].filled}
<1>1. S = {}
  <2> SUFFICES ASSUME NEW s \in Oid \X (1..Qty), b[s[1]].pos = p, s[2] <= b[s[1]].filled
               PROVE  FALSE
    OBVIOUS
  <2>1. s[1] \in Oid /\ s[2] \in 1..Qty
    OBVIOUS
  <2>2. b[s[1]].filled = 0
    BY <2>1
  <2> QED
    BY <2>1, <2>2, ExitConstants
<1> QED
  BY <1>1, FS_EmptySet, ExitConstants DEF HeldBy

(* One order alone has sold: what it has filled is gone.                    *)
LEMMA HeldRest ==
  ASSUME NEW b \in [Oid -> BrokerOrder], NEW o \in Oid,
         \A q \in Oid : q # o /\ b[q].pos = b[o].pos => b[q].filled = 0
  PROVE  HeldBy(b, b[o].pos) = Qty - b[o].filled
<1> DEFINE n == b[o].filled
           S == {s \in Oid \X (1..Qty) : b[s[1]].pos = b[o].pos /\ s[2] <= b[s[1]].filled}
           f == [k \in 1..n |-> <<o, k>>]
<1>1. Qty \in Nat /\ n \in 0..Qty
  BY ExitConstants DEF BrokerOrder
<1>2. \A s \in S : s = <<o, s[2]>> /\ s[2] \in 1..n
  <2> SUFFICES ASSUME NEW s \in S
               PROVE  s = <<o, s[2]>> /\ s[2] \in 1..n
    OBVIOUS
  <2>1. s = <<s[1], s[2]>> /\ s[1] \in Oid /\ s[2] \in 1..Qty
    OBVIOUS
  <2>2. b[s[1]].pos = b[o].pos /\ s[2] <= b[s[1]].filled
    OBVIOUS
  <2>3. s[1] = o
    <3>1. s[1] # o => b[s[1]].filled = 0
      BY <2>1, <2>2
    <3> QED
      BY <1>1, <2>1, <2>2, <3>1
  <2> QED
    BY <1>1, <2>1, <2>2, <2>3
<1>3. \A k \in 1..n : <<o, k>> \in S
  BY <1>1
<1>4. f \in Bijection(1..n, S)
  <2>1. f \in [1..n -> S]
    BY <1>3
  <2>2. \A j, k \in 1..n : f[j] = f[k] => j = k
    OBVIOUS
  <2>3. \A s \in S : \E k \in 1..n : f[k] = s
    BY <1>2
  <2> HIDE DEF f, S, n
  <2> QED
    BY <2>1, <2>2, <2>3 DEF Bijection, Injection, Surjection, IsInjective
<1>5. ExistsBijection(1..n, S)
  BY <1>4 DEF ExistsBijection
<1>6. Cardinality(S) = n
  BY <1>1, <1>5, FS_CountingElements
<1> QED
  BY <1>6 DEF HeldBy

(* Orders without fills may come and go.                                    *)
LEMMA HeldSame ==
  ASSUME NEW b \in [Oid -> BrokerOrder], NEW c \in [Oid -> BrokerOrder], NEW p \in Pos,
         \A o \in Oid : /\ b[o].filled = c[o].filled
                        /\ b[o].pos = c[o].pos \/ b[o].filled = 0
  PROVE  HeldBy(b, p) = HeldBy(c, p)
<1>1. \A s \in Oid \X (1..Qty) :
        (b[s[1]].pos = p /\ s[2] <= b[s[1]].filled)
          <=> (c[s[1]].pos = p /\ s[2] <= c[s[1]].filled)
  <2> SUFFICES ASSUME NEW s \in Oid \X (1..Qty)
               PROVE  (b[s[1]].pos = p /\ s[2] <= b[s[1]].filled)
                        <=> (c[s[1]].pos = p /\ s[2] <= c[s[1]].filled)
    OBVIOUS
  <2>1. s[1] \in Oid /\ s[2] \in 1..Qty
    OBVIOUS
  <2>2. b[s[1]].filled = 0 => ~ s[2] <= b[s[1]].filled
    BY <2>1, ExitConstants
  <2> QED
    BY <2>1, <2>2
<1> QED
  BY <1>1 DEF HeldBy

LEMMA HeldIsHeldBy ==
  /\ HeldShares = [p \in Pos |-> HeldBy(broker, p)]
  /\ HeldShares' = [p \in Pos |-> HeldBy(broker', p)]
BY DEF HeldShares, Sold, HeldBy

(* The same of a step.                                                      *)
LEMMA HeldKept ==
  ASSUME IInv, broker' \in [Oid -> BrokerOrder],
         \A o \in Oid : \/ broker'[o] = broker[o]
                        \/ broker'[o].filled = 0 /\ broker[o].filled = 0
  PROVE  HeldShares' = HeldShares
<1>1. \A p \in Pos : HeldBy(broker, p) = HeldBy(broker', p)
  BY HeldSame DEF IInv, TypeOK
<1> QED
  BY <1>1, HeldIsHeldBy

(* Of a position none of whose orders is exposed, all shares are held.      *)
LEMMA HeldUnexposed ==
  ASSUME IInv, ExposedOK, NEW p \in Pos,
         \A o \in Oid : Exposed(o) => broker[o].pos # p
  PROVE  HeldShares[p] = Qty
<1>1. \A o \in Oid : broker[o].pos = p => broker[o].filled = 0
  BY DEF ExposedOK
<1> QED
  BY <1>1, HeldAll, HeldIsHeldBy DEF IInv, TypeOK

(* Of any other its one exposed order has sold some.                        *)
LEMMA HeldExposed ==
  ASSUME IInv, ExposedOK, NEW o \in Oid, Exposed(o), broker[o].pos \in Pos
  PROVE  HeldShares[broker[o].pos] = Qty - broker[o].filled
<1>1. \A q \in Oid : q # o /\ broker[q].pos = broker[o].pos => broker[q].filled = 0
  BY DEF ExposedOK
<1> QED
  BY <1>1, HeldRest, HeldIsHeldBy DEF IInv, TypeOK

-----------------------------------------------------------------------------
(* Two views of the abstract steps.                                         *)

(* Neither the phases nor the shares held change.                           *)
LEMMA PromiseStutters ==
  ASSUME \A p \in Pos : Phase'[p] = Phase[p], UNCHANGED HeldShares
  PROVE  PromiseStep
<1>1. Phase' = Phase
  BY DEF Phase
<1> QED
  BY <1>1 DEF PromiseStep

(* One position begins, sells, gives up or finishes.                        *)
LEMMA PromiseMoves ==
  ASSUME NEW p \in Pos, \A q \in Pos : q # p => Phase'[q] = Phase[q],
         \/ /\ Phase[p] = "open" /\ Phase'[p] = "exiting"
            /\ UNCHANGED HeldShares
         \/ /\ Phase[p] = "exiting" /\ Phase'[p] = "exiting"
            /\ \E n \in 1..HeldShares[p] : HeldShares' = [HeldShares EXCEPT ![p] = @ - n]
         \/ /\ Phase[p] = "exiting" /\ Phase'[p] = "open" /\ HeldShares[p] = Qty
            /\ UNCHANGED HeldShares
         \/ /\ Phase[p] = "exiting" /\ Phase'[p] = "closed" /\ HeldShares[p] = 0
            /\ UNCHANGED HeldShares
  PROVE  PromiseStep
<1>1. Phase' = [Phase EXCEPT ![p] = Phase'[p]]
  BY DEF Phase
<1>2. Phase'[p] = Phase[p] => Phase' = Phase
  BY <1>1 DEF Phase
<1>3. Promise!Begin(p) \/ Promise!Sell(p) \/ Promise!GiveUp(p) \/ Promise!Finish(p)
  BY <1>1, <1>2 DEF Promise!Begin, Promise!Sell, Promise!GiveUp, Promise!Finish
<1> QED
  BY <1>3 DEF PromiseStep, Promise!Next

(* What Phase says of a position.                                           *)
LEMMA PhaseOf ==
  ASSUME IInv, NEW p \in Pos
  PROVE  /\ Phase[p] = "closed" <=> position[p].status = "closed"
         /\ Phase[p] = "exiting" <=> position[p].status = "closing" \/ Claimed(p)
         /\ Phase[p] = "open" <=> position[p].status = "open" /\ ~ Claimed(p)
         /\ Claimed(p) => position[p].status = "open"
<1>1. position[p].status \in {"open", "closing", "closed"}
  BY DEF IInv, TypeOK, PositionRow
<1>2. Claimed(p) => position[p].status = "open"
  BY DEF Claimed, IInv, SessionsOK, ClaimsOK
<1> QED
  BY <1>1, <1>2 DEF Phase

(* Its primed twin, as the step keeps IInv.                                 *)
LEMMA PhaseAfter ==
  ASSUME IInv', NEW p \in Pos
  PROVE  /\ Phase'[p] = "closed" <=> position'[p].status = "closed"
         /\ Phase'[p] = "exiting" <=> position'[p].status = "closing" \/ Claimed(p)'
         /\ Phase'[p] = "open" <=> position'[p].status = "open" /\ ~ Claimed(p)'
         /\ Claimed(p)' => position'[p].status = "open"
<1>1. position'[p].status \in {"open", "closing", "closed"}
  BY DEF IInv, TypeOK, PositionRow
<1>2. Claimed(p)' => position'[p].status = "open"
  BY DEF Claimed, IInv, SessionsOK, ClaimsOK
<1> QED
  BY <1>1, <1>2 DEF Phase

(* A position that keeps its status and its claim keeps its phase.          *)
LEMMA PhaseKept ==
  ASSUME NEW p \in Pos, position'[p].status = position[p].status,
         Claimed(p)' <=> Claimed(p)
  PROVE  Phase'[p] = Phase[p]
BY DEF Phase

-----------------------------------------------------------------------------
(* The steps.                                                               *)

(* Claims change with the session that moves only.                          *)
LEMMA ClaimsOfOthers ==
  ASSUME NEW x \in Actor, \A y \in Actor : y # x => sess'[y] = sess[y], NEW p \in Pos,
         (InFlight(x)' /\ sess'[x].at = p) <=> (InFlight(x) /\ sess[x].at = p)
  PROVE  Claimed(p)' <=> Claimed(p)
BY DEF Claimed, InFlight

(* initiate_exit claims an OPEN position.                                   *)
LEMMA BeginExitPromise ==
  ASSUME IInv, IInv', NEW x \in Actor, NEW p \in Pos, NEW o \in Oid, BeginExit(x, p, o)
  PROVE  PromiseStep
<1>1. /\ ~ InFlight(x) /\ ~ Claimed(p) /\ position[p].status = "open"
      /\ UNCHANGED <<position, broker>>
  BY DEF BeginExit, Busy, InFlight, RowLocked, CanClaim, Claimed
<1>2. /\ InFlight(x)' /\ sess'[x].at = p
      /\ \A y \in Actor : y # x => sess'[y] = sess[y]
  BY DEF BeginExit, InFlight, IInv, TypeOK
<1>3. \A q \in Pos : q # p => Phase'[q] = Phase[q]
  BY <1>1, <1>2, ClaimsOfOthers, PhaseKept
<1>4. Phase[p] = "open" /\ Phase'[p] = "exiting"
  BY <1>1, <1>2, PhaseOf, PhaseAfter DEF Claimed
<1>5. UNCHANGED HeldShares
  BY <1>1 DEF HeldShares, Sold
<1> QED
  BY <1>3, <1>4, <1>5, PromiseMoves

(* A send that raises gives the position up with all its shares.            *)
LEMMA PlaceRaisesPromise ==
  ASSUME Careful, IInv, IInv', RealOK, ClosingOK, ExposedOK, NEW x \in Actor, PlaceRaises(x)
  PROVE  PromiseStep
<1>1. InFlight(x) /\ sess[x].at \in Pos /\ UNCHANGED <<position, broker>>
  BY DEF PlaceRaises, Careful, InFlight, IInv, SessionsOK, ClaimsOK
<1> PICK p \in Pos : sess[x].at = p
  BY <1>1
<1>2. ~ InFlight(x)' /\ \A y \in Actor : y # x => sess'[y] = sess[y]
  BY DEF PlaceRaises, Idle, InFlight, IdleSess, IInv, TypeOK
<1>3. \A q \in Pos : q # p => Phase'[q] = Phase[q]
  BY <1>1, <1>2, ClaimsOfOthers, PhaseKept
<1>4. ~ Claimed(p)' /\ Claimed(p)
  BY <1>1, <1>2 DEF Claimed, InFlight, IInv, SessionsOK, ClaimsOK
<1>5. Phase[p] = "exiting" /\ Phase'[p] = "open"
  BY <1>1, <1>4, PhaseOf, PhaseAfter
<1>6. HeldShares[p] = Qty
  BY SendingIsAlone, HeldUnexposed DEF PlaceRaises
<1>7. UNCHANGED HeldShares
  BY <1>1 DEF HeldShares, Sold
<1> QED
  BY <1>1, <1>3, <1>5, <1>6, <1>7, PromiseMoves

(* The commit turns the claim into CLOSING, which is no step of the promise. *)
LEMMA CommitExitPromise ==
  ASSUME IInv, IInv', NEW x \in Actor, CommitExit(x)
  PROVE  PromiseStep
<1>1. InFlight(x) /\ sess[x].at \in Pos /\ UNCHANGED broker
  BY DEF CommitExit, InFlight, IInv, SessionsOK, ClaimsOK
<1> PICK p \in Pos : sess[x].at = p
  BY <1>1
<1>2. ~ InFlight(x)' /\ \A y \in Actor : y # x => sess'[y] = sess[y]
  BY DEF CommitExit, Idle, InFlight, IdleSess, IInv, TypeOK
<1>3. \A q \in Pos : position'[q].status = IF q = p THEN "closing" ELSE position[q].status
  <2>1. Leftover(x) \in SUBSET [pos: Pos, oid: Oid] /\ {p} \in SUBSET Pos
    BY DEF Leftover, IInv, TypeOK
  <2>2. position' = PositionsAfter({p}, Leftover(x))
    BY DEF CommitExit
  <2> QED
    BY <2>1, <2>2, PositionsAfterRows DEF IInv
<1>4. \A q \in Pos : q # p => Phase'[q] = Phase[q]
  BY <1>1, <1>2, <1>3, ClaimsOfOthers, PhaseKept
<1>5. Phase[p] = "exiting" /\ Phase'[p] = "exiting"
  BY <1>1, <1>3, PhaseOf, PhaseAfter DEF Claimed
<1>6. UNCHANGED HeldShares
  BY <1>1 DEF HeldShares, Sold
<1> QED
  BY <1>4, <1>5, <1>6, PromiseStutters

LEMMA ExitsPromise ==
  ASSUME Careful, IInv, IInv', RealOK, ClosingOK, ExposedOK, NEW x \in Actor, Exits(x)
  PROVE  PromiseStep
<1>1. CASE \/ PlaceAccepted(x) \/ PlaceRefused(x)
          \/ \E p \in Pos : LoseRace(x, p) \/ IndexRefuses(x, p)
  <2>1. UNCHANGED position
    BY <1>1 DEF PlaceAccepted, PlaceRefused, LoseRace, IndexRefuses
  <2>2. \A p \in Pos : (InFlight(x)' /\ sess'[x].at = p) <=> (InFlight(x) /\ sess[x].at = p)
    <3>1. CASE PlaceAccepted(x) \/ PlaceRefused(x)
      BY <3>1 DEF PlaceAccepted, PlaceRefused, InFlight, IInv, TypeOK, Session
    <3>2. CASE \E p \in Pos : LoseRace(x, p) \/ IndexRefuses(x, p)
      BY <3>2 DEF LoseRace, IndexRefuses, Idle, IdleSess, Busy, InFlight, IInv, TypeOK
    <3> QED
      BY <1>1, <3>1, <3>2
  <2>3. \A p \in Pos : Phase'[p] = Phase[p]
    BY <2>1, <2>2, OneSession, ClaimsOfOthers, PhaseKept
  <2>4. UNCHANGED HeldShares
    <3>1. CASE PlaceAccepted(x) \/ PlaceRefused(x)
      <4>1. /\ sess[x].oid \in Oid /\ broker[sess[x].oid].st = "none"
            /\ \A o \in Oid : o # sess[x].oid => broker'[o] = broker[o]
        BY <3>1, PlacingRows DEF PlaceAccepted, PlaceRefused, Placing
      <4>2. broker[sess[x].oid].filled = 0
        BY <4>1 DEF ExposedOK, Exposed
      <4>3. broker'[sess[x].oid].filled = 0 /\ broker' \in [Oid -> BrokerOrder]
        <5>1. PICK st \in {"working", "rejected"} :
                broker' = [broker EXCEPT ![sess[x].oid] =
                             [st |-> st, pos |-> sess[x].at, filled |-> 0]]
          BY <3>1 DEF PlaceAccepted, PlaceRefused
        <5>2. InFlight(x) /\ sess[x].at \in Pos /\ 0 \in 0..Qty
          BY <3>1, ExitConstants
          DEF PlaceAccepted, PlaceRefused, InFlight, IInv, SessionsOK, ClaimsOK
        <5> QED
          BY <4>1, <5>1, <5>2 DEF IInv, TypeOK, BrokerOrder, BrokerStatus
      <4> QED
        BY <4>1, <4>2, <4>3, HeldKept
    <3>2. CASE UNCHANGED broker
      BY <3>2 DEF HeldShares, Sold
    <3> QED
      BY <1>1, <3>1, <3>2 DEF LoseRace, IndexRefuses
  <2> QED
    BY <2>3, <2>4, PromiseStutters
<1> QED
  BY <1>1, BeginExitPromise, PlaceRaisesPromise, CommitExitPromise
  DEF Exits

(* Settling sells a position in full, gives it up or changes nothing.       *)
LEMMA OutcomePromise ==
  ASSUME IInv, IInv', RealOK, ClosingOK, ExposedOK, NEW o \in Oid, order[o].status \in Live,
         Outcome(o), UNCHANGED <<broker, sess>>
  PROVE  PromiseStep
<1> DEFINE p == order[o].pos
<1>1. /\ p \in Pos /\ broker[o].pos = p
      /\ position[p].status = "closing" /\ Phase[p] = "exiting"
  BY PhaseOf DEF IInv, TablesOK, RowsOK, Live, RealOK, PlacedOK, ClosingOK
<1>2. \A q \in Pos : Claimed(q)' <=> Claimed(q)
  BY DEF Claimed, InFlight
<1>3. \A q \in Pos : q # p => Phase'[q] = Phase[q]
  BY <1>2, PhaseKept DEF Outcome
<1>4. UNCHANGED HeldShares
  BY DEF HeldShares, Sold
<1>5. \A q \in Oid : Exposed(q) /\ broker[q].pos = p => q = o
  <2> SUFFICES ASSUME NEW q \in Oid, Exposed(q), broker[q].pos = p
               PROVE  q = o
    OBVIOUS
  <2>1. CASE order[q].status \in Live
    BY <1>1, <2>1 DEF IInv, TablesOK, OneLive, RealOK, PlacedOK
  <2>2. CASE \E x \in Actor : sess[x].pc = "sent" /\ sess[x].oid = q
    BY <1>1, <2>2 DEF InFlight, IInv, SessionsOK, ClaimsOK, RealOK, PlacedOK
  <2> QED
    BY <1>1, <2>1, <2>2 DEF ExposedOK, Spent, LiveOrders
<1>6. CASE position'[p].status = "closing"
  BY <1>1, <1>3, <1>4, <1>6, PhaseAfter, PromiseStutters
<1>7. CASE broker[o].st = "filled" /\ position'[p].status = "closed"
  <2>1. HeldShares[p] = Qty - Qty
    BY <1>1, <1>7, HeldExposed DEF Exposed, RealOK, FillsOK
  <2>2. HeldShares[p] = 0
    BY <2>1, ExitConstants
  <2> QED
    BY <1>1, <1>3, <1>4, <1>7, <2>2, PhaseAfter, PromiseMoves
<1>8. CASE broker[o].st \in {"cancelled", "rejected"} /\ position'[p].status = "open"
  <2>1. HeldShares[p] = Qty
    BY <1>1, <1>5, <1>8, HeldUnexposed DEF Exposed
  <2>2. Phase'[p] = "open"
    BY <1>1, <1>2, <1>8, PhaseOf, PhaseAfter
  <2> QED
    BY <1>1, <1>3, <1>4, <2>1, <2>2, PromiseMoves
<1> QED
  BY <1>6, <1>7, <1>8 DEF Outcome

(* A fill sells shares of a position that is being exited.                  *)
LEMMA FillPromise ==
  ASSUME IInv, IInv', RealOK, ClosingOK, ExposedOK, ExposedOK', NEW o \in Oid, NEW n \in 1..Qty,
         Fill(o, n), broker[o].pos \in Pos
  PROVE  PromiseStep
<1> PICK p \in Pos : broker[o].pos = p
  OBVIOUS
<1>1. broker[o] \in BrokerOrder /\ Exposed(o) /\ broker[o].filled + n <= Qty
  BY DEF Fill, Exposed, IInv, TypeOK
<1>2. /\ broker'[o].filled = broker[o].filled + n /\ broker'[o].pos = p
      /\ broker'[o].st \in {"working", "filled"} /\ UNCHANGED <<position, order, sess>>
      /\ \A q \in Oid : q # o => broker'[q] = broker[q]
  BY <1>1 DEF Fill, IInv, TypeOK, BrokerOrder
<1>3. \A q \in Pos : Phase'[q] = Phase[q]
  BY <1>2, PhaseKept DEF Claimed, InFlight
<1>4. Phase[p] = "exiting"
  <2>1. CASE order[o].status \in Live
    BY <2>1, PhaseOf DEF RealOK, PlacedOK, ClosingOK
  <2>2. CASE \E x \in Actor : sess[x].pc = "sent" /\ sess[x].oid = o
    BY <2>2, PhaseOf DEF Claimed, InFlight, RealOK, PlacedOK
  <2>3. position[p].status # "closed"
    <3> SUFFICES ASSUME position[p].status = "closed"
                 PROVE  FALSE
      OBVIOUS
    <3>1. PICK q \in Oid : broker[q].pos = p /\ broker[q].st = "filled"
      BY DEF ClosingOK, ClosedMeansSold
    <3>2. q = o
      BY <1>1, <3>1 DEF ExposedOK, Exposed
    <3> QED
      BY <3>1, <3>2 DEF Fill
  <2>4. CASE Spent(p)
    <3>1. position[p].status = "closing"
      BY <2>3, <2>4 DEF Spent, IInv, TypeOK, PositionRow
    <3> QED
      BY <3>1, PhaseOf
  <2> QED
    BY <1>1, <2>1, <2>2, <2>4 DEF ExposedOK
<1>5. HeldShares[p] = Qty - broker[o].filled /\ HeldShares'[p] = Qty - broker[o].filled - n
  <2>1. HeldShares[p] = Qty - broker[o].filled
    BY <1>1, HeldExposed
  <2>2. \A q \in Oid : q # o /\ broker'[q].pos = broker'[o].pos => broker'[q].filled = 0
    BY <1>1, <1>2 DEF ExposedOK
  <2>3. HeldBy(broker', p) = Qty - broker'[o].filled
    BY <1>2, <2>2, HeldRest DEF IInv, TypeOK
  <2> QED
    BY <1>1, <1>2, <2>1, <2>3, HeldIsHeldBy, ExitConstants DEF BrokerOrder
<1>6. \A q \in Pos : q # p => HeldShares'[q] = HeldShares[q]
  <2> SUFFICES ASSUME NEW q \in Pos, q # p
               PROVE  HeldBy(broker', q) = HeldBy(broker, q)
    BY HeldIsHeldBy
  <2>1. \A s \in Oid \X (1..Qty) :
          (broker'[s[1]].pos = q /\ s[2] <= broker'[s[1]].filled)
            <=> (broker[s[1]].pos = q /\ s[2] <= broker[s[1]].filled)
    BY <1>2
  <2> QED
    BY <2>1 DEF HeldBy
<1>7. n \in 1..HeldShares[p] /\ HeldShares' = [HeldShares EXCEPT ![p] = @ - n]
  <2>1. HeldShares[p] - n = HeldShares'[p] /\ n \in 1..HeldShares[p]
    BY <1>1, <1>5, ExitConstants DEF BrokerOrder
  <2>2. HeldShares' = [HeldShares EXCEPT ![p] = HeldShares'[p]]
    BY <1>6, HeldIsHeldBy
  <2> QED
    BY <2>1, <2>2
<1> QED
  BY <1>3, <1>4, <1>7, PromiseMoves

(* An order that is cancelled or refused has sold nothing.                  *)
LEMMA BrokerPromise ==
  ASSUME Careful, IInv, IInv', RealOK, ClosingOK, ExposedOK, ExposedOK', Broker
  PROVE  PromiseStep
<1>1. UNCHANGED <<position, order, sess>>
  BY DEF Broker, Fill, Cancel, Refuse
<1>2. \A p \in Pos : Phase'[p] = Phase[p]
  BY <1>1, PhaseKept DEF Claimed, InFlight
<1>3. CASE \E o \in Oid : Cancel(o) \/ Refuse(o)
  <2>1. PICK o \in Oid, st \in {"cancelled", "rejected"} :
          broker[o].filled = 0 /\ broker' = [broker EXCEPT ![o].st = st]
    BY <1>3 DEF Cancel, Refuse, Careful
  <2>2. broker[o] \in BrokerOrder
    BY DEF IInv, TypeOK
  <2>3. /\ broker'[o].filled = 0 /\ broker' \in [Oid -> BrokerOrder]
        /\ \A q \in Oid : q # o => broker'[q] = broker[q]
    BY <2>1, <2>2 DEF IInv, TypeOK, BrokerOrder
  <2> QED
    BY <1>2, <2>1, <2>3, HeldKept, PromiseStutters
<1>4. CASE \E o \in Oid, n \in 1..Qty : Fill(o, n)
  <2>1. PICK o \in Oid, n \in 1..Qty : Fill(o, n)
    BY <1>4
  <2>2. Exposed(o)
    BY <2>1 DEF Fill, Exposed
  <2>3. broker[o].pos \in Pos
    BY <2>2 DEF ExposedOK, RealOK, PlacedOK, IInv, TablesOK, RowsOK, Live, SessionsOK, ClaimsOK,
                InFlight
  <2> QED
    BY <2>1, <2>3, FillPromise
<1> QED
  BY <1>3, <1>4 DEF Broker

(* A crash gives up the exits that were being sent, all their shares held.  *)
LEMMA CrashPromise ==
  ASSUME Careful, IInv, IInv', RealOK, ClosingOK, ExposedOK, Crash
  PROVE  PromiseStep
<1> DEFINE P == {p \in Pos : Claimed(p)}
<1>1. UNCHANGED <<position, broker>> /\ \A p \in Pos : ~ Claimed(p)'
  BY DEF Crash, Claimed, InFlight, IdleSess
<1>2. \A p \in P : Phase[p] = "exiting" /\ Phase'[p] = "open"
  BY <1>1, PhaseOf, PhaseAfter
<1>3. \A p \in P : HeldShares[p] = Qty
  <2> SUFFICES ASSUME NEW p \in Pos, Claimed(p)
               PROVE  HeldShares[p] = Qty
    OBVIOUS
  <2>1. PICK x \in Actor : sess[x].pc = "sending" /\ sess[x].at = p
    BY DEF Claimed, InFlight, Crash, Careful
  <2> QED
    BY <2>1, SendingIsAlone, HeldUnexposed
<1>4. \A p \in Pos : p \notin P => Phase'[p] = Phase[p]
  BY <1>1, PhaseKept
<1>5. Phase' = [p \in Pos |-> IF p \in P THEN "open" ELSE Phase[p]]
  <2>1. Phase' = [p \in Pos |-> Phase'[p]]
    BY DEF Phase
  <2> QED
    BY <1>2, <1>4, <2>1
<1>6. UNCHANGED HeldShares
  BY <1>1 DEF HeldShares, Sold
<1>7. P \in SUBSET Pos
  OBVIOUS
<1> HIDE DEF P
<1>8. Promise!Restart(P)
  BY <1>2, <1>3, <1>5, <1>6 DEF Promise!Restart
<1> QED
  BY <1>7, <1>8 DEF PromiseStep, Promise!Next

(* The watcher between exits, requests that read, the poller and recovery.  *)
LEMMA RestPromise ==
  ASSUME Careful, IInv, IInv', RealOK, ClosingOK, ExposedOK,
         Watch \/ Api \/ Poll \/ Recovery
  PROVE  PromiseStep
<1>1. CASE Watch \/ Api
  <2>1. \A p \in Pos : position'[p].status = position[p].status
    <3>1. CASE WatchEnd
      <4>1. leftover \in SUBSET [pos: Pos, oid: Oid] /\ {} \in SUBSET Pos
        BY DEF IInv, TypeOK
      <4> QED
        BY <3>1, <4>1, PositionsAfterRows DEF WatchEnd, IInv
    <3> QED
      BY <1>1, <3>1 DEF Watch, WatchBegin, WatchSkip, Api, ApiRead, ApiClose, Careful
  <2>2. \A p \in Pos : Claimed(p)' <=> Claimed(p)
    <3>1. CASE \E x \in Clients, p \in Pos : ApiRead(x, p)
      <4>1. PICK x \in Clients, p \in Pos : ApiRead(x, p)
        BY <3>1
      <4>2. ~ InFlight(x) /\ ~ InFlight(x)' /\ \A y \in Actor : y # x => sess'[y] = sess[y]
        BY <4>1 DEF ApiRead, InFlight, IInv, TypeOK, Actor
      <4> QED
        BY <4>2, ClaimsOfOthers DEF Actor
    <3>2. CASE UNCHANGED sess
      BY <3>2 DEF Claimed, InFlight
    <3> QED
      BY <1>1, <3>1, <3>2 DEF Watch, WatchBegin, WatchSkip, WatchEnd, Api, ApiClose, Careful
  <2>3. \A p \in Pos : Phase'[p] = Phase[p]
    BY <2>1, <2>2, PhaseKept
  <2>4. UNCHANGED HeldShares
    BY <1>1 DEF Watch, WatchBegin, WatchSkip, WatchEnd, Api, ApiRead, ApiClose, HeldShares, Sold
  <2> QED
    BY <2>3, <2>4, PromiseStutters
<1>2. CASE PollUnchanged \/ PollPartial \/ PollFilled \/ PollEnded
  <2>1. UNCHANGED <<broker, sess>>
    BY <1>2 DEF PollUnchanged, PollPartial, PollFilled, PollEnded
  <2>2. poll.oid \in Oid /\ order[poll.oid].status \in Live /\ Outcome(poll.oid)
    BY <1>2, CarefulIsUnforced, PollWrites, PollOutcome DEF RealOK
  <2> QED
    BY <2>1, <2>2, OutcomePromise
<1>3. CASE \E o \in Oid : RecoverOrder(o)
  <2>1. PICK o \in Oid : RecoverOrder(o)
    BY <1>3
  <2>2. UNCHANGED <<broker, sess>>
    BY <2>1 DEF RecoverOrder
  <2> QED
    BY <2>1, <2>2, CarefulIsUnforced, RecoverOrderOutcome, OutcomePromise
<1>4. CASE \/ PollBegin \/ PollLoad \/ \E o \in Oid : PollAsk(o) \/ PollAskRaises(o)
          \/ RecoveryDone \/ \E o \in Oid : RecoverPending(o) \/ RecoverSkips(o)
  <2>1. UNCHANGED <<position, broker, sess>>
    BY <1>4 DEF PollBegin, PollLoad, PollAsk, PollAskRaises, RecoveryDone, RecoverPending,
                RecoverSkips
  <2>2. \A p \in Pos : Phase'[p] = Phase[p]
    BY <2>1, PhaseKept DEF Claimed, InFlight
  <2> QED
    BY <2>1, <2>2, PromiseStutters DEF HeldShares, Sold
<1> QED
  BY <1>1, <1>2, <1>3, <1>4 DEF Poll, Recovery

(* Every position begins OPEN with all its shares.                          *)
LEMMA InitPromise == Init => Promise!Init
<1> SUFFICES ASSUME Init
             PROVE  Promise!Init
  OBVIOUS
<1>1. \A p \in Pos : Phase[p] = "open"
  BY DEF Init, IdleSess, Phase, Claimed, InFlight
<1>2. broker \in [Oid -> BrokerOrder] /\ \A o \in Oid : broker[o].filled = 0
  BY ExitConstants DEF Init, NoBroker, BrokerOrder, BrokerStatus
<1>3. \A p \in Pos : HeldShares[p] = Qty
  BY <1>2, HeldAll, HeldIsHeldBy
<1> QED
  BY <1>1, <1>3, HeldIsHeldBy DEF Promise!Init, Phase

LEMMA NextPromise ==
  ASSUME Careful
  PROVE  IInv /\ IInv' /\ RealOK /\ ClosingOK /\ ExposedOK /\ ExposedOK' /\ [Next]_vars => PromiseStep
<1> SUFFICES ASSUME IInv, IInv', RealOK, ClosingOK, ExposedOK, ExposedOK', [Next]_vars
             PROVE  PromiseStep
  OBVIOUS
<1>1. CASE UNCHANGED vars
  <2>1. UNCHANGED <<position, broker, sess>>
    BY <1>1 DEF vars
  <2> QED
    BY <2>1 DEF PromiseStep, Phase, Claimed, InFlight, HeldShares, Sold
<1> QED
  BY <1>1, ExitsPromise, BrokerPromise, CrashPromise, RestPromise DEF Next

(* The exits implement PositionPromise: shares leave only while a position  *)
(* is exiting, are given up only in full, and finish only when all are      *)
(* gone, though sessions, poller, recovery and broker know it piecemeal.    *)
THEOREM PromiseIsKept ==
  ASSUME Careful
  PROVE  Spec => KeepsPromise
<1>1. Init => Promise!Init
  BY InitPromise
<1>2. IInv /\ IInv' /\ RealOK /\ ClosingOK /\ ExposedOK /\ ExposedOK' /\ [Next]_vars
        => [Promise!Next]_<<Phase, HeldShares>>
  BY NextPromise DEF PromiseStep
<1> QED
  BY <1>1, <1>2, ExposedInvariance, PTL DEF Spec, KeepsPromise, Promise!Spec

(* Hence the account agrees with the rows whatever exits a position has     *)
(* been through: all its shares while it is OPEN and unclaimed, none once   *)
(* CLOSED.                                                                  *)
THEOREM AccountFollowsRows ==
  ASSUME Careful
  PROVE  Spec => []Promise!SharesFollowPhase
<1>1. Promise!Init => Promise!SharesFollowPhase
  BY ExitConstants DEF Promise!Init, Promise!SharesFollowPhase
<1>2. Promise!SharesFollowPhase /\ [Promise!Next]_<<Phase, HeldShares>>
        => Promise!SharesFollowPhase'
  <2> SUFFICES ASSUME Promise!SharesFollowPhase, [Promise!Next]_<<Phase, HeldShares>>,
                      NEW q \in Pos
               PROVE  /\ HeldShares'[q] \in 0..Qty
                      /\ Phase'[q] = "open" => HeldShares'[q] = Qty
                      /\ Phase'[q] = "closed" => HeldShares'[q] = 0
    BY DEF Promise!SharesFollowPhase
  <2>1. /\ HeldShares[q] \in 0..Qty
        /\ Phase[q] = "open" => HeldShares[q] = Qty
        /\ Phase[q] = "closed" => HeldShares[q] = 0
    BY DEF Promise!SharesFollowPhase
  <2>2. DOMAIN Phase = Pos /\ DOMAIN HeldShares = Pos
    BY DEF Phase, HeldShares
  <2>3. CASE UNCHANGED <<Phase, HeldShares>>
    BY <2>1, <2>3
  <2>4. CASE \E p \in Pos : Promise!Begin(p) \/ Promise!GiveUp(p) \/ Promise!Finish(p)
    BY <2>1, <2>2, <2>4 DEF Promise!Begin, Promise!GiveUp, Promise!Finish
  <2>5. CASE \E p \in Pos : Promise!Sell(p)
    <3>1. PICK p \in Pos : Promise!Sell(p)
      BY <2>5
    <3>2. PICK n \in 1..HeldShares[p] : HeldShares' = [HeldShares EXCEPT ![p] = @ - n]
      BY <3>1 DEF Promise!Sell
    <3>3. HeldShares'[q] = IF q = p THEN HeldShares[q] - n ELSE HeldShares[q]
      BY <2>2, <3>2
    <3> QED
      BY <2>1, <3>1, <3>2, <3>3, ExitConstants DEF Promise!Sell
  <2>6. CASE \E P \in SUBSET Pos : Promise!Restart(P)
    BY <2>1, <2>6 DEF Promise!Restart
  <2> QED
    BY <2>3, <2>4, <2>5, <2>6 DEF Promise!Next
<1> QED
  BY <1>1, <1>2, PromiseIsKept, PTL DEF KeepsPromise, Promise!Spec
=============================================================================
