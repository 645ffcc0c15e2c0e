--------------------------- MODULE TachibanaOrders ---------------------------
(***************************************************************************)
(* One order at Tachibana e_api as OrderPoller sees it: the broker amends,  *)
(* cancels and fills it; get_order_status maps the reply (mapper.py) and    *)
(* the poller records executions and the order's end.                       *)
(*                                                                         *)
(* The broker gives executions no id.  The mapper makes a key out of the    *)
(* last execution's second and quantity, and the poller skips a reply whose *)
(* key it has recorded before.  The order book (external) lists executions  *)
(* oldest first, which mapper.py assumes and no document confirms.          *)
(***************************************************************************)
EXTENDS Sequences, SequencesExt, Naturals

CONSTANTS Quantity,   \* shares ordered
          LastSecond  \* bound: seconds of trading

ASSUME OrderAssumption == Quantity \in Nat \ {0} /\ LastSecond \in Nat

VARIABLES second,      \* wall clock of the exchange
          orderCode,   \* sOrderStatusCode
          filled,      \* sYakuzyouSuryou: shares filled so far
          fills,       \* aYakuzyouSikkouList: second and quantity
          reply,       \* the answer of get_order_status under way
          order,       \* row of the order: status, filled quantity
          executions,  \* rows of executions: key, quantity
          handled      \* the position was opened (closed, for an exit order)

orderVars == <<second, orderCode, filled, fills, reply, order, executions, handled>>

Live == {"0", "1", "3", "4", "5", "6", "8", "9"}
NoReply == [status |-> "NONE", filled |-> 0, key |-> <<>>]
NoKeyOf == <<>>

OrderInit ==
    /\ second = 0 /\ orderCode = "0" /\ filled = 0 /\ fills = <<>> /\ reply = NoReply
    /\ order = [status |-> "SUBMITTED", filled |-> 0]
    /\ executions = <<>> /\ handled = FALSE

-----------------------------------------------------------------------------
\* The broker (external).
Ticks == /\ second < LastSecond
         /\ second' = second + 1
         /\ UNCHANGED <<orderCode, filled, fills, reply, order, executions, handled>>

\* Received, rejected; amended, amendment done or failed; cancel asked, done
\* or failed.  A cancellation that fails leaves the order in the market.
Follows(c) == CASE c = "0" -> {"1", "2"}
                [] c \in {"1", "4", "5", "8", "9"} -> {"3", "6"}
                [] c = "3" -> {"4", "5"}
                [] c = "6" -> {"7", "8"}
                [] OTHER -> {}

Restates == /\ \E c \in Follows(orderCode) : orderCode' = c
            /\ UNCHANGED <<second, filled, fills, reply, order, executions, handled>>

Fills(qty) ==
    /\ orderCode \in Live \ {"0"}
    /\ filled + qty <= Quantity
    /\ filled' = filled + qty
    /\ fills' = Append(fills, [at |-> second, qty |-> qty])
    /\ orderCode' = IF filled' = Quantity THEN "10" ELSE "9"
    /\ UNCHANGED <<second, reply, order, executions, handled>>

-----------------------------------------------------------------------------
\* A reading of the codes that takes a requested cancellation for a done one.
CancelMeansCancelled(c) ==
    CASE c = "0" -> "PENDING"
      [] c \in {"1", "3", "4", "5", "8"} -> "SUBMITTED"
      [] c = "2" -> "REJECTED"
      [] c \in {"6", "7"} -> "CANCELLED"
      [] c = "9" -> "PARTIAL"
      [] c = "10" -> "FILLED"
      [] OTHER -> "UNKNOWN"

\* _ORDER_STATUS_MAP: an order being amended or cancelled is still live.
StatusOf(c) ==
    CASE c = "0" -> "PENDING"
      [] c \in {"1", "3", "4", "5", "6", "8"} -> "SUBMITTED"
      [] c = "2" -> "REJECTED"
      [] c = "7" -> "CANCELLED"
      [] c = "9" -> "PARTIAL"
      [] c = "10" -> "FILLED"
      [] OTHER -> "UNKNOWN"

Detail(fill) == <<fill.at, fill.qty>>
FirstKey(details) == IF details = <<>> THEN NoKeyOf ELSE Detail(Head(details))

\* make_execution_key of details_raw[-1].
ExecutionKey(details) == IF details = <<>> THEN NoKeyOf ELSE Detail(Last(details))

\* The broker answers CLMOrderListDetail, map_order_status maps it.
Answered == /\ reply = NoReply
            /\ order.status \in {"SUBMITTED", "PARTIAL"}
            /\ reply' = [status |-> StatusOf(orderCode), filled |-> filled,
                         key |-> ExecutionKey(fills)]
            /\ UNCHANGED <<second, orderCode, filled, fills, order, executions, handled>>

Recorded(key) == key # NoKeyOf /\ \E i \in DOMAIN executions : executions[i].key = key

TotalFilled == IF reply.filled = 0 THEN Quantity ELSE reply.filled

\* An execution for what the order did not count yet, unless the key is known.
RecordsDelta ==
    executions' = IF TotalFilled > order.filled /\ ~Recorded(reply.key)
                    THEN Append(executions, [key |-> reply.key, qty |-> TotalFilled - order.filled])
                    ELSE executions

Moves(status) == order' = [status |-> status, filled |-> TotalFilled]

Taken == reply' = NoReply /\ UNCHANGED <<second, orderCode, filled, fills>>

\* FILLED: an execution recorded before ends the order without its position.
TakesFilled ==
    /\ reply.status = "FILLED"
    /\ Moves("FILLED")
    /\ RecordsDelta
    /\ handled' = (handled \/ ~Recorded(reply.key))
    /\ Taken

\* The first PARTIAL; a second one is "no change" and recorded with FILLED.
TakesPartial ==
    /\ reply.status = "PARTIAL" /\ order.status = "SUBMITTED"
    /\ Moves("PARTIAL")
    /\ RecordsDelta
    /\ UNCHANGED handled
    /\ Taken

TakesEnd ==
    /\ reply.status \in {"CANCELLED", "REJECTED", "UNKNOWN"}
    /\ order' = [order EXCEPT !.status = reply.status]
    /\ UNCHANGED <<executions, handled>>
    /\ Taken

\* Unchanged status, or one the poller has no branch for (PENDING; SUBMITTED
\* of an order already PARTIAL).  A query that fails changes nothing at all.
TakesNothing ==
    /\ reply.status \in {"PENDING", "SUBMITTED", order.status}
    /\ UNCHANGED <<order, executions, handled>>
    /\ Taken

OrderNext == \/ Ticks \/ Restates \/ \E qty \in 1..Quantity : Fills(qty)
             \/ Answered \/ TakesFilled \/ TakesPartial \/ TakesEnd \/ TakesNothing

OrderSpec == OrderInit /\ [][OrderNext]_orderVars

-----------------------------------------------------------------------------
\* Two executions of one second and one quantity.
SameKey == \E i, j \in DOMAIN fills : i # j /\ Detail(fills[i]) = Detail(fills[j])

\* The first PARTIAL reply and the FILLED one leave an execution each.
AddUp(rows) == \/ Len(rows) = 1 /\ rows[1].qty = Quantity
               \/ Len(rows) = 2 /\ rows[1].qty + rows[2].qty = Quantity

(* A filled order gets its position, with executions that add up to it,     *)
(* unless two executions share second and quantity (mapper.py calls that    *)
(* collision safe; it ends the order without opening or closing anything).  *)
FilledIsHandled ==
    order.status = "FILLED" => \/ handled /\ AddUp(executions)
                               \/ SameKey

(* An order that may still fill is never given up: CANCELLED or REJECTED is *)
(* recorded only when the broker is through with the order.                 *)
LiveOrderIsFollowed ==
    order.status \in {"CANCELLED", "REJECTED", "FILLED"} => orderCode \notin Live
=============================================================================
