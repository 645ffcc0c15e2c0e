-------------------------- MODULE Tachibana_proofs --------------------------
(***************************************************************************)
(* TLAPS proofs about the Tachibana adapter: TachibanaSession, for any set *)
(* of calls, of any operations, and any number of sessions, and            *)
(* TachibanaOrders, for any quantity ordered and however long the exchange *)
(* trades.                                                                 *)
(***************************************************************************)
EXTENDS TachibanaSession, TachibanaOrders, SequenceTheorems, TLAPS

-----------------------------------------------------------------------------
(* The session.                                                            *)

States == [serial : Int, usable : BOOLEAN, url : BOOLEAN]
Stages == {"new", "waiting", "login", "sent", "done"}
Results == {"none", "ok", "BrokerAPIError", "BrokerAuthError", "RemoteProtocolError"}
CallRows == [at : Stages, serial : Int, result : Results, left : Int]

SessionTypeOK ==
  /\ session \in States
  /\ call \in [Calls -> CallRows]
  /\ opened \in Int
  /\ credit \in Int
  /\ taken \subseteq Calls

(* An order is one request: once the broker has it, its call is over, and   *)
(* how it ended is one of the two ways the property allows.                 *)
OrdersOK ==
  /\ \A c \in Calls : call[c].at # "done" => call[c].left = 1 \/ Operations[c] # "order"
  /\ \A c \in taken :
       /\ Operations[c] = "order" /\ call[c].at = "done"
       /\ call[c].result \in {"ok", "BrokerAPIError", "RemoteProtocolError"}

SessionInv == SessionTypeOK /\ OrdersOK /\ LoginsHaveReasons

-----------------------------------------------------------------------------
(* A step changes the row of one call.                                      *)
LEMMA NewCallOK == \A c \in Calls :
  /\ NewCall(c) \in CallRows /\ NewCall(c).at = "new"
  /\ Operations[c] = "order" => NewCall(c).left = 1
BY OperationsAssumption DEF NewCall, RequestsOf, CallRows, Stages, Results

LEMMA AtRow ==
  ASSUME SessionInv, NEW c \in Calls, NEW where \in Stages, At(c, where)
  PROVE  /\ call' \in [Calls -> CallRows]
         /\ call'[c].at = where /\ call'[c].left = call[c].left
         /\ \A d \in Calls : d # c => call'[d] = call[d]
BY DEF SessionInv, SessionTypeOK, At, CallRows

LEMMA RaisesRow ==
  ASSUME SessionInv, NEW c \in Calls, NEW kind \in Results, Raises(c, kind)
  PROVE  /\ call' \in [Calls -> CallRows]
         /\ call'[c].at = "done" /\ call'[c].result = kind
         /\ \A d \in Calls : d # c => call'[d] = call[d]
BY DEF SessionInv, SessionTypeOK, Raises, CallRows, Stages

LEMMA GuardedRow ==
  ASSUME SessionInv, NEW c \in Calls, NEW state \in States, Guarded(c, state)
  PROVE  /\ call' \in [Calls -> CallRows]
         /\ call'[c].at \in {"sent", "done"}
         /\ call'[c].at # "done" => call'[c].left = call[c].left
         /\ \A d \in Calls : d # c => call'[d] = call[d]
<1>1. CASE state.usable /\ state.url
  BY <1>1 DEF SessionInv, SessionTypeOK, Guarded, CallRows, States, Stages
<1>2. CASE ~(state.usable /\ state.url)
  BY <1>2, RaisesRow DEF Guarded, Results
<1> QED
  BY <1>1, <1>2

(* A call that is not done and goes on as one or ends keeps OrdersOK, as    *)
(* long as no order is taken with it.                                       *)
LEMMA OrdersKept ==
  ASSUME SessionInv, NEW c \in Calls, call[c].at # "done",
         \A d \in Calls : d # c => call'[d] = call[d],
         call'[c].at # "done" => call'[c].left = call[c].left,
         taken' = taken
  PROVE  OrdersOK'
<1>1. c \notin taken
  BY DEF SessionInv, OrdersOK
<1> QED
  BY <1>1 DEF SessionInv, SessionTypeOK, OrdersOK

LEMMA SessionInitOK == ASSUME SessionInit PROVE SessionInv
<1>1. SessionTypeOK
  BY NewCallOK DEF SessionInit, SessionTypeOK, NoSession, States
<1>2. OrdersOK
  BY NewCallOK DEF SessionInit, OrdersOK
<1>3. LoginsHaveReasons
  BY DEF SessionInit, LoginsHaveReasons, NoSession
<1> QED
  BY <1>1, <1>2, <1>3 DEF SessionInv

-----------------------------------------------------------------------------
LEMMA EnsureSessionOK == ASSUME SessionInv, NEW c \in Calls, EnsureSession(c) PROVE SessionInv'
<1>1. /\ call' \in [Calls -> CallRows] /\ call[c].at # "done"
      /\ call'[c].at # "done" => call'[c].left = call[c].left
      /\ \A d \in Calls : d # c => call'[d] = call[d]
  <2>1. CASE Guarded(c, session)
    BY <2>1, GuardedRow DEF EnsureSession, SessionInv, SessionTypeOK
  <2>2. CASE At(c, "waiting")
    BY <2>2, AtRow DEF EnsureSession, Stages
  <2> QED
    BY <2>1, <2>2 DEF EnsureSession
<1> QED
  BY <1>1, OrdersKept DEF SessionInv, SessionTypeOK, LoginsHaveReasons, EnsureSession

LEMMA EnterLockOK == ASSUME SessionInv, NEW c \in Calls, EnterLock(c) PROVE SessionInv'
<1>1. CASE session.usable /\ Guarded(c, session) /\ UNCHANGED <<lock, credit>>
  <2>1. /\ call' \in [Calls -> CallRows] /\ call[c].at # "done"
        /\ call'[c].at # "done" => call'[c].left = call[c].left
        /\ \A d \in Calls : d # c => call'[d] = call[d]
    BY <1>1, GuardedRow DEF EnterLock, SessionInv, SessionTypeOK
  <2> QED
    BY <1>1, <2>1, OrdersKept DEF SessionInv, SessionTypeOK, LoginsHaveReasons, EnterLock
<1>2. CASE ~session.usable /\ lock' = c /\ At(c, "login") /\ credit' = credit - 1
  <2>1. /\ call' \in [Calls -> CallRows] /\ call[c].at # "done"
        /\ call'[c].at # "done" => call'[c].left = call[c].left
        /\ \A d \in Calls : d # c => call'[d] = call[d]
    BY <1>2, AtRow DEF EnterLock, Stages
  <2>2. credit >= 1 /\ c # Unlocked
    BY <1>2, OperationsAssumption DEF SessionInv, LoginsHaveReasons, EnterLock, Unlocked
  <2> QED
    BY <1>2, <2>1, <2>2, OrdersKept DEF SessionInv, SessionTypeOK, LoginsHaveReasons, EnterLock
<1> QED
  BY <1>1, <1>2 DEF EnterLock

LEMMA LoginAnsweredOK == ASSUME SessionInv, NEW c \in Calls, LoginAnswered(c) PROVE SessionInv'
<1>1. PICK usable, url \in BOOLEAN :
        /\ session' = [serial |-> opened + 1, usable |-> usable, url |-> url]
        /\ credit' = IF usable THEN credit ELSE credit + 1
        /\ Guarded(c, session')
  BY DEF LoginAnswered
<1>2. session' \in States /\ session'.usable = usable
  BY <1>1 DEF States, SessionInv, SessionTypeOK
<1>3. /\ call' \in [Calls -> CallRows] /\ call[c].at # "done"
      /\ call'[c].at # "done" => call'[c].left = call[c].left
      /\ \A d \in Calls : d # c => call'[d] = call[d]
  BY <1>1, <1>2, GuardedRow DEF LoginAnswered
<1>4. OrdersOK'
  BY <1>3, OrdersKept DEF LoginAnswered
<1>5. credit \in Int /\ credit >= 0
  BY DEF SessionInv, SessionTypeOK, LoginsHaveReasons
<1>6. LoginsHaveReasons' /\ credit' \in Int
  BY <1>1, <1>2, <1>5 DEF LoginsHaveReasons, LoginAnswered
<1> QED
  BY <1>2, <1>3, <1>4, <1>6 DEF SessionInv, SessionTypeOK, LoginAnswered

LEMMA LoginFailsOK == ASSUME SessionInv, NEW c \in Calls, LoginFails(c) PROVE SessionInv'
<1>1. /\ call' \in [Calls -> CallRows] /\ call[c].at # "done" /\ call'[c].at = "done"
      /\ \A d \in Calls : d # c => call'[d] = call[d]
  BY RaisesRow DEF LoginFails, Results
<1>2. session' \in States
  <2>1. NoSession \in States
    BY DEF NoSession, States
  <2> QED
    BY <2>1 DEF LoginFails, SessionInv, SessionTypeOK
<1>3. credit' \in Int /\ credit' >= 1
  BY DEF LoginFails, SessionInv, SessionTypeOK, LoginsHaveReasons
<1> QED
  BY <1>1, <1>2, <1>3, OrdersKept DEF SessionInv, SessionTypeOK, LoginsHaveReasons, LoginFails

(* The orders after the one request of an order call.                       *)
LEMMA OrderEnds ==
  ASSUME SessionInv, NEW c \in Calls, call[c].at = "sent",
         \A d \in Calls : d # c => call'[d] = call[d],
         call'[c].at = "done" \/ (Operations[c] # "order" /\ taken' = taken),
         taken' = taken \/ Takes(c),
         call'[c].result \in {"ok", "BrokerAPIError", "RemoteProtocolError"}
           \/ call'[c].at # "done"
  PROVE  OrdersOK' /\ taken' \subseteq Calls
<1>1. taken' \subseteq Calls /\ taken' \subseteq taken \cup {c}
      /\ (c \in taken' => Operations[c] = "order")
  BY DEF SessionInv, SessionTypeOK, OrdersOK, Takes
<1> QED
  BY <1>1 DEF SessionInv, SessionTypeOK, OrdersOK

LEMMA AnswersStepOK == ASSUME SessionInv, NEW c \in Calls, Answers(c) PROVE SessionInv'
<1>1. CASE call[c].left = 1 /\ Raises(c, "ok")
  <2>1. /\ call' \in [Calls -> CallRows] /\ call'[c].at = "done" /\ call'[c].result = "ok"
        /\ \A d \in Calls : d # c => call'[d] = call[d]
    BY <1>1, RaisesRow DEF Results
  <2> QED
    BY <2>1, OrderEnds DEF SessionInv, SessionTypeOK, LoginsHaveReasons, Answers
<1>2. CASE call[c].left # 1 /\ call' = [call EXCEPT ![c].left = @ - 1]
  <2>1. /\ call' \in [Calls -> CallRows] /\ call'[c].at = call[c].at
        /\ \A d \in Calls : d # c => call'[d] = call[d]
    BY <1>2 DEF SessionInv, SessionTypeOK, CallRows
  <2>2. Operations[c] # "order"
    BY <1>2 DEF SessionInv, OrdersOK, Answers
  <2> QED
    BY <2>1, <2>2, OrderEnds DEF SessionInv, SessionTypeOK, LoginsHaveReasons, Answers, Takes
<1> QED
  BY <1>1, <1>2 DEF Answers

LEMMA FailsOK == ASSUME SessionInv, NEW c \in Calls, Fails(c) PROVE SessionInv'
<1>1. PICK kind \in {"ok", "BrokerAPIError", "RemoteProtocolError"} : Raises(c, kind)
  BY DEF Fails, RaisedAs
<1>2. /\ call' \in [Calls -> CallRows] /\ call'[c].at = "done" /\ call'[c].result = kind
      /\ \A d \in Calls : d # c => call'[d] = call[d]
  BY <1>1, RaisesRow DEF Results
<1>3. taken' = taken \/ Takes(c)
  BY DEF Fails
<1> QED
  BY <1>2, <1>3, OrderEnds DEF SessionInv, SessionTypeOK, LoginsHaveReasons, Fails

LEMMA AuthErrorOK == ASSUME SessionInv, NEW c \in Calls, AuthError(c) PROVE SessionInv'
<1>1. /\ call' \in [Calls -> CallRows] /\ call[c].at # "done" /\ call'[c].at = "done"
      /\ \A d \in Calls : d # c => call'[d] = call[d]
  BY RaisesRow DEF AuthError, Results
<1>2. session' \in States /\ ~session'.usable
  BY DEF AuthError, NoSession, States
<1>3. credit' \in Int /\ LoginsHaveReasons'
  BY <1>2 DEF AuthError, SessionInv, SessionTypeOK, LoginsHaveReasons
<1> QED
  BY <1>1, <1>2, <1>3, OrdersKept DEF SessionInv, SessionTypeOK, AuthError

LEMMA CallAgainOK == ASSUME SessionInv, NEW c \in Calls, CallAgain(c) PROVE SessionInv'
<1>1. /\ call' \in [Calls -> CallRows] /\ call'[c] = NewCall(c)
      /\ \A d \in Calls : d # c => call'[d] = call[d]
  BY NewCallOK DEF CallAgain, SessionInv, SessionTypeOK
<1>2. OrdersOK' /\ taken' \subseteq Calls
  BY <1>1, NewCallOK DEF CallAgain, SessionInv, SessionTypeOK, OrdersOK
<1> QED
  BY <1>1, <1>2 DEF CallAgain, SessionInv, SessionTypeOK, LoginsHaveReasons

LEMMA SessionStepOK == SessionInv /\ [SessionNext]_sessionVars => SessionInv'
<1> SUFFICES ASSUME SessionInv, [SessionNext]_sessionVars PROVE SessionInv'
  OBVIOUS
<1>1. CASE UNCHANGED sessionVars
  BY <1>1 DEF sessionVars, SessionInv, SessionTypeOK, OrdersOK, LoginsHaveReasons
<1>2. CASE SessionEnds
  BY <1>2 DEF SessionEnds, SessionInv, SessionTypeOK, OrdersOK, LoginsHaveReasons
<1> QED
  BY <1>1, <1>2, EnsureSessionOK, EnterLockOK, LoginAnsweredOK, LoginFailsOK,
     AnswersStepOK, FailsOK, AuthErrorOK, CallAgainOK DEF SessionNext

-----------------------------------------------------------------------------
(* The inductive invariant behind the two theorems below.                   *)
THEOREM SessionInvariance == SessionSpec => []SessionInv
BY SessionInitOK, SessionStepOK, PTL DEF SessionSpec

(* Every login has a reason of its own (ensure_session and its lock).       *)
THEOREM LoginsAreNeeded == SessionSpec => []LoginsHaveReasons
<1>1. SessionInv => LoginsHaveReasons
  BY DEF SessionInv
<1> QED
  BY <1>1, SessionInvariance, PTL

(* An order the broker may have taken is never refused on the record, nor   *)
(* lost from it but for the protocol error (TachibanaClient, OrderRouter).  *)
THEOREM TakenIsKept == SessionSpec => []TakenOrderIsKept
<1>1. SessionInv => TakenOrderIsKept
  BY DEF SessionInv, OrdersOK, TakenOrderIsKept, OrderAfter, RaisedAs
<1> QED
  BY <1>1, SessionInvariance, PTL

-----------------------------------------------------------------------------
(* An order, as the poller sees it.                                        *)

OrderCodes == {"0", "1", "2", "3", "4", "5", "6", "7", "8", "9", "10"}
Statuses == {"PENDING", "SUBMITTED", "PARTIAL", "FILLED", "CANCELLED", "REJECTED", "UNKNOWN"}
FillRows == [at : Nat, qty : Nat \ {0}]
Keys == (Nat \X Nat) \cup {NoKeyOf}

OrderTypeOK ==
  /\ second \in Nat
  /\ orderCode \in OrderCodes
  /\ filled \in 0..Quantity
  /\ fills \in Seq(FillRows)
  /\ reply \in [status : Statuses \cup {"NONE"}, filled : 0..Quantity, key : Keys]
  /\ order \in [status : Statuses, filled : 0..Quantity]
  /\ executions \in Seq([key : Keys, qty : Nat])
  /\ handled \in BOOLEAN

(* The broker's own account of the order.                                   *)
FillsOK ==
  /\ orderCode = "10" <=> filled = Quantity
  /\ filled = 0 <=> fills = <<>>
  /\ orderCode = "9" => filled # 0
  /\ orderCode \in {"0", "2"} => filled = 0

(* A key of an execution that was the last one while the order was partly   *)
(* filled: it is not the one that filled it.                                *)
EarlierKey(key) ==
  \E k \in DOMAIN fills : key = Detail(fills[k]) /\ (orderCode = "10" => k # Len(fills))

(* A reply under way may be late, but not about an end: no end is undone.   *)
ReplyOK ==
  /\ reply # NoReply => reply.status # "NONE" /\ order.status \in {"SUBMITTED", "PARTIAL"}
  /\ reply.status = "NONE" => reply = NoReply
  /\ reply.status = "REJECTED" => orderCode = "2"
  /\ reply.status = "CANCELLED" => orderCode = "7"
  /\ reply.status = "FILLED" =>
       orderCode = "10" /\ reply.filled = Quantity /\ reply.key = Detail(fills[Len(fills)])
  /\ reply.status = "PARTIAL" =>
       0 < reply.filled /\ reply.filled < Quantity /\ EarlierKey(reply.key)

(* The rows of the poller at each status of the order.                      *)
RowsOK ==
  /\ order.status # "PENDING"
  /\ order.status = "SUBMITTED" => executions = <<>> /\ order.filled = 0
  /\ order.status = "PARTIAL" =>
       /\ Len(executions) = 1 /\ executions[1].qty = order.filled
       /\ 0 < order.filled /\ order.filled < Quantity
       /\ EarlierKey(executions[1].key)
  /\ order.status = "FILLED" => orderCode = "10"
  /\ order.status = "REJECTED" => orderCode = "2"
  /\ order.status = "CANCELLED" => orderCode = "7"

OrderInv == OrderTypeOK /\ FillsOK /\ ReplyOK /\ RowsOK /\ FilledIsHandled

-----------------------------------------------------------------------------
LEMMA TwoRows ==
  ASSUME NEW Row, NEW rows \in Seq(Row), NEW row \in Row, Len(rows) = 1
  PROVE  /\ Append(rows, row) \in Seq(Row) /\ Len(Append(rows, row)) = 2
         /\ Append(rows, row)[1] = rows[1] /\ Append(rows, row)[2] = row
BY AppendProperties

LEMMA StatusOfCode ==
  ASSUME NEW c \in OrderCodes
  PROVE  /\ StatusOf(c) \in Statuses
         /\ StatusOf(c) = "REJECTED" <=> c = "2"
         /\ StatusOf(c) = "CANCELLED" <=> c = "7"
         /\ StatusOf(c) = "PARTIAL" <=> c = "9"
         /\ StatusOf(c) = "FILLED" <=> c = "10"
BY DEF StatusOf, OrderCodes, Statuses

LEMMA FollowsCode ==
  ASSUME NEW c \in OrderCodes, NEW d \in Follows(c)
  PROVE  /\ d \in OrderCodes \ {"0", "9", "10"} /\ c \notin {"2", "7", "10"}
         /\ d = "2" => c = "0"
BY DEF Follows, OrderCodes

LEMMA DetailIsKey == \A fill \in FillRows : Detail(fill) \in Keys /\ Detail(fill) # NoKeyOf
<1> SUFFICES ASSUME NEW fill \in FillRows PROVE Detail(fill) \in Keys /\ Detail(fill) # NoKeyOf
  OBVIOUS
<1>1. Detail(fill) = <<fill.at, fill.qty>> /\ fill.at \in Nat /\ fill.qty \in Nat
  BY DEF Detail, FillRows
<1>2. Len(Detail(fill)) = 2 /\ Len(NoKeyOf) = 0
  BY <1>1 DEF NoKeyOf
<1> QED
  BY <1>1, <1>2 DEF Keys

LEMMA FillOf ==
  ASSUME OrderTypeOK
  PROVE  /\ Len(fills) \in Nat /\ DOMAIN fills = 1..Len(fills)
         /\ \A k \in DOMAIN fills : fills[k] \in FillRows
BY DEF OrderTypeOK

LEMMA LastFill ==
  ASSUME OrderTypeOK, FillsOK, filled # 0
  PROVE  /\ Len(fills) \in DOMAIN fills
         /\ ExecutionKey(fills) = Detail(fills[Len(fills)])
         /\ ExecutionKey(fills) \in Keys \ {NoKeyOf}
<1>1. fills # <<>> /\ fills \in Seq(FillRows)
  BY DEF OrderTypeOK, FillsOK
<1>2. Len(fills) \in DOMAIN fills
  BY <1>1
<1>3. ExecutionKey(fills) = Detail(fills[Len(fills)])
  BY <1>1 DEF ExecutionKey, Last
<1> QED
  BY <1>2, <1>3, FillOf, DetailIsKey

(* What the exchange does leaves the rows alone; what holds of keys stays.  *)
LEMMA SameRows ==
  ASSUME OrderInv, UNCHANGED <<reply, order, executions, handled>>,
         second' \in Nat, orderCode' \in OrderCodes, filled' \in 0..Quantity,
         fills' \in Seq(FillRows), FillsOK',
         orderCode \in {"2", "7", "10"} => orderCode' = orderCode /\ fills' = fills,
         \A key : EarlierKey(key) => EarlierKey(key)',
         SameKey => SameKey'
  PROVE  OrderInv'
<1>1. OrderTypeOK'
  BY DEF OrderInv, OrderTypeOK
<1>2. ReplyOK'
  BY DEF OrderInv, ReplyOK
<1>3. RowsOK'
  BY DEF OrderInv, RowsOK
<1>4. FilledIsHandled'
  BY DEF OrderInv, FilledIsHandled, AddUp
<1> QED
  BY <1>1, <1>2, <1>3, <1>4 DEF OrderInv

LEMMA TicksStep == ASSUME OrderInv, Ticks PROVE OrderInv'
<1>1. /\ second' = second + 1
      /\ UNCHANGED <<orderCode, filled, fills, reply, order, executions, handled>>
  BY DEF Ticks
<1>2. /\ second' \in Nat /\ orderCode' \in OrderCodes /\ filled' \in 0..Quantity
      /\ fills' \in Seq(FillRows)
  BY <1>1 DEF OrderInv, OrderTypeOK
<1>3. FillsOK' /\ (\A key : EarlierKey(key) => EarlierKey(key)') /\ (SameKey => SameKey')
  BY <1>1 DEF OrderInv, FillsOK, EarlierKey, SameKey
<1> QED
  BY <1>1, <1>2, <1>3, SameRows

LEMMA RestatesStep == ASSUME OrderInv, Restates PROVE OrderInv'
<1>1. orderCode' \in Follows(orderCode) /\ UNCHANGED <<second, filled, fills, reply, order, executions, handled>>
  BY DEF Restates
<1>2. /\ orderCode' \in OrderCodes \ {"0", "9", "10"} /\ orderCode \notin {"2", "7", "10"}
      /\ orderCode' = "2" => orderCode = "0"
  BY <1>1, FollowsCode DEF OrderInv, OrderTypeOK
<1>3. /\ second' \in Nat /\ filled' \in 0..Quantity /\ fills' \in Seq(FillRows)
  BY <1>1 DEF OrderInv, OrderTypeOK
<1>4. FillsOK' /\ (\A key : EarlierKey(key) => EarlierKey(key)') /\ (SameKey => SameKey')
  BY <1>1, <1>2 DEF OrderInv, FillsOK, EarlierKey, SameKey
<1> QED
  BY <1>1, <1>2, <1>3, <1>4, SameRows

LEMMA FillsStep ==
  ASSUME OrderInv, NEW qty \in 1..Quantity, Fills(qty) PROVE OrderInv'
<1> DEFINE row == [at |-> second, qty |-> qty]
           code == IF filled' = Quantity THEN "10" ELSE "9"
<1>1. /\ orderCode \in Live \ {"0"} /\ filled + qty <= Quantity /\ filled' = filled + qty
      /\ fills' = Append(fills, row) /\ orderCode' = code
      /\ UNCHANGED <<second, reply, order, executions, handled>>
  BY DEF Fills
<1>2. /\ Quantity \in Nat \ {0} /\ filled \in 0..Quantity /\ fills \in Seq(FillRows)
      /\ row \in FillRows /\ second \in Nat
  BY OrderAssumption DEF OrderInv, OrderTypeOK, FillRows
<1> HIDE DEF row
<1>3. /\ fills' \in Seq(FillRows) /\ Len(fills') = Len(fills) + 1 /\ Len(fills) \in Nat
      /\ DOMAIN fills = 1..Len(fills) /\ DOMAIN fills' = 1..(Len(fills) + 1)
      /\ \A k \in DOMAIN fills : fills'[k] = fills[k]
  BY <1>1, <1>2
<1>4. filled' \in 1..Quantity /\ orderCode' \in {"9", "10"} /\ orderCode \notin {"2", "7", "10"}
  BY <1>1, <1>2 DEF Live
<1>5. FillsOK'
  <2>1. fills' # <<>>
    BY <1>3
  <2> QED
    BY <1>1, <1>4, <2>1 DEF FillsOK
<1>6. ASSUME NEW key, EarlierKey(key) PROVE EarlierKey(key)'
  <2>1. PICK k \in DOMAIN fills : key = Detail(fills[k])
    BY <1>6 DEF EarlierKey
  <2>2. k \in DOMAIN fills' /\ k # Len(fills') /\ fills'[k] = fills[k]
    BY <1>3
  <2> QED
    BY <2>1, <2>2 DEF EarlierKey, Detail
<1>7. SameKey => SameKey'
  <2> SUFFICES ASSUME SameKey PROVE SameKey'
    OBVIOUS
  <2>1. PICK i \in DOMAIN fills, j \in DOMAIN fills : i # j /\ Detail(fills[i]) = Detail(fills[j])
    BY DEF SameKey
  <2>2. /\ i \in DOMAIN fills' /\ j \in DOMAIN fills'
        /\ fills'[i] = fills[i] /\ fills'[j] = fills[j]
    BY <1>3
  <2> QED
    BY <2>1, <2>2 DEF SameKey, Detail
<1>8. second' \in Nat /\ orderCode' \in OrderCodes /\ filled' \in 0..Quantity
  BY <1>1, <1>2, <1>4 DEF OrderCodes
<1> QED
  BY <1>1, <1>3, <1>4, <1>5, <1>6, <1>7, <1>8, SameRows

-----------------------------------------------------------------------------
(* The poller.                                                              *)
LEMMA AnsweredStep == ASSUME OrderInv, Answered PROVE OrderInv'
<1>1. /\ order.status \in {"SUBMITTED", "PARTIAL"}
      /\ reply' = [status |-> StatusOf(orderCode), filled |-> filled, key |-> ExecutionKey(fills)]
      /\ UNCHANGED <<second, orderCode, filled, fills, order, executions, handled>>
  BY DEF Answered
<1>2. /\ orderCode \in OrderCodes /\ filled \in 0..Quantity /\ StatusOf(orderCode) \in Statuses
      /\ Quantity \in Nat \ {0}
  BY OrderAssumption, StatusOfCode DEF OrderInv, OrderTypeOK
<1>3. ExecutionKey(fills) \in Keys
  <2>1. CASE filled = 0
    BY <2>1 DEF OrderInv, FillsOK, ExecutionKey, Keys
  <2>2. CASE filled # 0
    BY <2>2, LastFill DEF OrderInv
  <2> QED
    BY <2>1, <2>2
<1>4. OrderTypeOK'
  BY <1>1, <1>2, <1>3 DEF OrderInv, OrderTypeOK
<1>5. ReplyOK'
  <2>1. /\ reply'.status = StatusOf(orderCode) /\ reply'.filled = filled
        /\ reply'.key = ExecutionKey(fills) /\ reply'.status # "NONE"
    BY <1>1, <1>2 DEF Statuses
  <2>2. reply'.status = "FILLED" => filled = Quantity /\ filled # 0 /\ orderCode = "10"
    BY <1>2, <2>1, StatusOfCode DEF OrderInv, FillsOK
  <2>3. reply'.status = "PARTIAL" =>
          orderCode = "9" /\ filled # 0 /\ filled < Quantity
    <3>1. reply'.status = "PARTIAL" => orderCode = "9"
      BY <1>2, <2>1, StatusOfCode
    <3>2. orderCode = "9" => filled # 0 /\ filled # Quantity
      BY DEF OrderInv, FillsOK
    <3> QED
      BY <1>2, <3>1, <3>2
  <2>4. filled # 0 /\ orderCode # "10" => EarlierKey(reply.key)'
    <3> SUFFICES ASSUME filled # 0, orderCode # "10" PROVE EarlierKey(reply.key)'
      OBVIOUS
    <3>1. Len(fills) \in DOMAIN fills /\ reply'.key = Detail(fills[Len(fills)])
      BY <2>1, LastFill DEF OrderInv
    <3> QED
      BY <1>1, <3>1 DEF EarlierKey
  <2>5. filled # 0 => reply'.key = Detail(fills[Len(fills)])
    BY <2>1, LastFill DEF OrderInv
  <2>6. /\ reply'.status = "REJECTED" => orderCode' = "2"
        /\ reply'.status = "CANCELLED" => orderCode' = "7"
    BY <1>1, <1>2, <2>1, StatusOfCode
  <2>7. reply'.status = "FILLED" =>
          orderCode' = "10" /\ reply'.filled = Quantity /\ reply'.key = Detail(fills'[Len(fills')])
    BY <1>1, <2>1, <2>2, <2>5
  <2>8. reply'.status = "PARTIAL" =>
          0 < reply'.filled /\ reply'.filled < Quantity /\ EarlierKey(reply.key)'
    BY <1>2, <2>1, <2>3, <2>4
  <2> QED
    BY <1>1, <2>1, <2>6, <2>7, <2>8 DEF ReplyOK
<1>6. FillsOK' /\ RowsOK' /\ FilledIsHandled'
  BY <1>1 DEF OrderInv, FillsOK, RowsOK, EarlierKey, FilledIsHandled, AddUp, SameKey
<1> QED
  BY <1>4, <1>5, <1>6 DEF OrderInv

(* A reply that is taken leaves no reply, and the exchange as it is.        *)
LEMMA TakenReply ==
  ASSUME OrderInv, Taken
  PROVE  /\ UNCHANGED <<second, orderCode, filled, fills>> /\ FillsOK' /\ ReplyOK'
         /\ reply' \in [status : Statuses \cup {"NONE"}, filled : 0..Quantity, key : Keys]
         /\ \A key : EarlierKey(key)' <=> EarlierKey(key)
         /\ SameKey' <=> SameKey
<1>1. reply' = NoReply /\ UNCHANGED <<second, orderCode, filled, fills>>
  BY DEF Taken
<1>2. FillsOK' /\ ReplyOK'
  BY <1>1 DEF OrderInv, FillsOK, ReplyOK, NoReply
<1>3. reply' \in [status : Statuses \cup {"NONE"}, filled : 0..Quantity, key : Keys]
  BY <1>1, OrderAssumption DEF NoReply, Keys, NoKeyOf
<1>4. (\A key : EarlierKey(key)' <=> EarlierKey(key)) /\ (SameKey' <=> SameKey)
  BY <1>1 DEF EarlierKey, SameKey
<1> QED
  BY <1>1, <1>2, <1>3, <1>4

LEMMA TakesNothingStep == ASSUME OrderInv, TakesNothing PROVE OrderInv'
<1>1. Taken /\ UNCHANGED <<order, executions, handled>>
  BY DEF TakesNothing
<1>2. OrderTypeOK' /\ RowsOK' /\ FilledIsHandled'
  BY <1>1, TakenReply DEF OrderInv, OrderTypeOK, RowsOK, FilledIsHandled, AddUp
<1> QED
  BY <1>1, <1>2, TakenReply DEF OrderInv

LEMMA TakesEndStep == ASSUME OrderInv, TakesEnd PROVE OrderInv'
<1>1. /\ Taken /\ UNCHANGED <<executions, handled>>
      /\ reply.status \in {"CANCELLED", "REJECTED", "UNKNOWN"}
      /\ order' = [order EXCEPT !.status = reply.status]
  BY DEF TakesEnd
<1>2. order \in [status : Statuses, filled : 0..Quantity]
  BY DEF OrderInv, OrderTypeOK
<1>3. order' \in [status : Statuses, filled : 0..Quantity] /\ order'.status = reply.status
  BY <1>1, <1>2 DEF Statuses
<1>4. OrderTypeOK'
  BY <1>1, <1>3, TakenReply DEF OrderInv, OrderTypeOK
<1>5. RowsOK'
  BY <1>1, <1>3, TakenReply DEF OrderInv, ReplyOK, RowsOK
<1>6. FilledIsHandled'
  BY <1>1, <1>3 DEF FilledIsHandled
<1> QED
  BY <1>1, <1>4, <1>5, <1>6, TakenReply DEF OrderInv

(* An execution recorded for the first reply of an order.                   *)
LEMMA FirstExecution ==
  ASSUME OrderInv, order.status = "SUBMITTED", TotalFilled > 0, TotalFilled \in Nat,
         reply.key \in Keys, RecordsDelta
  PROVE  /\ executions' \in Seq([key : Keys, qty : Nat]) /\ Len(executions') = 1
         /\ executions'[1].key = reply.key /\ executions'[1].qty = TotalFilled
         /\ ~Recorded(reply.key)
<1>1. executions = <<>> /\ order.filled = 0
  BY DEF OrderInv, RowsOK
<1>2. ~Recorded(reply.key)
  BY <1>1 DEF Recorded
<1>3. executions' = Append(executions, [key |-> reply.key, qty |-> TotalFilled])
  BY <1>1, <1>2 DEF RecordsDelta
<1> DEFINE row == [key |-> reply.key, qty |-> TotalFilled]
<1>4. row \in [key : Keys, qty : Nat] /\ executions' = <<row>>
  BY <1>1, <1>3
<1>5. row.key = reply.key /\ row.qty = TotalFilled
  OBVIOUS
<1> HIDE DEF row
<1> QED
  BY <1>2, <1>4, <1>5

LEMMA TakesPartialStep == ASSUME OrderInv, TakesPartial PROVE OrderInv'
<1>1. /\ reply.status = "PARTIAL" /\ order.status = "SUBMITTED" /\ Moves("PARTIAL") /\ RecordsDelta
      /\ UNCHANGED handled /\ Taken
  BY DEF TakesPartial
<1>2. /\ reply \in [status : Statuses \cup {"NONE"}, filled : 0..Quantity, key : Keys]
      /\ Quantity \in Nat \ {0}
      /\ 0 < reply.filled /\ reply.filled < Quantity /\ EarlierKey(reply.key)
  BY <1>1, OrderAssumption DEF OrderInv, OrderTypeOK, ReplyOK
<1>3. TotalFilled = reply.filled /\ TotalFilled \in Nat /\ TotalFilled > 0
  BY <1>2 DEF TotalFilled
<1>4. order' = [status |-> "PARTIAL", filled |-> reply.filled]
  BY <1>1, <1>3 DEF Moves
<1>5. /\ executions' \in Seq([key : Keys, qty : Nat]) /\ Len(executions') = 1
      /\ executions'[1].key = reply.key /\ executions'[1].qty = reply.filled
  BY <1>1, <1>2, <1>3, FirstExecution
<1>6. OrderTypeOK'
  BY <1>1, <1>2, <1>4, <1>5, TakenReply DEF OrderInv, OrderTypeOK, Statuses
<1>7. RowsOK'
  BY <1>1, <1>2, <1>4, <1>5, TakenReply DEF RowsOK
<1>8. FilledIsHandled'
  BY <1>4 DEF FilledIsHandled
<1> QED
  BY <1>1, <1>6, <1>7, <1>8, TakenReply DEF OrderInv

(* The reply that ends the order brings the key of its last fill; the one   *)
(* recorded before is of an earlier fill, and differs unless two agree.     *)
LEMMA TakesFilledStep == ASSUME OrderInv, TakesFilled PROVE OrderInv'
<1>1. /\ reply.status = "FILLED" /\ Moves("FILLED") /\ RecordsDelta
      /\ handled' = (handled \/ ~Recorded(reply.key)) /\ Taken
  BY DEF TakesFilled
<1>2. /\ reply \in [status : Statuses \cup {"NONE"}, filled : 0..Quantity, key : Keys]
      /\ handled \in BOOLEAN /\ Quantity \in Nat \ {0}
      /\ orderCode = "10" /\ reply.filled = Quantity
      /\ reply.key = Detail(fills[Len(fills)])
      /\ order.status \in {"SUBMITTED", "PARTIAL"}
  BY <1>1, OrderAssumption DEF OrderInv, OrderTypeOK, ReplyOK, NoReply
<1>3. TotalFilled = Quantity
  BY <1>2 DEF TotalFilled
<1>4. order' = [status |-> "FILLED", filled |-> Quantity]
  BY <1>1, <1>3 DEF Moves
<1>5. executions' \in Seq([key : Keys, qty : Nat]) /\ (SameKey \/ (handled' /\ AddUp(executions')))
  <2>1. CASE order.status = "SUBMITTED"
    <3>1. /\ executions' \in Seq([key : Keys, qty : Nat]) /\ Len(executions') = 1
          /\ executions'[1].qty = Quantity /\ ~Recorded(reply.key)
      BY <1>1, <1>2, <1>3, <2>1, FirstExecution
    <3> QED
      BY <1>1, <3>1 DEF AddUp
  <2>2. CASE order.status = "PARTIAL"
    <3>1. /\ executions \in Seq([key : Keys, qty : Nat])
          /\ Len(executions) = 1 /\ executions[1].qty = order.filled
          /\ order.filled \in Nat /\ 0 < order.filled /\ order.filled < Quantity
          /\ EarlierKey(executions[1].key)
      BY <2>2 DEF OrderInv, OrderTypeOK, RowsOK
    <3>2. CASE Recorded(reply.key)
      <4>1. executions[1].key = reply.key
        BY <3>1, <3>2 DEF Recorded
      <4>2. PICK k \in DOMAIN fills : reply.key = Detail(fills[k]) /\ k # Len(fills)
        BY <1>2, <3>1, <4>1 DEF EarlierKey
      <4>3. Len(fills) \in DOMAIN fills
        BY <1>2, LastFill DEF OrderInv, FillsOK
      <4>4. SameKey
        BY <1>2, <4>2, <4>3 DEF SameKey
      <4>5. executions' = executions
        BY <1>1, <3>2 DEF RecordsDelta
      <4> QED
        BY <3>1, <4>4, <4>5
    <3>3. CASE ~Recorded(reply.key)
      <4> DEFINE row == [key |-> reply.key, qty |-> Quantity - order.filled]
      <4>1. executions' = Append(executions, row)
        BY <1>1, <1>2, <1>3, <3>1, <3>3 DEF RecordsDelta
      <4>2. row \in [key : Keys, qty : Nat] /\ row.qty = Quantity - order.filled
        BY <1>2, <3>1
      <4> HIDE DEF row
      <4>3. /\ executions' \in Seq([key : Keys, qty : Nat]) /\ Len(executions') = 2
            /\ executions'[1] = executions[1] /\ executions'[2] = row
        <5> DEFINE Row == [key : Keys, qty : Nat]
        <5> HIDE DEF Row
        <5>1. executions \in Seq(Row) /\ row \in Row /\ Len(executions) = 1
          BY <3>1, <4>2 DEF Row
        <5>2. /\ Append(executions, row) \in Seq(Row) /\ Len(Append(executions, row)) = 2
              /\ Append(executions, row)[1] = executions[1] /\ Append(executions, row)[2] = row
          BY <5>1, TwoRows
        <5> QED
          BY <4>1, <5>2 DEF Row
      <4>4. AddUp(executions')
        BY <1>2, <3>1, <4>2, <4>3 DEF AddUp
      <4> QED
        BY <1>1, <3>3, <4>3, <4>4
    <3> QED
      BY <3>2, <3>3
  <2> QED
    BY <1>2, <2>1, <2>2
<1>6. OrderTypeOK'
  BY <1>1, <1>2, <1>4, <1>5, TakenReply DEF OrderInv, OrderTypeOK, Statuses
<1>7. RowsOK'
  BY <1>1, <1>2, <1>4, TakenReply DEF RowsOK
<1>8. FilledIsHandled'
  BY <1>1, <1>5, TakenReply DEF FilledIsHandled, AddUp
<1> QED
  BY <1>1, <1>6, <1>7, <1>8, TakenReply DEF OrderInv

-----------------------------------------------------------------------------
LEMMA OrderInitOK == ASSUME OrderInit PROVE OrderInv
<1>1. OrderTypeOK
  <2>1. fills \in Seq(FillRows) /\ executions \in Seq([key : Keys, qty : Nat])
    BY DEF OrderInit
  <2>2. reply \in [status : Statuses \cup {"NONE"}, filled : 0..Quantity, key : Keys]
    BY OrderAssumption DEF OrderInit, NoReply, Keys, NoKeyOf
  <2>3. /\ second \in Nat /\ orderCode \in OrderCodes /\ filled \in 0..Quantity
    BY OrderAssumption DEF OrderInit, OrderCodes
  <2>5. handled \in BOOLEAN
    BY Zenon DEF OrderInit
  <2>4. order \in [status : Statuses, filled : 0..Quantity]
    BY OrderAssumption DEF OrderInit, Statuses
  <2> QED
    BY <2>1, <2>2, <2>3, <2>4, <2>5 DEF OrderTypeOK
<1>2. FillsOK
  BY OrderAssumption DEF OrderInit, FillsOK
<1>3. ReplyOK /\ RowsOK /\ FilledIsHandled
  BY DEF OrderInit, ReplyOK, RowsOK, FilledIsHandled, NoReply
<1> QED
  BY <1>1, <1>2, <1>3 DEF OrderInv

THEOREM OrdersInvariant == OrderSpec => []OrderInv
<1>1. OrderInit => OrderInv
  BY OrderInitOK
<1>2. OrderInv /\ [OrderNext]_orderVars => OrderInv'
  <2>1. ASSUME OrderInv, UNCHANGED orderVars PROVE OrderInv'
    <3>1. UNCHANGED <<second, orderCode, filled, fills, reply, order, executions, handled>>
      BY <2>1 DEF orderVars
    <3>2. OrderTypeOK' /\ FillsOK' /\ ReplyOK' /\ RowsOK' /\ FilledIsHandled'
      BY <2>1, <3>1 DEF OrderInv, OrderTypeOK, FillsOK, ReplyOK, RowsOK, EarlierKey,
                        FilledIsHandled, AddUp, SameKey
    <3> QED
      BY <3>2 DEF OrderInv
  <2> QED
    BY <2>1, TicksStep, RestatesStep, FillsStep, AnsweredStep, TakesFilledStep,
       TakesPartialStep, TakesEndStep, TakesNothingStep DEF OrderNext
<1> QED
  BY <1>1, <1>2, PTL DEF OrderSpec

(* A filled order gets its position and its executions, unless two of its   *)
(* fills share second and quantity: for any quantity, however it is filled  *)
(* and whenever the poller asks (order_poller.py, mapper.py).               *)
THEOREM OrderSpecHandlesFilled == OrderSpec => []FilledIsHandled
<1>1. OrderInv => FilledIsHandled
  BY DEF OrderInv
<1> QED
  BY <1>1, OrdersInvariant, PTL

(* The poller never ends an order that may still fill: a late reply about   *)
(* an end stays true (mapper.py _ORDER_STATUS_MAP).                         *)
THEOREM OrderSpecFollowsLive == OrderSpec => []LiveOrderIsFollowed
<1>1. OrderInv => LiveOrderIsFollowed
  BY DEF OrderInv, RowsOK, LiveOrderIsFollowed, Live
<1> QED
  BY <1>1, OrdersInvariant, PTL
=============================================================================
