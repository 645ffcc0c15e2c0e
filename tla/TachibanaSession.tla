--------------------------- MODULE TachibanaSession ---------------------------
(***************************************************************************)
(* TachibanaBrokerAdapter over TachibanaSessionManager and TachibanaClient: *)
(* concurrent calls share one session, log in when it is not usable, and    *)
(* drop it when a reply says the broker no longer knows it.                 *)
(*                                                                         *)
(* A call keeps the virtual URL it read across its awaits; the session may  *)
(* be dropped and renewed by other calls meanwhile.  The broker (external)  *)
(* ends sessions at any time and may take an order whose reply is lost.     *)
(* The counter p_no and the layout of the messages are left out.            *)
(***************************************************************************)
EXTENDS Integers

CONSTANTS Calls,       \* calls of the adapter, one operation each
          Operations,  \* the operation of each: "order", "price", "positions"
                       \* or "balance"
          MaxSessions  \* bound: sessions the broker opens

ASSUME OperationsAssumption ==
    /\ Operations \in [Calls -> {"order", "price", "positions", "balance"}]
    /\ "none" \notin Calls

VARIABLES session,    \* _SessionState: serial of the session, its flags
          lock,       \* the call inside _lock
          call,       \* where each call is, its url, requests left, its result
          alive,      \* sessions the broker still knows
          opened,     \* sessions opened so far
          credit,     \* reasons to log in not yet used by a login
          taken       \* order calls whose order the broker has

sessionVars == <<session, lock, call, alive, opened, credit, taken>>

NoSession == [serial |-> 0, usable |-> FALSE, url |-> FALSE]
Unlocked == "none"

\* Positions and the balance are asked for in two requests, one for shares and
\* one for margin.
RequestsOf(c) == IF Operations[c] \in {"order", "price"} THEN 1 ELSE 2
NewCall(c) == [at |-> "new", serial |-> 0, result |-> "none", left |-> RequestsOf(c)]

SessionInit ==
    /\ session = NoSession /\ lock = Unlocked
    /\ call = [c \in Calls |-> NewCall(c)]
    /\ alive = {} /\ opened = 0 /\ credit = 1 /\ taken = {}

At(c, where) == call' = [call EXCEPT ![c].at = where]
Raises(c, kind) == call' = [call EXCEPT ![c].at = "done", ![c].result = kind]

\* _ensure_and_guard after ensure_session: nothing is awaited between the
\* check and the reading of the URL.
Guarded(c, state) ==
    IF state.usable /\ state.url
      THEN call' = [call EXCEPT ![c].at = "sent", ![c].serial = state.serial]
      ELSE Raises(c, "BrokerAPIError")

-----------------------------------------------------------------------------
\* ensure_session: the fast path, or the lock.
EnsureSession(c) ==
    /\ call[c].at = "new"
    /\ IF session.usable THEN Guarded(c, session) ELSE At(c, "waiting")
    /\ UNCHANGED <<session, lock, alive, opened, credit, taken>>

\* Inside the lock without a second look at the session.
LoginUnchecked(c) ==
    /\ call[c].at = "waiting" /\ lock = Unlocked
    /\ lock' = c /\ At(c, "login") /\ credit' = credit - 1
    /\ UNCHANGED <<session, alive, opened, taken>>

\* Inside the lock: someone else may have logged in while this call waited.
EnterLock(c) ==
    /\ call[c].at = "waiting" /\ lock = Unlocked
    /\ IF session.usable
         THEN Guarded(c, session) /\ UNCHANGED <<lock, credit>>
         ELSE lock' = c /\ At(c, "login") /\ credit' = credit - 1
    /\ UNCHANGED <<session, alive, opened, taken>>

\* CLMAuthLoginRequest is answered; flags: usable (no unread notice), url.
LoginAnswered(c) ==
    /\ call[c].at = "login" /\ opened < MaxSessions
    /\ \E usable, url \in BOOLEAN :
         /\ session' = [serial |-> opened + 1, usable |-> usable, url |-> url]
         /\ credit' = IF usable THEN credit ELSE credit + 1
         /\ Guarded(c, session')
    /\ opened' = opened + 1 /\ alive' = alive \cup {opened + 1}
    /\ lock' = Unlocked
    /\ UNCHANGED taken

\* Only an authentication error clears the session; any other is passed on.
LoginFails(c) ==
    /\ call[c].at = "login"
    /\ \/ Raises(c, "BrokerAuthError") /\ session' = NoSession
       \/ Raises(c, "BrokerAPIError") /\ UNCHANGED session
    /\ lock' = Unlocked /\ credit' = credit + 1
    /\ UNCHANGED <<alive, opened, taken>>

-----------------------------------------------------------------------------
\* A client that takes a lost reply for a refusal.
RaisedAsRefusal(wire) == IF wire = "timeout" THEN "BrokerOrderError" ELSE "BrokerAPIError"

\* TachibanaClient: what happened on the wire, as the exception it becomes.
\* httpx reports a connection closed in the middle of a reply as a protocol
\* error, which is none of those the client translates.
RaisedAs(wire) == IF wire = "protocol" THEN "RemoteProtocolError" ELSE "BrokerAPIError"

\* How OrderRouter leaves the order after the call.  An error outside the
\* BrokerAPIError family leaves no row: the PENDING one is rolled back.
OrderAfter(result) ==
    CASE result \in {"ok", "BrokerAPIError"} -> "SUBMITTED"
      [] result = "BrokerOrderError" -> "REJECTED"
      [] OTHER -> "none"

Takes(c) == taken' = IF Operations[c] = "order" THEN taken \cup {c} ELSE taken

\* The broker knows the session and answers; the call goes on or ends.
Answers(c) ==
    /\ call[c].at = "sent" /\ call[c].serial \in alive
    /\ Takes(c)
    /\ IF call[c].left = 1 THEN Raises(c, "ok")
                           ELSE call' = [call EXCEPT ![c].left = @ - 1]
    /\ UNCHANGED <<session, lock, alive, opened, credit>>

\* Refused, maintenance, HTTP error, no JSON, timeout, network error.  The
\* order may have been taken unless the broker itself refused.  A balance
\* goes without its second half.
Fails(c) ==
    /\ call[c].at = "sent"
    /\ \E wire \in {"refused", "maintenance", "http", "garbled", "timeout", "protocol"} :
         /\ \/ wire \notin {"refused", "maintenance"} /\ call[c].serial \in alive /\ Takes(c)
            \/ UNCHANGED taken
         /\ Raises(c, IF Operations[c] = "balance" /\ call[c].left = 1 THEN "ok" ELSE RaisedAs(wire))
    /\ UNCHANGED <<session, lock, alive, opened, credit>>

\* p_errno 2 or an authentication code: invalidate() whatever session there is.
AuthError(c) ==
    /\ call[c].at = "sent" /\ call[c].serial \notin alive
    /\ session' = NoSession
    /\ credit' = IF session.usable THEN credit + 1 ELSE credit
    /\ Raises(c, "BrokerAuthError")
    /\ UNCHANGED <<lock, alive, opened, taken>>

\* The broker ends a session: its time, a login elsewhere, maintenance.
SessionEnds == \E s \in alive : /\ alive' = alive \ {s}
                                /\ UNCHANGED <<session, lock, call, opened, credit, taken>>

\* The next call of the same caller.
CallAgain(c) ==
    /\ call[c].at = "done"
    /\ call' = [call EXCEPT ![c] = NewCall(c)]
    /\ taken' = taken \ {c}
    /\ UNCHANGED <<session, lock, alive, opened, credit>>

SessionNext ==
    \/ \E c \in Calls : \/ EnsureSession(c) \/ EnterLock(c) \/ LoginAnswered(c) \/ LoginFails(c)
                        \/ Answers(c) \/ Fails(c) \/ AuthError(c) \/ CallAgain(c)
    \/ SessionEnds

SessionSpec == SessionInit /\ [][SessionNext]_sessionVars

-----------------------------------------------------------------------------
(* A login has a reason of its own: the first one, a dropped session, or a  *)
(* login before it that left nothing usable; calls that find the session    *)
(* gone together log in once (ensure_session: "二重ログイン防止").                *)
LoginsHaveReasons == credit >= (IF session.usable \/ lock # Unlocked THEN 0 ELSE 1)

(* An order the broker may have taken is neither recorded as refused nor    *)
(* lost from the table: ambiguous failures become the error OrderRouter     *)
(* keeps the order SUBMITTED for.  The protocol error is the exception:     *)
(* nothing translates it, and the row of the order the broker has is gone.  *)
TakenOrderIsKept ==
    \A c \in taken : call[c].at = "done" =>
        \/ OrderAfter(call[c].result) = "SUBMITTED"
        \/ call[c].result = RaisedAs("protocol")
=============================================================================
