---------------------------- MODULE SignalIntake ----------------------------
(***************************************************************************)
(* POST /api/signals for one Idempotency-Key: requests that carry the key   *)
(* are stopped by Redis, or insert the signal under the UNIQUE constraint,  *)
(* register the key in Redis, commit, and leave the pipeline to a           *)
(* background task.  A request's signal is named after the request.         *)
(*                                                                         *)
(* A request that is stopped as a duplicate is answered with an error: the  *)
(* route returns a SignalDuplicateResponse, which has no idempotency_key,   *)
(* under response_model SignalAcceptedResponse, which requires one, and a   *)
(* response that does not validate becomes a 500.                           *)
(*                                                                         *)
(* The Redis key is written before the commit, and Redis and the database   *)
(* fail independently; a crash of the process loses the requests in flight  *)
(* and the tasks that have not begun.                                       *)
(***************************************************************************)
EXTENDS FiniteSets, Naturals

CONSTANTS Requests,       \* HTTP requests that carry the key
          IntakeFaults    \* may contain "redis", "commit", "refresh", "crash"

ASSUME IntakeAssumption ==    \* a request's id is neither "no key" nor "unknown"
    "none" \notin Requests /\ "unknown" \notin Requests

VARIABLES request,        \* where each request is, and its answer
          cached,         \* value of idem:<key> in Redis
          holder,         \* request whose row holds the key in trade_signals
          rowCommitted,   \* the row of holder is committed
          tasks,          \* background tasks not begun
          runs,           \* requests whose pipeline ran (the log of process())
          broken          \* requests a fault took the commit or the task from

intakeVars == <<request, cached, holder, rowCommitted, tasks, runs, broken>>

NoKey == "none"
Unanswered == [kind |-> "none", names |-> NoKey]
\* DuplicateSignalError and what the route makes of it; only the log and the
\* audit log tell the signal it names.
Duplicate(id) == [kind |-> "error", names |-> id]
Refusal == [kind |-> "refused", names |-> NoKey]
Failure == [kind |-> "error", names |-> NoKey]

IntakeInit ==
    /\ request = [r \in Requests |-> [at |-> "new", answer |-> Unanswered]]
    /\ cached = NoKey /\ holder = NoKey /\ rowCommitted = FALSE
    /\ tasks = {} /\ runs = [r \in Requests |-> 0] /\ broken = {}

Goes(r, where) == request' = [request EXCEPT ![r].at = where]
Ends(r, answer) == request' = [request EXCEPT ![r] = [at |-> "answered", answer |-> answer]]

\* _verify_auth and _verify_idempotency_key, before any state is read.
Refuse(r) ==
    /\ request[r].at = "new"
    /\ Ends(r, Refusal)
    /\ UNCHANGED <<cached, holder, rowCommitted, tasks, runs, broken>>

\* _check_redis_idempotency: a hit is a duplicate, an unreachable Redis counts
\* as a miss.
CheckRedis(r) ==
    /\ request[r].at = "new"
    /\ \/ cached # NoKey /\ Ends(r, Duplicate(cached))
       \/ cached = NoKey /\ Goes(r, "checked")
       \/ "redis" \in IntakeFaults /\ Goes(r, "checked")
    /\ UNCHANGED <<cached, holder, rowCommitted, tasks, runs, broken>>

\* A flush that looks only at rows already committed.
InsertBlind(r) ==
    /\ request[r].at = "checked"
    /\ ~rowCommitted
    /\ holder' = r /\ rowCommitted' = FALSE
    /\ Goes(r, "inserted")
    /\ UNCHANGED <<cached, tasks, runs, broken>>

\* flush(): the first inserter holds the key; others wait for its transaction.
Insert(r) ==
    /\ request[r].at = "checked"
    /\ holder = NoKey
    /\ holder' = r
    /\ Goes(r, "inserted")
    /\ UNCHANGED <<cached, rowCommitted, tasks, runs, broken>>

\* A duplicate that names its own, rolled back signal.
OwnId(r) == {r}

\* _find_by_idempotency_key after the rollback: the committed row, or
\* "unknown" when the query fails.
ExistingId(r) == {holder, "unknown"}

\* flush() meets the committed row: IntegrityError.
InsertClash(r) ==
    /\ request[r].at = "checked"
    /\ rowCommitted
    /\ \E id \in ExistingId(r) : Ends(r, Duplicate(id))
    /\ UNCHANGED <<cached, holder, rowCommitted, tasks, runs, broken>>

\* _register_redis_idempotency: setex overwrites; its failure is only logged.
Register(r) ==
    /\ request[r].at = "inserted"
    /\ \/ cached' = r
       \/ "redis" \in IntakeFaults /\ cached' = cached
    /\ Goes(r, "registered")
    /\ UNCHANGED <<holder, rowCommitted, tasks, runs, broken>>

Commit(r) ==
    /\ request[r].at = "registered"
    /\ \/ /\ rowCommitted' = TRUE
          /\ Goes(r, "committed")
          /\ UNCHANGED <<holder, broken>>
       \/ /\ "commit" \in IntakeFaults
          /\ holder' = NoKey
          /\ broken' = broken \cup {r}
          /\ Ends(r, Failure)
          /\ UNCHANGED rowCommitted
    /\ UNCHANGED <<cached, tasks, runs>>

\* A reply that forgets the background task.
AcceptOnly(r) ==
    /\ request[r].at = "committed"
    /\ Ends(r, [kind |-> "accepted", names |-> r])
    /\ UNCHANGED <<cached, holder, rowCommitted, tasks, runs, broken>>

\* refresh() and the 202 reply with the background task.
Accept(r) ==
    /\ request[r].at = "committed"
    /\ \/ /\ Ends(r, [kind |-> "accepted", names |-> r])
          /\ tasks' = tasks \cup {r}
          /\ UNCHANGED broken
       \/ /\ "refresh" \in IntakeFaults
          /\ Ends(r, Failure)
          /\ broken' = broken \cup {r}
          /\ UNCHANGED tasks
    /\ UNCHANGED <<cached, holder, rowCommitted, runs>>

\* SignalPipeline.process of the task begins.
RunTask(r) ==
    /\ r \in tasks
    /\ tasks' = tasks \ {r}
    /\ runs' = [runs EXCEPT ![r] = @ + 1]
    /\ UNCHANGED <<request, cached, holder, rowCommitted, broken>>

\* The key outlives its 24 hours, or Redis restarts empty.
ForgetKey ==
    /\ cached # NoKey
    /\ cached' = NoKey
    /\ UNCHANGED <<request, holder, rowCommitted, tasks, runs, broken>>

InFlight == {r \in Requests : request[r].at \notin {"new", "answered"}}

\* The process dies: open transactions are rolled back, tasks are lost.
IntakeCrash ==
    /\ "crash" \in IntakeFaults
    /\ InFlight \cup tasks # {}
    /\ request' = [r \in Requests |-> IF r \in InFlight
                       THEN [at |-> "answered", answer |-> Failure] ELSE request[r]]
    /\ holder' = IF rowCommitted THEN holder ELSE NoKey
    /\ tasks' = {}
    /\ broken' = broken \cup tasks \cup InFlight
    /\ UNCHANGED <<cached, rowCommitted, runs>>

IntakeNext ==
    \/ \E r \in Requests : \/ Refuse(r) \/ CheckRedis(r) \/ Insert(r) \/ InsertClash(r)
                           \/ Register(r) \/ Commit(r) \/ Accept(r) \/ RunTask(r)
    \/ ForgetKey
    \/ IntakeCrash

IntakeSpec == IntakeInit /\ [][IntakeNext]_intakeVars

-----------------------------------------------------------------------------
(* One key stands for one order: whatever Redis does, at most one request   *)
(* of a key is accepted, and the pipeline runs at most once for the key     *)
(* (receive(): "二重受信防止の2層構造").                                       *)
OnePipelinePerKey ==
    /\ Cardinality({r \in Requests : request[r].answer.kind = "accepted"}) <= 1
    /\ \A r, s \in Requests : runs[r] + (IF r = s THEN 0 ELSE runs[s]) <= 1

(* An error that no fault of its own explains has its cause in another      *)
(* request of the key, the one its log entry names: that signal is stored,  *)
(* or its transaction is open, or a fault ended it.  (In the last case the  *)
(* Redis key turns every retry away although no signal was stored.)         *)
ErrorsHaveCause ==
    \A r \in Requests : request[r].answer.kind = "error" /\ r \notin broken =>
        \E s \in Requests \ {r} :
            /\ request[r].answer.names \in {s, "unknown"}
            /\ \/ holder = s /\ rowCommitted
               \/ request[s].at = "registered"
               \/ s \in broken

(* No stored signal is forgotten: a committed signal is about to be         *)
(* accepted, queued, or run, unless a fault took its task; nothing else     *)
(* reads RECEIVED signals, so a lost task is never made up for.             *)
StoredSignalIsHandled ==
    rowCommitted => \/ request[holder].at = "committed"
                    \/ holder \in tasks
                    \/ runs[holder] = 1
                    \/ holder \in broken
=============================================================================
