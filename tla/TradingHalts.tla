---------------------------- MODULE TradingHalts ----------------------------
(***************************************************************************)
(* trading_halts: the rows that stop all new orders.  Operators raise and   *)
(* release halts through the trading API or the management UI; settlements  *)
(* of losing trades raise them in HaltManager.check_and_halt_if_needed.     *)
(*                                                                         *)
(* A transaction reads before it writes and nothing but that read keeps two *)
(* active rows of a type apart.  The management UI commits the halt and its *)
(* audit entry in two databases, one after the other.  A settlement commits *)
(* its result before it checks; the halt it raises is only flushed, and is  *)
(* kept if the caller commits once more.                                    *)
(*                                                                         *)
(* One trading day: the sum of losses is not reset.  Every loss counts 1.   *)
(***************************************************************************)
EXTENDS FiniteSets, FiniteSetsExt, Sequences, Integers

CONSTANTS Operators,       \* sessions of administrators
          UiOperators,     \* those that work through the management UI
          Settlers,        \* closing transactions, one settled trade each
          ForgetfulSettlers, \* those whose caller does not commit again
          DailyLimit,      \* losses that reach DAILY_LOSS_LIMIT_JPY
          StreakLength,    \* CONSECUTIVE_LOSSES_STOP
          MaxHalts,        \* bound: rows ever written
          Casts,           \* bound: which sessions are about on the same day
          HaltFaults       \* may contain "commit", "crash"

ASSUME HaltAssumption ==
    /\ IsFiniteSet(Operators) /\ UiOperators \subseteq Operators
    /\ IsFiniteSet(Settlers) /\ ForgetfulSettlers \subseteq Settlers
    /\ DailyLimit \in Nat \ {0}    \* at zero RiskManager refuses every order anyway

VARIABLES halts,     \* committed rows, in order of activated_at
          operator,  \* the open request of each operator, or its last audit entry
          settler,   \* the open settlement of each settler
          results,   \* committed trade results: stamp (created_at), loss
          stamp,     \* last created_at given out
          lost       \* types whose flushed halt was never committed

haltVars == <<halts, operator, settler, results, stamp, lost>>

NoRequest == [at |-> "idle", targets |-> {}, logged |-> "nothing"]

HaltInit ==
    /\ halts = <<>>
    /\ \E cast \in Casts :
         /\ operator = [o \in Operators |->
                [NoRequest EXCEPT !.at = IF o \in cast THEN "idle" ELSE "away"]]
         /\ settler = [s \in Settlers |-> [at |-> IF s \in cast THEN "open" ELSE "away",
                                           stamp |-> 0, loss |-> FALSE, pending |-> {}]]
    /\ results = {} /\ stamp = 0 /\ lost = {}

ActiveHalts == {h \in DOMAIN halts : halts[h].active}
ActiveOf(type) == {h \in ActiveHalts : halts[h].type = type}

\* activated_at and id descending, the first row.
Newest(rows) == Max(rows)

Raised(type) == [type |-> type, active |-> TRUE, releasedAt |-> 0]

\* Activations that do not ask for a row of their type, or ask for any row,
\* released or not.
NeverExisting(type) == {}
EverExisting(type) == {h \in DOMAIN halts : halts[h].type = type}
\* The rows activate_halt answers with instead of inserting one.
Existing(type) == ActiveOf(type)

Request(at, targets) == [at |-> at, targets |-> targets, logged |-> "nothing"]
OperatorDoes(o, at, targets) == operator' = [operator EXCEPT ![o] = Request(at, targets)]

\* ui_audit_logs keeps event and halts; what the trading API logs is not asked.
Logs(o, event) ==
    operator' = [operator EXCEPT ![o] = IF o \in UiOperators
                    THEN [Request("idle", @.targets) EXCEPT !.logged = event] ELSE NoRequest]

-----------------------------------------------------------------------------
\* POST: the select of activate_halt, and the insert in the open transaction.
RaiseManual(o) ==
    /\ operator[o].at = "idle"
    /\ IF Existing("manual") = {}
         THEN /\ Len(halts) < MaxHalts
              /\ OperatorDoes(o, "raising", {})
         ELSE OperatorDoes(o, "raised", {Newest(Existing("manual"))})
    /\ UNCHANGED <<halts, settler, results, stamp, lost>>

CommitRaise(o) ==
    /\ operator[o].at = "raising"
    /\ Len(halts) < MaxHalts
    /\ halts' = Append(halts, Raised("manual"))
    /\ OperatorDoes(o, "raised", {Len(halts) + 1})
    /\ UNCHANGED <<settler, results, stamp, lost>>

\* DELETE /{id}: an inactive row is answered as it is, and audited again.
ReleaseOne(o, h) ==
    /\ operator[o].at = "idle"
    /\ h \in DOMAIN halts
    /\ OperatorDoes(o, "releasing", {h})
    /\ UNCHANGED <<halts, settler, results, stamp, lost>>

\* DELETE: the rows active at the select.
ReleaseAll(o) ==
    /\ operator[o].at = "idle"
    /\ OperatorDoes(o, "releasing", ActiveHalts)
    /\ UNCHANGED <<halts, settler, results, stamp, lost>>

CommitRelease(o) ==
    /\ operator[o].at = "releasing"
    /\ halts' = [h \in DOMAIN halts |->
                    IF h \in operator[o].targets /\ halts[h].active
                      THEN [halts[h] EXCEPT !.active = FALSE, !.releasedAt = Cardinality(results)]
                      ELSE halts[h]]
    /\ OperatorDoes(o, "released", operator[o].targets)
    /\ UNCHANGED <<settler, results, stamp, lost>>

\* An audit entry written while the release is still open.
AuditEarly(o) ==
    /\ operator[o].at \in {"raised", "releasing"}
    /\ Logs(o, IF operator[o].at = "raised" THEN "raised" ELSE "released")
    /\ UNCHANGED <<halts, settler, results, stamp, lost>>

\* The management UI writes and commits its audit entry in its own database
\* afterwards; the trading API's was part of the transaction.
Audit(o) ==
    /\ operator[o].at \in {"raised", "released"}
    /\ Logs(o, operator[o].at)
    /\ UNCHANGED <<halts, settler, results, stamp, lost>>

\* The commit of either database fails, or the process dies: no answer.
RequestFails(o) ==
    /\ HaltFaults # {}
    /\ operator[o].at \notin {"idle", "away"}
    /\ OperatorDoes(o, "idle", {})
    /\ UNCHANGED <<halts, settler, results, stamp, lost>>

-----------------------------------------------------------------------------
Losses == {r \in results : r.loss}
DailyLimitReached == Cardinality(Losses) >= DailyLimit

\* The StreakLength results of latest created_at, if there are as many.
Latest == {r \in results : Cardinality({q \in results : q.stamp > r.stamp}) < StreakLength}
StreakReached == StreakLength > 0 /\ Cardinality(Latest) = StreakLength /\ Latest \subseteq Losses

Step(s, from, to) == settler[s].at = from /\ settler' = [settler EXCEPT ![s].at = to]

\* finalize_exit / close_position builds the TradeResult ...
BuildResult(s) ==
    /\ settler[s].at = "open"
    /\ stamp' = stamp + 1
    /\ \E loss \in BOOLEAN :
         settler' = [settler EXCEPT ![s].at = "built", ![s].stamp = stamp + 1, ![s].loss = loss]
    /\ UNCHANGED <<halts, operator, results, lost>>

\* ... commits it ...
CommitResult(s) ==
    /\ Step(s, "built", "settled")
    /\ results' = results \cup {[stamp |-> settler[s].stamp, loss |-> settler[s].loss]}
    /\ UNCHANGED <<halts, operator, stamp, lost>>

Checked(s, type, reached, from, to) ==
    /\ settler[s].at = from
    /\ settler' = [settler EXCEPT ![s].at = to,
           ![s].pending = @ \cup (IF reached /\ Existing(type) = {} THEN {type} ELSE {})]
    /\ UNCHANGED <<halts, operator, results, stamp, lost>>

\* ... and asks, in two reads, whether trading must stop.
CheckDaily(s) == Checked(s, "daily", DailyLimitReached, "settled", "dailyChecked")
CheckStreak(s) == Checked(s, "streak", StreakReached, "dailyChecked", "checked")

RaisedIf(type, types) == IF type \in types THEN <<Raised(type)>> ELSE <<>>
RaisedRows(types) == RaisedIf("daily", types) \o RaisedIf("streak", types)

\* The caller's next commit keeps what was flushed.
CommitCheck(s) ==
    /\ s \notin ForgetfulSettlers
    /\ Len(halts) + Cardinality(settler[s].pending) <= MaxHalts
    /\ Step(s, "checked", "done")
    /\ halts' = halts \o RaisedRows(settler[s].pending)
    /\ UNCHANGED <<operator, results, stamp, lost>>

\* The caller closes the session without a commit, or the process dies.
CheckIsLost(s) ==
    /\ \/ s \in ForgetfulSettlers /\ settler[s].at = "checked"
       \/ "crash" \in HaltFaults /\ settler[s].at \in {"settled", "dailyChecked", "checked"}
    /\ settler' = [settler EXCEPT ![s].at = "done"]
    /\ lost' = lost \cup (IF settler[s].at = "checked" THEN settler[s].pending ELSE {"daily", "streak"})
    /\ UNCHANGED <<halts, operator, results, stamp>>

HaltNext ==
    \/ \E o \in Operators : \/ RaiseManual(o) \/ CommitRaise(o)
                            \/ \E h \in DOMAIN halts : ReleaseOne(o, h)
                            \/ ReleaseAll(o) \/ CommitRelease(o)
                            \/ Audit(o) \/ RequestFails(o)
    \/ \E s \in Settlers : \/ BuildResult(s) \/ CommitResult(s) \/ CheckDaily(s)
                           \/ CheckStreak(s) \/ CommitCheck(s) \/ CheckIsLost(s)

HaltSpec == HaltInit /\ [][HaltNext]_haltVars

-----------------------------------------------------------------------------
Quiet == \A s \in Settlers : settler[s].at \in {"away", "open", "built", "done"}

\* A row of the type was in force after the last result was committed.
HaltedSince(type) ==
    \E h \in DOMAIN halts : /\ halts[h].type = type
                            /\ halts[h].active \/ halts[h].releasedAt = Cardinality(results)

(* Losses stop trading: once every settlement has been checked, the daily   *)
(* limit or a losing streak finds a halt of its type that no operator       *)
(* released before the last result, whatever the order in which concurrent  *)
(* settlements committed; only a check whose flush was never committed can  *)
(* be missing (position_manager.py finalize_exit, close_position).          *)
LossesHaltTrading ==
    Quiet => /\ DailyLimitReached => HaltedSince("daily") \/ "daily" \in lost
             /\ StreakReached => HaltedSince("streak") \/ "streak" \in lost

(* Racing activations are the only source of duplicate active rows: there   *)
(* are never more of a type than there are sessions that raise it, however  *)
(* often they raise and release (activate_halt: "重複して作成しない").             *)
DuplicatesAreBounded ==
    \A type \in {"manual", "daily", "streak"} :
        Cardinality(ActiveOf(type)) <= Cardinality(IF type = "manual" THEN Operators ELSE Settlers)

(* The management UI's audit log tells the truth about the other database:  *)
(* a halt it says was raised exists, one it says was released is no longer  *)
(* active and never becomes active again.                                   *)
UiAuditIsTrue ==
    \A o \in UiOperators : \A h \in operator[o].targets :
        /\ operator[o].logged # "nothing" => h \in DOMAIN halts
        /\ operator[o].logged = "released" => ~halts[h].active
=============================================================================
