------------------------------ MODULE UiSessions ------------------------------
(***************************************************************************)
(* Sessions of one management UI user (admin/routes/auth.py, auth_guard.py):*)
(* the OAuth callback opens a session that a TOTP code promotes, a guard    *)
(* reads it for every request, logout ends it.                              *)
(*                                                                         *)
(* A handler reads the session and the user, awaits, and commits later; it  *)
(* writes the columns it assigned and no others.  Time passes between.      *)
(* Google (external) and cookies are left out: a request knows its session. *)
(***************************************************************************)
EXTENDS Integers

CONSTANTS Sessions,   \* sessions ever opened
          Handlers,   \* requests handled at a time
          PreTtl,     \* PRE_2FA_SESSION_TTL_SEC
          Ttl,        \* SESSION_TTL_SEC
          LastTime,   \* bound: end of time
          MaxSecret   \* bound: TOTP secrets ever set up

ASSUME UiAssumption ==
    PreTtl \in Nat /\ Ttl \in Nat /\ LastTime \in Nat /\ MaxSecret \in Nat

VARIABLES uiTime, uiSession, user, handler,
          verified,   \* when a correct code was last entered for a session
          served      \* when a request of a session was last served

uiVars == <<uiTime, uiSession, user, handler, verified, served>>

NotYet == -1
NoRow == [open |-> FALSE, complete |-> FALSE, invalidated |-> FALSE, expires |-> 0]
Free == [task |-> "none", session |-> "none", read |-> NoRow, at |-> 0]

UiInit ==
    /\ uiTime = 0
    /\ uiSession = [s \in Sessions |-> NoRow]
    /\ user = [active |-> TRUE, secret |-> 0, enabled |-> FALSE]
    /\ handler = [h \in Handlers |-> Free]
    /\ verified = [s \in Sessions |-> NotYet] /\ served = [s \in Sessions |-> NotYet]

Time == /\ uiTime < LastTime
        /\ uiTime' = uiTime + 1
        /\ UNCHANGED <<uiSession, user, handler, verified, served>>

\* is_active is cleared in the database.
Deactivate == /\ user.active
              /\ user' = [user EXCEPT !.active = FALSE]
              /\ UNCHANGED <<uiTime, uiSession, handler, verified, served>>

\* POST /callback for a registered, active user: a session before 2FA.
Callback(s) ==
    /\ user.active /\ ~uiSession[s].open
    /\ uiSession' = [uiSession EXCEPT ![s] = [open |-> TRUE, complete |-> FALSE,
                                  invalidated |-> FALSE, expires |-> uiTime + PreTtl]]
    /\ UNCHANGED <<uiTime, user, handler, verified, served>>

\* get_pre2fa_user and the checks of verify_totp; a session expiring this
\* second still counts.
PreAuth(s) == uiSession[s].open /\ ~uiSession[s].invalidated /\ uiSession[s].expires >= uiTime /\ user.active

\* A guard that does not ask whether the code was entered.
FullAuthAnySession(s) == PreAuth(s)
\* get_current_admin_user.
FullAuth(s) == PreAuth(s) /\ uiSession[s].complete

Starts(h, task, s) ==
    /\ handler[h] = Free
    /\ handler' = [handler EXCEPT ![h] = [task |-> task, session |-> s, read |-> uiSession[s], at |-> uiTime]]
Doing(h, task) == handler[h].task = task
Finishes(h) == handler' = [handler EXCEPT ![h] = Free]

\* POST /totp/setup overwrites the secret, whatever sessions verified before.
SetupBegins(h, s) ==
    /\ PreAuth(s) /\ Starts(h, "setup", s)
    /\ UNCHANGED <<uiTime, uiSession, user, verified, served>>
SetupCommits(h) ==
    /\ Doing(h, "setup") /\ user.secret < MaxSecret
    /\ user' = [user EXCEPT !.secret = @ + 1]
    /\ Finishes(h)
    /\ UNCHANGED <<uiTime, uiSession, verified, served>>

\* POST /totp/verify with the code of a secret the user once got; a wrong code
\* is only logged.
VerifyBegins(h, s, code) ==
    /\ PreAuth(s) /\ user.secret # 0
    /\ IF code = user.secret
         THEN Starts(h, "verify", s) /\ verified' = [verified EXCEPT ![s] = uiTime]
         ELSE handler[h] = Free /\ UNCHANGED <<handler, verified>>
    /\ UNCHANGED <<uiTime, uiSession, user, served>>

Promoted(s, h) == [uiSession[s] EXCEPT !.complete = TRUE, !.expires = handler[h].at + Ttl]

\* A commit that writes the whole row as the handler read it.
VerifyCommitsRow(h) ==
    /\ Doing(h, "verify")
    /\ uiSession' = [uiSession EXCEPT ![handler[h].session] =
                 [handler[h].read EXCEPT !.complete = TRUE, !.expires = handler[h].at + Ttl]]
    /\ user' = [user EXCEPT !.enabled = TRUE]
    /\ Finishes(h)
    /\ UNCHANGED <<uiTime, verified, served>>

\* The promotion: is_2fa_completed, expires_at, and the user's totp_enabled.
VerifyCommits(h) ==
    /\ Doing(h, "verify")
    /\ uiSession' = [uiSession EXCEPT ![handler[h].session] = Promoted(handler[h].session, h)]
    /\ user' = [user EXCEPT !.enabled = TRUE]
    /\ Finishes(h)
    /\ UNCHANGED <<uiTime, verified, served>>

LogoutBegins(h, s) ==
    /\ FullAuth(s) /\ Starts(h, "logout", s)
    /\ UNCHANGED <<uiTime, uiSession, user, verified, served>>
LogoutCommits(h) ==
    /\ Doing(h, "logout")
    /\ uiSession' = [uiSession EXCEPT ![handler[h].session].invalidated = TRUE]
    /\ Finishes(h)
    /\ UNCHANGED <<uiTime, user, verified, served>>

\* Any other request behind RequireAdmin.
Serve(s) == /\ FullAuth(s) /\ served' = [served EXCEPT ![s] = uiTime]
            /\ UNCHANGED <<uiTime, uiSession, user, handler, verified>>

\* The commit fails or the process dies.
HandlerFails(h) == /\ handler[h] # Free /\ Finishes(h)
                   /\ UNCHANGED <<uiTime, uiSession, user, verified, served>>

UiNext ==
    \/ Time \/ Deactivate
    \/ \E s \in Sessions : Callback(s) \/ Serve(s)
    \/ \E h \in Handlers : \/ SetupCommits(h) \/ VerifyCommits(h) \/ LogoutCommits(h) \/ HandlerFails(h)
                           \/ \E s \in Sessions : \/ SetupBegins(h, s) \/ LogoutBegins(h, s)
                                                  \/ \E code \in 1..MaxSecret : VerifyBegins(h, s, code)

UiSpec == UiInit /\ [][UiNext]_uiVars

-----------------------------------------------------------------------------
(* Logout is final: no handler that read the session before brings it back  *)
(* (a verify of the same session may commit after the logout).              *)
LogoutIsFinal ==
    [][\A s \in Sessions : uiSession[s].invalidated => uiSession'[s].invalidated]_uiSession

(* A request is served only within Ttl of a correct code for its session,   *)
(* whatever verifications and logouts overlap.                              *)
ServedIsVerified ==
    \A s \in Sessions : served[s] # NotYet =>
        verified[s] # NotYet /\ served[s] <= verified[s] + Ttl
=============================================================================
