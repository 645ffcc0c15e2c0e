----------------------------- MODULE ExitPromise -----------------------------
(***************************************************************************)
(* ExitLifecycle seen as PositionPromise: the refinement mapping.          *)
(***************************************************************************)
EXTENDS ExitLifecycle

(* A session has claimed the row of p and not committed.                   *)
Claimed(p) == \E x \in Actor : InFlight(x) /\ sess[x].at = p

(* A position is being exited from the moment a session has claimed its    *)
(* row, before anybody else can see that in the database.                  *)
Phase ==
  [p \in Pos |->
     IF position[p].status = "closed" THEN "closed"
     ELSE IF position[p].status = "closing" \/ Claimed(p)
     THEN "exiting" ELSE "open"]

(* The shares the broker has not sold, whatever the database knows of it:  *)
(* each order for the position has sold its first "filled" shares.         *)
Sold(p) ==
  {s \in Oid \X (1..Qty) : broker[s[1]].pos = p /\ s[2] <= broker[s[1]].filled}

HeldShares == [p \in Pos |-> Qty - Cardinality(Sold(p))]

Promise == INSTANCE PositionPromise
             WITH Position <- Pos, Shares <- Qty, phase <- Phase, held <- HeldShares

(* The exit machinery keeps the promise: every step of the sessions, the   *)
(* poller, recovery and the broker is a step of PositionPromise or none.   *)
KeepsPromise == Promise!Spec
=============================================================================
