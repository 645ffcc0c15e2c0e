---------------------------- MODULE EntryPromise ----------------------------
(***************************************************************************)
(* EntryLifecycle seen as SignalPromise: the refinement mapping.           *)
(***************************************************************************)
EXTENDS EntryLifecycle

(* An order counts as placed from the moment the broker has it: before the *)
(* commit, and when nobody knows whether it was sent, until it has ended.  *)
Stage ==
  [s \in Sig |->
     IF position[s] # "none" THEN "held"
     ELSE IF order[s].status \in Live \/ pc[s] = "sent" THEN "ordered"
     ELSE IF pc[s] = "done" THEN "dropped" ELSE "waiting"]

(* The shares the broker has bought, whatever the database knows of it.    *)
BoughtShares == [s \in Sig |-> broker[s].filled]

Promise == INSTANCE SignalPromise
             WITH Signal <- Sig, Shares <- Qty, stage <- Stage, bought <- BoughtShares

(* The entry machinery keeps the promise: every step of the pipelines, the *)
(* poller, recovery and the broker is a step of SignalPromise or none.     *)
KeepsSignalPromise == Promise!Spec
=============================================================================
