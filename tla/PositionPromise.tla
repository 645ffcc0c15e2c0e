--------------------------- MODULE PositionPromise ---------------------------
(***************************************************************************)
(* What closing a position promises, without sessions, orders or polling:  *)
(* its shares leave the account only while it is being exited, an exit is  *)
(* given up only with every share still held, and it ends when none is.    *)
(***************************************************************************)
EXTENDS Integers

CONSTANTS
  Position,  (* the positions                                              *)
  Shares     (* the shares each begins with                                *)

VARIABLES
  phase,   (* "open", "exiting" or "closed"                                *)
  held     (* shares of the position still in the account                  *)

Init ==
  /\ phase = [p \in Position |-> "open"]
  /\ held = [p \in Position |-> Shares]

Begin(p) ==
  /\ phase[p] = "open"
  /\ phase' = [phase EXCEPT ![p] = "exiting"]
  /\ UNCHANGED held

Sell(p) ==
  /\ phase[p] = "exiting"
  /\ \E n \in 1..held[p] : held' = [held EXCEPT ![p] = @ - n]
  /\ UNCHANGED phase

GiveUp(p) ==
  /\ phase[p] = "exiting" /\ held[p] = Shares
  /\ phase' = [phase EXCEPT ![p] = "open"]
  /\ UNCHANGED held

Finish(p) ==
  /\ phase[p] = "exiting" /\ held[p] = 0
  /\ phase' = [phase EXCEPT ![p] = "closed"]
  /\ UNCHANGED held

(* A crash gives up every exit that has not been committed, at once.       *)
Restart(P) ==
  /\ \A p \in P : phase[p] = "exiting" /\ held[p] = Shares
  /\ phase' = [p \in Position |-> IF p \in P THEN "open" ELSE phase[p]]
  /\ UNCHANGED held

Next ==
  \/ \E p \in Position : Begin(p) \/ Sell(p) \/ GiveUp(p) \/ Finish(p)
  \/ \E P \in SUBSET Position : Restart(P)

Spec == Init /\ [][Next]_<<phase, held>>

(* What follows: outside its exit a position has all its shares or none,   *)
(* whatever exits it has been through.                                     *)
SharesFollowPhase ==
  \A p \in Position :
    /\ held[p] \in 0..Shares
    /\ phase[p] = "open" => held[p] = Shares
    /\ phase[p] = "closed" => held[p] = 0
=============================================================================
