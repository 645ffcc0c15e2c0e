---------------------------- MODULE SignalPromise ----------------------------
(***************************************************************************)
(* What acting on a signal promises, without pipelines, tables or polling: *)
(* shares are bought only for a signal whose order is placed, the order is *)
(* dropped only if it bought none, and once all are bought they are held   *)
(* as one position.                                                        *)
(***************************************************************************)
EXTENDS Integers

CONSTANTS
  Signal,    (* the signals                                                *)
  Shares     (* the shares each asks for                                   *)

VARIABLES
  stage,   (* "waiting", "ordered", "held" or "dropped"                    *)
  bought   (* shares bought for the signal                                 *)

Init ==
  /\ stage = [s \in Signal |-> "waiting"]
  /\ bought = [s \in Signal |-> 0]

Place(s) ==
  /\ stage[s] = "waiting"
  /\ stage' = [stage EXCEPT ![s] = "ordered"]
  /\ UNCHANGED bought

Buy(s) ==
  /\ stage[s] = "ordered"
  /\ \E n \in 1..(Shares - bought[s]) : bought' = [bought EXCEPT ![s] = @ + n]
  /\ UNCHANGED stage

Hold(s) ==
  /\ stage[s] = "ordered" /\ bought[s] = Shares
  /\ stage' = [stage EXCEPT ![s] = "held"]
  /\ UNCHANGED bought

Drop(s) ==
  /\ stage[s] \in {"waiting", "ordered"} /\ bought[s] = 0
  /\ stage' = [stage EXCEPT ![s] = "dropped"]
  /\ UNCHANGED bought

(* A crash drops every signal whose order was not placed yet, at once.     *)
Restart(S) ==
  /\ \A s \in S : stage[s] = "waiting"
  /\ stage' = [s \in Signal |-> IF s \in S THEN "dropped" ELSE stage[s]]
  /\ UNCHANGED bought

Next ==
  \/ \E s \in Signal : Place(s) \/ Buy(s) \/ Hold(s) \/ Drop(s)
  \/ \E S \in SUBSET Signal : Restart(S)

Spec == Init /\ [][Next]_<<stage, bought>>

(* What follows: shares bought are watched by an order or held, in full.   *)
NothingUnwatched ==
  \A s \in Signal :
    /\ bought[s] \in 0..Shares
    /\ bought[s] > 0 => stage[s] \in {"ordered", "held"}
    /\ stage[s] = "held" => bought[s] = Shares
=============================================================================
