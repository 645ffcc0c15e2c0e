----------------------- MODULE Administration_proofs ------------------------
(***************************************************************************)
(* TLAPS proofs about what operators do: UiSessions, for any number of     *)
(* sessions and of requests handled at a time, and TradingHalts, for any   *)
(* number of operators and settlers, any limits, casts and faults.         *)
(***************************************************************************)
EXTENDS UiSessions, TradingHalts, FiniteSetTheorems, SequenceTheorems, TLAPS

-----------------------------------------------------------------------------
(* Sessions of the management UI.                                          *)

Rows == [open : BOOLEAN, complete : BOOLEAN, invalidated : BOOLEAN, expires : Int]
Moments == Nat \cup {NotYet}

UiTypeOK ==
  /\ uiTime \in Nat
  /\ uiSession \in [Sessions -> Rows]
  /\ user \in [active : BOOLEAN, secret : Int, enabled : BOOLEAN]
  /\ verified \in [Sessions -> Moments]
  /\ served \in [Sessions -> Moments]

(* What a session's row says rests on a code entered for it: it is complete *)
(* only after one, and lives no longer than Ttl after it.                   *)
SessionOK(s) ==
  /\ uiSession[s].invalidated => uiSession[s].open
  /\ uiSession[s].complete =>
       verified[s] # NotYet /\ uiSession[s].expires <= verified[s] + Ttl
  /\ served[s] # NotYet => verified[s] # NotYet /\ served[s] <= verified[s] + Ttl
  /\ verified[s] # NotYet => verified[s] <= uiTime

(* What a handler is about to commit rests on such a code as well, even if  *)
(* the session's row changed since the handler read it.                     *)
HandlerOK(h) ==
  /\ handler[h].task \in {"verify", "logout"} =>
       handler[h].session \in Sessions /\ uiSession[handler[h].session].open
  /\ handler[h].task = "verify" =>
       /\ handler[h].at \in Nat
       /\ verified[handler[h].session] # NotYet
       /\ handler[h].at <= verified[handler[h].session]

UiInv ==
  /\ UiTypeOK
  /\ DOMAIN handler = Handlers /\ handler = [h \in Handlers |-> handler[h]]
  /\ \A s \in Sessions : SessionOK(s)
  /\ \A h \in Handlers : HandlerOK(h)

-----------------------------------------------------------------------------
LEMMA UiInitOK == ASSUME UiInit PROVE UiInv
<1>1. UiTypeOK
  BY DEF UiInit, UiTypeOK, Rows, NoRow, Moments, NotYet
<1>2. \A s \in Sessions : SessionOK(s)
  BY DEF UiInit, SessionOK, NoRow, NotYet
<1>3. \A h \in Handlers : HandlerOK(h)
  BY DEF UiInit, HandlerOK, Free
<1> QED
  BY <1>1, <1>2, <1>3 DEF UiInit, UiInv

(* A handler that starts or ends leaves the sessions and the others alone.  *)
LEMMA StartsRow ==
  ASSUME UiInv, NEW h \in Handlers, NEW task, NEW s, Starts(h, task, s)
  PROVE  /\ DOMAIN handler' = Handlers /\ handler' = [k \in Handlers |-> handler'[k]]
         /\ handler'[h].task = task /\ handler'[h].session = s /\ handler'[h].at = uiTime
         /\ \A k \in Handlers : k # h => handler'[k] = handler[k]
BY DEF UiInv, Starts

LEMMA FinishesRow ==
  ASSUME UiInv, NEW h \in Handlers, Finishes(h)
  PROVE  /\ DOMAIN handler' = Handlers /\ handler' = [k \in Handlers |-> handler'[k]]
         /\ handler'[h].task = "none"
         /\ \A k \in Handlers : k # h => handler'[k] = handler[k]
BY DEF UiInv, Finishes, Free

(* A step that touches only the handlers' table.                            *)
LEMMA StartsOK ==
  ASSUME UiInv, NEW h \in Handlers, NEW task, NEW s \in Sessions, PreAuth(s),
         task # "verify", Starts(h, task, s),
         UNCHANGED <<uiTime, uiSession, user, verified, served>>
  PROVE  UiInv'
<1>1. \A q \in Sessions : SessionOK(q)'
  BY DEF UiInv, SessionOK
<1>2. \A k \in Handlers : HandlerOK(k)'
  <2>1. /\ handler'[h].task = task /\ handler'[h].session = s
        /\ \A k \in Handlers : k # h => handler'[k] = handler[k]
    BY StartsRow
  <2> QED
    BY <2>1 DEF UiInv, HandlerOK, PreAuth
<1> QED
  BY <1>1, <1>2, StartsRow DEF UiInv, UiTypeOK

LEMMA TimeOK == ASSUME UiInv, Time PROVE UiInv'
<1>1. \A q \in Sessions : SessionOK(q)'
  BY DEF UiInv, UiTypeOK, SessionOK, Time, Moments, NotYet
<1> QED
  BY <1>1 DEF UiInv, UiTypeOK, HandlerOK, Time

LEMMA DeactivateOK == ASSUME UiInv, Deactivate PROVE UiInv'
<1>1. \A q \in Sessions : SessionOK(q)'
  BY DEF UiInv, SessionOK, Deactivate
<1>2. user' \in [active : BOOLEAN, secret : Int, enabled : BOOLEAN]
  BY DEF UiInv, UiTypeOK, Deactivate
<1> QED
  BY <1>1, <1>2 DEF UiInv, UiTypeOK, HandlerOK, Deactivate

LEMMA CallbackOK == ASSUME UiInv, NEW s \in Sessions, Callback(s) PROVE UiInv'
<1>1. /\ uiSession' \in [Sessions -> Rows]
      /\ ~uiSession'[s].complete /\ ~uiSession'[s].invalidated /\ uiSession'[s].open
      /\ \A q \in Sessions : q # s => uiSession'[q] = uiSession[q]
  BY UiAssumption DEF UiInv, UiTypeOK, Callback, Rows
<1>2. \A q \in Sessions : SessionOK(q)'
  BY <1>1 DEF UiInv, SessionOK, Callback
<1>3. \A k \in Handlers : HandlerOK(k)'
  BY <1>1 DEF UiInv, HandlerOK, Callback
<1> QED
  BY <1>1, <1>2, <1>3 DEF UiInv, UiTypeOK, Callback

LEMMA SetupCommitsOK == ASSUME UiInv, NEW h \in Handlers, SetupCommits(h) PROVE UiInv'
<1>1. user' \in [active : BOOLEAN, secret : Int, enabled : BOOLEAN]
  BY DEF UiInv, UiTypeOK, SetupCommits
<1>2. \A q \in Sessions : SessionOK(q)'
  BY DEF UiInv, SessionOK, SetupCommits
<1>3. \A k \in Handlers : HandlerOK(k)'
  BY FinishesRow DEF UiInv, HandlerOK, SetupCommits
<1> QED
  BY <1>1, <1>2, <1>3, FinishesRow DEF UiInv, UiTypeOK, SetupCommits

LEMMA VerifyBeginsOK ==
  ASSUME UiInv, NEW h \in Handlers, NEW s \in Sessions, NEW code, VerifyBegins(h, s, code)
  PROVE  UiInv'
<1>1. CASE Starts(h, "verify", s) /\ verified' = [verified EXCEPT ![s] = uiTime]
  <2>1. /\ verified' \in [Sessions -> Moments] /\ verified'[s] = uiTime
        /\ \A q \in Sessions : q # s => verified'[q] = verified[q]
    BY <1>1 DEF UiInv, UiTypeOK, Moments
  <2>2. \A q \in Sessions : verified[q] # NotYet => verified'[q] # NotYet /\ verified[q] <= verified'[q]
    BY <2>1 DEF UiInv, UiTypeOK, SessionOK, Moments, NotYet
  <2>3. \A q \in Sessions : SessionOK(q)'
    BY <2>1, <2>2, UiAssumption
    DEF UiInv, UiTypeOK, SessionOK, VerifyBegins, Moments, NotYet, Rows
  <2>4. \A k \in Handlers : HandlerOK(k)'
    <3> SUFFICES ASSUME NEW k \in Handlers PROVE HandlerOK(k)'
      OBVIOUS
    <3>1. CASE k = h
      <4>1. handler'[h].task = "verify" /\ handler'[h].session = s /\ handler'[h].at = uiTime
        BY <1>1, StartsRow
      <4>2. uiSession'[s].open /\ uiTime \in Nat
        BY DEF VerifyBegins, PreAuth, UiInv, UiTypeOK
      <4> QED
        BY <2>1, <3>1, <4>1, <4>2 DEF HandlerOK, NotYet
    <3>2. CASE k # h
      <4>1. handler'[k] = handler[k]
        BY <1>1, <3>2, StartsRow
      <4>2. HandlerOK(k) /\ verified \in [Sessions -> Moments] /\ uiSession' = uiSession
        BY DEF UiInv, UiTypeOK, VerifyBegins
      <4> QED
        BY <2>1, <2>2, <4>1, <4>2 DEF HandlerOK, Moments, NotYet
    <3> QED
      BY <3>1, <3>2
  <2> QED
    BY <1>1, <2>1, <2>3, <2>4, StartsRow DEF UiInv, UiTypeOK, VerifyBegins
<1>2. CASE UNCHANGED <<handler, verified>>
  <2>1. \A q \in Sessions : SessionOK(q)'
    BY <1>2 DEF UiInv, SessionOK, VerifyBegins
  <2> QED
    BY <1>2, <2>1 DEF UiInv, UiTypeOK, HandlerOK, VerifyBegins
<1> QED
  BY <1>1, <1>2 DEF VerifyBegins

LEMMA VerifyCommitsOK == ASSUME UiInv, NEW h \in Handlers, VerifyCommits(h) PROVE UiInv'
<1>1. PICK s \in Sessions :
         /\ s = handler[h].session /\ uiSession[s].open /\ handler[h].at \in Nat
         /\ verified[s] # NotYet /\ handler[h].at <= verified[s]
  BY DEF UiInv, HandlerOK, VerifyCommits, Doing
<1>2. /\ uiSession' \in [Sessions -> Rows]
      /\ uiSession'[s].invalidated = uiSession[s].invalidated
      /\ uiSession'[s].open = uiSession[s].open
      /\ uiSession'[s].expires = handler[h].at + Ttl
      /\ \A q \in Sessions : q # s => uiSession'[q] = uiSession[q]
  <2>1. uiSession[s] \in Rows /\ handler[h].at + Ttl \in Int
    BY <1>1, UiAssumption DEF UiInv, UiTypeOK
  <2>2. /\ Promoted(s, h) \in Rows
        /\ Promoted(s, h).invalidated = uiSession[s].invalidated
        /\ Promoted(s, h).open = uiSession[s].open
        /\ Promoted(s, h).expires = handler[h].at + Ttl
    BY <2>1 DEF Promoted, Rows
  <2>3. uiSession' = [uiSession EXCEPT ![s] = Promoted(s, h)]
    BY <1>1 DEF VerifyCommits
  <2> QED
    BY <1>1, <2>2, <2>3 DEF UiInv, UiTypeOK
<1>3. user' \in [active : BOOLEAN, secret : Int, enabled : BOOLEAN]
  BY DEF UiInv, UiTypeOK, VerifyCommits
<1>4. \A q \in Sessions : SessionOK(q)'
  <2>1. \A q \in Sessions : verified'[q] = verified[q] /\ served'[q] = served[q] /\ uiTime' = uiTime
    BY DEF VerifyCommits
  <2>2. verified[s] \in Nat
    BY <1>1 DEF UiInv, UiTypeOK, Moments
  <2>3. SessionOK(s)'
    BY <1>1, <1>2, <2>1, <2>2, UiAssumption DEF UiInv, SessionOK
  <2>4. ASSUME NEW q \in Sessions, q # s PROVE SessionOK(q)'
    BY <1>2, <2>1, <2>4 DEF UiInv, SessionOK
  <2> QED
    BY <2>3, <2>4
<1>5. \A k \in Handlers : HandlerOK(k)'
  BY <1>2, FinishesRow DEF UiInv, HandlerOK, VerifyCommits
<1> QED
  BY <1>2, <1>3, <1>4, <1>5, FinishesRow DEF UiInv, UiTypeOK, VerifyCommits

LEMMA LogoutCommitsOK == ASSUME UiInv, NEW h \in Handlers, LogoutCommits(h) PROVE UiInv'
<1>1. PICK s \in Sessions : s = handler[h].session /\ uiSession[s].open
  BY DEF UiInv, HandlerOK, LogoutCommits, Doing
<1>2. /\ uiSession' \in [Sessions -> Rows]
      /\ uiSession'[s].open = uiSession[s].open
      /\ uiSession'[s].complete = uiSession[s].complete
      /\ uiSession'[s].expires = uiSession[s].expires
      /\ \A q \in Sessions : q # s => uiSession'[q] = uiSession[q]
  BY <1>1 DEF UiInv, UiTypeOK, LogoutCommits, Rows
<1>3. \A q \in Sessions : SessionOK(q)'
  BY <1>1, <1>2 DEF UiInv, SessionOK, LogoutCommits
<1>4. \A k \in Handlers : HandlerOK(k)'
  BY <1>2, FinishesRow DEF UiInv, HandlerOK, LogoutCommits
<1> QED
  BY <1>2, <1>3, <1>4, FinishesRow DEF UiInv, UiTypeOK, LogoutCommits

LEMMA ServeOK == ASSUME UiInv, NEW s \in Sessions, Serve(s) PROVE UiInv'
<1>1. /\ served' \in [Sessions -> Moments] /\ served'[s] = uiTime
      /\ \A q \in Sessions : q # s => served'[q] = served[q]
  BY DEF UiInv, UiTypeOK, Serve, Moments
<1>2. uiTime <= uiSession[s].expires /\ uiSession[s].complete
  BY DEF UiInv, UiTypeOK, Rows, Serve, FullAuth, PreAuth
<1>3. \A q \in Sessions : SessionOK(q)'
  BY <1>1, <1>2, UiAssumption DEF UiInv, UiTypeOK, SessionOK, Serve, Moments, NotYet, Rows
<1> QED
  BY <1>1, <1>3 DEF UiInv, UiTypeOK, HandlerOK, Serve

LEMMA HandlerFailsOK == ASSUME UiInv, NEW h \in Handlers, HandlerFails(h) PROVE UiInv'
<1>1. \A q \in Sessions : SessionOK(q)'
  BY DEF UiInv, SessionOK, HandlerFails
<1>2. \A k \in Handlers : HandlerOK(k)'
  BY FinishesRow DEF UiInv, HandlerOK, HandlerFails
<1> QED
  BY <1>1, <1>2, FinishesRow DEF UiInv, UiTypeOK, HandlerFails

LEMMA UiStepOK == UiInv /\ [UiNext]_uiVars => UiInv'
<1> SUFFICES ASSUME UiInv, [UiNext]_uiVars PROVE UiInv'
  OBVIOUS
<1>1. CASE UNCHANGED uiVars
  <2>1. \A q \in Sessions : SessionOK(q)'
    BY <1>1 DEF UiInv, SessionOK, uiVars
  <2> QED
    BY <1>1, <2>1 DEF UiInv, UiTypeOK, HandlerOK, uiVars
<1>2. ASSUME NEW h \in Handlers, NEW s \in Sessions, SetupBegins(h, s) PROVE UiInv'
  BY <1>2, StartsOK DEF SetupBegins
<1>3. ASSUME NEW h \in Handlers, NEW s \in Sessions, LogoutBegins(h, s) PROVE UiInv'
  BY <1>3, StartsOK DEF LogoutBegins, FullAuth
<1> QED
  BY <1>1, <1>2, <1>3, TimeOK, DeactivateOK, CallbackOK, ServeOK, SetupCommitsOK,
     VerifyCommitsOK, LogoutCommitsOK, HandlerFailsOK, VerifyBeginsOK DEF UiNext

-----------------------------------------------------------------------------
(* The inductive invariant behind the two theorems below.                   *)
THEOREM UiInvariance == UiSpec => []UiInv
BY UiInitOK, UiStepOK, PTL DEF UiSpec

(* A request is served only within Ttl of a code for its session            *)
(* (get_current_admin_user, verify_totp).                                   *)
THEOREM ServedAfterCode == UiSpec => []ServedIsVerified
<1>1. UiInv => ServedIsVerified
  BY DEF UiInv, SessionOK, ServedIsVerified
<1> QED
  BY <1>1, UiInvariance, PTL

(* Logout is final, whatever was read before it and is committed after it.  *)
THEOREM LogoutStays == UiSpec => LogoutIsFinal
<1> DEFINE Stays == \A s \in Sessions : uiSession[s].invalidated => uiSession'[s].invalidated
<1>1. UiInv /\ [UiNext]_uiVars => [Stays]_uiSession
  <2> SUFFICES ASSUME UiInv, UiNext, uiSession' # uiSession, NEW s \in Sessions,
                      uiSession[s].invalidated
               PROVE  uiSession'[s].invalidated
    BY DEF uiVars
  <2>0. uiSession \in [Sessions -> Rows]
    BY DEF UiInv, UiTypeOK
  <2>1. ASSUME NEW q \in Sessions, Callback(q) PROVE uiSession'[s].invalidated
    <3>1. q # s
      BY <2>1 DEF UiInv, SessionOK, Callback
    <3> QED
      BY <2>0, <2>1, <3>1 DEF Callback
  <2>2. ASSUME NEW h \in Handlers, VerifyCommits(h) PROVE uiSession'[s].invalidated
    BY <2>0, <2>2 DEF VerifyCommits, Promoted, Rows
  <2>3. ASSUME NEW h \in Handlers, LogoutCommits(h) PROVE uiSession'[s].invalidated
    BY <2>0, <2>3 DEF LogoutCommits, Rows
  <2> QED
    BY <2>1, <2>2, <2>3 DEF UiNext, Time, Deactivate, Serve, SetupCommits, HandlerFails,
       SetupBegins, LogoutBegins, VerifyBegins
<1> QED
  BY <1>1, UiInvariance, PTL DEF UiSpec, LogoutIsFinal

-----------------------------------------------------------------------------
(* Trading halts.                                                          *)

HaltTypes == {"manual", "daily", "streak"}
HaltRows == [type : HaltTypes, active : BOOLEAN, releasedAt : Nat]
Requested == [at : {"away", "idle", "raising", "raised", "releasing", "released"},
              targets : SUBSET Nat, logged : {"nothing", "raised", "released"}]
Settlements == [at : {"away", "open", "built", "settled", "dailyChecked", "checked", "done"},
                stamp : Nat, loss : BOOLEAN, pending : SUBSET {"daily", "streak"}]

HaltTypeOK ==
  /\ halts \in Seq(HaltRows)
  /\ operator \in [Operators -> Requested]
  /\ settler \in [Settlers -> Settlements]
  /\ IsFiniteSet(results) /\ results \subseteq [stamp : Nat, loss : BOOLEAN]
  /\ stamp \in Nat
  /\ lost \subseteq {"daily", "streak"}

(* What a request will log is true already when its transaction commits.    *)
AuditOK(o) ==
  /\ operator[o].targets \subseteq DOMAIN halts
  /\ operator[o].logged # "nothing" => operator[o].at = "idle"
  /\ operator[o].at = "released" \/ operator[o].logged = "released" =>
       \A h \in operator[o].targets : ~halts[h].active

(* The sessions that found no row of the type and have yet to insert one.   *)
Raising(type) ==
  IF type = "manual" THEN {o \in Operators : operator[o].at = "raising"}
  ELSE {s \in Settlers : /\ settler[s].at \in {"dailyChecked", "checked"}
                         /\ type \in settler[s].pending}
SessionsOf(type) == IF type = "manual" THEN Operators ELSE Settlers

(* They found none, so the rows there are now come from sessions that have  *)
(* stopped raising since.                                                   *)
RaisersOK(type) ==
  Cardinality(ActiveOf(type)) + Cardinality(Raising(type)) <= Cardinality(SessionsOf(type))

Unchecked(type) ==
  \E s \in Settlers : \/ settler[s].at = "settled"
                      \/ settler[s].at = "dailyChecked" /\ type = "streak"
                      \/ s \in Raising(type)

(* A limit that is reached has its halt, or a settlement that will still    *)
(* look at it or insert the halt.                                           *)
Followed(type) == HaltedSince(type) \/ type \in lost \/ Unchecked(type)

PendingOK(s) == settler[s].at \notin {"dailyChecked", "checked", "done"} => settler[s].pending = {}

HaltInv ==
  /\ HaltTypeOK
  /\ \A o \in Operators : AuditOK(o)
  /\ \A s \in Settlers : PendingOK(s)
  /\ \A type \in HaltTypes : RaisersOK(type)
  /\ DailyLimitReached => Followed("daily")
  /\ StreakReached => Followed("streak")

-----------------------------------------------------------------------------
LEMMA RowOfHalt ==
  ASSUME HaltTypeOK
  PROVE  /\ Len(halts) \in Nat /\ DOMAIN halts = 1..Len(halts)
         /\ \A h \in DOMAIN halts : halts[h] \in HaltRows
BY DEF HaltTypeOK

LEMMA RaisedIsRow == \A type \in HaltTypes : Raised(type) \in HaltRows
BY DEF Raised, HaltRows

LEMMA ActiveFinite ==
  ASSUME HaltTypeOK, NEW type
  PROVE  IsFiniteSet(ActiveOf(type)) /\ Cardinality(ActiveOf(type)) \in Nat
<1>1. IsFiniteSet(1..Len(halts))
  BY RowOfHalt, FS_Interval
<1>2. ActiveOf(type) \subseteq 1..Len(halts)
  BY RowOfHalt DEF ActiveOf, ActiveHalts
<1> QED
  BY <1>1, <1>2, FS_Subset, FS_CardinalityType

LEMMA RaisingFinite ==
  ASSUME NEW type
  PROVE  /\ IsFiniteSet(SessionsOf(type)) /\ Cardinality(SessionsOf(type)) \in Nat
         /\ IsFiniteSet(Raising(type)) /\ Cardinality(Raising(type)) \in Nat
         /\ Cardinality(Raising(type)) <= Cardinality(SessionsOf(type))
<1>1. IsFiniteSet(SessionsOf(type))
  BY HaltAssumption DEF SessionsOf
<1>2. Raising(type) \subseteq SessionsOf(type)
  BY DEF Raising, SessionsOf
<1> QED
  BY <1>1, <1>2, FS_Subset, FS_CardinalityType

(* The same, of the state after a step.                                     *)
LEMMA RaisingFiniteNext ==
  ASSUME NEW type
  PROVE  /\ IsFiniteSet(Raising(type)') /\ Cardinality(Raising(type)') \in Nat
         /\ Cardinality(Raising(type)') <= Cardinality(SessionsOf(type))
<1>1. IsFiniteSet(SessionsOf(type))
  BY HaltAssumption DEF SessionsOf
<1>2. Raising(type)' \subseteq SessionsOf(type)
  BY DEF Raising, SessionsOf
<1> QED
  BY <1>1, <1>2, FS_Subset, FS_CardinalityType

LEMMA NewestIsRow ==
  ASSUME NEW n \in Nat, NEW rows \in SUBSET (1..n), rows # {}
  PROVE  Newest(rows) \in rows
<1> DEFINE back == {n - h : h \in rows}
<1>1. back \in SUBSET Nat /\ back # {}
  OBVIOUS
<1>2. PICK x \in back : \A y \in back : ~(<<y, x>> \in OpToRel(<, Nat))
  BY <1>1, NatLessThanWellFounded, WFMin
<1>3. \A y \in back : x <= y
  <2> SUFFICES ASSUME NEW y \in back PROVE x <= y
    OBVIOUS
  <2>1. ~(y < x)
    BY <1>1, <1>2 DEF OpToRel
  <2> QED
    BY <1>1, <2>1
<1>4. PICK h \in rows : x = n - h
  BY <1>2
<1>5. ASSUME NEW g \in rows PROVE h >= g
  <2>1. n - g \in back
    OBVIOUS
  <2>2. x <= n - g
    BY <1>3, <2>1
  <2> QED
    BY <1>4, <2>2
<1> QED
  BY <1>5 DEF Newest, Max

-----------------------------------------------------------------------------
(* How steps change the table.                                              *)

(* Rows written after the ones there are.                                   *)
Extended ==
  /\ DOMAIN halts \subseteq DOMAIN halts'
  /\ \A h \in DOMAIN halts : halts'[h] = halts[h]

LEMMA OneRaised ==
  ASSUME HaltTypeOK, NEW type \in HaltTypes, halts' = Append(halts, Raised(type))
  PROVE  /\ halts' \in Seq(HaltRows) /\ Extended
         /\ Len(halts) + 1 \in DOMAIN halts'
         /\ \A t \in HaltTypes : ActiveOf(t)' =
              ActiveOf(t) \cup (IF t = type THEN {Len(halts) + 1} ELSE {})
<1>1. /\ halts' \in Seq(HaltRows) /\ Len(halts') = Len(halts) + 1
      /\ \A h \in 1..Len(halts) : halts'[h] = halts[h]
      /\ halts'[Len(halts) + 1] = Raised(type)
  BY RaisedIsRow DEF HaltTypeOK
<1>2. DOMAIN halts' = 1..(Len(halts) + 1)
  BY <1>1
<1>3. \A t : ActiveOf(t)' = {h \in DOMAIN halts' : halts'[h].active /\ halts'[h].type = t}
  BY DEF ActiveOf, ActiveHalts
<1>4. \A t : ActiveOf(t) = {h \in DOMAIN halts : halts[h].active /\ halts[h].type = t}
  BY DEF ActiveOf, ActiveHalts
<1>5. ASSUME NEW t \in HaltTypes
      PROVE  ActiveOf(t)' = ActiveOf(t) \cup (IF t = type THEN {Len(halts) + 1} ELSE {})
  BY <1>1, <1>2, <1>3, <1>4, RowOfHalt DEF Raised
<1> QED
  BY <1>1, <1>2, <1>5, RowOfHalt DEF Extended

LEMMA RaisedRowsAre ==
  ASSUME NEW types \in SUBSET {"daily", "streak"}
  PROVE  /\ RaisedRows(types) \in Seq(HaltRows)
         /\ \A i \in DOMAIN RaisedRows(types) :
              /\ RaisedRows(types)[i].type \in types
              /\ RaisedRows(types)[i] = Raised(RaisedRows(types)[i].type)
         /\ \A t \in types : \E i \in DOMAIN RaisedRows(types) :
              /\ RaisedRows(types)[i] = Raised(t)
              /\ \A j \in DOMAIN RaisedRows(types) : RaisedRows(types)[j].type = t => j = i
<1> DEFINE d == Raised("daily")
           k == Raised("streak")
<1>1. /\ d \in HaltRows /\ d.type = "daily" /\ Raised("daily") = d
      /\ k \in HaltRows /\ k.type = "streak" /\ Raised("streak") = k
  BY RaisedIsRow DEF Raised, HaltTypes
<1> HIDE DEF d, k
<1>2. CASE types = {}
  BY <1>2 DEF RaisedRows, RaisedIf
<1>3. CASE types = {"daily"}
  <2>1. RaisedRows(types) = <<d>>
    BY <1>3 DEF RaisedRows, RaisedIf, d
  <2>2. /\ <<d>> \in Seq(HaltRows) /\ DOMAIN <<d>> = {1} /\ <<d>>[1] = d
    BY <1>1
  <2> DEFINE one == <<d>>
  <2> HIDE DEF one
  <2>3. RaisedRows(types) = one /\ one \in Seq(HaltRows) /\ DOMAIN one = {1} /\ one[1] = d
    BY <2>1, <2>2 DEF one
  <2> QED
    BY <1>1, <1>3, <2>3
<1>4. CASE types = {"streak"}
  <2>1. RaisedRows(types) = <<k>>
    BY <1>4 DEF RaisedRows, RaisedIf, k
  <2>2. /\ <<k>> \in Seq(HaltRows) /\ DOMAIN <<k>> = {1} /\ <<k>>[1] = k
    BY <1>1
  <2> DEFINE one == <<k>>
  <2> HIDE DEF one
  <2>3. RaisedRows(types) = one /\ one \in Seq(HaltRows) /\ DOMAIN one = {1} /\ one[1] = k
    BY <2>1, <2>2 DEF one
  <2> QED
    BY <1>1, <1>4, <2>3
<1>5. CASE types = {"daily", "streak"}
  <2> DEFINE both == <<d>> \o <<k>>
  <2>1. RaisedRows(types) = both
    BY <1>1, <1>5 DEF RaisedRows, RaisedIf
  <2>2. <<d>> \in Seq(HaltRows) /\ <<k>> \in Seq(HaltRows)
    BY <1>1
  <2>3. /\ both \in Seq(HaltRows) /\ Len(both) = 2 /\ both[1] = d /\ both[2] = k
    BY <2>2, ConcatProperties
  <2> HIDE DEF both
  <2>4. DOMAIN both = {1, 2}
    BY <2>3
  <2>5. \A i \in DOMAIN both : both[i].type \in types /\ both[i] = Raised(both[i].type)
    BY <1>1, <1>5, <2>3, <2>4
  <2>6. \A t \in types : \E i \in DOMAIN both :
          both[i] = Raised(t) /\ \A j \in DOMAIN both : both[j].type = t => j = i
    BY <1>1, <1>5, <2>3, <2>4
  <2> QED
    BY <2>1, <2>3, <2>5, <2>6
<1> QED
  BY <1>2, <1>3, <1>4, <1>5

LEMMA SomeRaised ==
  ASSUME HaltTypeOK, NEW types \in SUBSET {"daily", "streak"},
         halts' = halts \o RaisedRows(types)
  PROVE  /\ halts' \in Seq(HaltRows) /\ Extended
         /\ \A t \in HaltTypes \ types : ActiveOf(t)' = ActiveOf(t)
         /\ \A t \in types : \E h : /\ h \in DOMAIN halts' /\ h \notin DOMAIN halts
                                   /\ ActiveOf(t)' = ActiveOf(t) \cup {h}
<1> DEFINE new == RaisedRows(types)
           n == Len(halts)
<1>1. /\ new \in Seq(HaltRows) /\ halts \in Seq(HaltRows) /\ n \in Nat
      /\ halts' = halts \o new
  BY RaisedRowsAre DEF HaltTypeOK
<1>2. /\ \A i \in DOMAIN new : new[i].type \in types /\ new[i] = Raised(new[i].type)
      /\ \A t \in types : \E i \in DOMAIN new :
           new[i] = Raised(t) /\ \A j \in DOMAIN new : new[j].type = t => j = i
  BY RaisedRowsAre
<1> HIDE DEF new, n
<1>3. /\ halts' \in Seq(HaltRows)
      /\ DOMAIN halts' = 1..(n + Len(new)) /\ DOMAIN halts = 1..n /\ DOMAIN new = 1..Len(new)
      /\ \A h \in 1..n : halts'[h] = halts[h]
      /\ \A i \in 1..Len(new) : halts'[n + i] = new[i]
  BY <1>1 DEF n
<1>4. Len(new) \in Nat
  BY <1>1
<1>5. \A h \in DOMAIN halts' :
        h \notin DOMAIN halts => h - n \in DOMAIN new /\ halts'[h] = new[h - n]
  <2> SUFFICES ASSUME NEW h \in 1..(n + Len(new)), h \notin 1..n
               PROVE  h - n \in 1..Len(new) /\ halts'[h] = new[h - n]
    BY <1>3
  <2>1. n \in Int /\ h \in Int /\ h > n /\ h <= n + Len(new)
    BY <1>1, <1>4
  <2>2. h - n \in 1..Len(new) /\ h = n + (h - n)
    BY <1>4, <2>1
  <2> QED
    BY <1>3, <2>2
<1>6. \A t : ActiveOf(t)' = {h \in DOMAIN halts' : halts'[h].active /\ halts'[h].type = t}
  BY DEF ActiveOf, ActiveHalts
<1>7. \A t : ActiveOf(t) = {h \in DOMAIN halts : halts[h].active /\ halts[h].type = t}
  BY DEF ActiveOf, ActiveHalts
<1>8. Extended
  BY <1>1, <1>3, <1>4 DEF Extended
<1>9. ASSUME NEW t \in HaltTypes \ types PROVE ActiveOf(t)' = ActiveOf(t)
  <2>1. \A h \in DOMAIN halts' : halts'[h].type = t => h \in DOMAIN halts
    BY <1>2, <1>5
  <2> QED
    BY <1>6, <1>7, <1>8, <2>1 DEF Extended
<1>10. ASSUME NEW t \in types
       PROVE  \E h : /\ h \in DOMAIN halts' /\ h \notin DOMAIN halts
                     /\ ActiveOf(t)' = ActiveOf(t) \cup {h}
  <2>1. PICK i \in DOMAIN new : new[i] = Raised(t) /\ \A j \in DOMAIN new : new[j].type = t => j = i
    BY <1>2
  <2>2. /\ n + i \in DOMAIN halts' /\ n + i \notin DOMAIN halts
        /\ halts'[n + i] = Raised(t)
    BY <1>1, <1>3, <1>4, <2>1
  <2>3. Raised(t).active /\ Raised(t).type = t
    BY DEF Raised
  <2>4. ASSUME NEW h \in ActiveOf(t)' PROVE h \in ActiveOf(t) \cup {n + i}
    <3>1. CASE h \in DOMAIN halts
      BY <1>6, <1>7, <1>8, <2>4, <3>1 DEF Extended
    <3>2. CASE h \notin DOMAIN halts
      <4>1. h \in DOMAIN halts' /\ h - n \in DOMAIN new /\ new[h - n].type = t
        BY <1>5, <1>6, <2>4, <3>2
      <4>2. h - n = i /\ h \in Int
        BY <1>3, <2>1, <4>1, <1>1, <1>4
      <4> QED
        BY <1>1, <1>3, <4>2
    <3> QED
      BY <3>1, <3>2
  <2>5. ASSUME NEW h \in ActiveOf(t) \cup {n + i} PROVE h \in ActiveOf(t)'
    BY <1>6, <1>7, <1>8, <2>2, <2>3, <2>5 DEF Extended
  <2> QED
    BY <2>2, <2>4, <2>5
<1> QED
  BY <1>3, <1>8, <1>9, <1>10

(* Committed releases make rows inactive and leave the others.              *)
LEMMA Released ==
  ASSUME HaltTypeOK, NEW o \in Operators, CommitRelease(o)
  PROVE  /\ halts' \in Seq(HaltRows) /\ DOMAIN halts' = DOMAIN halts
         /\ \A h \in DOMAIN halts :
              \/ halts'[h] = halts[h]
              \/ /\ halts'[h].type = halts[h].type /\ ~halts'[h].active
                 /\ halts'[h].releasedAt = Cardinality(results)
         /\ \A h \in operator[o].targets \cap DOMAIN halts : ~halts'[h].active
         /\ \A t : ActiveOf(t)' \subseteq ActiveOf(t)
<1> DEFINE gone(h) == [halts[h] EXCEPT !.active = FALSE, !.releasedAt = Cardinality(results)]
<1>1. halts' = [h \in DOMAIN halts |->
                 IF h \in operator[o].targets /\ halts[h].active THEN gone(h) ELSE halts[h]]
  BY DEF CommitRelease
<1>2. Cardinality(results) \in Nat
  BY FS_CardinalityType DEF HaltTypeOK
<1>3. \A h \in DOMAIN halts :
        /\ gone(h) \in HaltRows /\ ~gone(h).active /\ gone(h).type = halts[h].type
        /\ gone(h).releasedAt = Cardinality(results)
  BY <1>2, RowOfHalt DEF HaltRows
<1> HIDE DEF gone
<1>4. halts' \in Seq(HaltRows)
  BY <1>1, <1>3, RowOfHalt
<1>5. \A t : ActiveOf(t)' \subseteq ActiveOf(t)
  BY <1>1, <1>3 DEF ActiveOf, ActiveHalts
<1> QED
  BY <1>1, <1>3, <1>4, <1>5

-----------------------------------------------------------------------------
(* What the limits and the halts say stays as it is, or is kept.            *)
LEMMA SameLimits ==
  ASSUME UNCHANGED results
  PROVE  /\ DailyLimitReached' <=> DailyLimitReached
         /\ StreakReached' <=> StreakReached
         /\ Cardinality(results)' = Cardinality(results)
BY DEF DailyLimitReached, StreakReached, Latest, Losses

(* No row goes, and none is released but at the present count of results.   *)
Kept ==
  \A h \in DOMAIN halts :
    /\ h \in DOMAIN halts' /\ halts'[h].type = halts[h].type
    /\ halts'[h] = halts[h] \/ halts'[h].releasedAt = Cardinality(results)

LEMMA HaltedStays ==
  ASSUME UNCHANGED results, Kept, NEW type, HaltedSince(type)
  PROVE  HaltedSince(type)'
<1>1. Cardinality(results)' = Cardinality(results)
  BY SameLimits
<1>2. PICK h \in DOMAIN halts : /\ halts[h].type = type
                                /\ halts[h].active \/ halts[h].releasedAt = Cardinality(results)
  BY DEF HaltedSince
<1>3. /\ h \in DOMAIN halts' /\ halts'[h].type = type
      /\ halts'[h].active \/ halts'[h].releasedAt = Cardinality(results)
  BY <1>2 DEF Kept
<1> QED
  BY <1>1, <1>3 DEF HaltedSince

LEMMA FollowedStays ==
  ASSUME Kept, UNCHANGED <<settler, results, lost>>,
         NEW type \in {"daily", "streak"}, Followed(type)
  PROVE  Followed(type)'
<1>1. Unchecked(type)' <=> Unchecked(type)
  BY DEF Unchecked, Raising
<1> QED
  BY <1>1, HaltedStays DEF Followed

LEMMA SameTable ==
  ASSUME UNCHANGED halts
  PROVE  /\ Kept /\ Extended
         /\ \A t : ActiveOf(t)' = ActiveOf(t)
         /\ \A t : Existing(t) = ActiveOf(t)
BY DEF Kept, Extended, ActiveOf, ActiveHalts, Existing

(* Fewer rows, or fewer sessions about to raise one, need no new argument.  *)
LEMMA RaisersStay ==
  ASSUME HaltTypeOK, NEW type \in HaltTypes, RaisersOK(type),
         ActiveOf(type)' \subseteq ActiveOf(type), Raising(type)' \subseteq Raising(type)
  PROVE  RaisersOK(type)'
<1>1. /\ Cardinality(ActiveOf(type)') <= Cardinality(ActiveOf(type))
      /\ Cardinality(ActiveOf(type)') \in Nat
  BY ActiveFinite, FS_Subset, FS_CardinalityType
<1>2. /\ Cardinality(Raising(type)') <= Cardinality(Raising(type))
      /\ Cardinality(Raising(type)') \in Nat
  BY RaisingFinite, FS_Subset, FS_CardinalityType
<1>3. SessionsOf(type)' = SessionsOf(type)
  BY DEF SessionsOf
<1> QED
  BY <1>1, <1>2, <1>3, ActiveFinite, RaisingFinite DEF RaisersOK

(* A session that found no row is one of so many.                           *)
LEMMA RaisersStart ==
  ASSUME NEW type \in HaltTypes, ActiveOf(type)' = {}
  PROVE  RaisersOK(type)'
<1>1. Cardinality(ActiveOf(type)') = 0
  BY FS_EmptySet
<1>2. SessionsOf(type)' = SessionsOf(type)
  BY DEF SessionsOf
<1> QED
  BY <1>1, <1>2, RaisingFiniteNext, RaisingFinite DEF RaisersOK

(* The row a session inserts takes its place in the count.                  *)
LEMMA RaiserInserts ==
  ASSUME HaltTypeOK, NEW type \in HaltTypes, RaisersOK(type),
         NEW who \in Raising(type), Raising(type)' = Raising(type) \ {who},
         NEW h, ActiveOf(type)' = ActiveOf(type) \cup {h}
  PROVE  RaisersOK(type)'
<1>1. /\ Cardinality(ActiveOf(type)') <= Cardinality(ActiveOf(type)) + 1
      /\ Cardinality(ActiveOf(type)') \in Nat
  <2>1. IsFiniteSet(ActiveOf(type)) /\ Cardinality(ActiveOf(type)) \in Nat
    BY ActiveFinite
  <2>2. Cardinality(ActiveOf(type) \cup {h}) =
          IF h \in ActiveOf(type) THEN Cardinality(ActiveOf(type)) ELSE Cardinality(ActiveOf(type)) + 1
    BY <2>1, FS_AddElement
  <2> QED
    BY <2>1, <2>2
<1>2. /\ Cardinality(Raising(type)') = Cardinality(Raising(type)) - 1
      /\ Cardinality(Raising(type)') \in Nat
  BY RaisingFinite, RaisingFiniteNext, FS_RemoveElement
<1>3. SessionsOf(type)' = SessionsOf(type)
  BY DEF SessionsOf
<1> QED
  BY <1>1, <1>2, <1>3, ActiveFinite, RaisingFinite DEF RaisersOK

-----------------------------------------------------------------------------
(* Operators.                                                               *)
LEMMA RequestRow ==
  ASSUME HaltTypeOK, NEW o \in Operators, NEW at, NEW targets, OperatorDoes(o, at, targets)
  PROVE  /\ operator'[o].at = at /\ operator'[o].targets = targets
         /\ operator'[o].logged = "nothing"
         /\ \A p \in Operators : p # o => operator'[p] = operator[p]
         /\ at \in {"idle", "raising", "raised", "releasing", "released"}
              /\ targets \subseteq Nat => operator' \in [Operators -> Requested]
BY DEF HaltTypeOK, OperatorDoes, Request, Requested

LEMMA LogsRow ==
  ASSUME HaltTypeOK, NEW o \in Operators, NEW event \in {"raised", "released"}, Logs(o, event)
  PROVE  /\ operator'[o].at = "idle"
         /\ operator'[o].targets \in {operator[o].targets, {}}
         /\ operator'[o].logged \in {event, "nothing"}
         /\ \A p \in Operators : p # o => operator'[p] = operator[p]
         /\ operator' \in [Operators -> Requested]
BY DEF HaltTypeOK, Logs, Request, NoRequest, Requested

(* A request that does not write a row.                                     *)
LEMMA RequestStep ==
  ASSUME HaltInv, NEW o \in Operators,
         UNCHANGED <<halts, settler, results, stamp, lost>>,
         operator' \in [Operators -> Requested],
         \A p \in Operators : p # o => operator'[p] = operator[p],
         AuditOK(o)',
         operator'[o].at = "raising" => Existing("manual") = {}
  PROVE  HaltInv'
<1>1. HaltTypeOK'
  BY DEF HaltInv, HaltTypeOK
<1>2. \A p \in Operators : AuditOK(p)'
  BY DEF HaltInv, AuditOK
<1>3. \A s \in Settlers : PendingOK(s)'
  BY DEF HaltInv, PendingOK
<1>4. ASSUME NEW type \in HaltTypes PROVE RaisersOK(type)'
  <2>1. CASE type = "manual" /\ operator'[o].at = "raising"
    BY <2>1, SameTable, RaisersStart
  <2>2. CASE ~(type = "manual" /\ operator'[o].at = "raising")
    <3>1. Raising(type)' \subseteq Raising(type)
      BY <2>2 DEF Raising
    <3> QED
      BY <3>1, SameTable, RaisersStay DEF HaltInv
  <2> QED
    BY <2>1, <2>2
<1>5. /\ DailyLimitReached' => Followed("daily")'
      /\ StreakReached' => Followed("streak")'
  BY SameTable, SameLimits, FollowedStays DEF HaltInv
<1> QED
  BY <1>1, <1>2, <1>3, <1>4, <1>5 DEF HaltInv

LEMMA RaiseManualStep ==
  ASSUME HaltInv, NEW o \in Operators, RaiseManual(o) PROVE HaltInv'
<1>1. CASE Existing("manual") = {}
  <2>1. OperatorDoes(o, "raising", {})
    BY <1>1 DEF RaiseManual
  <2> QED
    BY <1>1, <2>1, RequestRow, RequestStep DEF RaiseManual, HaltInv, AuditOK
<1>2. CASE Existing("manual") # {}
  <2>1. OperatorDoes(o, "raised", {Newest(Existing("manual"))})
    BY <1>2 DEF RaiseManual
  <2>2. Newest(Existing("manual")) \in DOMAIN halts
    <3>1. Existing("manual") \in SUBSET (1..Len(halts))
      BY RowOfHalt DEF HaltInv, Existing, ActiveOf, ActiveHalts
    <3> QED
      BY <1>2, <3>1, NewestIsRow, RowOfHalt DEF HaltInv
  <2>3. {Newest(Existing("manual"))} \subseteq Nat
    BY <2>2, RowOfHalt DEF HaltInv
  <2>4. AuditOK(o)'
    BY <2>1, <2>2, RequestRow DEF RaiseManual, HaltInv, AuditOK
  <2> QED
    BY <2>1, <2>3, <2>4, RequestRow, RequestStep DEF RaiseManual, HaltInv
<1> QED
  BY <1>1, <1>2

LEMMA ReleaseStep ==
  ASSUME HaltInv, NEW o \in Operators, ReleaseAll(o) \/ \E h \in DOMAIN halts : ReleaseOne(o, h)
  PROVE  HaltInv'
<1>1. PICK targets \in SUBSET DOMAIN halts : OperatorDoes(o, "releasing", targets)
  BY DEF ReleaseAll, ReleaseOne, ActiveHalts
<1>2. UNCHANGED <<halts, settler, results, stamp, lost>>
  BY DEF ReleaseAll, ReleaseOne
<1>3. targets \subseteq Nat
  BY <1>1, RowOfHalt DEF HaltInv
<1>4. AuditOK(o)'
  BY <1>1, <1>2, RequestRow DEF HaltInv, AuditOK
<1> QED
  BY <1>1, <1>2, <1>3, <1>4, RequestRow, RequestStep DEF HaltInv

LEMMA AuditStep ==
  ASSUME HaltInv, NEW o \in Operators, Audit(o) PROVE HaltInv'
<1>1. operator[o].at \in {"raised", "released"} /\ Logs(o, operator[o].at)
  BY DEF Audit
<1>2. UNCHANGED <<halts, settler, results, stamp, lost>>
  BY DEF Audit
<1>3. AuditOK(o)'
  BY <1>1, <1>2, LogsRow DEF HaltInv, AuditOK
<1> QED
  BY <1>1, <1>2, <1>3, LogsRow, RequestStep DEF HaltInv

LEMMA RequestFailsStep ==
  ASSUME HaltInv, NEW o \in Operators, RequestFails(o) PROVE HaltInv'
<1>1. OperatorDoes(o, "idle", {}) /\ UNCHANGED <<halts, settler, results, stamp, lost>>
  BY DEF RequestFails
<1>2. AuditOK(o)'
  BY <1>1, RequestRow DEF HaltInv, AuditOK
<1> QED
  BY <1>1, <1>2, RequestRow, RequestStep DEF HaltInv

LEMMA CommitRaiseStep ==
  ASSUME HaltInv, NEW o \in Operators, CommitRaise(o) PROVE HaltInv'
<1>1. /\ operator[o].at = "raising" /\ halts' = Append(halts, Raised("manual"))
      /\ OperatorDoes(o, "raised", {Len(halts) + 1})
      /\ UNCHANGED <<settler, results, stamp, lost>>
  BY DEF CommitRaise
<1>2. HaltTypeOK /\ "manual" \in HaltTypes
  BY DEF HaltInv, HaltTypes
<1>3. /\ halts' \in Seq(HaltRows) /\ Extended /\ Len(halts) + 1 \in DOMAIN halts'
      /\ \A t \in HaltTypes : ActiveOf(t)' =
           ActiveOf(t) \cup (IF t = "manual" THEN {Len(halts) + 1} ELSE {})
  BY <1>1, <1>2, OneRaised
<1>4. /\ operator' \in [Operators -> Requested]
      /\ operator'[o].at = "raised" /\ operator'[o].targets = {Len(halts) + 1}
      /\ operator'[o].logged = "nothing"
      /\ \A p \in Operators : p # o => operator'[p] = operator[p]
  BY <1>1, <1>2, RequestRow, RowOfHalt
<1>5. HaltTypeOK'
  BY <1>1, <1>2, <1>3, <1>4 DEF HaltTypeOK
<1>6. \A p \in Operators : AuditOK(p)'
  BY <1>3, <1>4 DEF HaltInv, AuditOK, Extended
<1>7. \A s \in Settlers : PendingOK(s)'
  BY <1>1 DEF HaltInv, PendingOK
<1>8. ASSUME NEW type \in HaltTypes PROVE RaisersOK(type)'
  <2>1. CASE type = "manual"
    <3>1. o \in Raising(type) /\ Raising(type)' = Raising(type) \ {o}
      BY <1>1, <1>4, <2>1 DEF Raising
    <3>2. ActiveOf(type)' = ActiveOf(type) \cup {Len(halts) + 1}
      BY <1>3, <2>1
    <3> QED
      BY <1>2, <3>1, <3>2, RaiserInserts DEF HaltInv
  <2>2. CASE type # "manual"
    <3>1. Raising(type)' = Raising(type)
      BY <1>1, <2>2 DEF Raising
    <3>2. ActiveOf(type)' = ActiveOf(type)
      BY <1>3, <2>2
    <3> QED
      BY <1>2, <3>1, <3>2, RaisersStay DEF HaltInv
  <2> QED
    BY <2>1, <2>2
<1>9. Kept
  BY <1>3 DEF Kept, Extended
<1>10. /\ DailyLimitReached' => Followed("daily")'
       /\ StreakReached' => Followed("streak")'
  BY <1>1, <1>9, SameLimits, FollowedStays DEF HaltInv
<1> QED
  BY <1>5, <1>6, <1>7, <1>8, <1>10 DEF HaltInv

LEMMA CommitReleaseStep ==
  ASSUME HaltInv, NEW o \in Operators, CommitRelease(o) PROVE HaltInv'
<1>1. /\ operator[o].at = "releasing"
      /\ OperatorDoes(o, "released", operator[o].targets)
      /\ UNCHANGED <<settler, results, stamp, lost>>
  BY DEF CommitRelease
<1>2. HaltTypeOK /\ operator[o].targets \subseteq DOMAIN halts
  BY DEF HaltInv, AuditOK
<1>3. /\ halts' \in Seq(HaltRows) /\ DOMAIN halts' = DOMAIN halts
      /\ \A h \in DOMAIN halts :
           \/ halts'[h] = halts[h]
           \/ /\ halts'[h].type = halts[h].type /\ ~halts'[h].active
              /\ halts'[h].releasedAt = Cardinality(results)
      /\ \A h \in operator[o].targets \cap DOMAIN halts : ~halts'[h].active
      /\ \A t : ActiveOf(t)' \subseteq ActiveOf(t)
  BY <1>2, Released
<1>4. operator[o].targets \subseteq Nat
  BY <1>2, RowOfHalt
<1>5. /\ operator' \in [Operators -> Requested]
      /\ operator'[o].at = "released" /\ operator'[o].targets = operator[o].targets
      /\ operator'[o].logged = "nothing"
      /\ \A p \in Operators : p # o => operator'[p] = operator[p]
  BY <1>1, <1>2, <1>4, RequestRow
<1>6. HaltTypeOK'
  BY <1>1, <1>2, <1>3, <1>5 DEF HaltTypeOK
<1>7. ASSUME NEW p \in Operators PROVE AuditOK(p)'
  <2>1. CASE p = o
    BY <1>2, <1>3, <1>5, <2>1 DEF AuditOK
  <2>2. CASE p # o
    BY <1>3, <1>5, <2>2 DEF HaltInv, AuditOK
  <2> QED
    BY <2>1, <2>2
<1>8. \A s \in Settlers : PendingOK(s)'
  BY <1>1 DEF HaltInv, PendingOK
<1>9. ASSUME NEW type \in HaltTypes PROVE RaisersOK(type)'
  <2>1. Raising(type)' \subseteq Raising(type)
    BY <1>1, <1>5 DEF Raising
  <2> QED
    BY <1>2, <1>3, <2>1, RaisersStay DEF HaltInv
<1>10. Kept
  BY <1>3 DEF Kept
<1>11. /\ DailyLimitReached' => Followed("daily")'
       /\ StreakReached' => Followed("streak")'
  BY <1>1, <1>10, SameLimits, FollowedStays DEF HaltInv
<1> QED
  BY <1>6, <1>7, <1>8, <1>9, <1>11 DEF HaltInv

-----------------------------------------------------------------------------
(* Settlements.                                                             *)

(* A settlement that writes no row and commits no result.                   *)
LEMMA SettlementStep ==
  ASSUME HaltInv, NEW s \in Settlers, UNCHANGED <<halts, operator, results>>,
         settler' \in [Settlers -> Settlements],
         \A t \in Settlers : t # s => settler'[t] = settler[t],
         stamp' \in Nat, lost \subseteq lost', lost' \subseteq {"daily", "streak"},
         PendingOK(s)',
         \A type \in {"daily", "streak"} :
           /\ s \in Raising(type)' => (s \in Raising(type) \/ Existing(type) = {})
           /\ s \in Raising(type) => (s \in Raising(type)' \/ type \in lost'),
         settler[s].at = "settled" /\ DailyLimitReached => Followed("daily")',
         settler[s].at \in {"settled", "dailyChecked"} /\ StreakReached => Followed("streak")'
  PROVE  HaltInv'
<1>1. HaltTypeOK'
  BY DEF HaltInv, HaltTypeOK
<1>2. \A o \in Operators : AuditOK(o)'
  BY DEF HaltInv, AuditOK
<1>3. \A t \in Settlers : PendingOK(t)'
  BY DEF HaltInv, PendingOK
<1>4. ASSUME NEW type \in {"daily", "streak"}, NEW t \in Settlers, t # s
      PROVE  t \in Raising(type)' <=> t \in Raising(type)
  BY <1>4 DEF Raising
<1>5. ASSUME NEW type \in HaltTypes PROVE RaisersOK(type)'
  <2>1. CASE type = "manual"
    <3>1. Raising(type)' = Raising(type)
      BY <2>1 DEF Raising
    <3> QED
      BY <3>1, SameTable, RaisersStay DEF HaltInv
  <2>2. CASE type # "manual" /\ Existing(type) = {}
    BY <2>2, SameTable, RaisersStart
  <2>3. CASE type # "manual" /\ Existing(type) # {}
    <3>1. type \in {"daily", "streak"} /\ Raising(type) \subseteq Settlers /\ Raising(type)' \subseteq Settlers
      BY <2>3 DEF HaltTypes, Raising
    <3>2. Raising(type)' \subseteq Raising(type)
      BY <1>4, <2>3, <3>1
    <3> QED
      BY <3>2, SameTable, RaisersStay DEF HaltInv
  <2> QED
    BY <2>1, <2>2, <2>3
<1>6. ASSUME NEW type \in {"daily", "streak"}, Followed(type),
             settler[s].at # "settled", settler[s].at = "dailyChecked" => type # "streak"
      PROVE  Followed(type)'
  <2>1. CASE HaltedSince(type)
    BY <2>1, SameTable, HaltedStays DEF Followed
  <2>2. CASE type \in lost
    BY <2>2 DEF Followed
  <2>3. CASE Unchecked(type)
    <3>1. PICK t \in Settlers :
            \/ settler[t].at = "settled"
            \/ settler[t].at = "dailyChecked" /\ type = "streak"
            \/ t \in Raising(type)
      BY <2>3 DEF Unchecked
    <3>2. CASE t = s
      <4>1. s \in Raising(type)' \/ type \in lost'
        BY <1>6, <3>1, <3>2
      <4>2. ASSUME s \in Raising(type)' PROVE Unchecked(type)'
        BY <4>2 DEF Unchecked
      <4> QED
        BY <4>1, <4>2 DEF Followed
    <3>3. CASE t # s
      BY <1>4, <3>1, <3>3 DEF Followed, Unchecked
    <3> QED
      BY <3>2, <3>3
  <2> QED
    BY <1>6, <2>1, <2>2, <2>3 DEF Followed
<1>7. /\ DailyLimitReached' => Followed("daily")'
      /\ StreakReached' => Followed("streak")'
  BY <1>6, SameLimits DEF HaltInv
<1> QED
  BY <1>1, <1>2, <1>3, <1>5, <1>7 DEF HaltInv

LEMMA BuildResultStep ==
  ASSUME HaltInv, NEW s \in Settlers, BuildResult(s) PROVE HaltInv'
<1>1. PICK loss \in BOOLEAN :
        settler' = [settler EXCEPT ![s].at = "built", ![s].stamp = stamp + 1, ![s].loss = loss]
  BY DEF BuildResult
<1>2. /\ settler[s].at = "open" /\ stamp' = stamp + 1
      /\ UNCHANGED <<halts, operator, results, lost>>
  BY DEF BuildResult
<1>3. /\ settler \in [Settlers -> Settlements] /\ stamp \in Nat /\ lost \subseteq {"daily", "streak"}
      /\ PendingOK(s)
  BY DEF HaltInv, HaltTypeOK
<1> DEFINE row == [settler[s] EXCEPT !.at = "built", !.stamp = stamp + 1, !.loss = loss]
<1>6. /\ row \in Settlements /\ row.at = "built" /\ row.pending = settler[s].pending
  <2>1. settler[s] \in Settlements /\ stamp + 1 \in Nat
    BY <1>3
  <2> QED
    BY <2>1 DEF Settlements
<1>7. settler' = [settler EXCEPT ![s] = row]
  BY <1>1, <1>3
<1> HIDE DEF row
<1>4. /\ settler' \in [Settlers -> Settlements]
      /\ \A t \in Settlers : t # s => settler'[t] = settler[t]
      /\ settler'[s].at = "built" /\ settler'[s].pending = settler[s].pending
  BY <1>3, <1>6, <1>7
<1>5. PendingOK(s)' /\ \A type \in {"daily", "streak"} : s \notin Raising(type) /\ s \notin Raising(type)'
  BY <1>2, <1>3, <1>4 DEF PendingOK, Raising
<1> QED
  BY <1>2, <1>3, <1>4, <1>5, SettlementStep

(* A committed result may end what halts are worth; the settlement that     *)
(* committed it has yet to look.                                            *)
LEMMA CommitResultStep ==
  ASSUME HaltInv, NEW s \in Settlers, CommitResult(s) PROVE HaltInv'
<1>1. /\ settler[s].at = "built" /\ settler' = [settler EXCEPT ![s].at = "settled"]
      /\ results' = results \cup {[stamp |-> settler[s].stamp, loss |-> settler[s].loss]}
      /\ UNCHANGED <<halts, operator, stamp, lost>>
  BY DEF CommitResult, Step
<1>2. /\ settler \in [Settlers -> Settlements] /\ PendingOK(s)
      /\ IsFiniteSet(results) /\ results \subseteq [stamp : Nat, loss : BOOLEAN]
  BY DEF HaltInv, HaltTypeOK
<1>3. /\ settler' \in [Settlers -> Settlements]
      /\ \A t \in Settlers : t # s => settler'[t] = settler[t]
      /\ settler'[s].at = "settled" /\ settler'[s].pending = settler[s].pending
  BY <1>1, <1>2 DEF Settlements
<1>4. IsFiniteSet(results') /\ results' \subseteq [stamp : Nat, loss : BOOLEAN]
  <2> DEFINE row == [stamp |-> settler[s].stamp, loss |-> settler[s].loss]
  <2>1. row \in [stamp : Nat, loss : BOOLEAN]
    BY <1>2 DEF Settlements
  <2>2. IsFiniteSet(results \cup {row})
    BY <1>2, FS_AddElement
  <2> QED
    BY <1>1, <1>2, <2>1, <2>2
<1>5. HaltTypeOK'
  BY <1>1, <1>3, <1>4 DEF HaltInv, HaltTypeOK
<1>6. \A o \in Operators : AuditOK(o)'
  BY <1>1 DEF HaltInv, AuditOK
<1>7. \A t \in Settlers : PendingOK(t)'
  BY <1>1, <1>2, <1>3 DEF HaltInv, PendingOK
<1>8. ASSUME NEW type \in HaltTypes PROVE RaisersOK(type)'
  <2>1. Raising(type)' \subseteq Raising(type)
    BY <1>1, <1>3 DEF Raising
  <2> QED
    BY <1>1, <2>1, SameTable, RaisersStay DEF HaltInv
<1>9. \A type : Followed(type)'
  BY <1>3 DEF Followed, Unchecked
<1> QED
  BY <1>5, <1>6, <1>7, <1>8, <1>9 DEF HaltInv

(* A check that finds its limit reached finds a row in force, or will raise *)
(* one; a check of the other limit is left as it was.                       *)
LEMMA CheckedRow ==
  ASSUME HaltInv, NEW s \in Settlers, NEW type \in {"daily", "streak"}, NEW reached \in BOOLEAN,
         NEW from, NEW to \in {"dailyChecked", "checked"}, Checked(s, type, reached, from, to)
  PROVE  /\ settler[s].at = from /\ UNCHANGED <<halts, operator, results, stamp, lost>>
         /\ settler' \in [Settlers -> Settlements]
         /\ \A t \in Settlers : t # s => settler'[t] = settler[t]
         /\ settler'[s].at = to
         /\ settler'[s].pending = settler[s].pending
              \cup (IF reached /\ Existing(type) = {} THEN {type} ELSE {})
         /\ reached => Followed(type)'
<1>1. settler \in [Settlers -> Settlements]
  BY DEF HaltInv, HaltTypeOK
<1>2. /\ settler[s].at = from /\ UNCHANGED <<halts, operator, results, stamp, lost>>
      /\ settler' = [settler EXCEPT ![s].at = to,
             ![s].pending = @ \cup (IF reached /\ Existing(type) = {} THEN {type} ELSE {})]
  BY DEF Checked
<1>3. /\ settler' \in [Settlers -> Settlements]
      /\ \A t \in Settlers : t # s => settler'[t] = settler[t]
      /\ settler'[s].at = to
      /\ settler'[s].pending = settler[s].pending
           \cup (IF reached /\ Existing(type) = {} THEN {type} ELSE {})
  BY <1>1, <1>2 DEF Settlements
<1>4. ASSUME reached PROVE Followed(type)'
  <2>1. CASE Existing(type) = {}
    <3>1. s \in Raising(type)'
      BY <1>3, <1>4, <2>1 DEF Raising
    <3> QED
      BY <3>1 DEF Followed, Unchecked
  <2>2. CASE Existing(type) # {}
    <3>1. HaltedSince(type)
      BY <2>2 DEF HaltedSince, Existing, ActiveOf, ActiveHalts
    <3> QED
      BY <1>2, <3>1, SameTable, HaltedStays DEF Followed
  <2> QED
    BY <2>1, <2>2
<1> QED
  BY <1>2, <1>3, <1>4

LEMMA CheckDailyStep ==
  ASSUME HaltInv, NEW s \in Settlers, CheckDaily(s) PROVE HaltInv'
<1> DEFINE more == IF DailyLimitReached /\ Existing("daily") = {} THEN {"daily"} ELSE {}
<1>1. Checked(s, "daily", DailyLimitReached, "settled", "dailyChecked") /\ DailyLimitReached \in BOOLEAN
  BY DEF CheckDaily, DailyLimitReached
<1>2. /\ settler[s].at = "settled" /\ UNCHANGED <<halts, operator, results, stamp, lost>>
      /\ settler' \in [Settlers -> Settlements]
      /\ \A t \in Settlers : t # s => settler'[t] = settler[t]
      /\ settler'[s].at = "dailyChecked"
      /\ settler'[s].pending = settler[s].pending \cup more
      /\ DailyLimitReached => Followed("daily")'
  BY <1>1, CheckedRow
<1>3. settler[s].pending = {} /\ stamp \in Nat /\ lost \subseteq {"daily", "streak"}
  BY <1>2 DEF HaltInv, HaltTypeOK, PendingOK
<1>4. PendingOK(s)'
  BY <1>2 DEF PendingOK
<1>5. Followed("streak")'
  BY <1>2 DEF Followed, Unchecked
<1>6. ASSUME NEW type \in {"daily", "streak"}
      PROVE  s \notin Raising(type) /\ (s \in Raising(type)' => Existing(type) = {})
  BY <1>2, <1>3 DEF Raising
<1> QED
  BY <1>2, <1>3, <1>4, <1>5, <1>6, SettlementStep

LEMMA CheckStreakStep ==
  ASSUME HaltInv, NEW s \in Settlers, CheckStreak(s) PROVE HaltInv'
<1> DEFINE more == IF StreakReached /\ Existing("streak") = {} THEN {"streak"} ELSE {}
<1>1. Checked(s, "streak", StreakReached, "dailyChecked", "checked") /\ StreakReached \in BOOLEAN
  BY DEF CheckStreak, StreakReached
<1>2. /\ settler[s].at = "dailyChecked" /\ UNCHANGED <<halts, operator, results, stamp, lost>>
      /\ settler' \in [Settlers -> Settlements]
      /\ \A t \in Settlers : t # s => settler'[t] = settler[t]
      /\ settler'[s].at = "checked"
      /\ settler'[s].pending = settler[s].pending \cup more
      /\ StreakReached => Followed("streak")'
  BY <1>1, CheckedRow
<1>3. stamp \in Nat /\ lost \subseteq {"daily", "streak"}
  BY DEF HaltInv, HaltTypeOK
<1>4. PendingOK(s)'
  BY <1>2 DEF PendingOK
<1>5. ASSUME NEW type \in {"daily", "streak"}
      PROVE  /\ s \in Raising(type)' => (s \in Raising(type) \/ Existing(type) = {})
             /\ s \in Raising(type) => s \in Raising(type)'
  BY <1>2 DEF Raising
<1> QED
  BY <1>2, <1>3, <1>4, <1>5, SettlementStep

LEMMA CheckIsLostStep ==
  ASSUME HaltInv, NEW s \in Settlers, CheckIsLost(s) PROVE HaltInv'
<1>1. /\ settler[s].at \in {"settled", "dailyChecked", "checked"}
      /\ settler' = [settler EXCEPT ![s].at = "done"]
      /\ lost' = lost \cup (IF settler[s].at = "checked" THEN settler[s].pending ELSE {"daily", "streak"})
      /\ UNCHANGED <<halts, operator, results, stamp>>
  BY DEF CheckIsLost
<1>2. settler \in [Settlers -> Settlements] /\ stamp \in Nat /\ lost \subseteq {"daily", "streak"}
  BY DEF HaltInv, HaltTypeOK
<1>3. /\ settler' \in [Settlers -> Settlements]
      /\ \A t \in Settlers : t # s => settler'[t] = settler[t]
      /\ settler'[s].at = "done"
      /\ settler[s].pending \subseteq {"daily", "streak"}
  BY <1>1, <1>2 DEF Settlements
<1>4. lost \subseteq lost' /\ lost' \subseteq {"daily", "streak"}
  BY <1>1, <1>2, <1>3
<1>5. PendingOK(s)'
  BY <1>3 DEF PendingOK
<1>6. ASSUME NEW type \in {"daily", "streak"}
      PROVE  s \notin Raising(type)' /\ (s \in Raising(type) => type \in lost')
  BY <1>1, <1>3 DEF Raising
<1>7. settler[s].at \in {"settled", "dailyChecked"} => Followed("daily")' /\ Followed("streak")'
  BY <1>1 DEF Followed
<1> QED
  BY <1>1, <1>2, <1>3, <1>4, <1>5, <1>6, <1>7, SettlementStep

LEMMA CommitCheckStep ==
  ASSUME HaltInv, NEW s \in Settlers, CommitCheck(s) PROVE HaltInv'
<1> DEFINE types == settler[s].pending
<1>1. /\ settler[s].at = "checked" /\ settler' = [settler EXCEPT ![s].at = "done"]
      /\ halts' = halts \o RaisedRows(types)
      /\ UNCHANGED <<operator, results, stamp, lost>>
  BY DEF CommitCheck, Step
<1>2. HaltTypeOK /\ settler \in [Settlers -> Settlements] /\ types \in SUBSET {"daily", "streak"}
  <2>1. HaltTypeOK /\ settler \in [Settlers -> Settlements]
    BY DEF HaltInv, HaltTypeOK
  <2> QED
    BY <2>1 DEF Settlements
<1>3. /\ settler' \in [Settlers -> Settlements]
      /\ \A t \in Settlers : t # s => settler'[t] = settler[t]
      /\ settler'[s].at = "done"
  BY <1>1, <1>2 DEF Settlements
<1>4. /\ halts' \in Seq(HaltRows) /\ Extended
      /\ \A t \in HaltTypes \ types : ActiveOf(t)' = ActiveOf(t)
      /\ \A t \in types : \E h : /\ h \in DOMAIN halts' /\ h \notin DOMAIN halts
                                /\ ActiveOf(t)' = ActiveOf(t) \cup {h}
  <2> HIDE DEF types
  <2> QED
    BY <1>1, <1>2, SomeRaised
<1>5. HaltTypeOK'
  BY <1>1, <1>2, <1>3, <1>4 DEF HaltTypeOK
<1>6. \A o \in Operators : AuditOK(o)'
  BY <1>1, <1>4 DEF HaltInv, AuditOK, Extended
<1>7. \A t \in Settlers : PendingOK(t)'
  BY <1>3 DEF HaltInv, PendingOK
<1>8. ASSUME NEW type \in {"daily", "streak"}
      PROVE  /\ Raising(type)' = Raising(type) \ {s}
             /\ s \in Raising(type) <=> type \in types
  BY <1>1, <1>2, <1>3 DEF Raising
<1>9. ASSUME NEW type \in HaltTypes PROVE RaisersOK(type)'
  <2>1. CASE type \in types
    <3>1. s \in Raising(type) /\ Raising(type)' = Raising(type) \ {s}
      BY <1>2, <1>8, <2>1
    <3>2. PICK h : ActiveOf(type)' = ActiveOf(type) \cup {h}
      BY <1>4, <2>1
    <3> QED
      BY <1>2, <3>1, <3>2, RaiserInserts DEF HaltInv
  <2>2. CASE type \notin types
    <3>1. ActiveOf(type)' = ActiveOf(type)
      BY <1>4, <2>2
    <3>2. Raising(type)' \subseteq Raising(type)
      BY <1>1, <1>3 DEF Raising
    <3> QED
      BY <1>2, <3>1, <3>2, RaisersStay DEF HaltInv
  <2> QED
    BY <2>1, <2>2
<1>10. Kept
  BY <1>4 DEF Kept, Extended
<1>11. ASSUME NEW type \in types PROVE Followed(type)'
  <2>1. PICK h : h \in DOMAIN halts' /\ ActiveOf(type)' = ActiveOf(type) \cup {h}
    BY <1>4
  <2>2. h \in ActiveOf(type)'
    BY <2>1
  <2> QED
    BY <2>2 DEF Followed, HaltedSince, ActiveOf, ActiveHalts
<1>12. ASSUME NEW type \in {"daily", "streak"}, Followed(type) PROVE Followed(type)'
  <2>1. CASE HaltedSince(type)
    BY <1>1, <1>10, <2>1, HaltedStays DEF Followed
  <2>2. CASE type \in lost
    BY <1>1, <2>2 DEF Followed
  <2>3. CASE Unchecked(type)
    <3>1. PICK t \in Settlers :
            \/ settler[t].at = "settled"
            \/ settler[t].at = "dailyChecked" /\ type = "streak"
            \/ t \in Raising(type)
      BY <2>3 DEF Unchecked
    <3>2. CASE t = s
      BY <1>1, <1>8, <1>11, <3>1, <3>2
    <3>3. CASE t # s
      BY <1>3, <1>8, <3>1, <3>3 DEF Followed, Unchecked
    <3> QED
      BY <3>2, <3>3
  <2> QED
    BY <1>12, <2>1, <2>2, <2>3 DEF Followed
<1>13. /\ DailyLimitReached' => Followed("daily")'
       /\ StreakReached' => Followed("streak")'
  BY <1>1, <1>12, SameLimits DEF HaltInv
<1> QED
  BY <1>5, <1>6, <1>7, <1>9, <1>13 DEF HaltInv

-----------------------------------------------------------------------------
LEMMA HaltInitOK == ASSUME HaltInit PROVE HaltInv
<1>1. PICK cast \in Casts :
        /\ operator = [o \in Operators |->
              [NoRequest EXCEPT !.at = IF o \in cast THEN "idle" ELSE "away"]]
        /\ settler = [s \in Settlers |-> [at |-> IF s \in cast THEN "open" ELSE "away",
                                          stamp |-> 0, loss |-> FALSE, pending |-> {}]]
  BY DEF HaltInit
<1>2. halts = <<>> /\ results = {} /\ stamp = 0 /\ lost = {}
  BY DEF HaltInit
<1>3. operator \in [Operators -> Requested] /\ settler \in [Settlers -> Settlements]
  BY <1>1 DEF NoRequest, Requested, Settlements
<1>4. HaltTypeOK
  BY <1>2, <1>3, FS_EmptySet DEF HaltTypeOK
<1>5. \A o \in Operators : AuditOK(o) /\ operator[o].at # "raising"
  BY <1>1 DEF NoRequest, AuditOK
<1>6. \A s \in Settlers : PendingOK(s) /\ settler[s].at \in {"open", "away"}
  BY <1>1 DEF PendingOK
<1>7. ASSUME NEW type \in HaltTypes PROVE RaisersOK(type)
  <2>1. ActiveOf(type) = {}
    BY <1>2 DEF ActiveOf, ActiveHalts
  <2> QED
    BY <2>1, FS_EmptySet, RaisingFinite DEF RaisersOK
<1>8. ~DailyLimitReached /\ ~StreakReached
  <2>1. Losses = {} /\ Latest = {} /\ Cardinality({}) = 0
    BY <1>2, FS_EmptySet DEF Losses, Latest
  <2>2. ~DailyLimitReached
    BY <2>1, HaltAssumption DEF DailyLimitReached
  <2>3. ~StreakReached
    BY <2>1 DEF StreakReached
  <2> QED
    BY <2>2, <2>3
<1> QED
  BY <1>4, <1>5, <1>6, <1>7, <1>8 DEF HaltInv

LEMMA HaltStutter == ASSUME HaltInv, UNCHANGED haltVars PROVE HaltInv'
<1>1. UNCHANGED <<halts, operator, settler, results, stamp, lost>>
  BY DEF haltVars
<1>2. HaltTypeOK' /\ (\A o \in Operators : AuditOK(o)') /\ \A s \in Settlers : PendingOK(s)'
  BY <1>1 DEF HaltInv, HaltTypeOK, AuditOK, PendingOK
<1>3. ASSUME NEW type \in HaltTypes PROVE RaisersOK(type)'
  <2>1. Raising(type)' = Raising(type)
    BY <1>1 DEF Raising
  <2> QED
    BY <1>1, <2>1, SameTable, RaisersStay DEF HaltInv
<1>4. /\ DailyLimitReached' => Followed("daily")'
      /\ StreakReached' => Followed("streak")'
  BY <1>1, SameTable, SameLimits, FollowedStays DEF HaltInv
<1> QED
  BY <1>2, <1>3, <1>4 DEF HaltInv

(* The invariant holds, whatever operators and settlements do.              *)
THEOREM HaltsInvariant == HaltSpec => []HaltInv
<1>1. HaltInit => HaltInv
  BY HaltInitOK
<1>2. HaltInv /\ [HaltNext]_haltVars => HaltInv'
  <2>1. ASSUME HaltInv, NEW o \in Operators,
               \/ RaiseManual(o) \/ CommitRaise(o)
               \/ \E h \in DOMAIN halts : ReleaseOne(o, h)
               \/ ReleaseAll(o) \/ CommitRelease(o)
               \/ Audit(o) \/ RequestFails(o)
        PROVE  HaltInv'
    BY <2>1, RaiseManualStep, CommitRaiseStep, ReleaseStep, CommitReleaseStep, AuditStep, RequestFailsStep
  <2>2. ASSUME HaltInv, NEW s \in Settlers,
               \/ BuildResult(s) \/ CommitResult(s) \/ CheckDaily(s)
               \/ CheckStreak(s) \/ CommitCheck(s) \/ CheckIsLost(s)
        PROVE  HaltInv'
    BY <2>2, BuildResultStep, CommitResultStep, CheckDailyStep, CheckStreakStep, CommitCheckStep, CheckIsLostStep
  <2> QED
    BY <2>1, <2>2, HaltStutter DEF HaltNext
<1> QED
  BY <1>1, <1>2, PTL DEF HaltSpec

(* Losses stop trading: after any order of settlements, checks and          *)
(* releases, a limit that is reached has its halt (HaltManager              *)
(* check_and_halt_if_needed, called by finalize_exit and close_position).   *)
THEOREM HaltSpecHaltsOnLosses == HaltSpec => []LossesHaltTrading
<1>1. HaltInv => LossesHaltTrading
  <2> SUFFICES ASSUME HaltInv, Quiet
               PROVE  /\ DailyLimitReached => HaltedSince("daily") \/ "daily" \in lost
                      /\ StreakReached => HaltedSince("streak") \/ "streak" \in lost
    BY DEF LossesHaltTrading
  <2>1. \A type \in {"daily", "streak"} : ~Unchecked(type)
    BY DEF Quiet, Unchecked, Raising
  <2> QED
    BY <2>1 DEF HaltInv, Followed
<1> QED
  BY <1>1, HaltsInvariant, PTL

(* activate_halt is asked by so many sessions at most: duplicates of an     *)
(* active halt are bounded by them, for any number of requests they make.   *)
THEOREM HaltSpecBoundsDuplicates == HaltSpec => []DuplicatesAreBounded
<1>1. HaltInv => DuplicatesAreBounded
  <2> SUFFICES ASSUME HaltInv, NEW type \in {"manual", "daily", "streak"}
               PROVE  Cardinality(ActiveOf(type)) <= Cardinality(SessionsOf(type))
    BY DEF DuplicatesAreBounded, SessionsOf
  <2>1. RaisersOK(type) /\ HaltTypeOK
    BY DEF HaltInv, HaltTypes
  <2> QED
    BY <2>1, ActiveFinite, RaisingFinite DEF RaisersOK
<1> QED
  BY <1>1, HaltsInvariant, PTL

(* The management UI logs a halt or its release only once the transaction   *)
(* of the other database is committed, and nothing takes it back.           *)
THEOREM HaltSpecAuditIsTrue == HaltSpec => []UiAuditIsTrue
<1>1. HaltInv => UiAuditIsTrue
  BY HaltAssumption DEF HaltInv, AuditOK, UiAuditIsTrue
<1> QED
  BY <1>1, HaltsInvariant, PTL
=============================================================================
