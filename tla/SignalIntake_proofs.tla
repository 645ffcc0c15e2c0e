------------------------ MODULE SignalIntake_proofs ------------------------
(***************************************************************************)
(* TLAPS proofs about SignalIntake: for every number of requests with one  *)
(* key, whichever of Redis, the database and the process fail.             *)
(***************************************************************************)
EXTENDS SignalIntake, FiniteSetTheorems, TLAPS

Places == {"new", "checked", "inserted", "registered", "committed", "answered"}
Kinds  == {"none", "accepted", "refused", "error"}
Names  == Requests \cup {NoKey, "unknown"}

IntakeTypeOK ==
  /\ request \in [Requests -> [at : Places, answer : [kind : Kinds, names : Names]]]
  /\ cached \in Requests \cup {NoKey}
  /\ holder \in Requests \cup {NoKey}
  /\ rowCommitted \in BOOLEAN
  /\ tasks \subseteq Requests
  /\ runs \in [Requests -> Nat]
  /\ broken \subseteq Requests

Accepted(r) == request[r].answer.kind = "accepted"

(* Who may be where: a request in a transaction holds the key, uncommitted; *)
(* a request past its commit holds it for good.                             *)
HolderOK ==
  /\ rowCommitted => holder # NoKey
  /\ \A r \in Requests :
       /\ request[r].at # "answered" => request[r].answer = Unanswered
       /\ request[r].at \in {"inserted", "registered"} => holder = r /\ ~rowCommitted
       /\ request[r].at = "committed" \/ Accepted(r) \/ r \in tasks \/ runs[r] # 0
            => holder = r /\ rowCommitted
       /\ request[r].at = "committed" => r \notin tasks /\ runs[r] = 0
       /\ r \in tasks \/ runs[r] # 0 => Accepted(r)
       /\ r \in tasks => runs[r] = 0
       /\ runs[r] <= 1

(* What a duplicate may name: the stored signal, or one whose transaction   *)
(* is open or was ended by a fault.                                         *)
Known(x) ==
  \/ holder = x /\ rowCommitted
  \/ request[x].at = "registered"
  \/ x \in broken

(* The cause of an error, apart from a fault of its own.                    *)
Caused(r) ==
  \E s \in Requests \ {r} : request[r].answer.names \in {s, "unknown"} /\ Known(s)

(* Redis holds only what a duplicate may name, and who holds the key for    *)
(* good, or met a fault, is past its commit.                                *)
CacheOK == \A x \in Requests : cached = x => Known(x)

PlacesOK ==
  \A r \in Requests : (holder = r /\ rowCommitted) \/ r \in broken
                      => request[r].at \in {"committed", "answered"}

IntakeInv ==
  /\ IntakeTypeOK /\ HolderOK /\ CacheOK /\ PlacesOK
  /\ ErrorsHaveCause /\ StoredSignalIsHandled

(* Causes stay causes: a step keeps every error explained if it explains    *)
(* the errors it gives.                                                     *)
LEMMA CausesStay ==
  ASSUME IntakeInv, broken \subseteq broken', \A x \in Requests : Known(x) => Known(x)',
         \A q \in Requests : \/ request'[q].answer = request[q].answer
                             \/ request'[q].answer.kind # "error"
                             \/ q \in broken' \/ Caused(q)'
  PROVE  ErrorsHaveCause'
<1>1. \A q \in Requests : request[q].answer.kind = "error" /\ q \notin broken => Caused(q)
  BY DEF IntakeInv, ErrorsHaveCause, Caused, Known
<1>2. \A q \in Requests : Caused(q) /\ request'[q].answer = request[q].answer => Caused(q)'
  BY DEF Caused
<1>3. \A q \in Requests : request'[q].answer.kind = "error" /\ q \notin broken' => Caused(q)'
  BY <1>1, <1>2
<1> QED
  BY <1>3 DEF ErrorsHaveCause, Caused, Known

-----------------------------------------------------------------------------
(* What a request does to the others and to itself.                         *)
LEMMA GoesRow ==
  ASSUME IntakeTypeOK, NEW r \in Requests, NEW p \in Places, Goes(r, p)
  PROVE  /\ request' \in [Requests -> [at : Places, answer : [kind : Kinds, names : Names]]]
         /\ request'[r].at = p /\ request'[r].answer = request[r].answer
         /\ \A q \in Requests : q # r => request'[q] = request[q]
BY DEF IntakeTypeOK, Goes

LEMMA EndsRow ==
  ASSUME IntakeTypeOK, NEW r \in Requests,
         NEW a \in [kind : Kinds, names : Names], Ends(r, a)
  PROVE  /\ request' \in [Requests -> [at : Places, answer : [kind : Kinds, names : Names]]]
         /\ request'[r].at = "answered" /\ request'[r].answer = a
         /\ \A q \in Requests : q # r => request'[q] = request[q]
BY DEF IntakeTypeOK, Ends, Places

LEMMA AnswersOK ==
  /\ Unanswered \in [kind : Kinds, names : Names]
  /\ Refusal \in [kind : Kinds, names : Names]
  /\ Failure \in [kind : Kinds, names : Names]
  /\ \A x \in Names : /\ Duplicate(x) \in [kind : Kinds, names : Names]
                      /\ [kind |-> "accepted", names |-> x] \in [kind : Kinds, names : Names]
BY DEF Unanswered, Refusal, Failure, Duplicate, Kinds, Names

LEMMA InitOK == ASSUME IntakeInit PROVE IntakeInv
<1>1. \A r \in Requests : request[r] = [at |-> "new", answer |-> Unanswered]
  BY DEF IntakeInit
<1>2. request \in [Requests -> [at : Places, answer : [kind : Kinds, names : Names]]]
  BY AnswersOK DEF IntakeInit, Places
<1>3. runs \in [Requests -> Nat] /\ \A r \in Requests : runs[r] = 0
  BY DEF IntakeInit
<1>4. IntakeTypeOK
  BY <1>2, <1>3 DEF IntakeInit, IntakeTypeOK
<1>5. HolderOK
  BY <1>1, <1>3 DEF IntakeInit, HolderOK, Accepted, Unanswered, Unanswered
<1>6. CacheOK /\ PlacesOK /\ ErrorsHaveCause
  BY <1>1, IntakeAssumption
  DEF IntakeInit, CacheOK, PlacesOK, ErrorsHaveCause, Unanswered, NoKey
<1>7. StoredSignalIsHandled
  BY DEF IntakeInit, StoredSignalIsHandled
<1> QED
  BY <1>4, <1>5, <1>6, <1>7 DEF IntakeInv

-----------------------------------------------------------------------------
(* One lemma per kind of step.                                              *)

LEMMA RefuseOK == ASSUME IntakeInv, NEW r \in Requests, Refuse(r) PROVE IntakeInv'
<1>1. IntakeTypeOK /\ Ends(r, Refusal) /\ Refusal \in [kind : Kinds, names : Names]
  BY AnswersOK DEF IntakeInv, Refuse
<1>2. /\ request' \in [Requests -> [at : Places, answer : [kind : Kinds, names : Names]]]
      /\ request'[r].at = "answered" /\ request'[r].answer = Refusal
      /\ \A q \in Requests : q # r => request'[q] = request[q]
  BY <1>1, EndsRow
<1>5. IntakeTypeOK'
  BY <1>2 DEF IntakeInv, IntakeTypeOK, Refuse, Refusal
<1>6. HolderOK'
  BY <1>2 DEF IntakeInv, IntakeTypeOK, HolderOK, Accepted, Unanswered, Refuse, Refusal
<1>7. \A x \in Requests : Known(x) => Known(x)'
  BY <1>2 DEF IntakeInv, HolderOK, Known, Refuse, Refusal
<1>8. CacheOK' /\ PlacesOK' /\ ErrorsHaveCause'
  <2>1. CacheOK' /\ PlacesOK'
    BY <1>2, <1>7 DEF IntakeInv, IntakeTypeOK, HolderOK, CacheOK, PlacesOK, Known, Refuse, Refusal
  <2>2. ErrorsHaveCause'
    BY <1>2, <1>7, CausesStay DEF Refuse, Refusal
  <2> QED
    BY <2>1, <2>2
<1>9. StoredSignalIsHandled'
  BY <1>2 DEF IntakeInv, IntakeTypeOK, HolderOK, StoredSignalIsHandled, Refuse, Refusal
<1> QED
  BY <1>5, <1>6, <1>8, <1>9 DEF IntakeInv

LEMMA CheckRedisOK == ASSUME IntakeInv, NEW r \in Requests, CheckRedis(r) PROVE IntakeInv'
<1>1. CASE cached # NoKey /\ Ends(r, Duplicate(cached))
  <2>1. Duplicate(cached) \in [kind : Kinds, names : Names] /\ cached \in Requests
    BY <1>1, AnswersOK DEF IntakeInv, IntakeTypeOK, Names
  <2>2. IntakeTypeOK /\ cached # "unknown"
    BY <2>1, IntakeAssumption DEF IntakeInv
  <2>3. /\ request' \in [Requests -> [at : Places, answer : [kind : Kinds, names : Names]]]
        /\ request'[r].at = "answered" /\ request'[r].answer = Duplicate(cached)
        /\ \A q \in Requests : q # r => request'[q] = request[q]
    BY <1>1, <2>1, <2>2, EndsRow
  <2>5. IntakeTypeOK'
    BY <1>1, <2>1, <2>2, <2>3 DEF IntakeInv, IntakeTypeOK, CheckRedis, Duplicate
  <2>6. HolderOK'
    BY <1>1, <2>1, <2>2, <2>3 DEF IntakeInv, IntakeTypeOK, HolderOK, Accepted, Unanswered, CheckRedis, Duplicate
  <2>7. \A x \in Requests : Known(x) => Known(x)'
    BY <1>1, <2>1, <2>2, <2>3 DEF IntakeInv, HolderOK, Known, CheckRedis, Duplicate
  <2>8. CacheOK' /\ PlacesOK' /\ ErrorsHaveCause'
    <3>1. CacheOK' /\ PlacesOK'
      BY <1>1, <2>3, <2>7 DEF IntakeInv, CacheOK, PlacesOK, CheckRedis
    <3>2. Known(cached) /\ cached # r
      BY <2>1 DEF IntakeInv, CacheOK, PlacesOK, Known, CheckRedis
    <3>3. request'[r].answer.names = cached
      BY <2>3 DEF Duplicate
    <3>4. Caused(r)'
      BY <2>1, <2>7, <3>2, <3>3 DEF Caused
    <3>5. UNCHANGED broken
      BY DEF CheckRedis
    <3>6. ErrorsHaveCause'
      BY <2>3, <2>7, <3>4, <3>5, CausesStay
    <3> QED
      BY <3>1, <3>6
  <2>9. StoredSignalIsHandled'
    BY <1>1, <2>1, <2>2, <2>3 DEF IntakeInv, IntakeTypeOK, HolderOK, StoredSignalIsHandled, CheckRedis, Duplicate
  <2> QED
    BY <2>5, <2>6, <2>8, <2>9 DEF IntakeInv
<1>2. CASE Goes(r, "checked")
  <2>1. IntakeTypeOK /\ "checked" \in Places
    BY DEF IntakeInv, Places
  <2>2. /\ request' \in [Requests -> [at : Places, answer : [kind : Kinds, names : Names]]]
        /\ request'[r].at = "checked" /\ request'[r].answer = request[r].answer
        /\ \A q \in Requests : q # r => request'[q] = request[q]
    BY <1>2, <2>1, GoesRow
  <2>5. IntakeTypeOK'
    BY <2>2 DEF IntakeInv, IntakeTypeOK, CheckRedis
  <2>6. HolderOK'
    BY <2>2 DEF IntakeInv, IntakeTypeOK, HolderOK, Accepted, Unanswered, CheckRedis
  <2>7. \A x \in Requests : Known(x) => Known(x)'
    BY <2>2 DEF IntakeInv, HolderOK, Known, CheckRedis
  <2>8. CacheOK' /\ PlacesOK' /\ ErrorsHaveCause'
    <3>1. CacheOK' /\ PlacesOK'
      BY <2>2, <2>7 DEF IntakeInv, IntakeTypeOK, HolderOK, CacheOK, PlacesOK, Known, CheckRedis
    <3>2. ErrorsHaveCause'
      BY <2>2, <2>7, CausesStay DEF CheckRedis
    <3> QED
      BY <3>1, <3>2
  <2>9. StoredSignalIsHandled'
    BY <2>2 DEF IntakeInv, IntakeTypeOK, HolderOK, StoredSignalIsHandled, CheckRedis
  <2> QED
    BY <2>5, <2>6, <2>8, <2>9 DEF IntakeInv
<1> QED
  BY <1>1, <1>2 DEF CheckRedis

LEMMA InsertOK == ASSUME IntakeInv, NEW r \in Requests, Insert(r) PROVE IntakeInv'
<1>1. IntakeTypeOK /\ "inserted" \in Places /\ Goes(r, "inserted") /\ r # NoKey
  BY IntakeAssumption DEF IntakeInv, Places, Insert, NoKey
<1>2. /\ request' \in [Requests -> [at : Places, answer : [kind : Kinds, names : Names]]]
      /\ request'[r].at = "inserted" /\ request'[r].answer = request[r].answer
      /\ \A q \in Requests : q # r => request'[q] = request[q]
  BY <1>1, GoesRow
<1>5. IntakeTypeOK'
  BY <1>1, <1>2 DEF IntakeInv, IntakeTypeOK, Insert
<1>6. HolderOK'
  BY <1>1, <1>2, IntakeAssumption DEF IntakeInv, IntakeTypeOK, HolderOK, Accepted,
     Unanswered, NoKey, Insert
<1>7. \A x \in Requests : Known(x) => Known(x)'
  BY <1>1, <1>2, IntakeAssumption DEF IntakeInv, HolderOK, Known, NoKey, Insert
<1>8. CacheOK' /\ PlacesOK' /\ ErrorsHaveCause'
  <2>1. CacheOK' /\ PlacesOK'
    BY <1>1, <1>2, <1>7 DEF IntakeInv, IntakeTypeOK, HolderOK, CacheOK, PlacesOK, Known, Insert
  <2>2. ErrorsHaveCause'
    BY <1>1, <1>2, <1>7, CausesStay DEF Insert
  <2> QED
    BY <2>1, <2>2
<1>9. StoredSignalIsHandled'
  BY <1>1, <1>2 DEF IntakeInv, IntakeTypeOK, HolderOK, StoredSignalIsHandled, NoKey, Insert
<1> QED
  BY <1>5, <1>6, <1>8, <1>9 DEF IntakeInv

LEMMA InsertClashOK == ASSUME IntakeInv, NEW r \in Requests, InsertClash(r) PROVE IntakeInv'
<1>1. PICK id \in ExistingId(r) : Ends(r, Duplicate(id))
  BY DEF InsertClash
<1>2. /\ id \in Names /\ id # NoKey
      /\ id \in Requests => id = holder /\ rowCommitted
  BY <1>1, IntakeAssumption
  DEF ExistingId, Names, NoKey, IntakeInv, IntakeTypeOK, HolderOK, InsertClash
<1>3. IntakeTypeOK /\ Duplicate(id) \in [kind : Kinds, names : Names]
  BY <1>2, AnswersOK DEF IntakeInv
<1>4. /\ request' \in [Requests -> [at : Places, answer : [kind : Kinds, names : Names]]]
      /\ request'[r].at = "answered" /\ request'[r].answer = Duplicate(id)
      /\ \A q \in Requests : q # r => request'[q] = request[q]
  BY <1>1, <1>3, EndsRow
<1>5. IntakeTypeOK'
  BY <1>2, <1>4 DEF IntakeInv, IntakeTypeOK, InsertClash, Duplicate
<1>6. HolderOK'
  <2>1. request[r].answer.kind = "none" /\ request'[r].answer.kind = "error"
    BY <1>4 DEF IntakeInv, HolderOK, InsertClash, Unanswered, Duplicate
  <2> QED
    BY <1>4, <2>1 DEF IntakeInv, HolderOK, Accepted, InsertClash
<1>7. \A x \in Requests : Known(x) => Known(x)'
  BY <1>2, <1>4 DEF IntakeInv, HolderOK, Known, InsertClash, Duplicate
<1>8. CacheOK' /\ PlacesOK' /\ ErrorsHaveCause'
  <2>1. CacheOK' /\ PlacesOK'
    BY <1>4, <1>7 DEF IntakeInv, CacheOK, PlacesOK, InsertClash
  <2>2. holder \in Requests /\ holder # r /\ Known(holder)
    BY DEF IntakeInv, IntakeTypeOK, HolderOK, PlacesOK, Known, InsertClash
  <2>3. request'[r].answer.names \in {holder, "unknown"}
    BY <1>1, <1>4 DEF Duplicate, ExistingId
  <2>4. Caused(r)'
    BY <1>7, <2>2, <2>3 DEF Caused
  <2>5. UNCHANGED broken
    BY DEF InsertClash
  <2>6. ErrorsHaveCause'
    BY <1>4, <1>7, <2>4, <2>5, CausesStay
  <2> QED
    BY <2>1, <2>6
<1>9. StoredSignalIsHandled'
  BY <1>2, <1>4 DEF IntakeInv, IntakeTypeOK, HolderOK, StoredSignalIsHandled, InsertClash, Duplicate
<1> QED
  BY <1>5, <1>6, <1>8, <1>9 DEF IntakeInv

LEMMA RegisterOK == ASSUME IntakeInv, NEW r \in Requests, Register(r) PROVE IntakeInv'
<1>1. IntakeTypeOK /\ "registered" \in Places /\ Goes(r, "registered")
  BY DEF IntakeInv, Places, Register
<1>2. /\ request' \in [Requests -> [at : Places, answer : [kind : Kinds, names : Names]]]
      /\ request'[r].at = "registered" /\ request'[r].answer = request[r].answer
      /\ \A q \in Requests : q # r => request'[q] = request[q]
  BY <1>1, GoesRow
<1>5. IntakeTypeOK'
  BY <1>2 DEF IntakeInv, IntakeTypeOK, Register
<1>6. HolderOK'
  BY <1>2 DEF IntakeInv, IntakeTypeOK, HolderOK, Accepted, Unanswered, Register
<1>7. \A x \in Requests : Known(x) => Known(x)'
  BY <1>2 DEF IntakeInv, HolderOK, Known, Register
<1>8. CacheOK' /\ PlacesOK' /\ ErrorsHaveCause'
  <2>1. CacheOK' /\ PlacesOK'
    BY <1>2, <1>7 DEF IntakeInv, IntakeTypeOK, HolderOK, CacheOK, PlacesOK, Known, Register
  <2>2. ErrorsHaveCause'
    BY <1>2, <1>7, CausesStay DEF Register
  <2> QED
    BY <2>1, <2>2
<1>9. StoredSignalIsHandled'
  BY <1>2 DEF IntakeInv, IntakeTypeOK, HolderOK, StoredSignalIsHandled, Register
<1> QED
  BY <1>5, <1>6, <1>8, <1>9 DEF IntakeInv

LEMMA CommitOK == ASSUME IntakeInv, NEW r \in Requests, Commit(r) PROVE IntakeInv'
<1>0. holder = r /\ ~rowCommitted /\ r # NoKey
  BY IntakeAssumption DEF IntakeInv, HolderOK, Commit, NoKey
<1>1. CASE rowCommitted' = TRUE /\ Goes(r, "committed") /\ UNCHANGED <<holder, broken>>
  <2>1. IntakeTypeOK /\ "committed" \in Places
    BY DEF IntakeInv, Places
  <2>2. /\ request' \in [Requests -> [at : Places, answer : [kind : Kinds, names : Names]]]
        /\ request'[r].at = "committed" /\ request'[r].answer = request[r].answer
        /\ \A q \in Requests : q # r => request'[q] = request[q]
    BY <1>1, <2>1, GoesRow
  <2>5. IntakeTypeOK'
    BY <1>0, <1>1, <2>2 DEF IntakeInv, IntakeTypeOK, Commit
  <2>6. HolderOK'
    BY <1>0, <1>1, <2>2 DEF IntakeInv, IntakeTypeOK, HolderOK, Accepted, Unanswered, Commit
  <2>7. \A x \in Requests : Known(x) => Known(x)'
    BY <1>0, <1>1, <2>2 DEF IntakeInv, HolderOK, Known, Commit
  <2>8. CacheOK' /\ PlacesOK' /\ ErrorsHaveCause'
    <3>1. CacheOK' /\ PlacesOK'
      BY <1>0, <1>1, <2>2, <2>7 DEF IntakeInv, IntakeTypeOK, HolderOK, CacheOK, PlacesOK, Known, Commit
    <3>2. ErrorsHaveCause'
      BY <1>0, <1>1, <2>2, <2>7, CausesStay DEF Commit
    <3> QED
      BY <3>1, <3>2
  <2>9. StoredSignalIsHandled'
    BY <1>0, <1>1, <2>2 DEF IntakeInv, IntakeTypeOK, HolderOK, StoredSignalIsHandled, Commit
  <2> QED
    BY <2>5, <2>6, <2>8, <2>9 DEF IntakeInv
<1>2. CASE /\ holder' = NoKey /\ broken' = broken \cup {r}
           /\ Ends(r, Failure) /\ UNCHANGED rowCommitted
  <2>1. IntakeTypeOK /\ Failure \in [kind : Kinds, names : Names]
    BY AnswersOK DEF IntakeInv
  <2>2. /\ request' \in [Requests -> [at : Places, answer : [kind : Kinds, names : Names]]]
        /\ request'[r].at = "answered" /\ request'[r].answer = Failure
        /\ \A q \in Requests : q # r => request'[q] = request[q]
    BY <1>2, <2>1, EndsRow
  <2>5. IntakeTypeOK'
    BY <1>0, <1>2, <2>2 DEF IntakeInv, IntakeTypeOK, Commit, Failure
  <2>6. HolderOK'
    BY <1>0, <1>2, <2>2 DEF IntakeInv, IntakeTypeOK, HolderOK, Accepted, Unanswered, Commit, Failure
  <2>7. \A x \in Requests : Known(x) => Known(x)'
    BY <1>0, <1>2, <2>2 DEF IntakeInv, HolderOK, Known, Commit, Failure
  <2>8. CacheOK' /\ PlacesOK' /\ ErrorsHaveCause'
    <3>1. CacheOK' /\ PlacesOK'
      BY <1>0, <1>2, <2>2, <2>7 DEF IntakeInv, IntakeTypeOK, HolderOK, CacheOK, PlacesOK, Known, Commit, Failure
    <3>2. ErrorsHaveCause'
      BY <1>0, <1>2, <2>2, <2>7, CausesStay DEF Commit, Failure
    <3> QED
      BY <3>1, <3>2
  <2>9. StoredSignalIsHandled'
    BY <1>0, <1>2, <2>2 DEF IntakeInv, IntakeTypeOK, HolderOK, StoredSignalIsHandled, Commit, Failure
  <2> QED
    BY <2>5, <2>6, <2>8, <2>9 DEF IntakeInv
<1> QED
  BY <1>1, <1>2 DEF Commit

LEMMA AcceptOK == ASSUME IntakeInv, NEW r \in Requests, Accept(r) PROVE IntakeInv'
<1>0. holder = r /\ rowCommitted
  BY DEF IntakeInv, HolderOK, Accept
<1>1. CASE /\ Ends(r, [kind |-> "accepted", names |-> r])
           /\ tasks' = tasks \cup {r} /\ UNCHANGED broken
  <2>1. IntakeTypeOK /\ [kind |-> "accepted", names |-> r] \in [kind : Kinds, names : Names]
    BY AnswersOK DEF IntakeInv, Names
  <2>2. /\ request' \in [Requests -> [at : Places, answer : [kind : Kinds, names : Names]]]
        /\ request'[r].at = "answered" /\ request'[r].answer = [kind |-> "accepted", names |-> r]
        /\ \A q \in Requests : q # r => request'[q] = request[q]
    BY <1>1, <2>1, EndsRow
  <2>5. IntakeTypeOK'
    BY <1>0, <1>1, <2>2 DEF IntakeInv, IntakeTypeOK, Accept
  <2>6. HolderOK'
    BY <1>0, <1>1, <2>2 DEF IntakeInv, IntakeTypeOK, HolderOK, Accepted, Unanswered, Accept
  <2>7. \A x \in Requests : Known(x) => Known(x)'
    BY <1>0, <1>1, <2>2 DEF IntakeInv, HolderOK, Known, Accept
  <2>8. CacheOK' /\ PlacesOK' /\ ErrorsHaveCause'
    <3>1. request'[r].answer.kind = "accepted" /\ UNCHANGED <<cached, holder, rowCommitted, broken>>
      BY <1>1, <2>2 DEF Accept
    <3>2. CacheOK' /\ PlacesOK'
      BY <2>2, <2>7, <3>1 DEF IntakeInv, CacheOK, PlacesOK
    <3>3. ErrorsHaveCause'
      BY <2>2, <2>7, <3>1, CausesStay
    <3> QED
      BY <3>2, <3>3
  <2>9. StoredSignalIsHandled'
    BY <1>0, <1>1, <2>2 DEF IntakeInv, IntakeTypeOK, HolderOK, StoredSignalIsHandled, Accept
  <2> QED
    BY <2>5, <2>6, <2>8, <2>9 DEF IntakeInv
<1>2. CASE Ends(r, Failure) /\ broken' = broken \cup {r} /\ UNCHANGED tasks
  <2>1. IntakeTypeOK /\ Failure \in [kind : Kinds, names : Names]
    BY AnswersOK DEF IntakeInv
  <2>2. /\ request' \in [Requests -> [at : Places, answer : [kind : Kinds, names : Names]]]
        /\ request'[r].at = "answered" /\ request'[r].answer = Failure
        /\ \A q \in Requests : q # r => request'[q] = request[q]
    BY <1>2, <2>1, EndsRow
  <2>5. IntakeTypeOK'
    BY <1>0, <1>2, <2>2 DEF IntakeInv, IntakeTypeOK, Accept, Failure
  <2>6. HolderOK'
    BY <1>0, <1>2, <2>2 DEF IntakeInv, IntakeTypeOK, HolderOK, Accepted, Unanswered, Accept, Failure
  <2>7. \A x \in Requests : Known(x) => Known(x)'
    BY <1>0, <1>2, <2>2 DEF IntakeInv, HolderOK, Known, Accept, Failure
  <2>8. CacheOK' /\ PlacesOK' /\ ErrorsHaveCause'
    <3>1. CacheOK' /\ PlacesOK'
      BY <1>0, <1>2, <2>2, <2>7 DEF IntakeInv, IntakeTypeOK, HolderOK, CacheOK, PlacesOK, Known, Accept, Failure
    <3>2. ErrorsHaveCause'
      BY <1>0, <1>2, <2>2, <2>7, CausesStay DEF Accept, Failure
    <3> QED
      BY <3>1, <3>2
  <2>9. StoredSignalIsHandled'
    BY <1>0, <1>2, <2>2 DEF IntakeInv, IntakeTypeOK, HolderOK, StoredSignalIsHandled, Accept, Failure
  <2> QED
    BY <2>5, <2>6, <2>8, <2>9 DEF IntakeInv
<1> QED
  BY <1>1, <1>2 DEF Accept

LEMMA RunTaskOK == ASSUME IntakeInv, NEW r \in Requests, RunTask(r) PROVE IntakeInv'
<1>1. runs' \in [Requests -> Nat] /\ runs[r] = 0 /\ runs'[r] = 1
      /\ \A q \in Requests : q # r => runs'[q] = runs[q]
  BY DEF IntakeInv, IntakeTypeOK, HolderOK, RunTask
<1>5. IntakeTypeOK'
  BY <1>1 DEF IntakeInv, IntakeTypeOK, RunTask
<1>6. HolderOK'
  BY <1>1 DEF IntakeInv, IntakeTypeOK, HolderOK, Accepted, Unanswered, RunTask
<1>7. \A x \in Requests : Known(x) => Known(x)'
  BY <1>1 DEF IntakeInv, HolderOK, Known, RunTask
<1>8. CacheOK' /\ PlacesOK' /\ ErrorsHaveCause'
  <2>1. CacheOK' /\ PlacesOK'
    BY <1>1, <1>7 DEF IntakeInv, IntakeTypeOK, HolderOK, CacheOK, PlacesOK, Known, RunTask
  <2>2. ErrorsHaveCause'
    BY <1>1, <1>7, CausesStay DEF RunTask
  <2> QED
    BY <2>1, <2>2
<1>9. StoredSignalIsHandled'
  BY <1>1 DEF IntakeInv, IntakeTypeOK, HolderOK, StoredSignalIsHandled, RunTask
<1> QED
  BY <1>5, <1>6, <1>8, <1>9 DEF IntakeInv

LEMMA ForgetKeyOK == ASSUME IntakeInv, ForgetKey PROVE IntakeInv'
<1>5. IntakeTypeOK'
  BY DEF IntakeInv, IntakeTypeOK, ForgetKey
<1>6. HolderOK'
  BY DEF IntakeInv, IntakeTypeOK, HolderOK, Accepted, Unanswered, ForgetKey
<1>7. \A x \in Requests : Known(x) => Known(x)'
  BY DEF IntakeInv, HolderOK, Known, ForgetKey
<1>8. CacheOK' /\ PlacesOK' /\ ErrorsHaveCause'
  <2>1. CacheOK' /\ PlacesOK'
    BY <1>7, IntakeAssumption DEF IntakeInv, IntakeTypeOK, HolderOK, CacheOK, PlacesOK, Known, NoKey, ForgetKey
  <2>2. ErrorsHaveCause'
    BY <1>7, IntakeAssumption, CausesStay DEF NoKey, ForgetKey
  <2> QED
    BY <2>1, <2>2
<1>9. StoredSignalIsHandled'
  BY DEF IntakeInv, IntakeTypeOK, HolderOK, StoredSignalIsHandled, ForgetKey
<1> QED
  BY <1>5, <1>6, <1>8, <1>9 DEF IntakeInv

LEMMA IntakeCrashOK == ASSUME IntakeInv, IntakeCrash PROVE IntakeInv'
<1>1. InFlight \subseteq Requests
  BY DEF InFlight
<1>2. request' \in [Requests -> [at : Places, answer : [kind : Kinds, names : Names]]]
  BY AnswersOK DEF IntakeInv, IntakeTypeOK, IntakeCrash, Places
<1>3. \A r \in Requests :
        /\ r \in InFlight => request'[r] = [at |-> "answered", answer |-> Failure]
        /\ r \notin InFlight => request'[r] = request[r] /\ request[r].at \in {"new", "answered"}
  BY DEF IntakeCrash, InFlight
<1>4. IntakeTypeOK'
  BY <1>1, <1>2 DEF IntakeInv, IntakeTypeOK, IntakeCrash
<1>5. HolderOK'
  <2>1. rowCommitted' => holder' # NoKey
    BY DEF IntakeInv, HolderOK, IntakeCrash
  <2>2. ASSUME NEW q \in InFlight PROVE
          /\ request'[q].at = "answered" /\ request'[q].answer.kind = "error"
          /\ q \notin tasks' /\ runs'[q] = 0
    <3>1. q \in Requests /\ request[q].at # "answered" /\ ~Accepted(q)
      BY DEF InFlight, IntakeInv, HolderOK, Accepted, Unanswered
    <3>2. runs[q] = 0
      BY <3>1 DEF IntakeInv, HolderOK
    <3> QED
      BY <1>3, <3>1, <3>2 DEF IntakeCrash, Failure
  <2>3. ASSUME NEW q \in Requests, q \notin InFlight PROVE
          /\ request'[q] = request[q] /\ request[q].at \in {"new", "answered"}
          /\ q \notin tasks' /\ runs'[q] = runs[q]
    BY <1>3, <2>3 DEF IntakeCrash
  <2> QED
    BY <1>1, <2>1, <2>2, <2>3 DEF IntakeInv, HolderOK, Accepted, IntakeCrash
<1>6. \A x \in Requests : Known(x) => Known(x)'
  BY <1>3 DEF Known, IntakeCrash
<1>7. CacheOK' /\ PlacesOK' /\ ErrorsHaveCause'
  <2>1. CacheOK'
    BY <1>6 DEF IntakeInv, CacheOK, IntakeCrash
  <2>2. \A r \in Requests : r \in tasks => request[r].at = "answered"
    BY DEF IntakeInv, HolderOK, Accepted, Unanswered
  <2>3. PlacesOK'
    BY <1>3, <2>2 DEF IntakeInv, PlacesOK, IntakeCrash, InFlight
  <2>4. \A q \in Requests : request'[q].answer = request[q].answer \/ q \in broken'
    BY <1>3 DEF IntakeCrash
  <2>5. ErrorsHaveCause'
    BY <1>6, <2>4, CausesStay DEF IntakeCrash
  <2> QED
    BY <2>1, <2>3, <2>5
<1>8. StoredSignalIsHandled'
  BY <1>3 DEF IntakeInv, IntakeTypeOK, HolderOK, StoredSignalIsHandled, IntakeCrash
<1> QED
  BY <1>4, <1>5, <1>7, <1>8 DEF IntakeInv

LEMMA StepOK == IntakeInv /\ [IntakeNext]_intakeVars => IntakeInv'
<1> SUFFICES ASSUME IntakeInv, [IntakeNext]_intakeVars PROVE IntakeInv'
  OBVIOUS
<1>1. CASE UNCHANGED intakeVars
  BY <1>1 DEF intakeVars, IntakeInv, IntakeTypeOK, HolderOK, CacheOK, PlacesOK, ErrorsHaveCause, Known, Accepted,
     StoredSignalIsHandled
<1> QED
  BY <1>1, RefuseOK, CheckRedisOK, InsertOK, InsertClashOK, RegisterOK, CommitOK, AcceptOK,
     RunTaskOK, ForgetKeyOK, IntakeCrashOK DEF IntakeNext

-----------------------------------------------------------------------------
(* The inductive invariant behind the theorems below.                       *)
THEOREM IntakeInvariance == IntakeSpec => []IntakeInv
BY InitOK, StepOK, PTL DEF IntakeSpec

(* One key stands for one order: at most one of its requests is accepted    *)
(* and its pipeline runs at most once (SignalReceiver.receive).             *)
THEOREM OnePipeline == IntakeSpec => []OnePipelinePerKey
<1>1. IntakeInv => OnePipelinePerKey
  <2> SUFFICES ASSUME IntakeInv PROVE OnePipelinePerKey
    OBVIOUS
  <2> DEFINE yes == {r \in Requests : request[r].answer.kind = "accepted"}
  <2>1. yes \subseteq {holder}
    BY DEF IntakeInv, HolderOK, Accepted
  <2>2. Cardinality(yes) <= 1
    <3>1. IsFiniteSet({holder}) /\ Cardinality({holder}) = 1
      BY FS_Singleton
    <3>2. IsFiniteSet(yes) /\ Cardinality(yes) <= Cardinality({holder})
      BY <2>1, <3>1, FS_Subset
    <3>3. Cardinality(yes) \in Nat
      BY <3>2, FS_CardinalityType
    <3> HIDE DEF yes
    <3> QED
      BY <3>1, <3>2, <3>3
  <2>3. \A r, s \in Requests : runs[r] + (IF r = s THEN 0 ELSE runs[s]) <= 1
    BY DEF IntakeInv, IntakeTypeOK, HolderOK
  <2> QED
    BY <2>2, <2>3 DEF OnePipelinePerKey
<1> QED
  BY <1>1, IntakeInvariance, PTL

(* An error that no fault of its own explains is due to another request of *)
(* the key: its signal is stored, in an open transaction or ended by a fault *)
(* (SignalReceiver.receive and what the route makes of its exception).      *)
THEOREM ErrorsAreCaused == IntakeSpec => []ErrorsHaveCause
<1>1. IntakeInv => ErrorsHaveCause
  BY DEF IntakeInv
<1> QED
  BY <1>1, IntakeInvariance, PTL

(* A committed signal is on its way to its pipeline, or has been there, or  *)
(* a fault took its task (receive_signal and the background task).          *)
THEOREM StoredIsHandled == IntakeSpec => []StoredSignalIsHandled
<1>1. IntakeInv => StoredSignalIsHandled
  BY DEF IntakeInv
<1> QED
  BY <1>1, IntakeInvariance, PTL

=============================================================================
