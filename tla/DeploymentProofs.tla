-------------------------- MODULE DeploymentProofs --------------------------
(***************************************************************************)
(* What each transition of a WAL record keeps, for every set of releases   *)
(* and every budget: the lemmas the proofs about the update cycle cite.    *)
(***************************************************************************)
EXTENDS Deployment, TLAPS

(* A record the daemon may save: typed, coherent, and with budget left as  *)
(* long as a candidate is in flight.                                       *)
GoodRecord(d) ==
  /\ d \in Wal
  /\ Coherent(d)
  /\ HasPending(d) => d.attempts > 0

(* Versions never run backwards inside a record, and the counter is that   *)
(* of last_known_good.                                                     *)
Ordered(d) ==
  /\ d.counter \in {None, d.lkg}
  /\ d.lkg <= d.current
  /\ HasPending(d) => d.current <= d.pending

(* A provisioned WAL is good and ordered, with or without last_known_good. *)
LEMMA NewRecord ==
  ASSUME NEW v \in Releases, NEW l \in {v, None}
  PROVE  /\ GoodRecord([New(v) EXCEPT !.lkg = l])
         /\ Ordered([New(v) EXCEPT !.lkg = l])
<1> DEFINE d == [New(v) EXCEPT !.lkg = l]
<1>1. v \in Nat /\ v # 0
  BY ReleasesAssumption DEF None
<1>2. MaxAttempts \in Nat
  BY BudgetAssumption
<1>3. d \in Wal
  BY <1>1 DEF Wal, New, None
<1>4. Coherent(d)
  BY <1>1, <1>2 DEF New, Coherent, HasPending, None
<1>5. ~HasPending(d)
  BY DEF New, HasPending
<1>6. Ordered(d)
  BY <1>1, <1>5 DEF New, Ordered, None
<1> QED
  BY <1>3, <1>4, <1>5, <1>6 DEF GoodRecord

(* Recording a candidate keeps the record good. *)
LEMMA DeployRecord ==
  ASSUME NEW d, GoodRecord(d), NEW v \in Releases
  PROVE  GoodRecord(Deploy(d, v))
<1>1. d \in Wal /\ Coherent(d)
  BY DEF GoodRecord
<1>2. MaxAttempts \in Nat /\ MaxAttempts > 0
  BY BudgetAssumption
<1>3. v # 0
  BY ReleasesAssumption DEF None
<1>4. Deploy(d, v) \in Wal
  BY <1>1, <1>2 DEF Wal, Deploy
<1>5. Coherent(Deploy(d, v))
  BY <1>1, <1>2, <1>3 DEF Wal, Deploy, Coherent, HasPending, None
<1>6. Deploy(d, v).attempts > 0
  BY <1>1, <1>2 DEF Wal, Deploy
<1> QED
  BY <1>4, <1>5, <1>6 DEF GoodRecord

LEMMA StagedDeployRecord ==
  ASSUME NEW d, GoodRecord(d), NEW v \in Releases
  PROVE  GoodRecord(StagedDeploy(d, v))
<1> DEFINE e == Deploy(d, v)
<1>1. GoodRecord(e)
  BY DeployRecord
<1>2. StagedDeploy(d, v) = [e EXCEPT !.pendingHash = RootOf[v]]
  BY DEF StagedDeploy
<1>3. RootOf[v] \in Roots
  BY DEF Roots
<1> HIDE DEF e
<1>4. StagedDeploy(d, v) \in Wal
  BY <1>1, <1>2, <1>3 DEF GoodRecord, Wal
<1>5. Coherent(StagedDeploy(d, v))
  BY <1>1, <1>2 DEF GoodRecord, Wal, Coherent, HasPending
<1>6. HasPending(StagedDeploy(d, v)) => StagedDeploy(d, v).attempts > 0
  BY <1>1, <1>2 DEF GoodRecord, Wal, HasPending
<1> QED
  BY <1>4, <1>5, <1>6 DEF GoodRecord

(* A good boot of a recorded candidate makes it current on both tracks. *)
LEMMA CountGoodBootRecord ==
  ASSUME NEW d, GoodRecord(d), HasPending(d)
  PROVE  /\ GoodRecord(CountGoodBoot(d))
         /\ HasPending(CountGoodBoot(d))
         /\ CountGoodBoot(d).current = d.pending
<1> DEFINE e == SwitchToPending(d)
<1>1. d \in Wal /\ Coherent(d)
  BY DEF GoodRecord
<1>2. MaxAttempts \in Nat /\ MaxAttempts > 0
  BY BudgetAssumption
<1>3. d.pending \in Releases /\ d.kcPending = d.pending
  BY <1>1 DEF Wal, Coherent, HasPending
<1>4. e \in Wal
  BY <1>1, <1>3 DEF SwitchToPending, Wal
<1>5. /\ e.current = d.pending /\ e.kcCurrent = d.pending
      /\ e.pending = d.pending /\ e.kcPending = d.pending
      /\ e.state = d.state
  BY <1>1, <1>3 DEF SwitchToPending, Wal, Coherent
<1> HIDE DEF e
<1>6. CountGoodBoot(d)
        = [e EXCEPT !.stableBoots = e.stableBoots + 1, !.attempts = MaxAttempts]
  BY DEF CountGoodBoot, e
<1>7. CountGoodBoot(d) \in Wal
  <2>1. e.stableBoots + 1 \in Nat
    BY <1>4 DEF Wal
  <2> DEFINE n == e.stableBoots + 1
  <2> HIDE DEF n
  <2>2. [e EXCEPT !.stableBoots = n, !.attempts = MaxAttempts] \in Wal
    BY <1>2, <1>4, <2>1 DEF Wal, n
  <2> QED
    BY <1>6, <2>2 DEF n
<1>8. /\ CountGoodBoot(d).current = d.pending
      /\ CountGoodBoot(d).kcCurrent = d.pending
      /\ CountGoodBoot(d).pending = d.pending
      /\ CountGoodBoot(d).kcPending = d.pending
      /\ CountGoodBoot(d).state = d.state
      /\ CountGoodBoot(d).attempts = MaxAttempts
  BY <1>4, <1>5, <1>6 DEF Wal
<1>9. d.state = "updating"
  BY <1>1 DEF Coherent
<1>10. Coherent(CountGoodBoot(d)) /\ HasPending(CountGoodBoot(d))
  BY <1>2, <1>8, <1>9 DEF Coherent, HasPending
<1> QED
  BY <1>2, <1>7, <1>8, <1>10 DEF GoodRecord

(* Promotion blesses the release that is current. *)
LEMMA PromoteRecord ==
  ASSUME NEW d, GoodRecord(d)
  PROVE  GoodRecord(Promote(d)) /\ ~HasPending(Promote(d))
<1>1. d \in Wal /\ Coherent(d)
  BY DEF GoodRecord
<1>2. MaxAttempts \in Nat
  BY BudgetAssumption
<1>3. Promote(d) \in Wal
  BY <1>1 DEF Promote, Wal
<1>4. ~HasPending(Promote(d))
  BY <1>1 DEF Promote, Wal, HasPending
<1>5. Coherent(Promote(d))
  BY <1>1, <1>2 DEF Promote, Wal, Coherent, HasPending, None
<1> QED
  BY <1>3, <1>4, <1>5 DEF GoodRecord

LEMMA RecordGoodBootRecord ==
  ASSUME NEW d, GoodRecord(d), HasPending(d)
  PROVE  /\ GoodRecord(RecordGoodBoot(d))
         /\ RecordGoodBoot(d).current = d.pending
         /\ RecordGoodBoot(d).lkg \in {d.lkg, d.pending}
         /\ RecordGoodBoot(d).rollback \in {d.rollback, d.current}
<1> DEFINE e == CountGoodBoot(d)
<1>1. GoodRecord(e) /\ e.current = d.pending
  BY CountGoodBootRecord
<1>2. e.lkg = d.lkg /\ e.rollback \in {d.rollback, d.current}
  <2> DEFINE s == SwitchToPending(d)
  <2>1. d \in Wal /\ Coherent(d)
    BY DEF GoodRecord
  <2>2. d.pending \in Releases /\ d.kcPending = d.pending
    BY <2>1 DEF Wal, Coherent, HasPending
  <2>3. s \in Wal /\ s.lkg = d.lkg /\ s.rollback \in {d.rollback, d.current}
    BY <2>1, <2>2 DEF SwitchToPending, Wal
  <2>4. e = [s EXCEPT !.stableBoots = s.stableBoots + 1, !.attempts = MaxAttempts]
    BY DEF CountGoodBoot
  <2> HIDE DEF s, e
  <2> QED
    BY <2>3, <2>4 DEF Wal
<1>3. RecordGoodBoot(d) \in {e, Promote(e)}
  BY DEF RecordGoodBoot
<1> HIDE DEF e
<1>4. GoodRecord(Promote(e))
  BY <1>1, PromoteRecord
<1>5. /\ Promote(e).current = e.current
      /\ Promote(e).lkg = e.current
      /\ Promote(e).rollback = e.rollback
  BY <1>1 DEF Promote, GoodRecord, Wal
<1> QED
  BY <1>1, <1>2, <1>3, <1>4, <1>5

(* Rollback ends the update, on a version the record names. *)
LEMMA RollbackRecord ==
  ASSUME NEW d \in Wal
  PROVE  /\ GoodRecord(Rollback(d))
         /\ ~HasPending(Rollback(d))
         /\ RollbackTo(d) \in {d.lkg, d.rollback, d.current} \ {None}
<1>1. RollbackTo(d) \in {d.lkg, d.rollback, d.current} \ {None}
  BY ReleasesAssumption DEF RollbackTo, Wal, None
<1>2. RollbackTo(d) \in Releases
  BY <1>1 DEF Wal
<1>3. MaxAttempts \in Nat
  BY BudgetAssumption
<1>4. Rollback(d) \in Wal
  BY <1>2 DEF Rollback, Wal
<1>5. ~HasPending(Rollback(d))
  BY DEF Rollback, Wal, HasPending
<1>6. Coherent(Rollback(d))
  BY <1>2, <1>3 DEF Rollback, Wal, Coherent, HasPending, None
<1> QED
  BY <1>1, <1>4, <1>5, <1>6 DEF GoodRecord

(* The count read back from the boot-state never passes what the WAL held  *)
(* or what the loader left, and touches no other field.                    *)
LEMMA ReconcileRecord ==
  ASSUME NEW d \in Wal, NEW b \in BootStates
  PROVE  \E n \in 0 .. d.attempts :
           /\ ReconcileAttempts(d, b) = [d EXCEPT !.attempts = n]
           /\ b.target = "active" => n = 0
           /\ b.target = "next" /\ b.trial => n <= b.attempts
<1>1. d.attempts \in Nat /\ b.attempts \in Nat
  BY DEF Wal, BootStates
<1>2. d = [d EXCEPT !.attempts = d.attempts]
  BY DEF Wal
<1>3. CASE b.target = "active"
  BY <1>1, <1>3 DEF ReconcileAttempts
<1>4. CASE b.target # "active" /\ b.target = "next" /\ b.trial
           /\ b.attempts <= d.attempts
  BY <1>1, <1>4 DEF ReconcileAttempts
<1>5. CASE b.target # "active" /\ ~(b.target = "next" /\ b.trial
           /\ b.attempts <= d.attempts)
  <2>1. ReconcileAttempts(d, b) = DecrementBootAttempt(d)
    BY <1>5 DEF ReconcileAttempts
  <2>2. CASE d.attempts > 0
    BY <1>1, <1>5, <2>1, <2>2 DEF DecrementBootAttempt
  <2>3. CASE ~(d.attempts > 0)
    BY <1>1, <1>2, <1>5, <2>1, <2>3 DEF DecrementBootAttempt
  <2> QED
    BY <2>2, <2>3
<1> QED
  BY <1>3, <1>4, <1>5

(* A failed boot either leaves budget for another try, no more than the    *)
(* loader still had, or ends the update on a version the record names.     *)
LEMMA FailedBootRecord ==
  ASSUME NEW d, GoodRecord(d), HasPending(d), NEW b \in BootStates
  PROVE  LET r == RecordFailedBoot(d, b) IN
         /\ GoodRecord(r)
         /\ r.current \in {d.lkg, d.rollback, d.current} \ {None}
         /\ r.lkg = d.lkg /\ r.rollback = d.rollback /\ r.counter = d.counter
         /\ HasPending(r) => /\ r.pending = d.pending
                             /\ r.current = d.current
                             /\ b.target # "active"
                             /\ b.target = "next" /\ b.trial
                                  => r.attempts <= b.attempts
         /\ ~HasPending(r) => r.current = RollbackTo(d)
<1> DEFINE c == [d EXCEPT !.stableBoots = 0]
           r == RecordFailedBoot(d, b)
<1>1. d \in Wal /\ Coherent(d)
  BY DEF GoodRecord
<1>2. c \in Wal
  BY <1>1 DEF Wal
<1>3. PICK n \in 0 .. c.attempts :
        /\ ReconcileAttempts(c, b) = [c EXCEPT !.attempts = n]
        /\ b.target = "active" => n = 0
        /\ b.target = "next" /\ b.trial => n <= b.attempts
  BY <1>2, ReconcileRecord
<1> DEFINE e == [c EXCEPT !.attempts = n]
<1>4. n \in Nat /\ n <= MaxAttempts
  <2>1. c.attempts = d.attempts /\ d.attempts \in Nat
    BY <1>1 DEF Wal
  <2>2. d.attempts <= MaxAttempts /\ MaxAttempts \in Nat
    BY <1>1, BudgetAssumption DEF Coherent
  <2> QED
    BY <1>3, <2>1, <2>2
<1>5. e \in Wal
  BY <1>2, <1>4 DEF Wal
<1>6. /\ e.current = d.current /\ e.pending = d.pending /\ e.lkg = d.lkg
      /\ e.rollback = d.rollback /\ e.counter = d.counter
      /\ e.kcCurrent = d.kcCurrent /\ e.kcPending = d.kcPending
      /\ e.state = d.state /\ e.attempts = n /\ e.stableBoots = 0
  BY <1>1 DEF Wal
<1>7. r = IF e.attempts = 0 THEN Rollback(e) ELSE e
  BY <1>3 DEF RecordFailedBoot
<1> HIDE DEF c, r, e
<1>8. d.current # None
  BY <1>1, ReleasesAssumption DEF Wal
<1>9. CASE n = 0
  <2>1. r = Rollback(e)
    BY <1>6, <1>7, <1>9
  <2>2. /\ GoodRecord(r) /\ ~HasPending(r)
        /\ RollbackTo(e) \in {e.lkg, e.rollback, e.current} \ {None}
    BY <1>5, <2>1, RollbackRecord
  <2>3. /\ r.current = RollbackTo(e) /\ r.lkg = e.lkg
        /\ r.rollback = e.rollback /\ r.counter = e.counter
    BY <1>5, <2>1 DEF Rollback, Wal
  <2>4. RollbackTo(e) = RollbackTo(d)
    BY <1>6 DEF RollbackTo
  <2> QED
    BY <1>6, <2>2, <2>3, <2>4 DEF r
<1>10. CASE n # 0
  <2>1. r = e
    BY <1>6, <1>7, <1>10
  <2>2. Coherent(e)
    BY <1>1, <1>4, <1>6 DEF Coherent, HasPending
  <2>3. GoodRecord(e) /\ HasPending(e)
    BY <1>4, <1>5, <1>6, <1>10, <2>2 DEF GoodRecord, HasPending
  <2> QED
    BY <1>3, <1>6, <1>8, <1>10, <2>1, <2>3 DEF r
<1> QED
  BY <1>9, <1>10

(* The boot-state written from a good record never asks for recovery: a    *)
(* saved candidate has budget left, so NeedsRecovery is false.             *)
LEMMA BootStateOfGood ==
  ASSUME NEW d, GoodRecord(d)
  PROVE  /\ BootStateOf(d) \in BootStates
         /\ ~NeedsRecovery(d)
         /\ HasPending(d) => BootStateOf(d) =
              [target |-> "next", trial |-> TRUE, attempts |-> d.attempts]
         /\ ~HasPending(d) => BootStateOf(d) = ActiveState
<1>1. d.attempts \in Nat
  BY DEF GoodRecord, Wal
<1>2. ~NeedsRecovery(d)
  BY <1>1 DEF GoodRecord, NeedsRecovery
<1> QED
  BY <1>1, <1>2 DEF BootStateOf, BootStates, ActiveState

-----------------------------------------------------------------------------
(* Versions only move forward. *)

LEMMA VersionsAreNat ==
  ASSUME NEW d \in Wal
  PROVE  /\ d.current \in Nat /\ d.pending \in Nat /\ d.lkg \in Nat
         /\ d.rollback \in Nat /\ d.counter \in Nat /\ d.kcCurrent \in Nat
<1>1. Releases \cup {None} \subseteq Nat
  BY ReleasesAssumption DEF None
<1>2. /\ d.current \in Releases /\ d.kcCurrent \in Releases
      /\ d.pending \in Releases \cup {None} /\ d.lkg \in Releases \cup {None}
      /\ d.rollback \in Releases \cup {None} /\ d.counter \in Releases \cup {None}
  BY DEF Wal
<1> QED
  BY <1>1, <1>2

LEMMA StagedDeployOrdered ==
  ASSUME NEW d \in Wal, Ordered(d), NEW v \in Releases, d.current <= v
  PROVE  Ordered(StagedDeploy(d, v)) /\ StagedDeploy(d, v).counter = d.counter
<1> DEFINE r == StagedDeploy(d, v)
<1>1. r.current = d.current /\ r.lkg = d.lkg /\ r.counter = d.counter /\ r.pending = v
  BY DEF StagedDeploy, Deploy, Wal
<1> HIDE DEF r
<1> QED
  BY <1>1 DEF Ordered, r

LEMMA PromoteOrdered ==
  ASSUME NEW d, GoodRecord(d), Ordered(d)
  PROVE  Ordered(Promote(d)) /\ d.counter <= Promote(d).counter
<1>1. d \in Wal /\ d.kcCurrent = d.current
  BY DEF GoodRecord, Coherent
<1>2. /\ Promote(d).current = d.current /\ Promote(d).lkg = d.current
      /\ Promote(d).counter = d.current
  BY <1>1 DEF Promote, Wal
<1>3. ~HasPending(Promote(d))
  BY PromoteRecord
<1>4. d.current \in Nat /\ d.lkg \in Nat
  BY <1>1, VersionsAreNat
<1> QED
  BY <1>2, <1>3, <1>4 DEF Ordered, None

LEMMA RecordGoodBootOrdered ==
  ASSUME NEW d, GoodRecord(d), HasPending(d), Ordered(d)
  PROVE  /\ Ordered(RecordGoodBoot(d))
         /\ d.counter <= RecordGoodBoot(d).counter
<1> DEFINE e == CountGoodBoot(d)
<1>1. GoodRecord(e) /\ e.current = d.pending
  BY CountGoodBootRecord
<1>2. e.lkg = d.lkg /\ e.counter = d.counter /\ e.pending = d.pending
  <2> DEFINE s == SwitchToPending(d)
  <2>1. d \in Wal /\ d.pending \in Releases /\ d.kcPending = d.pending
    BY DEF GoodRecord, Wal, Coherent, HasPending
  <2>2. s \in Wal /\ s.lkg = d.lkg /\ s.counter = d.counter /\ s.pending = d.pending
    BY <2>1 DEF SwitchToPending, Wal
  <2>3. e = [s EXCEPT !.stableBoots = s.stableBoots + 1, !.attempts = MaxAttempts]
    BY DEF CountGoodBoot
  <2> HIDE DEF s, e
  <2> QED
    BY <2>2, <2>3 DEF Wal
<1>3. d.current \in Nat /\ d.pending \in Nat /\ d.lkg \in Nat /\ d.counter \in Nat
  BY VersionsAreNat DEF GoodRecord
<1>4. RecordGoodBoot(d) \in {e, Promote(e)}
  BY DEF RecordGoodBoot
<1> HIDE DEF e
<1>5. Ordered(e)
  BY <1>1, <1>2, <1>3 DEF Ordered
<1>6. Ordered(Promote(e)) /\ e.counter <= Promote(e).counter
  BY <1>1, <1>5, PromoteOrdered
<1> QED
  BY <1>2, <1>3, <1>4, <1>5, <1>6

LEMMA RollbackOrdered ==
  ASSUME NEW d \in Wal, Ordered(d)
  PROVE  Ordered(Rollback(d)) /\ Rollback(d).counter = d.counter
<1>1. /\ Rollback(d).current = RollbackTo(d) /\ Rollback(d).lkg = d.lkg
      /\ Rollback(d).counter = d.counter
  BY DEF Rollback, Wal
<1>2. ~HasPending(Rollback(d)) /\ RollbackTo(d) \in Nat
  BY RollbackRecord, VersionsAreNat
<1>3. d.lkg <= RollbackTo(d)
  <2>1. CASE d.lkg # None
    BY <2>1, VersionsAreNat DEF RollbackTo
  <2>2. CASE d.lkg = None
    BY <1>2, <2>2 DEF None
  <2> QED
    BY <2>1, <2>2
<1> QED
  BY <1>1, <1>2, <1>3 DEF Ordered

LEMMA FailedBootOrdered ==
  ASSUME NEW d, GoodRecord(d), HasPending(d), Ordered(d), NEW b \in BootStates
  PROVE  /\ Ordered(RecordFailedBoot(d, b))
         /\ RecordFailedBoot(d, b).counter = d.counter
<1> DEFINE r == RecordFailedBoot(d, b)
<1>1. /\ r.lkg = d.lkg /\ r.counter = d.counter
      /\ HasPending(r) => r.pending = d.pending /\ r.current = d.current
      /\ ~HasPending(r) => r.current = RollbackTo(d)
  BY FailedBootRecord
<1>2. d \in Wal
  BY DEF GoodRecord
<1>3. Rollback(d).current = RollbackTo(d) /\ Rollback(d).lkg = d.lkg
  BY <1>2 DEF Rollback, Wal
<1>4. d.lkg <= RollbackTo(d)
  BY <1>2, <1>3, RollbackOrdered DEF Ordered
<1> HIDE DEF r
<1> QED
  BY <1>1, <1>4 DEF Ordered, r
=============================================================================
