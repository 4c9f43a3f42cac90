----------------------------- MODULE KeeperProofs -----------------------------
(***************************************************************************)
(* Proofs about Keeper for every set of processes and files, every batch    *)
(* size, lease duration and number of faults, with time running freely.     *)
(*                                                                          *)
(* What a run believes of its lease and of its batch (the time it recorded  *)
(* when it took them) is a lower bound of what the rows say, as long as it  *)
(* has not run out: that is the strengthening which makes exclusiveness     *)
(* inductive.                                                               *)
(***************************************************************************)
EXTENDS Keeper, FiniteSetTheorems, TLAPS

LeaseHonoured ==
    \A w \in Workers : TrustsLease(w) =>
        lease.holder = w /\ lease.left >= worker[w].leaseLeft

ClaimsHonoured ==
    \A w \in Workers, e \in EvidenceIds :
        worker[w].claimLeft >= 0 /\ e \in worker[w].batch =>
            /\ evidence[e].state = "processing"
            /\ evidence[e].holder = w
            /\ evidence[e].left >= worker[w].claimLeft

\* Only a row that is being processed names a holder.
HoldersProcess ==
    \A e \in EvidenceIds :
        evidence[e].state # "processing" => evidence[e].holder = Nobody

IInv == TypeOK /\ LeaseHonoured /\ ClaimsHonoured /\ HoldersProcess

-------------------------------------------------------------------------------
LEMMA LaterType ==
    ASSUME NEW left \in TimeLeft
    PROVE  /\ Later(left) \in TimeLeft
           /\ Later(left) >= 0 => left >= 1 /\ Later(left) = left - 1
  BY KeeperAssumption DEF Later, TimeLeft

LEMMA NoRunType ==
    ASSUME NEW phase \in Phases
    PROVE  /\ NoRun(phase) \in Runs
           /\ NoRun(phase).at = phase
           /\ NoRun(phase).leaseLeft = -1
           /\ NoRun(phase).claimLeft = -1
           /\ NoRun(phase).batch = {}
           /\ NoRun(phase).todo = {}
  BY KeeperAssumption DEF NoRun, Runs, TimeLeft

\* The batch a run is planned with is a natural number.
LEMMA BatchType ==
    ASSUME NEW agents, NEW cards \in Int
    PROVE  EffectiveBatch(agents, cards) \in Nat
  <1> DEFINE backlog == PendingCount + cards
             pressed == \/ agents >= 4
                        \/ backlog >= 4 * BatchSize
                        \/ ProcessingCount >= BatchSize
             double == IF 2 * BatchSize < 50 THEN 2 * BatchSize ELSE 50
  <1>1. double \in Nat /\ BatchSize \in Nat
    BY KeeperAssumption
  <1>2. PendingCount \in Int
    <2> DEFINE rows == {e \in EvidenceIds :
                  /\ ~evidence[e].stale
                  /\ \/ evidence[e].state = "pending"
                     \/ evidence[e].state = "processing" /\ evidence[e].left <= 0}
    <2>1. IsFiniteSet(EvidenceIds)
      BY KeeperAssumption, FS_Interval DEF EvidenceIds
    <2>2. IsFiniteSet(rows)
      BY <2>1, FS_Subset
    <2>3. Cardinality(rows) \in Nat
      BY <2>2, FS_CardinalityType
    <2> QED
      BY <2>3 DEF PendingCount
  <1>3. backlog <= 0 \/ backlog > 0
    BY <1>2
  <1>4. EffectiveBatch(agents, cards) \in {0, double, BatchSize}
    <2>1. CASE backlog <= 0
      <3>1. ~(backlog > 0)
        BY <1>2, <2>1
      <3> QED
        BY <2>1, <3>1, Zenon DEF EffectiveBatch
    <2>2. CASE backlog > 0
      <3>1. ~(backlog <= 0)
        BY <1>2, <2>2
      <3> QED
        BY <2>2, <3>1, Zenon DEF EffectiveBatch
    <2> QED
      BY <1>3, <2>1, <2>2
  <1> HIDE DEF double
  <1> QED
    BY <1>1, <1>4

\* What a claim, a reclaim and a completion write into a row.
LEMMA RowUpdates ==
    ASSUME NEW row \in EvidenceRows, NEW w \in Workers
    PROVE  /\ Claimed(row, w) \in EvidenceRows
           /\ Claimed(row, w).state = "processing"
           /\ Claimed(row, w).holder = w
           /\ Claimed(row, w).left = Duration
           /\ Completed(row) \in EvidenceRows
           /\ Completed(row).state = "processed"
           /\ Completed(row).holder = Nobody
  <1>1. Duration \in TimeLeft /\ -1 \in TimeLeft
    BY KeeperAssumption DEF TimeLeft
  <1> QED
    BY <1>1 DEF EvidenceRows, Claimed, Completed

LEMMA HandedBackFields ==
    ASSUME NEW row \in EvidenceRows
    PROVE  /\ HandedBack(row) \in EvidenceRows
           /\ HandedBack(row).state = "pending"
           /\ HandedBack(row).holder = Nobody
           /\ HandedBack(row).left = row.left
  BY DEF EvidenceRows, HandedBack

\* Reclaiming leaves alone every row that is not an expired claim.
LEMMA ReclaimedRows ==
    ASSUME IInv, NEW e \in EvidenceIds
    PROVE  /\ Reclaimed[e] \in EvidenceRows
           /\ evidence[e].state # "processing" \/ evidence[e].left >= 0
                => Reclaimed[e] = evidence[e]
           /\ Reclaimed[e] # evidence[e] =>
                evidence[e].state = "processing" /\ Reclaimed[e].state = "pending"
           /\ Reclaimed[e].state # "processing" => Reclaimed[e].holder = Nobody
  <1>1. evidence[e] \in EvidenceRows /\ evidence[e].left \in Int
    BY KeeperAssumption DEF IInv, TypeOK, EvidenceRows, TimeLeft
  <1>2. Reclaimed[e] = IF evidence[e].state = "processing" /\ evidence[e].left < 0
                       THEN HandedBack(evidence[e]) ELSE evidence[e]
    BY DEF Reclaimed
  <1>3. evidence[e].state # "processing" => evidence[e].holder = Nobody
    BY DEF IInv, HoldersProcess
  <1> QED
    BY <1>1, <1>2, <1>3, HandedBackFields

-------------------------------------------------------------------------------
(* The steps of a run. *)

LEMMA Typed ==
    ASSUME IInv
    PROVE  /\ worker \in [Workers -> Runs]
           /\ evidence \in [EvidenceIds -> EvidenceRows]
           /\ lease \in LeaseRows
           /\ faults \in Nat
           /\ lease.left \in Int
           /\ \A w \in Workers : /\ worker[w] \in Runs
                                 /\ worker[w].leaseLeft \in Int
                                 /\ worker[w].claimLeft \in Int
           /\ \A e \in EvidenceIds : /\ evidence[e] \in EvidenceRows
                                      /\ evidence[e].left \in Int
  BY KeeperAssumption DEF IInv, TypeOK, LeaseRows, EvidenceRows, Runs, TimeLeft

LEMMA AcquireLeaseStep ==
    ASSUME IInv, NEW w \in Workers, AcquireLease(w)
    PROVE  IInv'
  <1> DEFINE taken == [NoRun("leased") EXCEPT !.leaseLeft = Duration]
  <1>1. /\ taken \in Runs /\ taken.at = "leased" /\ taken.leaseLeft = Duration
        /\ taken.claimLeft = -1 /\ taken.batch = {}
    BY KeeperAssumption DEF NoRun, Runs, Phases, TimeLeft
  <1>2. worker' = [worker EXCEPT ![w] = taken]
    BY DEF AcquireLease
  <1> HIDE DEF taken
  <1>3. /\ worker' \in [Workers -> Runs] /\ worker'[w] = taken
        /\ \A v \in Workers : v # w => worker'[v] = worker[v]
    BY <1>1, <1>2, Typed
  <1>4. /\ lease' \in LeaseRows /\ lease'.holder = w /\ lease'.left = Duration
        /\ evidence' = evidence /\ faults' = faults
    BY KeeperAssumption DEF AcquireLease, LeaseRows, TimeLeft
  <1>5. \A v \in Workers : ~TrustsLease(v)
    BY Typed, KeeperAssumption
    DEF AcquireLease, LeaseIsFree, IInv, LeaseHonoured, TrustsLease
  <1>6. TypeOK'
    BY <1>3, <1>4, Typed DEF TypeOK
  <1>7. LeaseHonoured'
    <2>1. ASSUME NEW v \in Workers, v # w
          PROVE  ~TrustsLease(v)'
      BY <1>3, <1>5, <2>1 DEF TrustsLease, MidRun
    <2>2. lease'.left >= worker'[w].leaseLeft
      BY <1>1, <1>3, <1>4, KeeperAssumption
    <2> QED
      BY <1>4, <2>1, <2>2 DEF LeaseHonoured
  <1>8. ClaimsHonoured' /\ HoldersProcess'
    BY <1>1, <1>3, <1>4 DEF IInv, ClaimsHonoured, HoldersProcess
  <1> QED
    BY <1>6, <1>7, <1>8 DEF IInv

\* A step that only moves a run on, keeping what it recorded of its lease and
\* at most dropping its batch.
LEMMA RunOnStep ==
    ASSUME IInv, NEW w \in Workers, NEW run \in Runs,
           MidRun(w), run.leaseLeft = worker[w].leaseLeft,
           \/ run.batch = {}
           \/ run.batch = worker[w].batch /\ run.claimLeft = worker[w].claimLeft,
           worker' = [worker EXCEPT ![w] = run],
           lease' = lease, evidence' = evidence, faults' \in Nat
    PROVE  IInv'
  <1>1. /\ worker' \in [Workers -> Runs] /\ worker'[w] = run
        /\ \A v \in Workers : v # w => worker'[v] = worker[v]
    BY Typed
  <1>2. TypeOK'
    BY <1>1, Typed DEF TypeOK
  <1>3. LeaseHonoured'
    BY <1>1, Typed DEF IInv, LeaseHonoured, TrustsLease, MidRun
  <1>4. ClaimsHonoured' /\ HoldersProcess'
    BY <1>1 DEF IInv, ClaimsHonoured, HoldersProcess
  <1> QED
    BY <1>2, <1>3, <1>4 DEF IInv

LEMMA PlanRunStep ==
    ASSUME IInv, NEW w \in Workers, PlanRun(w)
    PROVE  IInv'
  <1>1. PICK agents \in {1, 4} : \E cards \in 0..Cardinality(Files) :
            worker' = [worker EXCEPT
                ![w].at = IF EffectiveBatch(agents, cards) = 0
                          THEN "releasing" ELSE "planned",
                ![w].limit = EffectiveBatch(agents, cards)]
    BY Zenon DEF PlanRun
  <1>2. PICK cards \in 0..Cardinality(Files) :
            worker' = [worker EXCEPT
                ![w].at = IF EffectiveBatch(agents, cards) = 0
                          THEN "releasing" ELSE "planned",
                ![w].limit = EffectiveBatch(agents, cards)]
    BY <1>1
  <1> DEFINE size == EffectiveBatch(agents, cards)
             phase == IF size = 0 THEN "releasing" ELSE "planned"
             run == [worker[w] EXCEPT !.at = phase, !.limit = size]
  <1>3. size \in Nat
    BY BatchType
  <1> HIDE DEF size
  <1>4. phase \in Phases
    BY DEF Phases
  <1>5. worker' = [worker EXCEPT ![w].at = phase, ![w].limit = size]
    BY <1>2, Zenon DEF size
  <1> HIDE DEF phase
  <1>6. worker' = [worker EXCEPT ![w] = run]
    BY <1>5, Typed
  <1>7. /\ run \in Runs /\ run.leaseLeft = worker[w].leaseLeft
        /\ run.batch = worker[w].batch /\ run.claimLeft = worker[w].claimLeft
    BY <1>3, <1>4, Typed DEF Runs
  <1>8. MidRun(w) /\ lease' = lease /\ evidence' = evidence /\ faults' \in Nat
    BY Typed DEF PlanRun, MidRun
  <1> HIDE DEF run
  <1> QED
    BY <1>6, <1>7, <1>8, RunOnStep

LEMMA ClaimEvidenceBatchStep ==
    ASSUME IInv, NEW w \in Workers, ClaimEvidenceBatch(w)
    PROVE  IInv'
  <1> DEFINE claimed == Oldest(Reclaimed, worker[w].limit)
             run == [worker[w] EXCEPT !.at = "claimed", !.batch = claimed,
                                      !.claimLeft = Duration]
  <1>1. claimed \subseteq EvidenceIds
    BY DEF Oldest
  <1>2. \A e \in claimed : Reclaimed[e].state = "pending"
    BY DEF Oldest
  <1>3. evidence' = [e \in EvidenceIds |->
            IF e \in claimed THEN Claimed(Reclaimed[e], w) ELSE Reclaimed[e]]
    BY Zenon DEF ClaimEvidenceBatch
  <1>4. worker' = [worker EXCEPT ![w].at = "claimed", ![w].batch = claimed,
                                 ![w].claimLeft = Duration]
    BY Zenon DEF ClaimEvidenceBatch
  <1> HIDE DEF claimed
  <1>5. worker' = [worker EXCEPT ![w] = run]
    BY <1>4, Typed
  <1>6. /\ run \in Runs /\ run.leaseLeft = worker[w].leaseLeft
        /\ run.at = "claimed" /\ run.batch = claimed /\ run.claimLeft = Duration
    <2>1. Duration \in TimeLeft /\ "claimed" \in Phases /\ worker[w] \in Runs
      BY Typed, KeeperAssumption DEF Phases, TimeLeft
    <2> QED
      BY <1>1, <2>1 DEF Runs
  <1> HIDE DEF run
  <1>7. /\ worker' \in [Workers -> Runs] /\ worker'[w] = run
        /\ \A v \in Workers : v # w => worker'[v] = worker[v]
    BY <1>5, <1>6, Typed
  <1>8. lease' = lease /\ faults' = faults /\ MidRun(w)
    BY DEF ClaimEvidenceBatch, MidRun
  <1>9. ASSUME NEW e \in EvidenceIds
        PROVE  /\ evidence'[e] \in EvidenceRows
               /\ evidence'[e].state # "processing" => evidence'[e].holder = Nobody
               /\ e \in claimed =>
                    /\ evidence'[e].state = "processing"
                    /\ evidence'[e].holder = w
                    /\ evidence'[e].left = Duration
               /\ e \notin claimed => evidence'[e] = Reclaimed[e]
    <2>1. CASE e \in claimed
      <3>1. evidence'[e] = Claimed(Reclaimed[e], w)
        BY <1>3, <2>1
      <3> QED
        BY <2>1, <3>1, ReclaimedRows, RowUpdates
    <2>2. CASE e \notin claimed
      <3>1. evidence'[e] = Reclaimed[e]
        BY <1>3, <2>2
      <3> QED
        BY <2>2, <3>1, ReclaimedRows
    <2> QED
      BY <2>1, <2>2
  <1>10. TypeOK'
    <2>1. evidence' \in [EvidenceIds -> EvidenceRows]
      BY <1>3, <1>9
    <2> QED
      BY <1>7, <1>8, <2>1, Typed DEF TypeOK
  <1>11. LeaseHonoured'
    BY <1>6, <1>7, <1>8 DEF IInv, LeaseHonoured, TrustsLease, MidRun
  <1>12. ClaimsHonoured'
    <2> SUFFICES ASSUME NEW v \in Workers, NEW e \in EvidenceIds,
                        worker'[v].claimLeft >= 0, e \in worker'[v].batch
                 PROVE  /\ evidence'[e].state = "processing"
                        /\ evidence'[e].holder = v
                        /\ evidence'[e].left >= worker'[v].claimLeft
      BY DEF ClaimsHonoured
    <2>1. CASE v = w
      BY <1>6, <1>7, <1>9, <2>1, KeeperAssumption
    <2>2. CASE v # w
      <3>1. /\ evidence[e].state = "processing"
            /\ evidence[e].holder = v
            /\ evidence[e].left >= worker[v].claimLeft
            /\ worker[v].claimLeft >= 0
        BY <1>7, <2>2 DEF IInv, ClaimsHonoured
      <3>2. Reclaimed[e] = evidence[e]
        BY <3>1, Typed, ReclaimedRows
      <3>3. evidence'[e] = evidence[e]
        BY <1>2, <1>9, <3>1, <3>2
      <3> QED
        BY <1>7, <2>2, <3>1, <3>3
    <2> QED
      BY <2>1, <2>2
  <1>13. HoldersProcess'
    BY <1>9 DEF HoldersProcess
  <1> QED
    BY <1>10, <1>11, <1>12, <1>13 DEF IInv

LEMMA SelectFilesToCardStep ==
    ASSUME IInv, NEW w \in Workers, SelectFilesToCard(w)
    PROVE  IInv'
  <1>1. PICK files \in SUBSET Files :
            worker' = [worker EXCEPT ![w].at = "writing", ![w].todo = files]
    BY DEF SelectFilesToCard
  <1> DEFINE run == [worker[w] EXCEPT !.at = "writing", !.todo = files]
  <1>2. worker' = [worker EXCEPT ![w] = run]
    BY <1>1, Typed
  <1>3. /\ run \in Runs /\ run.leaseLeft = worker[w].leaseLeft
        /\ run.batch = worker[w].batch /\ run.claimLeft = worker[w].claimLeft
    BY Typed DEF Runs, Phases
  <1>4. MidRun(w) /\ lease' = lease /\ evidence' = evidence /\ faults' \in Nat
    BY Typed DEF SelectFilesToCard, MidRun
  <1> HIDE DEF run
  <1> QED
    BY <1>2, <1>3, <1>4, RunOnStep

LEMMA WriteCardStep ==
    ASSUME IInv, NEW w \in Workers, NEW f \in Files, WriteCard(w, f)
    PROVE  IInv'
  <1> DEFINE run == [worker[w] EXCEPT !.todo = @ \ {f}]
  <1>1. worker' = [worker EXCEPT ![w] = run]
    BY Typed DEF WriteCard
  <1>2. /\ run \in Runs /\ run.leaseLeft = worker[w].leaseLeft
        /\ run.batch = worker[w].batch /\ run.claimLeft = worker[w].claimLeft
    BY Typed DEF Runs
  <1>3. MidRun(w) /\ lease' = lease /\ evidence' = evidence /\ faults' \in Nat
    BY Typed DEF WriteCard, MidRun
  <1> HIDE DEF run
  <1> QED
    BY <1>1, <1>2, <1>3, RunOnStep

LEMMA CompleteEvidenceBatchStep ==
    ASSUME IInv, NEW w \in Workers, CompleteEvidenceBatch(w)
    PROVE  IInv'
  <1> DEFINE run == [worker[w] EXCEPT !.at = "refreshing", !.batch = {},
                                      !.claimLeft = -1]
  <1>1. worker' = [worker EXCEPT ![w] = run]
    BY Typed DEF CompleteEvidenceBatch
  <1>2. run \in Runs /\ run.leaseLeft = worker[w].leaseLeft /\ run.batch = {}
    <2>1. -1 \in TimeLeft /\ "refreshing" \in Phases /\ worker[w] \in Runs
      BY Typed, KeeperAssumption DEF Phases, TimeLeft
    <2> QED
      BY <2>1 DEF Runs
  <1> HIDE DEF run
  <1>3. /\ worker' \in [Workers -> Runs] /\ worker'[w] = run
        /\ \A v \in Workers : v # w => worker'[v] = worker[v]
    BY <1>1, <1>2, Typed
  <1>4. lease' = lease /\ faults' = faults /\ MidRun(w)
    BY DEF CompleteEvidenceBatch, MidRun
  <1>5. evidence' = [e \in EvidenceIds |->
            IF e \in worker[w].batch /\ MayComplete(w, e)
            THEN Completed(evidence[e]) ELSE evidence[e]]
    BY DEF CompleteEvidenceBatch
  <1>6. ASSUME NEW e \in EvidenceIds
        PROVE  /\ evidence'[e] \in EvidenceRows
               /\ evidence'[e].state # "processing" => evidence'[e].holder = Nobody
               /\ evidence[e].holder # w => evidence'[e] = evidence[e]
    BY <1>5, Typed, RowUpdates DEF IInv, HoldersProcess, MayComplete
  <1>7. TypeOK'
    <2>1. evidence' \in [EvidenceIds -> EvidenceRows]
      BY <1>5, <1>6
    <2> QED
      BY <1>3, <1>4, <2>1, Typed DEF TypeOK
  <1>8. LeaseHonoured'
    BY <1>2, <1>3, <1>4 DEF IInv, LeaseHonoured, TrustsLease, MidRun
  <1>9. ClaimsHonoured'
    BY <1>2, <1>3, <1>6 DEF IInv, ClaimsHonoured
  <1>10. HoldersProcess'
    BY <1>6 DEF HoldersProcess
  <1> QED
    BY <1>7, <1>8, <1>9, <1>10 DEF IInv

LEMMA RefreshLeaseStep ==
    ASSUME IInv, NEW w \in Workers, RefreshLease(w)
    PROVE  IInv'
  <1> DEFINE run == [worker[w] EXCEPT !.at = "releasing"]
  <1>1. worker' = [worker EXCEPT ![w] = run]
    BY Typed DEF RefreshLease
  <1>2. /\ run \in Runs /\ run.leaseLeft = worker[w].leaseLeft
        /\ run.batch = worker[w].batch /\ run.claimLeft = worker[w].claimLeft
    BY Typed DEF Runs, Phases
  <1> HIDE DEF run
  <1>3. /\ worker' \in [Workers -> Runs] /\ worker'[w] = run
        /\ \A v \in Workers : v # w => worker'[v] = worker[v]
    BY <1>1, <1>2, Typed
  <1>4. evidence' = evidence /\ faults' = faults /\ MidRun(w)
    BY DEF RefreshLease, MidRun
  <1>5. /\ lease' \in LeaseRows /\ lease'.holder = lease.holder
        /\ lease' = lease \/ lease'.left = Duration
    BY Typed, KeeperAssumption DEF RefreshLease, LeaseRows, TimeLeft
  <1>6. \A v \in Workers : /\ TrustsLease(v)' => TrustsLease(v)
                          /\ worker'[v].leaseLeft = worker[v].leaseLeft
                          /\ worker[v].leaseLeft <= Duration
    BY <1>2, <1>3, <1>4, Typed DEF TrustsLease, MidRun, Runs, TimeLeft
  <1>7. TypeOK'
    BY <1>3, <1>4, <1>5, Typed DEF TypeOK
  <1>8. LeaseHonoured'
    BY <1>5, <1>6 DEF IInv, LeaseHonoured
  <1>9. ClaimsHonoured' /\ HoldersProcess'
    BY <1>2, <1>3, <1>4 DEF IInv, ClaimsHonoured, HoldersProcess
  <1> QED
    BY <1>7, <1>8, <1>9 DEF IInv

LEMMA ReleaseLeaseStep ==
    ASSUME IInv, NEW w \in Workers, ReleaseLease(w)
    PROVE  IInv'
  <1>1. "idle" \in Phases
    BY DEF Phases
  <1>2. /\ worker' \in [Workers -> Runs] /\ worker'[w] = NoRun("idle")
        /\ \A v \in Workers : v # w => worker'[v] = worker[v]
    BY <1>1, Typed, NoRunType DEF ReleaseLease
  <1>3. evidence' = evidence /\ faults' = faults
    BY DEF ReleaseLease
  <1>4. lease' \in LeaseRows /\ (lease.holder # w => lease' = lease)
    <2>1. -1 \in TimeLeft
      BY KeeperAssumption DEF TimeLeft
    <2> QED
      BY <2>1, Typed DEF ReleaseLease, LeaseRows
  <1>5. TypeOK'
    BY <1>2, <1>3, <1>4, Typed DEF TypeOK
  <1>6. LeaseHonoured'
    <2>1. ~TrustsLease(w)'
      BY <1>1, <1>2, NoRunType DEF TrustsLease, MidRun
    <2> QED
      BY <1>2, <1>4, <2>1 DEF IInv, LeaseHonoured, TrustsLease, MidRun
  <1>7. ClaimsHonoured' /\ HoldersProcess'
    BY <1>1, <1>2, <1>3, NoRunType DEF IInv, ClaimsHonoured, HoldersProcess
  <1> QED
    BY <1>5, <1>6, <1>7 DEF IInv

-------------------------------------------------------------------------------
(* Faults, time and the environment. *)

\* A run that ends, or dies, and whose rows stay as they are.
LEMMA RunEndStep ==
    ASSUME IInv, NEW w \in Workers, NEW phase \in {"idle", "dead"},
           worker' = [worker EXCEPT ![w] = NoRun(phase)],
           lease' = lease, evidence' = evidence, faults' \in Nat
    PROVE  IInv'
  <1>1. phase \in Phases
    BY DEF Phases
  <1>2. /\ worker' \in [Workers -> Runs] /\ worker'[w] = NoRun(phase)
        /\ \A v \in Workers : v # w => worker'[v] = worker[v]
    BY <1>1, Typed, NoRunType
  <1>3. TypeOK'
    BY <1>2, Typed DEF TypeOK
  <1>4. LeaseHonoured'
    <2>1. ~TrustsLease(w)'
      BY <1>1, <1>2, NoRunType DEF TrustsLease, MidRun
    <2> QED
      BY <1>2, <2>1 DEF IInv, LeaseHonoured, TrustsLease, MidRun
  <1>5. ClaimsHonoured' /\ HoldersProcess'
    BY <1>1, <1>2, NoRunType DEF IInv, ClaimsHonoured, HoldersProcess
  <1> QED
    BY <1>3, <1>4, <1>5 DEF IInv

LEMMA StatementFailsStep ==
    ASSUME IInv, NEW w \in Workers, StatementFails(w)
    PROVE  IInv'
  <1>1. MidRun(w) /\ lease' = lease /\ evidence' = evidence /\ faults' \in Nat
    BY Typed DEF StatementFails
  <1> DEFINE run == [NoRun("releasing") EXCEPT !.leaseLeft = worker[w].leaseLeft]
  <1>2. CASE worker' = [worker EXCEPT ![w] = run]
    <2>1. worker[w].leaseLeft \in TimeLeft
      BY Typed DEF Runs
    <2>2. run \in Runs /\ run.leaseLeft = worker[w].leaseLeft /\ run.batch = {}
      BY <2>1, KeeperAssumption DEF NoRun, Runs, Phases, TimeLeft
    <2> HIDE DEF run
    <2> QED
      BY <1>1, <1>2, <2>2, RunOnStep
  <1>3. CASE worker' = [worker EXCEPT ![w] = NoRun("idle")]
    BY <1>1, <1>3, RunEndStep
  <1> QED
    BY <1>2, <1>3, Zenon DEF StatementFails

LEMMA ProcessDiesStep ==
    ASSUME IInv, NEW w \in Workers, ProcessDies(w)
    PROVE  IInv'
  <1>1. /\ worker' = [worker EXCEPT ![w] = NoRun("dead")]
        /\ lease' = lease /\ evidence' = evidence /\ faults' \in Nat
    BY Typed DEF ProcessDies
  <1> QED
    BY <1>1, RunEndStep

\* Time moves on for the rows and for the runs alike.
LEMMA TickStep ==
    ASSUME IInv, Tick
    PROVE  IInv'
  <1>1. /\ lease' \in LeaseRows /\ lease'.holder = lease.holder
        /\ lease'.left = Later(lease.left)
    <2>1. lease.left \in TimeLeft /\ lease \in LeaseRows
      BY Typed DEF LeaseRows
    <2> QED
      BY <2>1, LaterType DEF Tick, LeaseRows
  <1>2. ASSUME NEW e \in EvidenceIds
        PROVE  /\ evidence'[e] \in EvidenceRows
               /\ evidence'[e].state = evidence[e].state
               /\ evidence'[e].holder = evidence[e].holder
               /\ evidence'[e].left = Later(evidence[e].left)
    <2>1. evidence'[e] = [evidence[e] EXCEPT !.left = Later(evidence[e].left)]
      BY DEF Tick
    <2>2. evidence[e] \in EvidenceRows /\ evidence[e].left \in TimeLeft
      BY Typed DEF EvidenceRows
    <2> QED
      BY <2>1, <2>2, LaterType DEF EvidenceRows
  <1>3. ASSUME NEW w \in Workers
        PROVE  /\ worker'[w] \in Runs
               /\ worker'[w].at = worker[w].at
               /\ worker'[w].batch = worker[w].batch
               /\ worker'[w].leaseLeft = Later(worker[w].leaseLeft)
               /\ worker'[w].claimLeft = Later(worker[w].claimLeft)
    <2>1. worker'[w] = [worker[w] EXCEPT !.leaseLeft = Later(worker[w].leaseLeft),
                                         !.claimLeft = Later(worker[w].claimLeft)]
      BY DEF Tick
    <2>2. worker[w] \in Runs /\ worker[w].leaseLeft \in TimeLeft
                            /\ worker[w].claimLeft \in TimeLeft
      BY Typed DEF Runs
    <2>3. Later(worker[w].leaseLeft) \in TimeLeft /\ Later(worker[w].claimLeft) \in TimeLeft
      BY <2>2, LaterType
    <2> QED
      BY <2>1, <2>2, <2>3 DEF Runs
  <1>4. TypeOK'
    <2>1. evidence' \in [EvidenceIds -> EvidenceRows]
      BY <1>2 DEF Tick
    <2>2. worker' \in [Workers -> Runs]
      BY <1>3 DEF Tick
    <2>3. faults' \in Nat
      BY Typed DEF Tick
    <2> QED
      BY <1>1, <2>1, <2>2, <2>3 DEF TypeOK
  <1>5. LeaseHonoured'
    BY <1>1, <1>3, Typed DEF IInv, LeaseHonoured, TrustsLease, MidRun, Later
  <1>6. ClaimsHonoured'
    BY <1>2, <1>3, Typed DEF IInv, ClaimsHonoured, Later
  <1>7. HoldersProcess'
    BY <1>2 DEF IInv, HoldersProcess
  <1> QED
    BY <1>4, <1>5, <1>6, <1>7 DEF IInv

LEMMA EnvironmentStep ==
    ASSUME IInv, Environment
    PROVE  IInv'
  <1>1. PICK e \in EvidenceIds : (\E stale \in BOOLEAN : AppendEvidence(e, stale))
                               \/ MarkPossiblyStale(e)
    BY DEF Environment
  <1>2. PICK row \in EvidenceRows :
          /\ evidence' = [evidence EXCEPT ![e] = row]
          /\ \/ evidence[e].state = "unrecorded" /\ row.state = "pending"
             \/ row.state = evidence[e].state
          /\ row.holder = evidence[e].holder /\ row.left = evidence[e].left
    <2>1. CASE MarkPossiblyStale(e)
      <3>1. [evidence[e] EXCEPT !.stale = TRUE] \in EvidenceRows
        BY Typed DEF EvidenceRows
      <3> QED
        BY <2>1, <3>1, Typed DEF MarkPossiblyStale, EvidenceRows
    <2>2. ASSUME NEW stale \in BOOLEAN, AppendEvidence(e, stale)
          PROVE  \E row \in EvidenceRows :
                   /\ evidence' = [evidence EXCEPT ![e] = row]
                   /\ \/ evidence[e].state = "unrecorded" /\ row.state = "pending"
                      \/ row.state = evidence[e].state
                   /\ row.holder = evidence[e].holder /\ row.left = evidence[e].left
      <3> DEFINE row == [evidence[e] EXCEPT !.state = "pending", !.stale = stale]
      <3>1. /\ row \in EvidenceRows /\ row.state = "pending"
            /\ row.holder = evidence[e].holder /\ row.left = evidence[e].left
        BY Typed DEF EvidenceRows
      <3>2. evidence' = [evidence EXCEPT ![e] = row] /\ evidence[e].state = "unrecorded"
        BY <2>2, Typed DEF AppendEvidence
      <3> HIDE DEF row
      <3> QED
        BY <3>1, <3>2
    <2> QED
      BY <1>1, <2>1, <2>2
  <1>3. lease' = lease /\ worker' = worker /\ faults' = faults
    BY <1>1 DEF AppendEvidence, MarkPossiblyStale
  <1>4. evidence' \in [EvidenceIds -> EvidenceRows] /\ evidence'[e] = row
        /\ \A f \in EvidenceIds : f # e => evidence'[f] = evidence[f]
    BY <1>2, Typed
  <1>5. TypeOK'
    BY <1>3, <1>4, Typed DEF TypeOK
  <1>6. LeaseHonoured'
    BY <1>3 DEF IInv, LeaseHonoured, TrustsLease, MidRun
  <1>7. ClaimsHonoured' /\ HoldersProcess'
    BY <1>2, <1>3, <1>4 DEF IInv, ClaimsHonoured, HoldersProcess
  <1> QED
    BY <1>5, <1>6, <1>7 DEF IInv

-------------------------------------------------------------------------------
(* The invariant, and what follows from it. *)

LEMMA Initially == Init => IInv
  <1> SUFFICES ASSUME Init
               PROVE  IInv
    OBVIOUS
  <1>1. -1 \in TimeLeft /\ "idle" \in Phases /\ 0 \in Nat
    BY KeeperAssumption DEF TimeLeft, Phases
  <1>2. TypeOK
    BY <1>1, NoRunType DEF Init, TypeOK, LeaseRows, EvidenceRows
  <1>3. LeaseHonoured /\ ClaimsHonoured /\ HoldersProcess
    BY <1>1, NoRunType
    DEF Init, LeaseHonoured, ClaimsHonoured, HoldersProcess, TrustsLease, MidRun
  <1> QED
    BY <1>2, <1>3 DEF IInv

LEMMA RunStepPreserves ==
    ASSUME IInv, NEW w \in Workers, RunStep(w)
    PROVE  IInv'
  <1>1. CASE AcquireLease(w)
    BY <1>1, AcquireLeaseStep
  <1>2. CASE PlanRun(w)
    BY <1>2, PlanRunStep
  <1>3. CASE ClaimEvidenceBatch(w)
    BY <1>3, ClaimEvidenceBatchStep
  <1>4. CASE SelectFilesToCard(w)
    BY <1>4, SelectFilesToCardStep
  <1>5. CASE \E f \in Files : WriteCard(w, f)
    BY <1>5, WriteCardStep
  <1>6. CASE CompleteEvidenceBatch(w)
    BY <1>6, CompleteEvidenceBatchStep
  <1>7. CASE RefreshLease(w)
    BY <1>7, RefreshLeaseStep
  <1>8. CASE ReleaseLease(w)
    BY <1>8, ReleaseLeaseStep
  <1> QED
    BY <1>1, <1>2, <1>3, <1>4, <1>5, <1>6, <1>7, <1>8 DEF RunStep

LEMMA NextPreserves == IInv /\ [Next]_vars => IInv'
  <1> SUFFICES ASSUME IInv, [Next]_vars
               PROVE  IInv'
    OBVIOUS
  <1>1. ASSUME NEW w \in Workers, RunStep(w) \/ StatementFails(w) \/ ProcessDies(w)
        PROVE  IInv'
    BY <1>1, RunStepPreserves, StatementFailsStep, ProcessDiesStep
  <1>2. CASE UNCHANGED vars
    BY <1>2 DEF vars, IInv, TypeOK, LeaseHonoured, ClaimsHonoured,
                HoldersProcess, TrustsLease, MidRun
  <1> QED
    BY <1>1, <1>2, TickStep, EnvironmentStep DEF Next

\* The strengthened invariant holds in every behaviour of the keepers.
THEOREM Invariance == Spec => []IInv
  BY Initially, NextPreserves, PTL DEF Spec

\* Rows and runs stay well-typed: expiries never run below "expired".
THEOREM Typing == Spec => []TypeOK
  <1>1. IInv => TypeOK
    BY DEF IInv
  <1> QED
    BY <1>1, Invariance, PTL

\* acquireLease, refreshLease and releaseLease never let two processes both
\* hold a lease that has not run out.
THEOREM ExclusiveLease == Spec => []LeaseIsExclusive
  <1>1. IInv => LeaseIsExclusive
    BY DEF IInv, LeaseHonoured, LeaseIsExclusive
  <1> QED
    BY <1>1, Invariance, PTL

\* claimEvidenceBatch and completeEvidenceBatch never take a row from a run
\* whose claim on it has not run out.
THEOREM ExclusiveClaims == Spec => []ClaimsAreExclusive
  <1>1. IInv => ClaimsAreExclusive
    BY DEF IInv, ClaimsHonoured, ClaimsAreExclusive
  <1> QED
    BY <1>1, Invariance, PTL

\* What CompletedOnceByClaimant asks of a step.
Settles(e) ==
    /\ evidence[e].state = "processed" => evidence'[e].state = "processed"
    /\ evidence[e].state # "processed" /\ evidence'[e].state = "processed" =>
         \E w \in Workers : evidence[e].holder = w /\ worker'[w] # worker[w]

LEMMA ClaimSettles ==
    ASSUME IInv, NEW w \in Workers, ClaimEvidenceBatch(w), NEW e \in EvidenceIds
    PROVE  Settles(e)
  <1> DEFINE claimed == Oldest(Reclaimed, worker[w].limit)
  <1>1. e \in claimed => Reclaimed[e].state = "pending"
    BY DEF Oldest
  <1>2. evidence'[e] = IF e \in claimed THEN Claimed(Reclaimed[e], w) ELSE Reclaimed[e]
    BY DEF ClaimEvidenceBatch
  <1> HIDE DEF claimed
  <1>3. Reclaimed[e].state # evidence[e].state =>
            evidence[e].state = "processing" /\ Reclaimed[e].state = "pending"
    BY ReclaimedRows
  <1>4. Claimed(Reclaimed[e], w).state = "processing"
    BY ReclaimedRows, RowUpdates
  <1> QED
    BY <1>1, <1>2, <1>3, <1>4 DEF Settles

LEMMA CompletionSettles ==
    ASSUME IInv, NEW w \in Workers, CompleteEvidenceBatch(w), NEW e \in EvidenceIds
    PROVE  Settles(e)
  <1>1. evidence'[e] = IF e \in worker[w].batch /\ MayComplete(w, e)
                       THEN Completed(evidence[e]) ELSE evidence[e]
    BY DEF CompleteEvidenceBatch
  <1>2. worker[w].at = "writing" /\ worker'[w].at = "refreshing"
    BY Typed DEF CompleteEvidenceBatch, Runs
  <1>3. Completed(evidence[e]).state = "processed"
    BY Typed, RowUpdates
  <1> QED
    BY <1>1, <1>2, <1>3 DEF Settles, MayComplete

LEMMA NextSettles ==
    ASSUME IInv, Next, NEW e \in EvidenceIds
    PROVE  Settles(e)
  <1>1. CASE evidence' = evidence
    BY <1>1 DEF Settles
  <1>2. ASSUME NEW w \in Workers, RunStep(w) \/ StatementFails(w) \/ ProcessDies(w)
        PROVE  \/ evidence' = evidence
               \/ ClaimEvidenceBatch(w)
               \/ CompleteEvidenceBatch(w)
    BY <1>2 DEF RunStep, AcquireLease, PlanRun, SelectFilesToCard, WriteCard,
                RefreshLease, ReleaseLease, StatementFails, ProcessDies
  <1>3. CASE Tick
    BY <1>3, Typed DEF Tick, EvidenceRows, Settles
  <1>4. CASE Environment
    BY <1>4, Typed
    DEF Environment, AppendEvidence, MarkPossiblyStale, EvidenceRows, Settles
  <1> QED
    BY <1>1, <1>2, <1>3, <1>4, ClaimSettles, CompletionSettles DEF Next

\* completeEvidenceBatch only completes rows its process still holds, and no
\* other statement makes or unmakes a processed row.
THEOREM SettledOnce == Spec => CompletedOnceByClaimant
  <1>1. IInv /\ [Next]_vars => [\A e \in EvidenceIds : Settles(e)]_vars
    BY NextSettles
  <1> QED
    BY <1>1, Invariance, PTL DEF Spec, CompletedOnceByClaimant, Settles

===============================================================================
