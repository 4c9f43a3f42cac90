---------------------------- MODULE DeliveryProofs ----------------------------
(*****************************************************************************)
(* What holds of a delivery, for any number of delegations, workers, plans,   *)
(* tasks, runs and events: that phases are completed on the coder's evidence  *)
(* and approved by every role with a memo on disk (ReviewerSwarm), that the   *)
(* last gate asks the run that spoke last, hears objections and has troubles  *)
(* admitted (FinalizationGate), that the audit tells the same (QualityAudit), *)
(* that the ledger gives free-form text no authority (LegacyImport), and that *)
(* a scout trusts what it has found in time and within its limits (Scout).     *)
(*                                                                            *)
(* The state is small and the decisions are operators over lists of any       *)
(* length, so that most of what follows is about these operators.  What is    *)
(* said of all lengths of a list rests on SetInduction.                       *)
(*****************************************************************************)
EXTENDS ReviewerSwarm, QualityAudit, LegacyImport, Scout,
        FiniteSetTheorems, SequenceTheorems, TLAPS

-------------------------------------------------------------------------------
(* Induction over the numbers, for sets of them: from the intervals of numbers *)
(* that are well-founded by inclusion.                                         *)

LEMMA SetInduction ==
    ASSUME NEW S, 0 \in S, \A n \in Nat : n \in S => n + 1 \in S
    PROVE  Nat \subseteq S
  <1> SUFFICES ASSUME NEW m \in Nat, m \notin S PROVE FALSE
    OBVIOUS
  <1> DEFINE T == {0..n : n \in Nat \ S}
             R == StrictSubsetOrdering(Nat)
  <1>1. T \subseteq FiniteSubsetsOf(Nat) /\ T # {}
    <2>1. \A n \in Nat : IsFiniteSet(0..n)
      BY FS_Interval
    <2>2. \A n \in Nat : 0..n \subseteq Nat
      OBVIOUS
    <2> QED
      BY <2>1, <2>2 DEF FiniteSubsetsOf
  <1>2. PICK x \in T : \A y \in T : ~ (<<y, x>> \in R)
    <2> HIDE DEF T, R
    <2>1. IsWellFoundedOn(R, FiniteSubsetsOf(Nat))
      BY FS_StrictSubsetOrderingWellFounded DEF R
    <2> QED
      BY <2>1, <1>1, WFMin
  <1>3. PICK n \in Nat \ S : x = 0..n
    BY <1>2
  <1>4. n # 0 /\ n - 1 \in Nat /\ (n - 1) + 1 = n
    BY <1>3
  <1>5. 0..(n - 1) \in T
    BY <1>4
  <1>6. <<0..(n - 1), 0..n>> \in R
    <2>1. 0..(n - 1) \subseteq Nat /\ 0..n \subseteq Nat
      BY <1>4
    <2>2. 0..(n - 1) \subseteq 0..n /\ n \in 0..n /\ n \notin 0..(n - 1)
      BY <1>4
    <2> QED
      BY <2>1, <2>2 DEF StrictSubsetOrdering
  <1> QED
    BY <1>2, <1>3, <1>5, <1>6

\* A set of numbers that is not empty has a least one.
LEMMA LeastExists ==
    ASSUME NEW S \in SUBSET Nat, S # {}
    PROVE  \E x \in S : \A y \in S : x <= y
  <1> SUFFICES ASSUME \A x \in S : \E y \in S : y < x PROVE FALSE
    OBVIOUS
  <1> DEFINE Below == {n \in Nat : \A k \in 0..n : k \notin S}
  <1>1. 0 \in Below
    OBVIOUS
  <1>2. ASSUME NEW n \in Nat, n \in Below PROVE n + 1 \in Below
    <2>1. n + 1 \notin S
      BY <1>2
    <2> QED
      BY <1>2, <2>1
  <1> HIDE DEF Below
  <1>3. Nat \subseteq Below
    BY <1>1, <1>2, SetInduction
  <1>4. PICK s \in S : s \in Nat
    OBVIOUS
  <1>5. s \in Below
    BY <1>3, <1>4
  <1>6. s \in 0..s
    BY <1>4
  <1> QED
    BY <1>5, <1>6 DEF Below

LEMMA MinIsLeast ==
    ASSUME NEW S \in SUBSET Nat, S # {}
    PROVE  Min(S) \in S /\ \A y \in S : Min(S) <= y
  BY LeastExists DEF Min

LEMMA MaxIsGreatest ==
    ASSUME NEW n \in Nat, NEW S \in SUBSET (1..n), S # {}
    PROVE  Max(S) \in S /\ \A y \in S : y <= Max(S)
  <1> DEFINE Left == {n - x : x \in S}
  <1>0. \A x \in S : x \in Nat /\ n - x \in Nat
    OBVIOUS
  <1>1. Left \in SUBSET Nat /\ Left # {}
    BY <1>0
  <1>2. PICK l \in Left : \A k \in Left : l <= k
    BY <1>1, LeastExists
  <1>3. PICK x \in S : l = n - x
    BY <1>2
  <1>4. ASSUME NEW y \in S PROVE y <= x
    <2>1. n - y \in Left
      OBVIOUS
    <2>2. n - x <= n - y
      BY <1>2, <1>3, <2>1
    <2> QED
      BY <1>0, <2>2
  <1> QED
    BY <1>3, <1>4 DEF Max

-------------------------------------------------------------------------------
(* The review of a phase.  The memo that a review leaves says what the review  *)
(* says, so that it need only be written before the phase is marked.           *)

LEMMA MemoIsTheVerdict ==
    ASSUME NEW plan0, NEW answers,
           \A e \in EvaluationsOf(plan0, answers) : Approves(e),
           BuildReviewerMemoForResults(plan0, answers).missing = {}
    PROVE  BuildReviewerMemoForResults(plan0, answers).approved
  BY Zenon DEF BuildReviewerMemoForResults, ConsolidateReviewerMemo

LEMMA ConcludeWritesMemo ==
    ASSUME Conclude, RoleMode, phase'.status = "review_approved"
    PROVE  /\ memo'.approved
           /\ ~signal /\ ~swarm.aborted
           /\ ~Unfinished(swarm.results)
           /\ LET answers == [role \in ToSet(swarm.queue) |->
                                 ResultLike(swarm.results[CHOOSE i \in DOMAIN swarm.results :
                                                              swarm.queue[i] = role])]
              IN  \A e \in EvaluationsOf(Plan, answers) : Approves(e)
  <1> DEFINE aborted == swarm.aborted \/ signal
             results == IF aborted THEN MarkPendingAborted(swarm.results) ELSE swarm.results
             answers == [role \in ToSet(swarm.queue) |->
                            ResultLike(results[CHOOSE i \in DOMAIN results :
                                                   swarm.queue[i] = role])]
             built == BuildReviewerMemoForResults(Plan, answers)
  <1>1. ConcludeInRoleMode(results, aborted)
    BY DEF Conclude
  <1>2. PICK written \in BOOLEAN :
           /\ memo' = IF written THEN built ELSE memo
           /\ MarkPhase(ReviewStatus(RoleModeFails(EvaluationsOf(Plan, answers), results,
                                                   built.missing, written), aborted), <<>>)
    BY <1>1 DEF ConcludeInRoleMode
  <1> HIDE DEF built, results, answers, aborted
  <1>3. ReviewStatus(RoleModeFails(EvaluationsOf(Plan, answers), results,
                                   built.missing, written), aborted) = "review_approved"
    BY <1>2 DEF MarkPhase
  <1>4. /\ ~RoleModeFails(EvaluationsOf(Plan, answers), results, built.missing, written)
        /\ ~aborted
    BY <1>3 DEF ReviewStatus
  <1>5. /\ written /\ built.missing = {} /\ ~Unfinished(results)
        /\ \A e \in EvaluationsOf(Plan, answers) : Approves(e)
    BY <1>4 DEF RoleModeFails
  <1>6. memo'.approved
    BY <1>2, <1>5, MemoIsTheVerdict DEF built
  <1>7. results = swarm.results /\ ~signal /\ ~swarm.aborted
    BY <1>4 DEF results, aborted
  <1> QED
    BY <1>5, <1>6, <1>7 DEF answers

LEMMA MemoStep ==
    ASSUME MemoBacksApproval, [Next]_vars
    PROVE  MemoBacksApproval'
  <1> SUFFICES ASSUME phase'.status = "review_approved", RoleMode'
               PROVE  memo'.approved
    BY DEF MemoBacksApproval
  <1>1. CASE DelegateToCoder
    BY <1>1 DEF DelegateToCoder, MarkPhase, MemoBacksApproval, RoleMode, Plan
  <1>2. CASE DelegateToSingleReviewer
    BY <1>2 DEF DelegateToSingleReviewer, RoleMode, Plan
  <1>3. CASE StartSwarm
    BY <1>3 DEF StartSwarm, MemoBacksApproval, RoleMode, Plan
  <1>4. CASE Abort
    BY <1>4 DEF Abort, MemoBacksApproval, RoleMode, Plan
  <1>5. ASSUME NEW w \in Workers, WorkerReturns(w) PROVE memo'.approved
    BY <1>5 DEF WorkerReturns, MemoBacksApproval, RoleMode, Plan
  <1>6. CASE Conclude
    <2>1. RoleMode
      BY <1>6 DEF Conclude, RoleMode, Plan
    <2> QED
      BY <1>6, <2>1, ConcludeWritesMemo
  <1>7. CASE UNCHANGED vars
    BY <1>7 DEF vars, MemoBacksApproval, RoleMode, Plan
  <1> QED
    BY <1>1, <1>2, <1>3, <1>4, <1>5, <1>6, <1>7 DEF Next

\* While a phase of a plan with a matrix counts as approved, the memo on disk says so: whatever
\* reviews came before, were aborted, or failed to write theirs (delegate/tools.ts).
THEOREM MemoIsDurable == Spec => []MemoBacksApproval
  <1>1. Init => MemoBacksApproval
    BY DEF Init, MemoBacksApproval
  <1> QED
    BY <1>1, MemoStep, PTL DEF Spec

-------------------------------------------------------------------------------
(* The swarm has a reviewer for each role, and a result for each reviewer.    *)

LEMMA QueueHasAll ==
    ASSUME NEW S, IsFiniteSet(S)
    PROVE  ToSet(SetToSeq(S)) = S
  <1> DEFINE n == Cardinality(S)
  <1>1. n \in Nat /\ ExistsBijection(1..n, S)
    BY FS_CardinalityType
  <1>2. \E f \in [1..n -> S] : IsInjective(f)
    BY <1>1 DEF ExistsBijection, Bijection, Injection
  <1>3. SetToSeq(S) \in Injection(1..n, S)
    BY <1>2 DEF SetToSeq, Injection
  <1>4. Cardinality(1..n) = n
    BY <1>1, FS_Interval
  <1>5. SetToSeq(S) \in Surjection(1..n, S)
    BY <1>3, <1>4, FS_Injection
  <1> QED
    BY <1>5 DEF Surjection, ToSet

IsResult(result) ==
    /\ DOMAIN result = {"status", "verdict", "answer"}
    /\ result.answer = <<>> \/ \E answer \in Answers : result.answer = <<answer>>

SwarmInv ==
    /\ config \in Configs
    /\ DOMAIN swarm = {"at", "cursor", "queue", "results", "workers", "aborted"}
    /\ swarm.at = "running" =>
          /\ RoleMode => ToSet(swarm.queue) = RolesRequired(Plan)
          /\ DOMAIN swarm.results = DOMAIN swarm.queue
          /\ \A i \in DOMAIN swarm.results : IsResult(swarm.results[i])

LEMMA AbortedAreResults ==
    ASSUME NEW results, \A i \in DOMAIN results : IsResult(results[i])
    PROVE  /\ DOMAIN MarkPendingAborted(results) = DOMAIN results
           /\ \A i \in DOMAIN results : IsResult(MarkPendingAborted(results)[i])
  <1>1. ASSUME NEW result, IsResult(result)
        PROVE  IsResult([result EXCEPT !.status = "aborted"])
    BY <1>1 DEF IsResult
  <1> QED
    BY <1>1 DEF MarkPendingAborted

LEMMA SwarmStep ==
    ASSUME SwarmInv, [Next]_vars
    PROVE  SwarmInv'
  <1>1. ASSUME UNCHANGED <<config, swarm>> PROVE SwarmInv'
    BY <1>1 DEF SwarmInv, RoleMode, Plan
  <1>2. ASSUME UNCHANGED config, swarm' = NoSwarm PROVE SwarmInv'
    BY <1>2 DEF SwarmInv, NoSwarm
  <1>3. CASE StartSwarm
    <2> DEFINE queue == IF RoleMode THEN SetToSeq(RolesRequired(Plan)) ELSE Targets
               workers == IF Len(queue) < config.concurrency THEN Len(queue)
                          ELSE config.concurrency
    <2>1. swarm' = [at |-> "running", queue |-> queue, cursor |-> workers,
                    results |-> [i \in DOMAIN queue |-> Pending],
                    workers |-> [w \in 1..workers |-> w], aborted |-> FALSE]
      BY <1>3 DEF StartSwarm
    <2>2. RoleMode => ToSet(queue) = RolesRequired(Plan)
      BY SwarmAssumption, QueueHasAll DEF SwarmInv, Plan
    <2>3. UNCHANGED config
      BY <1>3 DEF StartSwarm
    <2> HIDE DEF queue, workers
    <2>4. IsResult(Pending)
      BY DEF IsResult, Pending
    <2> QED
      BY <2>1, <2>2, <2>3, <2>4 DEF SwarmInv, RoleMode, Plan
  <1>4. ASSUME NEW w \in Workers, WorkerReturns(w) PROVE SwarmInv'
    <2>1. PICK answer \in Answers :
            LET results == [swarm.results EXCEPT ![swarm.workers[w]] =
                               [status |-> answer.status, verdict |-> answer.verdict,
                                answer |-> <<answer>>]]
                aborted == swarm.aborted \/ AbortSeen(answer)
                goesOn == ~aborted /\ swarm.cursor < Len(swarm.queue)
            IN  swarm' = [swarm EXCEPT
                    !.aborted = aborted,
                    !.results = IF aborted THEN MarkPendingAborted(results) ELSE results,
                    !.workers[w] = IF goesOn THEN swarm.cursor + 1 ELSE 0,
                    !.cursor = IF goesOn THEN Advanced(@) ELSE @]
      BY <1>4 DEF WorkerReturns
    <2> DEFINE one == [status |-> answer.status, verdict |-> answer.verdict,
                       answer |-> <<answer>>]
               results == [swarm.results EXCEPT ![swarm.workers[w]] = one]
               aborted == swarm.aborted \/ AbortSeen(answer)
               goesOn == ~aborted /\ swarm.cursor < Len(swarm.queue)
               new == IF aborted THEN MarkPendingAborted(results) ELSE results
    <2>2. swarm' = [swarm EXCEPT
                       !.aborted = aborted, !.results = new,
                       !.workers[w] = IF goesOn THEN swarm.cursor + 1 ELSE 0,
                       !.cursor = IF goesOn THEN Advanced(@) ELSE @]
      BY <2>1
    <2>3. swarm.at = "running" /\ UNCHANGED config
      BY <1>4 DEF WorkerReturns
    <2>4. IsResult(one)
      BY DEF IsResult
    <2> HIDE DEF one
    <2>5. DOMAIN results = DOMAIN swarm.results /\ \A i \in DOMAIN results : IsResult(results[i])
      BY <2>3, <2>4 DEF SwarmInv
    <2> HIDE DEF results, aborted, goesOn
    <2>6. DOMAIN new = DOMAIN swarm.results /\ \A i \in DOMAIN new : IsResult(new[i])
      BY <2>5, AbortedAreResults
    <2> HIDE DEF new
    <2>7. /\ DOMAIN swarm' = DOMAIN swarm
          /\ swarm'.at = swarm.at /\ swarm'.queue = swarm.queue /\ swarm'.results = new
      BY <2>2 DEF SwarmInv
    <2> QED
      BY <2>3, <2>6, <2>7 DEF SwarmInv, RoleMode, Plan
  <1>5. CASE DelegateToCoder \/ DelegateToSingleReviewer \/ Abort \/ UNCHANGED vars
    BY <1>1, <1>5 DEF DelegateToCoder, DelegateToSingleReviewer, Abort, vars
  <1>6. CASE Conclude
    BY <1>2, <1>6 DEF Conclude
  <1> QED
    BY <1>3, <1>4, <1>5, <1>6 DEF Next

\* No answer, no evidence.
LEMMA NoAnswerIsSilent == ResolveReviewerExplicitEvidence(NoAnswer.details) = <<>>
  <1>1. EnvelopesOfDetails(NoAnswer.details) = <<>>
    BY DEF NoAnswer, EnvelopesOfDetails, Has
  <1> QED
    BY <1>1 DEF ResolveReviewerExplicitEvidence, Keep, IsEmpty

\* A role that is evaluated as approving has an answer whose own evidence approves.
LEMMA ApprovalIsInEvidence ==
    ASSUME NEW plan0, NEW role, NEW answer, Approves(EvaluateReviewerResult(plan0, role, answer))
    PROVE  ApprovesInEvidence(answer) /\ answer.status \notin {"failed", "aborted"}
  <1> DEFINE explicit == ResolveReviewerExplicitEvidence(answer.details)
  <1>1. ~IsBlocked(plan0, role, answer, explicit)
    BY DEF Approves, EvaluateReviewerResult
  <1> HIDE DEF explicit
  <1>2. /\ BaseVerdict(explicit, answer.verdict) = "APPROVED"
        /\ ~(explicit # <<>> /\ Head(explicit).blocking)
        /\ answer.status \notin {"failed", "aborted"}
    BY <1>1 DEF IsBlocked
  <1>3. explicit # <<>> /\ PickCanonicalVerdict(Head(explicit)) = "APPROVED"
    BY <1>2 DEF BaseVerdict
  <1> QED
    BY <1>2, <1>3 DEF ApprovesInEvidence, explicit

LEMMA ConcludedRolesApprove ==
    ASSUME SwarmInv, Conclude, RoleMode, phase'.status = "review_approved",
           NEW role \in RolesRequired(Plan)
    PROVE  role \in Approving(swarm.results)
  <1> DEFINE i == CHOOSE j \in DOMAIN swarm.results : swarm.queue[j] = role
             result == swarm.results[i]
             answers == [r \in ToSet(swarm.queue) |->
                            ResultLike(swarm.results[CHOOSE j \in DOMAIN swarm.results :
                                                         swarm.queue[j] = r])]
  <1>1. swarm.at = "running"
    BY DEF Conclude
  <1>2. role \in ToSet(swarm.queue)
    BY <1>1 DEF SwarmInv
  <1>3. i \in DOMAIN swarm.results /\ swarm.queue[i] = role
    BY <1>1, <1>2 DEF SwarmInv, ToSet
  <1>4. answers[role] = ResultLike(result)
    BY <1>2
  <1>5. \A e \in EvaluationsOf(Plan, answers) : Approves(e)
    BY ConcludeWritesMemo
  <1>6. EvaluateReviewerResult(Plan, role, answers[role]) \in EvaluationsOf(Plan, answers)
    <2>1. role \in DOMAIN answers
      BY <1>2
    <2> HIDE DEF answers
    <2> QED
      BY <2>1 DEF EvaluationsOf
  <1> HIDE DEF answers, i
  <1>7. /\ ApprovesInEvidence(ResultLike(result))
        /\ ResultLike(result).status \notin {"failed", "aborted"}
    BY <1>4, <1>5, <1>6, ApprovalIsInEvidence
  <1>8. IsResult(result)
    BY <1>1, <1>3 DEF SwarmInv
  <1>9. result.answer # <<>>
    <2> SUFFICES ASSUME result.answer = <<>> PROVE FALSE
      OBVIOUS
    <2>1. ResultLike(result).details = NoAnswer.details
      BY DEF ResultLike, NoAnswer
    <2> QED
      BY <1>7, <2>1, NoAnswerIsSilent DEF ApprovesInEvidence
  <1>10. PICK answer \in Answers : result.answer = <<answer>>
    BY <1>8, <1>9 DEF IsResult
  <1>11. ResultLike(result) = answer /\ Head(result.answer) = answer
    BY <1>10 DEF ResultLike
  <1>12. answer.status = "completed" /\ answer.approves
    BY <1>7, <1>11, SwarmAssumption
  <1> QED
    BY <1>3, <1>9, <1>11, <1>12 DEF Approving

LEMMA DefaultsAreRequired ==
    ASSUME NEW plan0
    PROVE  DefaultRoles \subseteq RolesRequired(plan0)
  BY DEF RolesRequired

\* A review passes only if every role has answered for itself, however many workers the swarm has,
\* in whatever order they come back, and whenever the call is aborted (runReviewerSwarm,
\* evaluateReviewerResult, buildReviewerMemoForResults).
THEOREM ReviewsAreUnanimous == Spec => ApprovalIsUnanimous
  <1>1. Init => SwarmInv
    BY DEF Init, SwarmInv, NoSwarm
  <1>2. SwarmInv /\ [Next]_vars =>
            [Conclude /\ phase'.status = "review_approved" /\ RoleMode =>
                /\ ~signal
                /\ \A i \in DOMAIN Plan.matrix :
                      Plan.matrix[i].roles \subseteq Approving(swarm.results)
                /\ DefaultRoles \subseteq Approving(swarm.results)]_vars
    <2> SUFFICES ASSUME SwarmInv, Conclude, phase'.status = "review_approved", RoleMode
                 PROVE  /\ ~signal
                        /\ \A i \in DOMAIN Plan.matrix :
                              Plan.matrix[i].roles \subseteq Approving(swarm.results)
                        /\ DefaultRoles \subseteq Approving(swarm.results)
      OBVIOUS
    <2>1. ~signal
      BY ConcludeWritesMemo
    <2>2. RolesRequired(Plan) \subseteq Approving(swarm.results)
      BY ConcludedRolesApprove
    <2>3. DefaultRoles \subseteq RolesRequired(Plan)
      BY DefaultsAreRequired
    <2>4. ASSUME NEW i \in DOMAIN Plan.matrix
          PROVE  Plan.matrix[i].roles \subseteq RolesRequired(Plan)
      <3>1. Plan.matrix[i].roles \in {Plan.matrix[j].roles : j \in DOMAIN Plan.matrix}
        OBVIOUS
      <3> QED
        BY <3>1 DEF RolesRequired
    <2> QED
      BY <2>1, <2>2, <2>3, <2>4
  <1> QED
    BY <1>1, <1>2, SwarmStep, PTL DEF Spec, ApprovalIsUnanimous

-------------------------------------------------------------------------------
(* The coder's evidence.  Lists that are kept in part keep their places, so    *)
(* that the first and the last of what is kept are found by their places.      *)

LEMMA FirstIsAMember ==
    ASSUME NEW kept, DOMAIN kept \in SUBSET Nat, ~IsEmpty(kept)
    PROVE  Min(DOMAIN kept) \in DOMAIN kept /\ First(kept) = kept[Min(DOMAIN kept)]
  BY MinIsLeast DEF IsEmpty, First

LEMMA EnvelopesHavePlaces ==
    ASSUME NEW json
    PROVE  DOMAIN Envelopes(json) \subseteq Nat
  <1> DEFINE a == IF Has(json, "evidence") THEN <<json.evidence>> ELSE <<>>
             b == IF Has(json, "done") /\ Has(json.done, "evidence")
                  THEN <<json.done.evidence>> ELSE <<>>
             c == IF LooksLikeFullSidecar(json) THEN <<>> ELSE <<json>>
  <1>1. ASSUME NEW S, json.evidence \in S, json.done.evidence \in S, json \in S
        PROVE  a \in Seq(S) /\ b \in Seq(S) /\ c \in Seq(S)
    <2>1. a \in Seq(S)
      BY <1>1
    <2>2. b \in Seq(S)
      BY <1>1
    <2>3. c \in Seq(S)
      BY <1>1
    <2> QED
      BY <2>1, <2>2, <2>3
  <1>2. Envelopes(json) = (a \o b) \o c
    BY DEF Envelopes
  <1> HIDE DEF a, b, c
  <1>3. PICK S : json.evidence \in S /\ json.done.evidence \in S /\ json \in S
    <2> WITNESS {json.evidence, json.done.evidence, json}
    <2> QED
      OBVIOUS
  <1>4. a \o b \in Seq(S) /\ c \in Seq(S)
    BY <1>1, <1>3
  <1>5. (a \o b) \o c \in Seq(S)
    BY <1>4
  <1> QED
    BY <1>2, <1>5

LEMMA CanonicalPayload ==
    ASSUME NEW envelope, Has(Canonical(envelope), "coderEvidence")
    PROVE  Has(envelope, "coderEvidence")
  BY DEF Canonical, Joined, Has

LEMMA EventPayload ==
    ASSUME NEW event, Has(PayloadFromEvent(event), "coderEvidence"), Has(event, "kind"),
           event.kind \in {"coder_evidence", "reviewer_evidence"}
    PROVE  event.kind = "coder_evidence" /\ Has(event, "payload")
  <1>1. EvidenceOf(event.kind) = "coderEvidence" /\ Has(event, "payload")
    BY DEF PayloadFromEvent, Has
  <1> QED
    BY <1>1 DEF EvidenceOf

LEMMA NothingHasNoPayload == ~Has(Nothing, "coderEvidence")
  BY DEF Nothing, Has

LEMMA FromEventIsFiled ==
    ASSUME NEW event, IsEvidenceEvent(event), Has(FromEvent(event), "coderEvidence")
    PROVE  IsFiledEvent(event)
  <1>1. IsCanonicalEvent(event) /\ Has(Canonical(PayloadFromEvent(event)), "coderEvidence")
    BY NothingHasNoPayload DEF FromEvent
  <1> QED
    BY <1>1, CanonicalPayload, EventPayload DEF IsFiledEvent, IsEvidenceEvent

LEMMA PickedIsFiled ==
    ASSUME NEW events0, IsList(events0),
           NEW kind \in {"coder_evidence", "reviewer_evidence"},
           Has(PickFromLedger(events0, kind), "coderEvidence")
    PROVE  \E i \in DOMAIN events0 : IsFiledEvent(events0[i])
  <1> DEFINE ofKind == Keep(events0, LAMBDA e : IsEvidenceEvent(e) /\ e.kind = kind
                                            /\ IsCanonicalEvent(e))
  <1>1. /\ DOMAIN ofKind \subseteq DOMAIN events0
        /\ \A i \in DOMAIN ofKind : /\ ofKind[i] = events0[i]
                                    /\ IsEvidenceEvent(events0[i])
                                    /\ IsCanonicalEvent(events0[i])
    BY DEF Keep
  <1>2. PickFromLedger(events0, kind) =
            IF IsEmpty(ofKind) THEN <<>> ELSE PayloadFromEvent(First(ofKind))
    BY DEF PickFromLedger
  <1> HIDE DEF ofKind
  <1>3. ~IsEmpty(ofKind) /\ Has(PayloadFromEvent(First(ofKind)), "coderEvidence")
    BY <1>2 DEF Has
  <1>4. PICK i \in DOMAIN ofKind : First(ofKind) = ofKind[i]
    BY <1>1, <1>3, FirstIsAMember DEF IsList
  <1>5. events0[i].kind = "coder_evidence" /\ Has(events0[i], "payload")
    BY <1>1, <1>3, <1>4, EventPayload DEF IsEvidenceEvent
  <1> QED
    BY <1>1, <1>4, <1>5 DEF IsFiledEvent, IsEvidenceEvent

LEMMA FromLedgerIsFiled ==
    ASSUME NEW events0, IsList(events0), Has(FromLedger(events0), "coderEvidence")
    PROVE  \E i \in DOMAIN events0 : IsFiledEvent(events0[i])
  <1> DEFINE coder == PickFromLedger(events0, "coder_evidence")
             reviewer == PickFromLedger(events0, "reviewer_evidence")
  <1>1. Has(Joined(coder, reviewer), "coderEvidence")
    BY NothingHasNoPayload, CanonicalPayload DEF FromLedger
  <1>2. Has(coder, "coderEvidence") \/ Has(reviewer, "coderEvidence")
    BY <1>1 DEF Joined, Has
  <1> QED
    BY <1>2, PickedIsFiled

LEMMA FirstCarrying ==
    ASSUME NEW json, ~IsEmpty(Carrying(json))
    PROVE  \E i \in DOMAIN Envelopes(json) :
              /\ First(Carrying(json)) = Envelopes(json)[i]
              /\ HasPayload(Envelopes(json)[i]) \/ Has(Envelopes(json)[i], "event")
  <1>1. /\ DOMAIN Carrying(json) \subseteq DOMAIN Envelopes(json)
        /\ \A i \in DOMAIN Carrying(json) :
              /\ Carrying(json)[i] = Envelopes(json)[i]
              /\ HasPayload(Envelopes(json)[i]) \/ Has(Envelopes(json)[i], "event")
    BY DEF Carrying, Keep
  <1> QED
    BY <1>1, EnvelopesHavePlaces, FirstIsAMember

\* An object yields a packet only if it holds one, or if the event it carries does.
LEMMA ExtractionHolds ==
    ASSUME NEW json, NEW ofEvent, Has(json, "events") => IsList(json.events),
           Has(Extraction(json, ofEvent), "coderEvidence")
    PROVE  HoldsPacket(json) \/ (CarriesEvent(json) /\ Has(ofEvent, "coderEvidence"))
  <1>1. CASE CarriesEvent(json)
    <2>1. ~IsEmpty(Carrying(json))
      BY <1>1 DEF CarriesEvent
    <2> QED
      BY <1>1, <2>1 DEF Extraction
  <1>2. CASE ~IsEmpty(Carrying(json)) /\ ~CarriesEvent(json)
    <2>1. Has(First(Carrying(json)), "coderEvidence")
      BY <1>2, CanonicalPayload DEF Extraction
    <2> QED
      BY <1>2, <2>1, FirstCarrying DEF HoldsPacket
  <1>3. CASE IsEmpty(Carrying(json)) /\ IsEvidenceEvent(json)
    <2>1. Has(FromEvent(json), "coderEvidence") /\ ~CarriesEvent(json)
      BY <1>3 DEF Extraction, CarriesEvent
    <2> QED
      BY <1>3, <2>1, FromEventIsFiled DEF HoldsPacket
  <1>4. CASE IsEmpty(Carrying(json)) /\ ~IsEvidenceEvent(json)
    <2>1. Has(json, "events") /\ Has(FromLedger(json.events), "coderEvidence")
      BY <1>4, NothingHasNoPayload DEF Extraction, CarriesEvent
    <2> QED
      BY <2>1, FromLedgerIsFiled DEF HoldsPacket
  <1> QED
    BY <1>1, <1>2, <1>3, <1>4

LEMMA ExtractedIsFiled ==
    ASSUME NEW envelope,
           \A json \in FiledObjects(envelope) : Has(json, "events") => IsList(json.events),
           Has(ExtractCanonicalEvidence(envelope), "coderEvidence")
    PROVE  \E json \in FiledObjects(envelope) : HoldsPacket(json)
  <1>0. envelope \in FiledObjects(envelope)
    BY DEF FiledObjects
  <1>1. CASE CarriesEvent(envelope)
    <2> DEFINE event == First(Carrying(envelope)).event
    <2>1. PICK i \in DOMAIN Envelopes(envelope) :
            /\ First(Carrying(envelope)) = Envelopes(envelope)[i]
            /\ HasPayload(Envelopes(envelope)[i]) \/ Has(Envelopes(envelope)[i], "event")
      BY <1>1, FirstCarrying DEF CarriesEvent
    <2>2. event \in FiledObjects(envelope)
      BY <1>1, <2>1 DEF CarriesEvent, FiledObjects
    <2>3. ExtractCanonicalEvidence(envelope) =
             Extraction(envelope, Extraction(event, Nothing))
      BY <1>1 DEF ExtractCanonicalEvidence
    <2> HIDE DEF event
    <2>4. HoldsPacket(envelope) \/ Has(Extraction(event, Nothing), "coderEvidence")
      BY <1>0, <2>3, ExtractionHolds
    <2>5. HoldsPacket(envelope) \/ HoldsPacket(event)
      BY <2>2, <2>4, ExtractionHolds, NothingHasNoPayload
    <2> QED
      BY <1>0, <2>2, <2>5
  <1>2. CASE ~CarriesEvent(envelope)
    <2>1. ExtractCanonicalEvidence(envelope) = Extraction(envelope, Nothing)
      BY <1>2 DEF ExtractCanonicalEvidence
    <2> QED
      BY <1>0, <1>2, <2>1, ExtractionHolds
  <1> QED
    BY <1>1, <1>2

LEMMA OneIsFirst ==
    ASSUME NEW json
    PROVE  ~IsEmpty(<<json>>) /\ First(<<json>>) = json
  <1>1. DOMAIN <<json>> = {1}
    OBVIOUS
  <1>2. Min({1}) = 1
    BY MinIsLeast
  <1> QED
    BY <1>1, <1>2 DEF IsEmpty, First

LEMMA NoneIsEmpty == IsEmpty(<<>>)
  BY DEF IsEmpty

LEMMA GateReadsEnvelopes ==
    ASSUME NEW result, Has(RunCanonicalExtraction(result), "coderEvidence")
    PROVE  \E envelope \in FiledEnvelopes(result) :
              RunCanonicalExtraction(result) = ExtractCanonicalEvidence(envelope)
  <1> DEFINE found == IF result.sidecar # <<>> THEN EnvelopeOf(Head(result.sidecar))
                      ELSE RecognizedEnvelopes(result.details)
  <1>1. RunCanonicalExtraction(result) =
           IF IsEmpty(found) THEN Nothing ELSE ExtractCanonicalEvidence(First(found))
    BY DEF RunCanonicalExtraction
  <1>2. ~IsEmpty(found)
    BY <1>1, NothingHasNoPayload
  <1>3. First(found) \in FiledEnvelopes(result)
    <2>1. CASE result.sidecar # <<>>
      <3> DEFINE json == Head(result.sidecar)
      <3> HIDE DEF json
      <3>1. found = EnvelopeOf(json)
        BY <2>1 DEF json
      <3> HIDE DEF found
      <3>2. CASE Has(json, "evidence")
        BY <2>1, <3>1, <3>2, OneIsFirst DEF EnvelopeOf, FiledEnvelopes, json
      <3>3. CASE ~Has(json, "evidence") /\ Has(json, "done") /\ Has(json.done, "evidence")
        BY <2>1, <3>1, <3>3, OneIsFirst DEF EnvelopeOf, FiledEnvelopes, json
      <3>4. CASE ~Has(json, "evidence") /\ ~(Has(json, "done") /\ Has(json.done, "evidence"))
        BY <1>2, <3>1, <3>4, NoneIsEmpty DEF EnvelopeOf
      <3> QED
        BY <3>2, <3>3, <3>4
    <2>2. CASE result.sidecar = <<>>
      <3> DEFINE json == result.details
                 a == IF Has(json, "evidence") THEN <<json.evidence>> ELSE <<>>
                 b == IF Has(json, "done") /\ Has(json.done, "evidence")
                      THEN <<json.done.evidence>> ELSE <<>>
      <3>1. a \in Seq(FiledEnvelopes(result)) /\ b \in Seq(FiledEnvelopes(result))
        <4> DEFINE S == FiledEnvelopes(result)
        <4>1. /\ Has(json, "evidence") => json.evidence \in S
              /\ Has(json, "done") /\ Has(json.done, "evidence") => json.done.evidence \in S
          BY <2>2 DEF FiledEnvelopes
        <4> HIDE DEF S, json
        <4>2. a \in Seq(S)
          BY <4>1
        <4>3. b \in Seq(S)
          BY <4>1
        <4> QED
          BY <4>2, <4>3 DEF S
      <3>2. found = RecognizedEnvelopes(json)
        BY <2>2
      <3>3. /\ DOMAIN found \subseteq DOMAIN (a \o b)
            /\ \A i \in DOMAIN found : found[i] = (a \o b)[i]
        BY <3>2 DEF RecognizedEnvelopes, Keep
      <3> HIDE DEF a, b, found, json
      <3>4. a \o b \in Seq(FiledEnvelopes(result))
        BY <3>1
      <3>5. DOMAIN (a \o b) \subseteq Nat
            /\ \A i \in DOMAIN (a \o b) : (a \o b)[i] \in FiledEnvelopes(result)
        BY <3>4
      <3>6. DOMAIN found \subseteq Nat
        BY <3>3, <3>5
      <3>7. PICK i \in DOMAIN found : First(found) = found[i]
        BY <1>2, <3>6, FirstIsAMember
      <3> QED
        BY <3>3, <3>5, <3>7
    <2> QED
      BY <2>1, <2>2
  <1> QED
    BY <1>1, <1>2, <1>3

\* A packet that names changed files is none but one the coder filed.
LEMMA PacketIsFiled ==
    ASSUME NEW result \in CoderResults, GatePacket(result).filesChanged
    PROVE  result.trusted
  <1>1. Has(RunCanonicalExtraction(result), "coderEvidence")
    BY DEF GatePacket, EmptyPacket
  <1>2. PICK envelope \in FiledEnvelopes(result) :
          RunCanonicalExtraction(result) = ExtractCanonicalEvidence(envelope)
    BY <1>1, GateReadsEnvelopes
  <1>3. \A json \in FiledObjects(envelope) : Has(json, "events") => IsList(json.events)
    BY CoderResultsAssumption
  <1>4. FiledAsEvidence(result)
    BY <1>1, <1>2, <1>3, ExtractedIsFiled DEF FiledAsEvidence
  <1> QED
    BY <1>4, CoderResultsAssumption

\* A completion the coder did not call for shows in the flags.
LEMMA HistoryTellsTheSource ==
    ASSUME NEW packet, NEW source, NEW hasOutput,
           source \in {"explicit", "none", "auto_exit", "process_exit", "missing", "legacy"},
           HistoryIssues(NormalizeCoderCompletionEvidence(packet, source, hasOutput)) = {}
    PROVE  source \in {"explicit", "none"}
  <1> DEFINE n == NormalizeCoderCompletionEvidence(packet, source, hasOutput)
  <1>1. FlagOfSource(source) \subseteq n.flags
    BY DEF NormalizeCoderCompletionEvidence, BuildHistory
  <1> HIDE DEF n
  <1>2. n.flags \subseteq {"freeFormOnly"}
    <2> SUFFICES ASSUME NEW flag \in n.flags \ {"freeFormOnly"} PROVE FALSE
      OBVIOUS
    <2>1. HistoryIssues(n) = {}
      BY DEF n
    <2> QED
      BY <2>1 DEF HistoryIssues
  <1>3. ClassifySourcePrecedence(n) # "free-form-only"
    BY DEF HistoryIssues, n
  <1>4. "freeFormOnly" \notin n.flags
    <2> SUFFICES ASSUME "freeFormOnly" \in n.flags PROVE FALSE
      OBVIOUS
    <2>1. n.flags \cap {"processExit", "missingSidecar"} = {} /\ "autoExit" \notin n.flags
      BY <1>2
    <2> QED
      BY <1>3, <2>1 DEF ClassifySourcePrecedence
  <1>5. FlagOfSource(source) = {}
    BY <1>1, <1>2, <1>4
  <1>6. source \notin {"auto_exit", "process_exit", "missing", "legacy"}
    BY <1>5 DEF FlagOfSource
  <1> QED
    BY <1>6

LEMMA RanksAreNumbers ==
    ASSUME NEW strength \in DOMAIN StrengthRank
    PROVE  StrengthRank[strength] \in 1..5
  <1>1. DOMAIN StrengthRank = ToSet(Strengths)
    BY DEF StrengthRank
  <1>2. \E k \in 1..5 : Strengths[k] = strength
    BY <1>1 DEF ToSet, Strengths
  <1>3. StrengthRank[strength] = CHOOSE k \in 1..5 : Strengths[k] = strength
    BY <1>1 DEF StrengthRank
  <1> QED
    BY <1>2, <1>3

LEMMA StrongestIsARow ==
    ASSUME NEW rows, DOMAIN rows \in SUBSET Nat, ~IsEmpty(rows),
           \A i \in DOMAIN rows : rows[i].strength \in DOMAIN StrengthRank
    PROVE  \E i \in DOMAIN rows : StrongestRow(rows) = rows[i]
  <1> DEFINE rank(i) == StrengthRank[rows[i].strength]
             ranks == {rank(i) : i \in DOMAIN rows}
             best == Keep(rows, LAMBDA row : \A j \in DOMAIN rows :
                                                 rank(j) <= StrengthRank[row.strength])
  <1>1. ranks \in SUBSET (1..5) /\ ranks # {}
    BY RanksAreNumbers DEF IsEmpty
  <1>2. Max(ranks) \in ranks /\ \A y \in ranks : y <= Max(ranks)
    <2> HIDE DEF ranks
    <2> QED
      BY <1>1, MaxIsGreatest
  <1>3. PICK i \in DOMAIN rows : rank(i) = Max(ranks)
    BY <1>2
  <1>4. \A j \in DOMAIN rows : rank(j) <= rank(i)
    BY <1>2, <1>3
  <1>5. i \in DOMAIN best
    BY <1>4 DEF Keep
  <1>6. DOMAIN best \subseteq DOMAIN rows /\ \A k \in DOMAIN best : best[k] = rows[k]
    BY DEF Keep
  <1>7. StrongestRow(rows) = First(best)
    BY DEF StrongestRow
  <1> HIDE DEF best
  <1>8. PICK k \in DOMAIN best : First(best) = best[k]
    BY <1>5, <1>6, FirstIsAMember DEF IsEmpty
  <1> QED
    BY <1>6, <1>7, <1>8

\* The runs of a command that count, and the last of them.
CountedRuns(packet, command) ==
    {k \in DOMAIN packet.commandsRun : /\ packet.commandsRun[k].command = command
                                       /\ packet.commandsRun[k].outcome \in Outcomes}

LEMMA LastRunDecides ==
    ASSUME NEW packet, NEW source, NEW hasOutput, NEW command, IsList(packet.commandsRun),
           NEW outcome, outcome = CommandOutcome(
               NormalizeCoderCompletionEvidence(packet, source, hasOutput), command)
    PROVE  LET last == {k \in CountedRuns(packet, command) :
                            \A l \in CountedRuns(packet, command) : l <= k}
           IN  /\ outcome = "passed" => last # {}
               /\ \A k \in last : /\ outcome = packet.commandsRun[k].outcome
                                  /\ outcome \in Outcomes
  <1> DEFINE n == NormalizeCoderCompletionEvidence(packet, source, hasOutput)
             runs == Keep(n.commandsRun, LAMBDA c : c.command = command)
             S == CountedRuns(packet, command)
  <1>1. n.commandsRun = Keep(packet.commandsRun, LAMBDA c : c.outcome \in Outcomes)
    BY DEF NormalizeCoderCompletionEvidence
  <1> HIDE DEF n
  <1>2. /\ DOMAIN n.commandsRun = {k \in DOMAIN packet.commandsRun :
                                      packet.commandsRun[k].outcome \in Outcomes}
        /\ \A k \in DOMAIN n.commandsRun : n.commandsRun[k] = packet.commandsRun[k]
    BY <1>1 DEF Keep
  <1>3. DOMAIN runs = S /\ \A k \in S : runs[k] = packet.commandsRun[k]
    BY <1>2 DEF Keep, CountedRuns
  <1>4. outcome = IF IsEmpty(runs) THEN "unknown" ELSE runs[Max(DOMAIN runs)].outcome
    BY DEF CommandOutcome, n
  <1>5. Len(packet.commandsRun) \in Nat /\ S \in SUBSET (1..Len(packet.commandsRun))
    BY DEF IsList, CountedRuns
  <1> HIDE DEF runs
  <1>6. CASE S = {}
    BY <1>3, <1>4, <1>6 DEF IsEmpty
  <1>7. CASE S # {}
    <2>1. \A k \in S : packet.commandsRun[k].outcome \in Outcomes
      BY DEF CountedRuns
    <2> HIDE DEF S
    <2>2. Max(S) \in S /\ \A y \in S : y <= Max(S)
      BY <1>5, <1>7, MaxIsGreatest
    <2>3. \A k \in S : (\A l \in S : l <= k) <=> k = Max(S)
      <3>1. \A k, l \in S : k \in Nat /\ l \in Nat
        BY <1>5
      <3>2. \A k \in S : k <= Max(S) /\ Max(S) \in Nat
        BY <2>2, <3>1
      <3> QED
        BY <2>2, <3>1, <3>2
    <2>4. outcome = packet.commandsRun[Max(S)].outcome
      BY <1>3, <1>4, <1>7, <2>2 DEF IsEmpty
    <2> QED
      BY <2>1, <2>2, <2>3, <2>4 DEF S
  <1> QED
    BY <1>6, <1>7

LEMMA GreenRow ==
    ASSUME NEW packet, NEW entry, NEW row, entry.requires \cap RunnableRequiredKinds # {},
           RowIssues(entry, row, packet) = {}
    PROVE  /\ row.evidenceKind \in RunnableCoderKinds
           /\ row.strength = "sufficient"
           /\ \E c \in row.commands : CommandOutcome(packet, c) = "passed"
           /\ \A c \in row.commands : CommandOutcome(packet, c) \notin {"failed", "skipped"}
  <1>1. row.strength # "skipped" /\ RunnableRowIssues(row, packet) = {}
    <2>1. ~(entry.requires \subseteq ReviewOrManualKinds)
      BY DEF RunnableRequiredKinds, ReviewOrManualKinds
    <2>2. row.strength # "skipped"
      BY DEF RowIssues
    <2> QED
      BY <2>1, <2>2 DEF RowIssues
  <1>2. row.evidenceKind \notin WeakCoderKinds
    BY <1>1 DEF RunnableRowIssues
  <1>3. row.evidenceKind \in RunnableCoderKinds
    BY <1>1, <1>2 DEF RunnableRowIssues
  <1>4. row.strength = "sufficient"
    BY <1>1, <1>2, <1>3 DEF RunnableRowIssues
  <1>5. /\ \E c \in row.commands : CommandOutcome(packet, c) = "passed"
        /\ \A c \in row.commands : CommandOutcome(packet, c) \notin {"failed", "skipped"}
    BY <1>1, <1>2, <1>3, <1>4 DEF RunnableRowIssues
  <1> QED
    BY <1>3, <1>4, <1>5

LEMMA NoIssuesRanGreen ==
    ASSUME NEW packet, NEW source, NEW hasOutput, NEW entry,
           IsList(packet.commandsRun), IsList(packet.criterionCoverage),
           entry.requires \cap RunnableRequiredKinds # {},
           EntryIssues(entry, NormalizeCoderCompletionEvidence(packet, source, hasOutput)) = {}
    PROVE  RanGreen(entry, packet)
  <1> DEFINE n == NormalizeCoderCompletionEvidence(packet, source, hasOutput)
             rows == Keep(n.criterionCoverage, LAMBDA r : r.criterion = entry.criterion)
             coverage == packet.criterionCoverage
  <1>1. n.criterionCoverage =
            Keep(coverage, LAMBDA r : /\ r.evidenceKind \in EvidenceKinds
                                      /\ r.strength \in DOMAIN StrengthRank)
    BY DEF NormalizeCoderCompletionEvidence
  <1>2. EntryIssues(entry, n) = IF IsEmpty(rows) THEN {"missing_criterion"}
                                ELSE RowIssues(entry, StrongestRow(rows), n)
    BY DEF EntryIssues
  <1>3. EntryIssues(entry, n) = {}
    OBVIOUS
  <1> HIDE DEF n
  <1>4. /\ DOMAIN rows \subseteq DOMAIN coverage
        /\ \A i \in DOMAIN rows : /\ rows[i] = coverage[i]
                                  /\ rows[i].criterion = entry.criterion
                                  /\ rows[i].strength \in DOMAIN StrengthRank
    BY <1>1 DEF Keep
  <1> HIDE DEF rows
  <1>5. DOMAIN rows \in SUBSET Nat
    <2>1. DOMAIN coverage \subseteq Nat
      BY DEF IsList
    <2> QED
      BY <1>4, <2>1
  <1>6. ~IsEmpty(rows) /\ RowIssues(entry, StrongestRow(rows), n) = {}
    BY <1>2, <1>3
  <1>7. PICK i \in DOMAIN rows : StrongestRow(rows) = rows[i]
    BY <1>4, <1>5, <1>6, StrongestIsARow
  <1> DEFINE row == coverage[i]
  <1>8. i \in DOMAIN coverage /\ row.criterion = entry.criterion /\ StrongestRow(rows) = row
    BY <1>4, <1>7
  <1> HIDE DEF row
  <1>9. /\ row.evidenceKind \in RunnableCoderKinds
        /\ row.strength = "sufficient"
        /\ \E c \in row.commands : CommandOutcome(n, c) = "passed"
        /\ \A c \in row.commands : CommandOutcome(n, c) \notin {"failed", "skipped"}
    BY <1>6, <1>8, GreenRow
  <1> DEFINE last(c) == {k \in CountedRuns(packet, c) : \A l \in CountedRuns(packet, c) : l <= k}
  <1>10. ASSUME NEW c
         PROVE  /\ CommandOutcome(n, c) = "passed" => last(c) # {}
                /\ \A k \in last(c) : /\ CommandOutcome(n, c) = packet.commandsRun[k].outcome
                                      /\ CommandOutcome(n, c) \in Outcomes
    BY LastRunDecides DEF n
  <1>11. \E c \in row.commands : last(c) # {}
    BY <1>9, <1>10
  <1>12. \A c \in row.commands : \A k \in last(c) : packet.commandsRun[k].outcome = "passed"
    BY <1>9, <1>10 DEF Outcomes
  <1> QED
    BY <1>8, <1>9, <1>11, <1>12 DEF RanGreen, CountedRuns, row

EvidenceInv ==
    phase.evidence # <<>> =>
        \E result \in CoderResults : phase.evidence = <<result>> /\ CoderMayAdvance(Plan, result)

LEMMA EvidenceStep ==
    ASSUME EvidenceInv, [Next]_vars
    PROVE  EvidenceInv'
  <1>1. ASSUME UNCHANGED <<config, phase>> PROVE EvidenceInv'
    BY <1>1 DEF EvidenceInv, Plan
  <1>2. ASSUME phase'.evidence = <<>> PROVE EvidenceInv'
    BY <1>2 DEF EvidenceInv
  <1>3. CASE DelegateToCoder
    <2>1. PICK result \in CoderResults :
            IF result.status = "completed" /\ CoderMayAdvance(Plan, result)
            THEN MarkPhase("coder_completed", <<result>>)
            ELSE UNCHANGED phase
      BY <1>3 DEF DelegateToCoder
    <2>2. UNCHANGED config
      BY <1>3 DEF DelegateToCoder
    <2>3. CASE result.status = "completed" /\ CoderMayAdvance(Plan, result)
      <3>1. phase'.evidence = <<result>>
        BY <2>1, <2>3 DEF MarkPhase
      <3>2. CoderMayAdvance(Plan', result)
        BY <2>2, <2>3 DEF Plan
      <3> QED
        BY <3>1, <3>2 DEF EvidenceInv
    <2>4. CASE ~(result.status = "completed" /\ CoderMayAdvance(Plan, result))
      BY <1>1, <2>1, <2>2, <2>4
    <2> QED
      BY <2>3, <2>4
  <1>4. CASE DelegateToSingleReviewer
    BY <1>2, <1>4 DEF DelegateToSingleReviewer, MarkPhase
  <1>5. CASE StartSwarm
    BY <1>5 DEF StartSwarm, EvidenceInv
  <1>6. CASE Abort \/ UNCHANGED vars
    BY <1>1, <1>6 DEF Abort, vars
  <1>7. ASSUME NEW w \in Workers, WorkerReturns(w) PROVE EvidenceInv'
    BY <1>1, <1>7 DEF WorkerReturns
  <1>8. CASE Conclude
    <2>1. ASSUME NEW results, NEW aborted, ConcludeInRoleMode(results, aborted)
          PROVE  phase'.evidence = <<>>
      BY <2>1 DEF ConcludeInRoleMode, MarkPhase
    <2>2. phase'.evidence = <<>>
      BY <1>8, <2>1 DEF Conclude, MarkPhase
    <2> QED
      BY <1>2, <2>2
  <1> QED
    BY <1>3, <1>4, <1>5, <1>6, <1>7, <1>8 DEF Next

LEMMA AdvancedOnEvidence ==
    ASSUME NEW result \in CoderResults, NEW plan0, IsMatrixGated(plan0),
           CoderMayAdvance(plan0, result)
    PROVE  /\ result.source \in {"explicit", "none"}
           /\ result.trusted
           /\ \A i \in DOMAIN plan0.matrix :
                 plan0.matrix[i].requires \cap RunnableRequiredKinds # {} =>
                     RanGreen(plan0.matrix[i], GatePacket(result))
  <1> DEFINE packet == GatePacket(result)
             n == NormalizeCoderCompletionEvidence(packet, result.source, result.hasOutput)
             issues == {EntryIssues(plan0.matrix[i], n) : i \in DOMAIN plan0.matrix}
  <1>1. HistoryIssues(n) = {} /\ PacketIssues(n) = {} /\ UNION issues = {}
    BY DEF CoderMayAdvance, RunCompletionEvidenceGate, EvaluateCoderCompletionEvidence
  <1>2. IsList(packet.commandsRun) /\ IsList(packet.criterionCoverage)
    BY CoderResultsAssumption
  <1>3. n.filesChanged = packet.filesChanged
    BY DEF NormalizeCoderCompletionEvidence
  <1> HIDE DEF packet
  <1>4. result.source \in {"explicit", "none"}
    BY <1>1, CoderResultsAssumption, HistoryTellsTheSource
  <1>5. ASSUME NEW i \in DOMAIN plan0.matrix,
               plan0.matrix[i].requires \cap RunnableRequiredKinds # {}
        PROVE  RanGreen(plan0.matrix[i], packet)
    <2>1. EntryIssues(plan0.matrix[i], n) \in issues
      OBVIOUS
    <2> HIDE DEF issues, n
    <2>2. EntryIssues(plan0.matrix[i], n) = {}
      BY <1>1, <2>1
    <2> QED
      BY <1>2, <1>5, <2>2, NoIssuesRanGreen DEF n
  <1>6. result.trusted
    <2> HIDE DEF n
    <2>1. packet.filesChanged
      BY <1>1, <1>3 DEF PacketIssues
    <2> QED
      BY <2>1, PacketIsFiled DEF packet
  <1> QED
    BY <1>4, <1>5, <1>6 DEF packet

\* A phase of a ready plan with a matrix is completed on nothing but evidence that the coder filed
\* itself, in a completion it called for, with every criterion that asks for a run seen to run
\* green (completion-evidence-gate.ts): for every list of commands and rows, in every order and
\* with every repetition, in every place an envelope may have.
THEOREM CompletionsAreEvidenced == Spec => []CompletionIsEvidenced
  <1>1. Init => EvidenceInv
    BY DEF Init, EvidenceInv
  <1>2. EvidenceInv => CompletionIsEvidenced
    <2> SUFFICES ASSUME EvidenceInv, phase.evidence # <<>>, Plan.status = "ready", RoleMode
                 PROVE  LET result == Head(phase.evidence)
                        IN  /\ result.source \in {"explicit", "none"}
                            /\ result.trusted
                            /\ \A i \in DOMAIN Plan.matrix :
                                  Plan.matrix[i].requires \cap RunnableRequiredKinds # {} =>
                                      RanGreen(Plan.matrix[i], GatePacket(result))
      BY DEF CompletionIsEvidenced
    <2>1. PICK result \in CoderResults :
            phase.evidence = <<result>> /\ CoderMayAdvance(Plan, result)
      BY DEF EvidenceInv
    <2>2. Head(phase.evidence) = result
      BY <2>1
    <2>3. IsMatrixGated(Plan)
      BY DEF IsMatrixGated, RoleMode
    <2> QED
      BY <2>1, <2>2, <2>3, AdvancedOnEvidence
  <1> QED
    BY <1>1, <1>2, EvidenceStep, PTL DEF Spec

-------------------------------------------------------------------------------
(* The ledger.  Each event that comes in has passed the guards of appendEvent, *)
(* an imported one as well, and a marking passes them again.                   *)

Imports == {ImportOf(from, TRUE) : from \in ImportSources}
              \cup {ImportOf(from, FALSE) : from \in ImportSources}
              \cup {MirrorOf(field) : field \in {"coderEvidence", "reviewerEvidence",
                                                 "delegateHistory"}}

LEMMA OneIsAList == ASSUME NEW S, NEW x \in S PROVE <<x>> \in Seq(S)
  OBVIOUS

LEMMA TwoAreAList == ASSUME NEW S, NEW x \in S, NEW y \in S PROVE <<x, y>> \in Seq(S)
  OBVIOUS

LEMMA JoinedAreAList ==
    ASSUME NEW S, NEW r \in Seq(S), NEW s \in Seq(S), NEW t \in Seq(S)
    PROVE  r \o s \o t \in Seq(S)
  <1>1. r \o s \in Seq(S)
    OBVIOUS
  <1> QED
    BY <1>1

LEMMA ImportsAreAList ==
    ASSUME NEW artifact \in Artifacts
    PROVE  ImportsOf(artifact) \in Seq(Imports)
  <1>1. FreeForm \in Seq(Imports)
    <2>1. ImportOf("freeFormOnly", FALSE) \in Imports
      BY Zenon DEF Imports, ImportSources
    <2> QED
      BY <2>1, OneIsAList, TwoAreAList, Zenon DEF FreeForm
  <1>2. ASSUME NEW field \in {"coderEvidence", "reviewerEvidence", "delegateHistory"},
               NEW shape \in Shapes, shape # "absent"
        PROVE  ImportField(field, shape) \in Seq(Imports)
    <2>1. /\ ImportOf(field, FALSE) \in Imports /\ ImportOf(field, TRUE) \in Imports
          /\ MirrorOf(field) \in Imports
      BY Zenon DEF Imports, ImportSources
    <2>2. shape \in {"opaque", "hollow", "structured"}
      BY <1>2 DEF Shapes
    <2>3. /\ <<ImportOf(field, FALSE)>> \in Seq(Imports)
          /\ <<ImportOf(field, TRUE), MirrorOf(field)>> \in Seq(Imports)
      BY <2>1, OneIsAList, TwoAreAList, Zenon
    <2> QED
      BY <1>1, <2>2, <2>3 DEF ImportField
  <1>3. ASSUME NEW summary
        PROVE  ImportSummary(summary) \in Seq(Imports)
    <2>1. /\ ImportOf("summary", FALSE) \in Imports /\ ImportOf("summary", TRUE) \in Imports
          /\ MirrorOf("coderEvidence") \in Imports /\ MirrorOf("reviewerEvidence") \in Imports
      BY Zenon DEF Imports, ImportSources
    <2> DEFINE coder == IF IsObject(summary.coderEvidence) THEN <<MirrorOf("coderEvidence")>>
                        ELSE <<>>
               reviewer == IF IsObject(summary.reviewerEvidence) \/ summary.nested
                           THEN <<MirrorOf("reviewerEvidence")>> ELSE <<>>
    <2>2. coder \in Seq(Imports)
      BY <2>1
    <2>3. reviewer \in Seq(Imports)
      BY <2>1
    <2>4. <<ImportOf("summary", TRUE)>> \in Seq(Imports)
          /\ <<ImportOf("summary", FALSE)>> \in Seq(Imports)
      BY <2>1, OneIsAList, TwoAreAList, Zenon
    <2> HIDE DEF coder, reviewer
    <2>5. <<ImportOf("summary", TRUE)>> \o coder \o reviewer \in Seq(Imports)
      BY <2>2, <2>3, <2>4, JoinedAreAList, Zenon
    <2> QED
      BY <2>4, <2>5 DEF ImportSummary, coder, reviewer
  <1>4. CASE artifact = Text
    BY <1>1, <1>4 DEF ImportsOf
  <1>5. CASE artifact # Text
    <2>1. /\ artifact.coderEvidence \in Shapes /\ artifact.reviewerEvidence \in Shapes
          /\ artifact.delegateHistory \in Shapes
      BY <1>5, ArtifactsAssumption
    <2> QED
      BY <1>1, <1>2, <1>3, <1>5, <2>1 DEF ImportsOf
  <1> QED
    BY <1>4, <1>5

IsFreeFormAuthority(event) == event.status = "accepted" /\ IsFreeFormLegacyImport(event)

LedgerInv ==
    /\ \E S : events \in Seq(S)
    /\ \A i \in DOMAIN events : ~IsFreeFormAuthority(events[i])

EventsAreDistinct == \A i, j \in DOMAIN events : events[i].id = events[j].id => i = j

LEMMA AppendKeepsLedger ==
    ASSUME LedgerInv, EventsAreDistinct, NEW event, MayAppend(events, event),
           events' = Append(events, event)
    PROVE  LedgerInv' /\ EventsAreDistinct'
  <1>1. PICK S : events \in Seq(S)
    BY DEF LedgerInv
  <1>2. events \in Seq(S \cup {event}) /\ event \in S \cup {event}
    BY <1>1
  <1>3. /\ events' \in Seq(S \cup {event})
        /\ DOMAIN events' = 1..(Len(events) + 1)
        /\ \A i \in DOMAIN events : events'[i] = events[i]
        /\ events'[Len(events) + 1] = event
        /\ DOMAIN events = 1..Len(events) /\ Len(events) \in Nat
    BY <1>2
  <1>4. \A i \in DOMAIN events' : i \in DOMAIN events \/ i = Len(events) + 1
    BY <1>3
  <1>5. ~IsFreeFormAuthority(event) /\ IsFresh(events, event)
    BY DEF MayAppend, IsFreeFormAuthority
  <1>6. \A i \in DOMAIN events' : ~IsFreeFormAuthority(events'[i])
    BY <1>3, <1>4, <1>5 DEF LedgerInv
  <1>7. EventsAreDistinct'
    BY <1>3, <1>4, <1>5 DEF EventsAreDistinct, IsFresh
  <1> QED
    BY <1>3, <1>6, <1>7 DEF LedgerInv

LEMMA MarkKeepsLedger ==
    ASSUME LedgerInv, EventsAreDistinct, NEW id, NEW status, MarkEventStatus(id, status)
    PROVE  LedgerInv' /\ EventsAreDistinct'
  <1>1. PICK i \in DOMAIN events :
          /\ ~(status = "accepted" /\ IsFreeFormLegacyImport(events[i]))
          /\ events' = [events EXCEPT ![i].status = status]
    BY DEF MarkEventStatus
  <1> DEFINE marked == [events[i] EXCEPT !.status = status]
  <1>2. events' = [events EXCEPT ![i] = marked]
    BY <1>1
  <1>3. /\ marked.id = events[i].id /\ marked.kind = events[i].kind
        /\ marked.payload = events[i].payload
        /\ marked.status = "accepted" => status = "accepted" \/ events[i].status = "accepted"
    OBVIOUS
  <1>4. ~IsFreeFormAuthority(marked)
    BY <1>1, <1>3 DEF IsFreeFormAuthority, IsFreeFormLegacyImport, LedgerInv
  <1> HIDE DEF marked
  <1>5. PICK S : events \in Seq(S)
    BY DEF LedgerInv
  <1>6. events' \in Seq(S \cup {marked})
    <2>1. events \in Seq(S \cup {marked})
      BY <1>5
    <2> QED
      BY <1>2, <2>1
  <1>7. \A j \in DOMAIN events' : ~IsFreeFormAuthority(events'[j])
    BY <1>2, <1>4 DEF LedgerInv
  <1>8. \A j \in DOMAIN events' : events'[j].id = events[j].id
    BY <1>2, <1>3
  <1>9. EventsAreDistinct'
    BY <1>2, <1>8 DEF EventsAreDistinct
  <1> QED
    BY <1>6, <1>7, <1>9 DEF LedgerInv

LEMMA ImportKeepsLedger ==
    ASSUME LedgerInv, EventsAreDistinct, NEW artifact \in Artifacts,
           ImportLegacyEvidence(artifact)
    PROVE  LedgerInv' /\ EventsAreDistinct'
  <1> DEFINE imports == ImportsOf(artifact)
             new == NewEvents(events, imports)
  <1>1. PICK S : events \in Seq(S)
    BY DEF LedgerInv
  <1>2. imports \in Seq(Imports)
    BY ImportsAreAList
  <1>3. new \in Seq({new[k] : k \in DOMAIN imports})
    <2> HIDE DEF imports
    <2>1. DOMAIN new = DOMAIN imports
      BY DEF NewEvents
    <2>2. DOMAIN new = 1..Len(imports) /\ Len(imports) \in Nat
      BY <1>2, <2>1
    <2>3. new = [k \in 1..Len(imports) |-> new[k]]
      BY <2>1, <2>2 DEF NewEvents
    <2> HIDE DEF new
    <2> QED
      BY <2>1, <2>2, <2>3
  <1> DEFINE T == S \cup {new[k] : k \in DOMAIN imports}
  <1>4. events \in Seq(T) /\ new \in Seq(T)
    BY <1>1, <1>3
  <1>5. /\ events' = events \o new
        /\ \A i \in (Len(events) + 1)..Len(events') :
              MayAppend(SubSeq(events', 1, i - 1), events'[i])
    BY DEF ImportLegacyEvidence
  <1> HIDE DEF T, new, imports
  <1>6. /\ events' \in Seq(T)
        /\ Len(events') \in Nat /\ Len(events) \in Nat /\ Len(events) <= Len(events')
        /\ DOMAIN events = 1..Len(events) /\ DOMAIN events' = 1..Len(events')
        /\ \A i \in 1..Len(events) : events'[i] = events[i]
    BY <1>4, <1>5
  <1>7. ASSUME NEW i \in DOMAIN events', i \notin DOMAIN events
        PROVE  /\ ~IsFreeFormAuthority(events'[i])
               /\ \A j \in 1..(i - 1) : events'[j].id # events'[i].id
    <2> DEFINE before == SubSeq(events', 1, i - 1)
    <2>1. i \in (Len(events) + 1)..Len(events') /\ i - 1 \in Nat
      BY <1>6, <1>7
    <2>2. MayAppend(before, events'[i])
      BY <1>5, <2>1
    <2>3. DOMAIN before = 1..(i - 1) /\ \A j \in 1..(i - 1) : before[j] = events'[j]
      BY <1>6, <2>1
    <2> HIDE DEF before
    <2> QED
      BY <2>2, <2>3 DEF MayAppend, IsFreeFormAuthority, IsFresh
  <1>8. \A i \in DOMAIN events' : ~IsFreeFormAuthority(events'[i])
    BY <1>6, <1>7 DEF LedgerInv
  <1>9. ASSUME NEW i \in DOMAIN events', NEW j \in DOMAIN events', j < i
        PROVE  events'[i].id # events'[j].id
    <2>1. CASE i \in DOMAIN events
      <3>1. j \in DOMAIN events /\ i # j
        BY <1>6, <1>9, <2>1
      <3> QED
        BY <1>6, <2>1, <3>1 DEF EventsAreDistinct
    <2>2. CASE i \notin DOMAIN events
      <3>1. j \in 1..(i - 1)
        BY <1>6, <1>9
      <3> QED
        BY <1>7, <2>2, <3>1
    <2> QED
      BY <2>1, <2>2
  <1>10. EventsAreDistinct'
    <2>1. \A i, j \in DOMAIN events' : i < j \/ j < i \/ i = j
      BY <1>6
    <2> QED
      BY <1>9, <2>1 DEF EventsAreDistinct
  <1> QED
    BY <1>6, <1>8, <1>10 DEF LedgerInv

LEMMA LedgerStep ==
    ASSUME LedgerInv, EventsAreDistinct, [LedgerNext]_ledgerVars
    PROVE  LedgerInv' /\ EventsAreDistinct'
  <1>1. ASSUME NEW run, NEW kind, NEW status, NEW payload, NEW id,
               AppendEvent(run, kind, status, payload, id)
        PROVE  LedgerInv' /\ EventsAreDistinct'
    BY <1>1, AppendKeepsLedger DEF AppendEvent
  <1>2. CASE UNCHANGED ledgerVars
    BY <1>2 DEF ledgerVars, LedgerInv, EventsAreDistinct
  <1> QED
    BY <1>1, <1>2, MarkKeepsLedger, ImportKeepsLedger DEF LedgerNext

\* No sequence of appends, imports and markings makes free-form evidence count as accepted,
\* whatever artifacts come in and whatever ids the callers choose (appendEvent, markEventStatus,
\* importLegacyEvidence).
THEOREM FreeFormNeverCounts == LedgerSpec => []FreeFormIsNoAuthority
  <1>1. LedgerInit => LedgerInv /\ EventsAreDistinct
    BY DEF LedgerInit, LedgerInv, EventsAreDistinct
  <1>2. LedgerInv => FreeFormIsNoAuthority
    BY DEF LedgerInv, FreeFormIsNoAuthority, IsFreeFormAuthority, IsFreeFormLegacyImport,
           FindAcceptedCurrentRun, FindCurrentEvents
  <1> QED
    BY <1>1, <1>2, LedgerStep, PTL DEF LedgerSpec

\* No two events of a ledger have one id, also where a caller chooses ids that look like generated
\* ones: an id marks one event or none (appendEvent, nextEventId).
THEOREM IdsTellEventsApart == LedgerSpec => []EventsAreDistinct
  <1>1. LedgerInit => LedgerInv /\ EventsAreDistinct
    BY DEF LedgerInit, LedgerInv, EventsAreDistinct
  <1> QED
    BY <1>1, LedgerStep, PTL DEF LedgerSpec

-------------------------------------------------------------------------------
(* The finalization gate.  A task whose history names a plan has that from one *)
(* action alone, so that what evaluateSprint asks for held of the files of     *)
(* that very step.                                                             *)

Records == [agent : {"coder", "reviewer"}, mentions : Mentions,
            state : {"running", "completed", "failed", "aborted"},
            sidecar : {"none", "explicit", "auto_exit", "process_exit"},
            packet : Packets \cup {Nothing}]

FinalInv ==
    /\ plan \in [Plans -> Forms \cup {NoPlan}]
    /\ recency \in Seq(Plans)
    /\ manifests \in Seq(Records)
    /\ DOMAIN memos = Plans /\ \A p \in Plans : DOMAIN memos[p] = PhasesOfReview
    /\ DOMAIN task = Tasks

LEMMA MovedToEnd ==
    ASSUME NEW S, NEW s \in Seq(S), NEW i \in DOMAIN s, NEW x \in S
    PROVE  Append(RemoveAt(s, i), x) \in Seq(S)
  <1>1. i \in 1..Len(s) /\ Len(s) \in Nat
    OBVIOUS
  <1>2. SubSeq(s, 1, i - 1) \in Seq(S) /\ SubSeq(s, i + 1, Len(s)) \in Seq(S)
    BY <1>1, SubSeqProperties
  <1>3. RemoveAt(s, i) \in Seq(S)
    BY <1>2 DEF RemoveAt
  <1> QED
    BY <1>3

LEMMA ManifestStep ==
    ASSUME FinalInv, NEW i \in DOMAIN manifests, NEW record \in Records, MoveToEnd(i, record),
           UNCHANGED <<plan, recency, memos, task>>
    PROVE  FinalInv'
  BY MovedToEnd DEF FinalInv, MoveToEnd

LEMMA FinalStep ==
    ASSUME FinalInv, [FinalNext]_finalVars
    PROVE  FinalInv'
  <1>1. ASSUME NEW p \in Plans, NEW form \in Forms, WritePlan(p, form) PROVE FinalInv'
    <2>1. recency \in Seq(Plans)
      BY DEF FinalInv
    <2>2. recency' = Append(recency, p)
            \/ \E i \in DOMAIN recency : recency' = Append(RemoveAt(recency, i), p)
      BY <1>1 DEF WritePlan
    <2>3. recency' \in Seq(Plans)
      <3>1. Append(recency, p) \in Seq(Plans)
        BY <2>1
      <3> QED
        BY <2>1, <2>2, <3>1, MovedToEnd
    <2> QED
      BY <1>1, <2>3 DEF WritePlan, FinalInv
  <1>2. ASSUME NEW agent \in {"coder", "reviewer"}, NEW mentions \in Mentions,
               StartRun(agent, mentions)
        PROVE  FinalInv'
    <2> DEFINE record == [agent |-> agent, mentions |-> mentions, state |-> "running",
                          sidecar |-> "none", packet |-> Nothing]
    <2>1. record \in Records
      BY DEF Records
    <2> HIDE DEF record
    <2> QED
      BY <1>2, <2>1 DEF StartRun, FinalInv, record
  <1>3. ASSUME NEW i \in DOMAIN manifests, NEW packet \in Packets \cup {Nothing},
               NEW state \in {"running", "completed", "failed"}, EndExplicitly(i, packet, state)
        PROVE  FinalInv'
    <2>1. manifests[i] \in Records
      BY DEF FinalInv
    <2>2. [manifests[i] EXCEPT !.state = state, !.sidecar = "explicit", !.packet = packet]
             \in Records
      BY <2>1 DEF Records
    <2> QED
      BY <1>3, <2>2, ManifestStep DEF EndExplicitly
  <1>4. ASSUME NEW i \in DOMAIN manifests, NEW state \in {"completed", "failed", "aborted"},
               NEW sidecar \in {"auto_exit", "process_exit", "none"},
               EndOtherwise(i, state, sidecar)
        PROVE  FinalInv'
    <2>1. manifests[i] \in Records
      BY DEF FinalInv
    <2>2. [manifests[i] EXCEPT !.state = state, !.sidecar = sidecar] \in Records
      BY <2>1 DEF Records
    <2> QED
      BY <1>4, <2>2, ManifestStep DEF EndOtherwise
  <1>5. ASSUME NEW i \in DOMAIN manifests, Poll(i) PROVE FinalInv'
    <2>1. manifests[i] \in Records
      BY DEF FinalInv
    <2> QED
      BY <1>5, <2>1, ManifestStep DEF Poll
  <1>6. ASSUME NEW p \in Plans, NEW phase0 \in PhasesOfReview, NEW memo0,
               WriteMemo(p, phase0, memo0)
        PROVE  FinalInv'
    BY <1>6 DEF WriteMemo, FinalInv
  <1>7. ASSUME NEW t \in Tasks, NEW status, NEW requested, NEW note, NEW mode,
               UpdateTask(t, status, requested, note, mode)
        PROVE  FinalInv'
    <2>1. DOMAIN task' = DOMAIN task
      BY <1>7 DEF UpdateTask
    <2> QED
      BY <1>7, <2>1 DEF UpdateTask, FinalInv
  <1>8. ASSUME NEW t \in Tasks, ReopenTask(t) PROVE FinalInv'
    BY <1>8 DEF ReopenTask, FinalInv
  <1>9. CASE UNCHANGED finalVars
    BY <1>9 DEF finalVars, FinalInv
  <1> QED
    BY <1>1, <1>2, <1>3, <1>4, <1>5, <1>6, <1>7, <1>8, <1>9 DEF FinalNext

LEMMA FinalStarts == FinalInit => FinalInv
  <1> SUFFICES ASSUME FinalInit PROVE FinalInv
    OBVIOUS
  <1>1. plan \in [Plans -> Forms \cup {NoPlan}] /\ DOMAIN task = Tasks
    BY DEF FinalInit
  <1>2. recency \in Seq(Plans) /\ manifests \in Seq(Records)
    BY DEF FinalInit
  <1>3. DOMAIN memos = Plans /\ \A p \in Plans : DOMAIN memos[p] = PhasesOfReview
    BY DEF FinalInit
  <1> QED
    BY <1>1, <1>2, <1>3 DEF FinalInv

\* The files the gate reads are what their writers make of them, and belong to plans and tasks that
\* there are (finalization-runtime.ts).
THEOREM GateFiles == FinalSpec => []FinalInv
  BY FinalStarts, FinalStep, PTL DEF FinalSpec

\* What the gate vouches for, it has evaluated in the same step.
LEMMA FinalizesByEvaluation ==
    ASSUME FinalInv, [FinalNext]_finalVars, NEW t \in Tasks, Finalizes(t)
    PROVE  LET p == task'[t].plan
           IN  /\ p \in Plans /\ plan[p] \in Forms /\ p # NoPlan
               /\ \E status \in FinalStatuses :
                     PassesFor(p, MatchingManifests(p), status, task'[t].note)
  <1>1. task' # task /\ ~UNCHANGED finalVars
    BY DEF Finalizes, finalVars
  <1>2. ASSUME NEW u \in Tasks, ReopenTask(u) PROVE FALSE
    BY <1>2 DEF ReopenTask, Finalizes, Unvouched, FinalInv
  <1>3. PICK u \in Tasks, status \in FinalStatuses, requested \in Plans \cup {NoPlan},
             note \in Notes, mode \in {"strict", "dry-run"} :
          UpdateTask(u, status, requested, note, mode)
    BY <1>1, <1>2 DEF FinalNext, WritePlan, StartRun, EndExplicitly, EndOtherwise, Poll, WriteMemo
  <1> DEFINE p == ResolvePlan(u, requested)
             entry == [status |-> status, note |-> note, plan |-> p]
  <1>4. /\ mode = "strict" /\ EvaluateSprint(p, status, note)
        /\ task' = [task EXCEPT ![u] = entry]
    <2>1. task' # [task EXCEPT ![u] = Unvouched(status)]
      BY DEF Finalizes, Unvouched, FinalInv
    <2> QED
      BY <1>3, <2>1 DEF UpdateTask
  <1> HIDE DEF p
  <1>5. u = t /\ task'[t] = entry
    BY <1>4 DEF Finalizes, FinalInv
  <1>6. p # NoPlan /\ plan[p] # NoPlan /\ PassesFor(p, MatchingManifests(p), status, note)
    BY <1>4 DEF EvaluateSprint
  <1>7. p \in Plans
    <2> DEFINE own == Keep(recency, LAMBDA q : plan[q].task = u)
    <2>1. DOMAIN own \subseteq DOMAIN recency /\ \A i \in DOMAIN own : own[i] = recency[i]
      BY DEF Keep
    <2>2. p = IF requested # NoPlan THEN requested
              ELSE IF IsEmpty(own) THEN NoPlan ELSE own[Max(DOMAIN own)]
      BY DEF p, ResolvePlan
    <2> HIDE DEF own
    <2>3. CASE requested # NoPlan
      BY <2>2, <2>3
    <2>4. CASE requested = NoPlan
      <3>1. p = own[Max(DOMAIN own)] /\ DOMAIN own # {}
        BY <1>6, <2>2, <2>4 DEF IsEmpty
      <3>2. Len(recency) \in Nat /\ DOMAIN own \in SUBSET (1..Len(recency))
        BY <2>1 DEF FinalInv
      <3>3. Max(DOMAIN own) \in DOMAIN own
        BY <3>1, <3>2, MaxIsGreatest
      <3> QED
        BY <2>1, <3>1, <3>3 DEF FinalInv
    <2> QED
      BY <2>3, <2>4
  <1> QED
    BY <1>5, <1>6, <1>7 DEF FinalInv

MatchedBy(p) == {i \in DOMAIN manifests : p \in manifests[i].mentions}

LEMMA MatchesKeepTheirPlaces ==
    ASSUME NEW p
    PROVE  /\ DOMAIN MatchingManifests(p) = MatchedBy(p)
           /\ \A i \in MatchedBy(p) : MatchingManifests(p)[i] = manifests[i]
           /\ RunsOf(p) = MatchedBy(p)
  BY DEF MatchingManifests, Keep, MatchedBy, RunsOf

\* Nobody finalizes over a failed, killed or running delegate without saying so.
THEOREM TroubleComesOut == FinalSpec => TroubleIsAdmitted
  <1> DEFINE Admitted(i, note) ==
        /\ manifests[i].sidecar = "none" => "missing_sidecar" \in note
        /\ manifests[i].sidecar \in {"auto_exit", "process_exit"} => manifests[i].sidecar \in note
        /\ manifests[i].state \in {"failed", "aborted"} =>
              {"retries", "failed_attempt"} \subseteq note
  <1>1. ASSUME FinalInv, [FinalNext]_finalVars, NEW t \in Tasks, Finalizes(t),
               NEW i \in RunsOf(task'[t].plan)
        PROVE  Admitted(i, task'[t].note)
    <2> DEFINE p == task'[t].plan
               records == MatchingManifests(p)
               troubles == {TroubleOf(records[j]) : j \in DOMAIN records}
    <2>1. i \in DOMAIN records /\ records[i] = manifests[i]
      BY <1>1, MatchesKeepTheirPlaces
    <2>2. TroublesOf(records) \subseteq task'[t].note
      BY <1>1, FinalizesByEvaluation DEF PassesFor, Disclosed, DisclosureIssues
    <2>3. TroubleOf(records[i]) \in troubles /\ TroublesOf(records) = UNION troubles
      BY <2>1 DEF TroublesOf
    <2> HIDE DEF troubles, records
    <2>4. TroubleOf(manifests[i]) \subseteq task'[t].note
      BY <2>1, <2>2, <2>3
    <2>5. manifests[i].sidecar = "none" => "missing_sidecar" \in TroubleOf(manifests[i])
      BY DEF TroubleOf
    <2>6. manifests[i].sidecar \in {"auto_exit", "process_exit"} =>
             manifests[i].sidecar \in TroubleOf(manifests[i])
      BY DEF TroubleOf, CompletionSource
    <2>7. manifests[i].state \in {"failed", "aborted"} =>
             {"retries", "failed_attempt"} \subseteq TroubleOf(manifests[i])
      <3> SUFFICES ASSUME manifests[i].state \in {"failed", "aborted"}
                   PROVE  {"retries", "failed_attempt"} \subseteq TroubleOf(manifests[i])
        OBVIOUS
      <3>1. AttemptStatus(manifests[i]) = "failed"
        BY DEF AttemptStatus
      <3> QED
        BY <3>1 DEF TroubleOf
    <2> QED
      BY <2>4, <2>5, <2>6, <2>7
  <1>2. FinalInv /\ [FinalNext]_finalVars =>
          [\A t \in Tasks : Finalizes(t) =>
              \A i \in RunsOf(task'[t].plan) :
                 LET run == manifests[i]
                     note == task'[t].note
                 IN  /\ run.sidecar = "none" => "missing_sidecar" \in note
                     /\ run.sidecar \in {"auto_exit", "process_exit"} => run.sidecar \in note
                     /\ run.state \in {"failed", "aborted"} =>
                            {"retries", "failed_attempt"} \subseteq note]_finalVars
    BY <1>1
  <1> QED
    BY <1>2, GateFiles, PTL DEF FinalSpec, TroubleIsAdmitted

\* The memo of the phase under review is the one that is read, if there is one.
LEMMA MemoReadFirst ==
    ASSUME NEW p, MemoApproves(LatestMemo(p))
    PROVE  /\ memos[p][PhaseUnderReview(p)] # "objects"
           /\ \E which \in PhasesOfReview : MemoApproves(memos[p][which])
  <1> DEFINE order == ReadOrder(p)
             found == Keep(order, LAMBDA f : memos[p][f] # "none")
  <1>1. order \in {<<"phaseA", "phaseB">>, <<"phaseB", "phaseA">>} /\ order[1] = PhaseUnderReview(p)
    BY DEF ReadOrder, PhaseUnderReview
  <1>2. LatestMemo(p) = IF IsEmpty(found) THEN "none" ELSE memos[p][First(found)]
    BY DEF LatestMemo
  <1> HIDE DEF order
  <1>3. DOMAIN order = 1..2 /\ order[1] \in PhasesOfReview /\ order[2] \in PhasesOfReview
    BY <1>1 DEF PhasesOfReview
  <1>4. /\ DOMAIN found = {i \in 1..2 : memos[p][order[i]] # "none"}
        /\ \A i \in DOMAIN found : found[i] = order[i]
    BY <1>3 DEF Keep
  <1> HIDE DEF found
  <1>5. ~IsEmpty(found)
    BY <1>2 DEF MemoApproves
  <1>6. /\ Min(DOMAIN found) \in DOMAIN found /\ \A i \in DOMAIN found : Min(DOMAIN found) <= i
        /\ First(found) = found[Min(DOMAIN found)]
    <2>1. DOMAIN found \in SUBSET Nat /\ DOMAIN found # {}
      BY <1>4, <1>5 DEF IsEmpty
    <2> QED
      BY <2>1, MinIsLeast DEF First
  <1> DEFINE i == Min(DOMAIN found)
  <1> HIDE DEF i
  <1>7. i \in 1..2 /\ MemoApproves(memos[p][order[i]])
    BY <1>2, <1>4, <1>5, <1>6 DEF i
  <1>8. order[i] \in PhasesOfReview
    BY <1>3, <1>7
  <1>9. memos[p][order[1]] # "objects"
    <2> SUFFICES ASSUME memos[p][order[1]] = "objects" PROVE FALSE
      OBVIOUS
    <2>1. 1 \in DOMAIN found
      BY <1>4
    <2>2. i = 1
      BY <1>6, <1>7, <2>1 DEF i
    <2> QED
      BY <1>7, <2>2 DEF MemoApproves
  <1> QED
    BY <1>1, <1>7, <1>8, <1>9

Heard(p) == /\ memos[p][PhaseUnderReview(p)] # "objects"
            /\ \E which \in PhasesOfReview : MemoApproves(memos[p][which])

\* A reviewer's objection to the phase in work is not finalized over (readLatestReviewerMemo).
THEOREM ObjectionsAreHeard == FinalSpec => ObjectionsStand
  <1>1. ASSUME FinalInv, [FinalNext]_finalVars, NEW t \in Tasks, Finalizes(t)
        PROVE  Heard(task'[t].plan)
    BY <1>1, FinalizesByEvaluation, MemoReadFirst DEF PassesFor, Heard
  <1>2. FinalInv /\ [FinalNext]_finalVars =>
          [\A t \in Tasks : Finalizes(t) => Heard(task'[t].plan)]_finalVars
    BY <1>1
  <1> QED
    BY <1>2, GateFiles, PTL DEF FinalSpec, ObjectionsStand, Heard

\* The codes that a disclosure waives are none of the codes about a criterion.
LEMMA CriteriaAreNotWaived ==
    ASSUME NEW entry, NEW packet
    PROVE  EntryIssues(entry, packet) \cap WaivableCodes = {}
  <1>1. ASSUME NEW row PROVE RunnableRowIssues(row, packet) \cap WaivableCodes = {}
    BY DEF RunnableRowIssues, WaivableCodes
  <1>2. ASSUME NEW row PROVE ManualRowIssues(row) \cap WaivableCodes = {}
    BY DEF ManualRowIssues, WaivableCodes
  <1>3. ASSUME NEW row PROVE OtherRowIssues(row) \cap WaivableCodes = {}
    BY DEF OtherRowIssues, WaivableCodes
  <1>4. ASSUME NEW row PROVE RowIssues(entry, row, packet) \cap WaivableCodes = {}
    <2>1. \/ RowIssues(entry, row, packet) = {"skipped_command_unsupported"}
          \/ RowIssues(entry, row, packet) = RunnableRowIssues(row, packet)
          \/ RowIssues(entry, row, packet) = ManualRowIssues(row)
          \/ RowIssues(entry, row, packet) = OtherRowIssues(row)
      BY DEF RowIssues
    <2>2. {"skipped_command_unsupported"} \cap WaivableCodes = {}
      BY DEF WaivableCodes
    <2> QED
      BY <1>1, <1>2, <1>3, <2>1, <2>2
  <1>5. {"missing_criterion"} \cap WaivableCodes = {}
    BY DEF WaivableCodes
  <1>6. \/ EntryIssues(entry, packet) = {"missing_criterion"}
        \/ \E row : EntryIssues(entry, packet) = RowIssues(entry, row, packet)
    BY DEF EntryIssues
  <1> QED
    BY <1>4, <1>5, <1>6

\* What is found about a criterion depends on the rows and the commands alone.
LEMMA CriteriaOnLists ==
    ASSUME NEW entry, NEW packet, NEW other, packet.commandsRun = other.commandsRun,
           packet.criterionCoverage = other.criterionCoverage
    PROVE  EntryIssues(entry, packet) = EntryIssues(entry, other)
  <1>1. ASSUME NEW command PROVE CommandOutcome(packet, command) = CommandOutcome(other, command)
    BY Zenon DEF CommandOutcome
  <1>2. ASSUME NEW row PROVE RunnableRowIssues(row, packet) = RunnableRowIssues(row, other)
    BY <1>1 DEF RunnableRowIssues
  <1>3. ASSUME NEW row PROVE RowIssues(entry, row, packet) = RowIssues(entry, row, other)
    BY <1>2 DEF RowIssues
  <1> QED
    BY <1>3 DEF EntryIssues

LEMMA LatestIsLast ==
    ASSUME FinalInv, NEW p, LatestEvidence(MatchingManifests(p)) # Nothing
    PROVE  \E i \in MatchedBy(p) :
              /\ HasCoderEvidence(manifests[i])
              /\ LatestEvidence(MatchingManifests(p)) = manifests[i]
              /\ \A j \in MatchedBy(p) : HasCoderEvidence(manifests[j]) => j <= i
  <1> DEFINE records == MatchingManifests(p)
             with == Keep(records, HasCoderEvidence)
             S == {j \in MatchedBy(p) : HasCoderEvidence(manifests[j])}
  <1>1. DOMAIN with = S /\ \A i \in S : with[i] = manifests[i]
    <2>1. /\ DOMAIN with = {j \in DOMAIN records : HasCoderEvidence(records[j])}
          /\ \A j \in DOMAIN with : with[j] = records[j]
      BY DEF Keep
    <2> HIDE DEF with, records
    <2>2. DOMAIN records = MatchedBy(p) /\ \A i \in MatchedBy(p) : records[i] = manifests[i]
      BY MatchesKeepTheirPlaces DEF records
    <2> QED
      BY <2>1, <2>2
  <1>2. LatestEvidence(records) = IF IsEmpty(with) THEN Nothing ELSE with[Max(DOMAIN with)]
    BY DEF LatestEvidence
  <1>3. Len(manifests) \in Nat /\ S \in SUBSET (1..Len(manifests))
    BY DEF FinalInv, MatchedBy
  <1> HIDE DEF with
  <1>4. S # {} /\ LatestEvidence(records) = with[Max(S)]
    BY <1>1, <1>2 DEF IsEmpty
  <1>5. Max(S) \in S /\ \A j \in S : j <= Max(S)
    <2> HIDE DEF S
    <2> QED
      BY <1>3, <1>4, MaxIsGreatest
  <1> QED
    BY <1>1, <1>4, <1>5

LEMMA GateEvaluates ==
    ASSUME FinalInv, NEW p \in Plans, plan[p] \in Forms, NEW status, NEW note,
           PassesFor(p, MatchingManifests(p), status, note)
    PROVE  \E i \in MatchedBy(p) :
              /\ HasCoderEvidence(manifests[i])
              /\ \A j \in MatchedBy(p) : HasCoderEvidence(manifests[j]) => j <= i
              /\ \A k \in DOMAIN plan[p].matrix :
                    EntryIssues(plan[p].matrix[k],
                                NormalizeCoderCompletionEvidence(manifests[i].packet.shown,
                                                                 "explicit", FALSE)) = {}
  <1> DEFINE records == MatchingManifests(p)
             found == LatestEvidence(records)
             packet == IF found = Nothing THEN EmptyPacket ELSE found.packet.shown
             source == IF found = Nothing THEN "none" ELSE CompletionSource(found)
             flagged == [packet EXCEPT !.flags = @ \cup FlagsOf(TroublesOf(records))]
             n == NormalizeCoderCompletionEvidence(flagged, source, FALSE)
             form == [status |-> "ready", matrix |-> plan[p].matrix]
             entries == {EntryIssues(form.matrix[k], n) : k \in DOMAIN form.matrix}
             waived == IF Disclosed(records, note) THEN WaivableCodes ELSE {}
  <1>1. EvidenceWithHistory(records) = n
    BY DEF EvidenceWithHistory
  <1>2. IsMatrixGated(form) /\ form.matrix = plan[p].matrix
    BY FormsAssumption DEF PassesFor, IsMatrixGated
  <1>3. waived \subseteq WaivableCodes
    OBVIOUS
  <1>4. EvaluateCoderCompletionEvidence(form, n) \subseteq WaivableCodes
    <2>1. CoderRejections(p, records, note) = {}
      BY DEF PassesFor
    <2>2. CoderRejections(p, records, note) = EvaluateCoderCompletionEvidence(form, n) \ waived
      BY <1>1 DEF CoderRejections
    <2> HIDE DEF n, form, waived
    <2> QED
      BY <1>3, <2>1, <2>2
  <1> HIDE DEF n, waived
  <1>5. PacketIssues(n) \subseteq WaivableCodes /\ UNION entries \subseteq WaivableCodes
    <2>1. EvaluateCoderCompletionEvidence(form, n) =
             HistoryIssues(n) \cup PacketIssues(n) \cup UNION entries
      BY <1>2 DEF EvaluateCoderCompletionEvidence
    <2> HIDE DEF form, entries
    <2> QED
      BY <1>4, <2>1
  <1>6. ASSUME NEW k \in DOMAIN plan[p].matrix PROVE EntryIssues(plan[p].matrix[k], n) = {}
    <2>1. EntryIssues(plan[p].matrix[k], n) \in entries
      BY <1>2
    <2> HIDE DEF entries
    <2> QED
      BY <1>5, <2>1, CriteriaAreNotWaived
  <1> HIDE DEF entries, form, flagged
  <1>7. n.filesChanged = flagged.filesChanged
        /\ n.commandsRun = Keep(flagged.commandsRun, LAMBDA c : c.outcome \in Outcomes)
        /\ n.criterionCoverage = Keep(flagged.criterionCoverage,
                                      LAMBDA r : /\ r.evidenceKind \in EvidenceKinds
                                                 /\ r.strength \in DOMAIN StrengthRank)
    BY DEF n, NormalizeCoderCompletionEvidence
  <1>8. found # Nothing
    <2> SUFFICES ASSUME found = Nothing PROVE FALSE
      OBVIOUS
    <2>1. flagged.filesChanged = FALSE
      BY DEF flagged, EmptyPacket
    <2>2. "missing_files_changed" \in PacketIssues(n)
      BY <1>7, <2>1 DEF PacketIssues
    <2> QED
      BY <1>5, <2>2 DEF WaivableCodes
  <1>9. PICK i \in MatchedBy(p) :
          /\ HasCoderEvidence(manifests[i])
          /\ found = manifests[i]
          /\ \A j \in MatchedBy(p) : HasCoderEvidence(manifests[j]) => j <= i
    BY <1>8, LatestIsLast
  <1> DEFINE shown == manifests[i].packet.shown
             own == NormalizeCoderCompletionEvidence(shown, "explicit", FALSE)
  <1>10. flagged.commandsRun = shown.commandsRun
         /\ flagged.criterionCoverage = shown.criterionCoverage
    <2>1. manifests[i] \in Records
      BY <1>9 DEF FinalInv, MatchedBy
    <2>2. manifests[i].packet \in Packets
      BY <1>9, <2>1 DEF Records, HasCoderEvidence
    <2>3. DOMAIN shown = {"filesChanged", "commandsRun", "criterionCoverage", "flags"}
      BY <2>2, FormsAssumption DEF EmptyPacket
    <2>4. packet = shown
      BY <1>8, <1>9
    <2> QED
      BY <2>3, <2>4 DEF flagged
  <1>11. own.commandsRun = n.commandsRun /\ own.criterionCoverage = n.criterionCoverage
    BY <1>7, <1>10, Zenon DEF NormalizeCoderCompletionEvidence
  <1> HIDE DEF own
  <1>12. \A k \in DOMAIN plan[p].matrix : EntryIssues(plan[p].matrix[k], own) = {}
    BY <1>6, <1>11, CriteriaOnLists
  <1> QED
    BY <1>9, <1>12 DEF own

LEMMA FinalizedOnLastWord ==
    ASSUME FinalInv, [FinalNext]_finalVars, NEW t \in Tasks, Finalizes(t)
    PROVE  HasLastWord(task'[t].plan)
  <1> DEFINE p == task'[t].plan
             spoke == {i \in RunsOf(p) : HasCoderEvidence(manifests[i])}
  <1>1. PICK status \in FinalStatuses :
          /\ p \in Plans /\ plan[p] \in Forms
          /\ PassesFor(p, MatchingManifests(p), status, task'[t].note)
    BY FinalizesByEvaluation
  <1> HIDE DEF p
  <1>2. PICK i \in MatchedBy(p) :
          /\ HasCoderEvidence(manifests[i])
          /\ \A j \in MatchedBy(p) : HasCoderEvidence(manifests[j]) => j <= i
          /\ \A k \in DOMAIN plan[p].matrix :
                EntryIssues(plan[p].matrix[k],
                            NormalizeCoderCompletionEvidence(manifests[i].packet.shown,
                                                             "explicit", FALSE)) = {}
    BY <1>1, GateEvaluates
  <1>3. RunsOf(p) = MatchedBy(p)
    BY MatchesKeepTheirPlaces
  <1>4. i \in spoke /\ \A j \in spoke : j <= i
    BY <1>2, <1>3
  <1> HIDE DEF spoke
  <1> QED
    BY <1>2, <1>4 DEF HasLastWord, spoke, p

\* What finalizes a task is the evidence of the run that spoke last, and it covers every criterion:
\* whatever a better packet an earlier run has left (mergeManifestHistory: latestEvidence).
THEOREM LastWordDecides == FinalSpec => LastWordCounts
  <1>1. FinalInv /\ [FinalNext]_finalVars =>
          [\A t \in Tasks : Finalizes(t) => HasLastWord(task'[t].plan)]_finalVars
    BY FinalizedOnLastWord
  <1> QED
    BY <1>1, GateFiles, PTL DEF FinalSpec, LastWordCounts

-------------------------------------------------------------------------------
(* The audit.  The newest manifests are those that have fewer than MaxAudited  *)
(* after them, and no other file counts.                                       *)

LEMMA NewestAreAudited ==
    ASSUME FinalInv, NEW i \in DOMAIN manifests, i > Len(manifests) - MaxAudited
    PROVE  i \in Audited
  <1> DEFINE n == Len(manifests)
             file(j) == [is |-> "manifest", run |-> j]
             candidates == {f \in DirectoryFiles : IsDelegateManifestPath(f)}
             newer == {other \in candidates : IsNewer(other, file(i))}
             taken == {f \in candidates :
                          Cardinality({other \in candidates : IsNewer(other, f)}) < MaxAudited}
  <1>1. n \in Nat /\ DOMAIN manifests = 1..n /\ i \in 1..n /\ MaxAudited \in Nat
    BY QualityAuditAssumption DEF FinalInv
  <1>2. candidates = {file(j) : j \in 1..n}
    <2>1. ASSUME NEW j \in 1..n PROVE {f \in FilesOf(j) : f.is = "manifest"} = {file(j)}
      BY DEF FilesOf
    <2>2. ASSUME NEW f \in candidates PROVE f \in {file(j) : j \in 1..n}
      <3>1. PICK j \in 1..n : f \in FilesOf(j)
        BY <1>1 DEF DirectoryFiles
      <3>2. f.is = "manifest"
        BY DEF IsDelegateManifestPath
      <3> QED
        BY <2>1, <3>1, <3>2
    <2>3. ASSUME NEW j \in 1..n PROVE file(j) \in candidates
      <3>1. file(j) \in FilesOf(j) /\ IsDelegateManifestPath(file(j))
        BY DEF FilesOf, IsDelegateManifestPath
      <3>2. FilesOf(j) \in {FilesOf(k) : k \in DOMAIN manifests}
        BY <1>1
      <3> QED
        BY <3>1, <3>2 DEF DirectoryFiles
    <2> QED
      BY <2>2, <2>3
  <1> HIDE DEF candidates
  <1>3. newer = {file(j) : j \in (i + 1)..n}
    <2>1. \A j \in 1..n : IsNewer(file(j), file(i)) <=> j > i
      BY DEF IsNewer
    <2>2. \A j \in (i + 1)..n : j \in 1..n /\ j > i
      BY <1>1
    <2>3. \A j \in 1..n : j > i => j \in (i + 1)..n
      BY <1>1
    <2> QED
      BY <1>2, <2>1, <2>2, <2>3
  <1>4. Cardinality(newer) <= n - i /\ Cardinality(newer) \in Nat
    <2> DEFINE g == [j \in (i + 1)..n |-> file(j)]
    <2>1. g \in Surjection((i + 1)..n, newer)
      BY <1>3 DEF Surjection
    <2>2. IsFiniteSet((i + 1)..n) /\ Cardinality((i + 1)..n) = n - i
      <3>1. i + 1 \in Int /\ n \in Int /\ i + 1 <= n + 1
        BY <1>1
      <3>2. IsFiniteSet((i + 1)..n)
            /\ Cardinality((i + 1)..n) = IF i + 1 > n THEN 0 ELSE n - (i + 1) + 1
        BY <3>1, FS_Interval
      <3> QED
        BY <3>1, <3>2
    <2> HIDE DEF g, newer
    <2>3. IsFiniteSet(newer) /\ Cardinality(newer) <= n - i
      BY <2>1, <2>2, FS_Surjection
    <2> QED
      BY <2>3, FS_CardinalityType
  <1>5. file(i) \in candidates
    BY <1>1, <1>2
  <1>6. file(i) \in taken
    <2> HIDE DEF newer
    <2>1. Cardinality(newer) < MaxAudited
      BY <1>1, <1>4
    <2> QED
      BY <1>5, <2>1 DEF newer
  <1>7. Audited = {f.run : f \in {f \in taken : f.is = "manifest"}}
    BY DEF Audited, candidates
  <1> HIDE DEF taken
  <1> QED
    BY <1>6, <1>7

AuditTells(t, i) ==
    LET record == manifests[i]
        troubles == TroubleOf(record)
    IN  TaskOf(record) = t /\ i > Len(manifests) - MaxAudited =>
           /\ "auto_exit" \in troubles => "delegate_auto_exit" \in AuditSummary(t)
           /\ "process_exit" \in troubles => "delegate_process_exit" \in AuditSummary(t)
           /\ "missing_sidecar" \in troubles /\ record.agent = "coder" =>
                 "delegate_missing_done" \in AuditSummary(t)
           /\ "failed_attempt" \in troubles /\ record.agent = "coder" =>
                 "delegate_failed_coder" \in AuditSummary(t)

LEMMA TroublesAreFound ==
    ASSUME NEW record, NEW found, FindingsOfRun(record) \subseteq found
    PROVE  LET troubles == TroubleOf(record)
           IN  /\ "auto_exit" \in troubles => "delegate_auto_exit" \in found
               /\ "process_exit" \in troubles => "delegate_process_exit" \in found
               /\ "missing_sidecar" \in troubles /\ record.agent = "coder" =>
                     "delegate_missing_done" \in found
               /\ "failed_attempt" \in troubles /\ record.agent = "coder" =>
                     "delegate_failed_coder" \in found
  <1>1. "auto_exit" \in TroubleOf(record) => record.sidecar = "auto_exit"
    BY DEF TroubleOf, CompletionSource
  <1>2. "process_exit" \in TroubleOf(record) => record.sidecar = "process_exit"
    BY DEF TroubleOf, CompletionSource
  <1>3. "missing_sidecar" \in TroubleOf(record) => record.sidecar = "none"
    BY DEF TroubleOf
  <1>4. "failed_attempt" \in TroubleOf(record) => RunFailed(record)
    <2>1. "failed_attempt" \in TroubleOf(record) => AttemptStatus(record) = "failed"
      BY DEF TroubleOf
    <2> QED
      BY <2>1 DEF AttemptStatus, RunFailed
  <1> QED
    BY <1>1, <1>2, <1>3, <1>4 DEF FindingsOfRun

\* Trouble that the gate asks about is in the audit's summary of the task, for the newest runs that
\* name the task; however many sidecars lie next to them (isDelegateManifestPath).
THEOREM AuditSeesWhatTheGateSees == FinalSpec => AuditAgreesWithGate
  <1>1. ASSUME FinalInv, NEW t, NEW p, NEW i \in RunsOf(p)
        PROVE  AuditTells(t, i)
    <2> SUFFICES ASSUME TaskOf(manifests[i]) = t, i > Len(manifests) - MaxAudited
                 PROVE  FindingsOfRun(manifests[i]) \subseteq AuditSummary(t)
      BY TroublesAreFound DEF AuditTells
    <2> DEFINE findings == {FindingsOfRun(manifests[k]) :
                               k \in {j \in Audited : TaskOf(manifests[j]) = t}}
    <2>1. i \in Audited
      BY <1>1, NewestAreAudited DEF RunsOf
    <2>2. FindingsOfRun(manifests[i]) \in findings
      BY <2>1
    <2>3. AuditSummary(t) = (UNION findings) \cup ReviewerRetries(t)
      BY DEF AuditSummary
    <2> HIDE DEF findings
    <2> QED
      BY <2>2, <2>3
  <1>2. FinalInv /\ [FinalNext]_finalVars =>
          [\A t \in Tasks : Finalizes(t) =>
              \A i \in RunsOf(task'[t].plan) : AuditTells(t, i)]_finalVars
    BY <1>1
  <1> QED
    BY <1>2, GateFiles, PTL DEF FinalSpec, AuditAgreesWithGate, AuditTells


-------------------------------------------------------------------------------
(* A scout.  The tokens of a list of findings are the last of their partial    *)
(* sums, which are there and are the same for every list that begins so.       *)

IsTotal(total, listing, found) ==
    total = [n \in 0..Len(found) |->
                IF n = 0 THEN 0 ELSE total[n - 1] + Cost(listing, found[n])]

LEMMA TotalsExist ==
    ASSUME NEW listing, NEW found, Len(found) \in Nat
    PROVE  \E total : IsTotal(total, listing, found)
  <1> DEFINE Sums(t, m) ==
                 t = [n \in 0..m |-> IF n = 0 THEN 0 ELSE t[n - 1] + Cost(listing, found[n])]
             S == {m \in Nat : \E t : Sums(t, m)}
  <1>1. 0 \in S
    <2> DEFINE zero == [n \in 0..0 |-> 0]
    <2>1. Sums(zero, 0)
      OBVIOUS
    <2> QED
      BY <2>1
  <1>2. \A m \in Nat : m \in S => m + 1 \in S
    <2> SUFFICES ASSUME NEW m \in Nat, NEW t, Sums(t, m)
                 PROVE  \E u : Sums(u, m + 1)
      OBVIOUS
    <2> DEFINE u == [n \in 0..(m + 1) |->
                        IF n <= m THEN t[n] ELSE t[m] + Cost(listing, found[m + 1])]
    <2>1. \A n \in 0..(m + 1) :
             u[n] = IF n = 0 THEN 0 ELSE u[n - 1] + Cost(listing, found[n])
      <3> SUFFICES ASSUME NEW n \in 0..(m + 1)
                   PROVE  u[n] = IF n = 0 THEN 0 ELSE u[n - 1] + Cost(listing, found[n])
        OBVIOUS
      <3>1. CASE n = 0
        BY <3>1
      <3>2. CASE n # 0 /\ n <= m
        BY <3>2
      <3>3. CASE n = m + 1
        BY <3>3
      <3> QED
        BY <3>1, <3>2, <3>3
    <2>2. Sums(u, m + 1)
      <3> HIDE DEF u
      <3>1. u = [n \in 0..(m + 1) |-> u[n]]
        BY DEF u
      <3> QED
        BY <2>1, <3>1
    <2> QED
      BY <2>2
  <1> HIDE DEF S
  <1>3. Len(found) \in S
    BY <1>1, <1>2, SetInduction
  <1> QED
    BY <1>3 DEF S, IsTotal

LEMMA CostIsTotal ==
    ASSUME NEW listing, NEW found, Len(found) \in Nat
    PROVE  \E total : IsTotal(total, listing, found) /\ CostOf(listing, found) = total[Len(found)]
  <1> DEFINE total == CHOOSE t : IsTotal(t, listing, found)
  <1>1. IsTotal(total, listing, found)
    BY TotalsExist
  <1>2. CostOf(listing, found) = total[Len(found)]
    BY DEF CostOf, IsTotal
  <1> HIDE DEF total
  <1> QED
    BY <1>1, <1>2

\* Lists that begin alike have the same sums so far.
LEMMA TotalsAgree ==
    ASSUME NEW listing, NEW found, NEW more, NEW t, NEW u, Len(found) \in Nat, Len(more) \in Nat,
           IsTotal(t, listing, found), IsTotal(u, listing, more),
           NEW m \in Nat, m <= Len(found), m <= Len(more),
           \A i \in 1..m : found[i] = more[i]
    PROVE  t[m] = u[m]
  <1> DEFINE S == {n \in Nat : n <= m => t[n] = u[n]}
  <1>1. 0 \in S
    BY DEF IsTotal
  <1>2. ASSUME NEW n \in Nat, n \in S PROVE n + 1 \in S
    <2> SUFFICES ASSUME n + 1 <= m PROVE t[n + 1] = u[n + 1]
      OBVIOUS
    <2>1. /\ t[n + 1] = t[n] + Cost(listing, found[n + 1])
          /\ u[n + 1] = u[n] + Cost(listing, more[n + 1])
      BY DEF IsTotal
    <2> QED
      BY <1>2, <2>1
  <1> HIDE DEF S
  <1>3. m \in S
    BY <1>1, <1>2, SetInduction
  <1> QED
    BY <1>3 DEF S

\* Findings cost something or nothing, but never less.
LEMMA TotalsGrow ==
    ASSUME NEW listing, NEW found, NEW t, Len(found) \in Nat, IsTotal(t, listing, found),
           \A i \in 1..Len(found) : Cost(listing, found[i]) \in Nat,
           NEW k \in 0..Len(found)
    PROVE  /\ t[k] \in Nat /\ t[Len(found)] \in Nat
           /\ t[k] <= t[Len(found)]
  <1> DEFINE S == {n \in Nat : n <= Len(found) =>
                                  t[n] \in Nat /\ (k <= n => t[k] \in Nat /\ t[k] <= t[n])}
  <1>1. 0 \in S
    BY DEF IsTotal
  <1>2. ASSUME NEW n \in Nat, n \in S PROVE n + 1 \in S
    <2> SUFFICES ASSUME n + 1 <= Len(found)
                 PROVE  /\ t[n + 1] \in Nat
                        /\ k <= n + 1 => t[k] \in Nat /\ t[k] <= t[n + 1]
      OBVIOUS
    <2>1. t[n + 1] = t[n] + Cost(listing, found[n + 1]) /\ Cost(listing, found[n + 1]) \in Nat
      BY DEF IsTotal
    <2> QED
      BY <1>2, <2>1
  <1> HIDE DEF S
  <1>3. Len(found) \in S
    BY <1>1, <1>2, SetInduction
  <1> QED
    BY <1>3 DEF S

LEMMA CostOfNone ==
    ASSUME NEW listing
    PROVE  CostOf(listing, <<>>) = 0
  <1>1. PICK t : IsTotal(t, listing, <<>>) /\ CostOf(listing, <<>>) = t[Len(<<>>)]
    BY CostIsTotal
  <1> QED
    BY <1>1 DEF IsTotal

LEMMA CostOfOneMore ==
    ASSUME NEW listing, NEW T, NEW found \in Seq(T), NEW finding \in T
    PROVE  CostOf(listing, Append(found, finding)) =
                CostOf(listing, found) + Cost(listing, finding)
  <1> DEFINE more == Append(found, finding)
  <1>1. /\ Len(found) \in Nat /\ Len(more) = Len(found) + 1 /\ more[Len(found) + 1] = finding
        /\ \A i \in 1..Len(found) : found[i] = more[i]
    OBVIOUS
  <1> HIDE DEF more
  <1>2. PICK t : IsTotal(t, listing, found) /\ CostOf(listing, found) = t[Len(found)]
    BY <1>1, CostIsTotal
  <1>3. PICK u : IsTotal(u, listing, more) /\ CostOf(listing, more) = u[Len(more)]
    BY <1>1, CostIsTotal
  <1>4. t[Len(found)] = u[Len(found)]
    BY <1>1, <1>2, <1>3, TotalsAgree
  <1>5. u[Len(found) + 1] = u[Len(found)] + Cost(listing, finding)
    BY <1>1, <1>3 DEF IsTotal
  <1> QED
    BY <1>1, <1>2, <1>3, <1>4, <1>5 DEF more

\* The first findings of a list cost no more than all of them.
LEMMA CostOfFirst ==
    ASSUME NEW listing, NEW T, NEW found \in Seq(T), NEW first \in Seq(T), IsPrefix(first, found),
           \A i \in 1..Len(found) : Cost(listing, found[i]) \in Nat
    PROVE  /\ CostOf(listing, first) \in Nat /\ CostOf(listing, found) \in Nat
           /\ CostOf(listing, first) <= CostOf(listing, found)
  <1>1. /\ Len(found) \in Nat /\ Len(first) \in Nat /\ Len(first) <= Len(found)
        /\ \A i \in 1..Len(first) : first[i] = found[i]
    <2>1. /\ Len(found) \in Nat /\ Len(first) \in Nat /\ Len(first) <= Len(found)
          /\ SubSeq(first, 1, Len(first)) = SubSeq(found, 1, Len(first))
      BY DEF IsPrefix
    <2>2. \A i \in 1..Len(first) : /\ SubSeq(first, 1, Len(first))[i] = first[i]
                                   /\ SubSeq(found, 1, Len(first))[i] = found[i]
      BY <2>1
    <2> QED
      BY <2>1, <2>2
  <1>2. PICK t : IsTotal(t, listing, first) /\ CostOf(listing, first) = t[Len(first)]
    BY <1>1, CostIsTotal
  <1>3. PICK u : IsTotal(u, listing, found) /\ CostOf(listing, found) = u[Len(found)]
    BY <1>1, CostIsTotal
  <1>4. t[Len(first)] = u[Len(first)]
    BY <1>1, <1>2, <1>3, TotalsAgree
  <1>5. /\ u[Len(first)] \in Nat /\ u[Len(found)] \in Nat
        /\ u[Len(first)] <= u[Len(found)]
    BY <1>1, <1>3, TotalsGrow
  <1> QED
    BY <1>2, <1>3, <1>4, <1>5

LEMMA PrefixIs ==
    ASSUME NEW T, NEW s \in Seq(T), NEW t \in Seq(T)
    PROVE  IsPrefix(s, t) <=> Len(s) <= Len(t) /\ \A i \in 1..Len(s) : s[i] = t[i]
  <1>1. ASSUME Len(s) <= Len(t)
        PROVE  SubSeq(s, 1, Len(s)) = SubSeq(t, 1, Len(s)) <=> \A i \in 1..Len(s) : s[i] = t[i]
    <2>1. /\ Len(SubSeq(s, 1, Len(s))) = Len(s) /\ SubSeq(s, 1, Len(s)) \in Seq(T)
          /\ Len(SubSeq(t, 1, Len(s))) = Len(s) /\ SubSeq(t, 1, Len(s)) \in Seq(T)
          /\ \A i \in 1..Len(s) : /\ SubSeq(s, 1, Len(s))[i] = s[i]
                                  /\ SubSeq(t, 1, Len(s))[i] = t[i]
      BY <1>1
    <2> QED
      BY <2>1
  <1> QED
    BY <1>1 DEF IsPrefix

LEMMA PrefixGrows ==
    ASSUME NEW T, NEW s \in Seq(T), NEW t \in Seq(T), IsPrefix(s, t)
    PROVE  /\ IsPrefix(t, t) /\ IsPrefix(<<>>, t)
           /\ Len(s) <= Len(t)
           /\ Len(s) = Len(t) => s = t
           /\ \A x \in T : IsPrefix(s, Append(t, x))
           /\ Len(s) < Len(t) => IsPrefix(Append(s, t[Len(s) + 1]), t)
  <1>1. Len(s) <= Len(t) /\ \A i \in 1..Len(s) : s[i] = t[i]
    BY PrefixIs
  <1>2. IsPrefix(t, t) /\ IsPrefix(<<>>, t)
    <2>1. IsPrefix(t, t)
      BY DEF IsPrefix
    <2>2. IsPrefix(<<>>, t)
      BY DEF IsPrefix
    <2> QED
      BY <2>1, <2>2
  <1>3. Len(s) = Len(t) => s = t
    BY <1>1
  <1>4. ASSUME NEW x \in T PROVE IsPrefix(s, Append(t, x))
    <2> DEFINE more == Append(t, x)
    <2>1. more \in Seq(T) /\ Len(more) = Len(t) + 1 /\ \A i \in 1..Len(t) : more[i] = t[i]
      OBVIOUS
    <2> HIDE DEF more
    <2>2. Len(s) <= Len(more) /\ \A i \in 1..Len(s) : s[i] = more[i]
      BY <1>1, <2>1
    <2>3. IsPrefix(s, more)
      BY <2>1, <2>2, PrefixIs
    <2> QED
      BY <2>3 DEF more
  <1>5. ASSUME Len(s) < Len(t) PROVE IsPrefix(Append(s, t[Len(s) + 1]), t)
    <2> DEFINE x == t[Len(s) + 1]
    <2>1. x \in T
      BY <1>5
    <2> DEFINE more == Append(s, x)
    <2> HIDE DEF x
    <2>2. /\ more \in Seq(T) /\ Len(more) = Len(s) + 1 /\ more[Len(s) + 1] = x
          /\ \A i \in 1..Len(s) : more[i] = s[i]
      BY <2>1
    <2> HIDE DEF more
    <2>3. Len(more) <= Len(t) /\ \A i \in 1..Len(more) : more[i] = t[i]
      BY <1>1, <1>5, <2>2 DEF x
    <2>4. IsPrefix(more, t)
      BY <2>2, <2>3, PrefixIs
    <2> QED
      BY <2>4 DEF more, x
  <1> QED
    BY <1>1, <1>2, <1>3, <1>4, <1>5

-------------------------------------------------------------------------------
(* What a run has found is within its budgets, and what it has validated is    *)
(* the first part of it: the validation counts again what the scan has counted. *)

Markers == [file : Nat \ {0}, line : Nat \ {0}]

ScoutRuns ==
    [at : {"scanning", "validating", "appending", "ran"},
     listing : Seq(Seq(Nat \ {0})), limits : [files : Nat, findings : Nat, tokens : Nat],
     late : BOOLEAN, full : BOOLEAN, file : Nat, line : Nat, spent : Nat, counted : Nat,
     found : Seq(Markers), trusted : Seq(Markers), rejected : Seq(Markers)]

WithinBudgets(run) ==
    /\ run.file <= Len(run.listing)
    /\ \A i \in 1..Len(run.found) : Cost(run.listing, run.found[i]) \in Nat
    /\ run.spent = CostOf(run.listing, run.found) /\ run.spent <= run.limits.tokens
    /\ Len(run.found) <= run.limits.findings

ValidatedSoFar(run) ==
    /\ IsPrefix(run.trusted, run.found)
    /\ run.at = "scanning" => run.trusted = <<>> /\ run.counted = 0
    /\ run.at # "ran" =>
          ~run.late /\ run.rejected = <<>> /\ run.counted = CostOf(run.listing, run.trusted)
    /\ run.at = "appending" => run.trusted = run.found
    /\ run.at = "ran" => run.trusted = IF run.late THEN <<>> ELSE run.found

IsScoutRun(run) == run \in ScoutRuns /\ WithinBudgets(run) /\ ValidatedSoFar(run)

ScoutInv ==
    scout # NoScout =>
        IsScoutRun(scout) /\ evidenceOf \in Seq(Markers) /\ IsPrefix(evidenceOf, scout.trusted)

LEMMA StartScoutKeeps ==
    ASSUME NEW listing \in Listings, NEW files \in FileLimits, NEW findings \in FindingLimits,
           NEW tokens \in TokenLimits, StartScout(listing, EffectiveLimits(files, findings, tokens))
    PROVE  ScoutInv'
  <1> DEFINE limits == EffectiveLimits(files, findings, tokens)
             n == IF Len(listing) < limits.files THEN Len(listing) ELSE limits.files
  <1>1. /\ limits \in [files : Nat, findings : Nat, tokens : Nat]
        /\ listing \in Seq(Seq(Nat \ {0}))
    BY ScoutAssumption DEF EffectiveLimits
  <1> HIDE DEF limits
  <1>2. SubSeq(listing, 1, n) \in Seq(Seq(Nat \ {0})) /\ Len(SubSeq(listing, 1, n)) \in Nat
    BY <1>1
  <1>3. /\ scout' \in ScoutRuns
        /\ scout'.at = "scanning" /\ ~scout'.late
        /\ scout'.listing = SubSeq(listing, 1, n) /\ scout'.limits = limits
        /\ scout'.file = 0 /\ scout'.spent = 0 /\ scout'.counted = 0
        /\ scout'.found = <<>> /\ scout'.trusted = <<>> /\ scout'.rejected = <<>>
        /\ evidenceOf' = <<>>
    <2> HIDE DEF n
    <2>1. scout' = [at |-> "scanning", listing |-> SubSeq(listing, 1, n),
                    limits |-> limits, late |-> FALSE,
                    file |-> 0, line |-> 0, full |-> FALSE, found |-> <<>>, spent |-> 0,
                    trusted |-> <<>>, rejected |-> <<>>, counted |-> 0]
          /\ evidenceOf' = <<>>
      BY DEF StartScout, n, limits
    <2> QED
      BY <1>1, <1>2, <2>1 DEF ScoutRuns
  <1>4. <<>> \in Seq(Markers) /\ Len(<<>>) = 0 /\ IsPrefix(<<>>, <<>>)
    BY DEF IsPrefix
  <1>5. CostOf(scout'.listing, <<>>) = 0
    BY CostOfNone
  <1>6. WithinBudgets(scout') /\ ValidatedSoFar(scout')
    BY <1>1, <1>2, <1>3, <1>4, <1>5 DEF WithinBudgets, ValidatedSoFar
  <1> QED
    BY <1>3, <1>4, <1>6 DEF ScoutInv, IsScoutRun

LEMMA ScanFileKeeps ==
    ASSUME ScoutInv, ScanFile
    PROVE  ScoutInv'
  <1>1. IsScoutRun(scout) /\ scout.at = "scanning" /\ scout.file < Len(scout.listing)
    BY DEF ScoutInv, ScanFile, NoScout
  <1>2. /\ scout' \in ScoutRuns /\ scout'.file = scout.file + 1 /\ scout'.at = scout.at
        /\ scout'.listing = scout.listing /\ scout'.limits = scout.limits
        /\ scout'.late = scout.late /\ scout'.spent = scout.spent
        /\ scout'.counted = scout.counted /\ scout'.found = scout.found
        /\ scout'.trusted = scout.trusted /\ scout'.rejected = scout.rejected
        /\ evidenceOf' = evidenceOf
    <2> DEFINE next == scout.file + 1
    <2>1. next \in Nat /\ scout \in ScoutRuns
      BY <1>1 DEF IsScoutRun, ScoutRuns
    <2>2. scout' = [scout EXCEPT !.file = next, !.line = 0] /\ evidenceOf' = evidenceOf
      BY <2>1 DEF ScanFile, ScoutRuns
    <2> HIDE DEF next
    <2>3. /\ scout' \in ScoutRuns /\ scout'.file = next /\ scout'.at = scout.at
          /\ scout'.listing = scout.listing /\ scout'.limits = scout.limits
          /\ scout'.late = scout.late /\ scout'.spent = scout.spent
          /\ scout'.counted = scout.counted /\ scout'.found = scout.found
          /\ scout'.trusted = scout.trusted /\ scout'.rejected = scout.rejected
      BY <2>1, <2>2 DEF ScoutRuns
    <2> QED
      BY <2>2, <2>3 DEF next
  <1>3. WithinBudgets(scout')
    BY <1>1, <1>2 DEF WithinBudgets, IsScoutRun, ScoutRuns
  <1>4. ValidatedSoFar(scout')
    BY <1>1, <1>2 DEF ValidatedSoFar, IsScoutRun
  <1> QED
    BY <1>1, <1>2, <1>3, <1>4 DEF ScoutInv, IsScoutRun, NoScout

LEMMA ScanLineKeeps ==
    ASSUME ScoutInv, ScanLine
    PROVE  ScoutInv'
  <1> DEFINE finding == [file |-> scout.file, line |-> scout.line + 1]
             cost == Cost(scout.listing, finding)
  <1>1. /\ IsScoutRun(scout) /\ scout.at = "scanning" /\ WithinFile(scout)
        /\ scout \in ScoutRuns
    BY DEF ScoutInv, ScanLine, NoScout, IsScoutRun
  <1>2. finding \in Markers /\ cost \in Nat
    <2>1. scout.file \in 1..Len(scout.listing) /\ scout.file \in Nat /\ scout.line \in Nat
      BY <1>1 DEF IsScoutRun, WithinBudgets, WithinFile, ScoutRuns
    <2>2. /\ scout.listing[scout.file] \in Seq(Nat \ {0})
          /\ scout.line + 1 \in 1..Len(scout.listing[scout.file])
      BY <1>1, <2>1 DEF WithinFile, ScoutRuns
    <2>3. scout.listing[scout.file][scout.line + 1] \in Nat
      BY <2>2
    <2> QED
      BY <2>1, <2>3 DEF Markers, Cost
  <1>3. scout.found \in Seq(Markers)
    BY <1>1 DEF ScoutRuns
  <1>4. CASE FitsScan(scout.limits, scout.spent, Len(scout.found), cost)
    <2>1. scout' = [scout EXCEPT !.line = @ + 1, !.found = Append(@, finding), !.spent = @ + cost]
          /\ evidenceOf' = evidenceOf
      BY <1>4 DEF ScanLine
    <2> HIDE DEF finding, cost
    <2>2. /\ scout' \in ScoutRuns /\ scout'.at = scout.at /\ scout'.file = scout.file
          /\ scout'.listing = scout.listing /\ scout'.limits = scout.limits
          /\ scout'.late = scout.late /\ scout'.spent = scout.spent + cost
          /\ scout'.counted = scout.counted /\ scout'.found = Append(scout.found, finding)
          /\ scout'.trusted = scout.trusted /\ scout'.rejected = scout.rejected
      <3> DEFINE more == Append(scout.found, finding)
                 spent == scout.spent + cost
                 line == scout.line + 1
      <3>1. more \in Seq(Markers) /\ spent \in Nat /\ line \in Nat
        BY <1>1, <1>2, <1>3 DEF ScoutRuns
      <3>2. scout' = [scout EXCEPT !.line = line, !.found = more, !.spent = spent]
        BY <1>1, <2>1 DEF ScoutRuns
      <3> HIDE DEF more, spent, line
      <3>3. /\ scout' \in ScoutRuns /\ scout'.at = scout.at /\ scout'.file = scout.file
            /\ scout'.listing = scout.listing /\ scout'.limits = scout.limits
            /\ scout'.late = scout.late /\ scout'.spent = spent
            /\ scout'.counted = scout.counted /\ scout'.found = more
            /\ scout'.trusted = scout.trusted /\ scout'.rejected = scout.rejected
        BY <1>1, <3>1, <3>2 DEF ScoutRuns
      <3> QED
        BY <3>3 DEF more, spent
    <2>3. CostOf(scout.listing, scout'.found) = scout.spent + cost
      BY <1>1, <1>2, <1>3, <2>2, CostOfOneMore DEF IsScoutRun, WithinBudgets, cost
    <2>4. \A i \in 1..Len(scout'.found) : Cost(scout'.listing, scout'.found[i]) \in Nat
      BY <1>1, <1>2, <1>3, <2>2 DEF IsScoutRun, WithinBudgets, cost
    <2>5. Len(scout'.found) = Len(scout.found) + 1 /\ Len(scout.found) \in Nat
      BY <1>2, <1>3, <2>2
    <2>6. WithinBudgets(scout')
      BY <1>1, <1>2, <1>4, <2>2, <2>3, <2>4, <2>5
      DEF IsScoutRun, WithinBudgets, FitsScan, ScoutRuns
    <2>7. ValidatedSoFar(scout')
      <3>1. IsPrefix(scout.trusted, scout'.found)
        BY <1>1, <1>2, <1>3, <2>2, PrefixGrows DEF IsScoutRun, ValidatedSoFar, ScoutRuns
      <3> QED
        BY <1>1, <2>2, <3>1 DEF IsScoutRun, ValidatedSoFar
    <2> QED
      BY <1>1, <2>1, <2>2, <2>6, <2>7 DEF ScoutInv, IsScoutRun, NoScout
  <1>5. CASE ~FitsScan(scout.limits, scout.spent, Len(scout.found), cost)
    <2>1. scout' = [scout EXCEPT !.full = TRUE] /\ evidenceOf' = evidenceOf
      BY <1>5 DEF ScanLine
    <2>2. /\ scout' \in ScoutRuns /\ scout'.at = scout.at /\ scout'.file = scout.file
          /\ scout'.listing = scout.listing /\ scout'.limits = scout.limits
          /\ scout'.late = scout.late /\ scout'.spent = scout.spent
          /\ scout'.counted = scout.counted /\ scout'.found = scout.found
          /\ scout'.trusted = scout.trusted /\ scout'.rejected = scout.rejected
      BY <1>1, <2>1 DEF ScoutRuns
    <2>3. WithinBudgets(scout') /\ ValidatedSoFar(scout')
      BY <1>1, <2>2 DEF IsScoutRun, WithinBudgets, ValidatedSoFar
    <2> QED
      BY <1>1, <2>1, <2>2, <2>3 DEF ScoutInv, IsScoutRun, NoScout
  <1> QED
    BY <1>4, <1>5

LEMMA DeadlineKeeps ==
    ASSUME ScoutInv, DeadlinePasses
    PROVE  ScoutInv'
  <1>1. IsScoutRun(scout) /\ scout.at = "scanning" /\ scout \in ScoutRuns
    BY DEF ScoutInv, DeadlinePasses, NoScout, IsScoutRun
  <1>2. /\ scout' \in ScoutRuns /\ scout'.at = "ran" /\ scout'.file = scout.file
        /\ scout'.listing = scout.listing /\ scout'.limits = scout.limits
        /\ scout'.late /\ scout'.spent = scout.spent /\ scout'.found = scout.found
        /\ scout'.trusted = scout.trusted /\ evidenceOf' = evidenceOf
    BY <1>1 DEF DeadlinePasses, ScoutRuns
  <1>3. WithinBudgets(scout') /\ ValidatedSoFar(scout')
    BY <1>1, <1>2 DEF IsScoutRun, WithinBudgets, ValidatedSoFar
  <1> QED
    BY <1>1, <1>2, <1>3 DEF ScoutInv, IsScoutRun, NoScout

LEMMA ValidateKeeps ==
    ASSUME ScoutInv, Validate
    PROVE  ScoutInv'
  <1>1. IsScoutRun(scout) /\ scout.at = "scanning" /\ scout \in ScoutRuns
    BY DEF ScoutInv, Validate, NoScout, IsScoutRun
  <1>2. /\ scout' \in ScoutRuns /\ scout'.at = "validating" /\ scout'.file = scout.file
        /\ scout'.listing = scout.listing /\ scout'.limits = scout.limits
        /\ scout'.late = scout.late /\ scout'.spent = scout.spent
        /\ scout'.counted = scout.counted /\ scout'.found = scout.found
        /\ scout'.trusted = scout.trusted /\ scout'.rejected = scout.rejected
        /\ evidenceOf' = evidenceOf
    BY <1>1 DEF Validate, ScoutRuns
  <1>3. WithinBudgets(scout') /\ ValidatedSoFar(scout')
    BY <1>1, <1>2 DEF IsScoutRun, WithinBudgets, ValidatedSoFar
  <1> QED
    BY <1>1, <1>2, <1>3 DEF ScoutInv, IsScoutRun, NoScout

\* Nothing that the scan has found is over the budgets of the validation.
LEMMA ValidateFindingKeeps ==
    ASSUME ScoutInv, ValidateFinding
    PROVE  ScoutInv'
  <1> DEFINE finding == scout.found[Len(scout.trusted) + 1]
             cost == Cost(scout.listing, finding)
             more == Append(scout.trusted, finding)
  <1>1. /\ IsScoutRun(scout) /\ scout.at = "validating" /\ scout \in ScoutRuns
        /\ scout.found \in Seq(Markers) /\ scout.trusted \in Seq(Markers)
        /\ scout.limits \in [files : Nat, findings : Nat, tokens : Nat]
        /\ evidenceOf \in Seq(Markers) /\ IsPrefix(evidenceOf, scout.trusted)
    BY DEF ScoutInv, ValidateFinding, NoScout, IsScoutRun, ScoutRuns
  <1>2. scout.rejected = <<>> /\ Looked(scout) = Len(scout.trusted)
    <2>1. scout.rejected = <<>> /\ Len(scout.trusted) \in Nat
      BY <1>1 DEF IsScoutRun, ValidatedSoFar
    <2>2. Len(scout.rejected) = 0
      BY <2>1
    <2> QED
      BY <2>1, <2>2 DEF Looked
  <1>3. Len(scout.trusted) < Len(scout.found) /\ Len(scout.trusted) < scout.limits.findings
    BY <1>1, <1>2 DEF ValidateFinding, Candidates, IsScoutRun, WithinBudgets
  <1>4. finding \in Markers /\ cost \in Nat
    <2>1. Len(scout.trusted) + 1 \in 1..Len(scout.found)
      BY <1>1, <1>3
    <2> QED
      BY <1>1, <2>1 DEF IsScoutRun, WithinBudgets
  <1>5. more \in Seq(Markers) /\ IsPrefix(more, scout.found) /\ IsPrefix(evidenceOf, more)
    BY <1>1, <1>3, <1>4, PrefixGrows DEF IsScoutRun, ValidatedSoFar
  <1> HIDE DEF more
  <1>6. CostOf(scout.listing, more) = scout.counted + cost
    <2> HIDE DEF finding
    <2>1. CostOf(scout.listing, Append(scout.trusted, finding)) =
              CostOf(scout.listing, scout.trusted) + cost
      BY <1>1, <1>4, CostOfOneMore
    <2> QED
      BY <1>1, <2>1 DEF IsScoutRun, ValidatedSoFar, more
  <1>7. scout.counted + cost <= scout.limits.tokens /\ scout.counted + cost \in Nat
    <2>1. /\ CostOf(scout.listing, more) <= CostOf(scout.listing, scout.found)
          /\ CostOf(scout.listing, more) \in Nat /\ CostOf(scout.listing, scout.found) \in Nat
      BY <1>1, <1>5, CostOfFirst DEF IsScoutRun, WithinBudgets
    <2> QED
      BY <1>1, <1>6, <2>1 DEF IsScoutRun, WithinBudgets
  <1>8. scout' = [scout EXCEPT !.trusted = more, !.counted = scout.counted + cost]
        /\ evidenceOf' = evidenceOf
    BY <1>1, <1>2, <1>3, <1>7 DEF ValidateFinding, more, ScoutRuns
  <1>9. /\ scout' \in ScoutRuns /\ scout'.at = scout.at /\ scout'.file = scout.file
        /\ scout'.listing = scout.listing /\ scout'.limits = scout.limits
        /\ scout'.late = scout.late /\ scout'.spent = scout.spent
        /\ scout'.counted = scout.counted + cost /\ scout'.found = scout.found
        /\ scout'.trusted = more /\ scout'.rejected = scout.rejected
    BY <1>1, <1>5, <1>7, <1>8 DEF ScoutRuns
  <1> HIDE DEF cost, finding
  <1>10. WithinBudgets(scout')
    BY <1>1, <1>9 DEF IsScoutRun, WithinBudgets
  <1>11. ValidatedSoFar(scout')
    BY <1>1, <1>5, <1>6, <1>9 DEF IsScoutRun, ValidatedSoFar
  <1> QED
    BY <1>1, <1>5, <1>8, <1>9, <1>10, <1>11 DEF ScoutInv, IsScoutRun, NoScout

LEMMA BeginAppendsKeeps ==
    ASSUME ScoutInv, BeginAppends
    PROVE  ScoutInv'
  <1>1. /\ IsScoutRun(scout) /\ scout.at = "validating" /\ scout \in ScoutRuns
        /\ scout.found \in Seq(Markers) /\ scout.trusted \in Seq(Markers)
        /\ scout.limits \in [files : Nat, findings : Nat, tokens : Nat]
    BY DEF ScoutInv, BeginAppends, NoScout, IsScoutRun, ScoutRuns
  <1>2. scout.rejected = <<>> /\ Looked(scout) = Len(scout.trusted)
    <2>1. scout.rejected = <<>> /\ Len(scout.trusted) \in Nat
      BY <1>1 DEF IsScoutRun, ValidatedSoFar
    <2>2. Len(scout.rejected) = 0
      BY <2>1
    <2> QED
      BY <2>1, <2>2 DEF Looked
  <1>3. Len(scout.trusted) = Len(scout.found)
    <2>1. Len(scout.trusted) <= Len(scout.found)
      BY <1>1, PrefixGrows DEF IsScoutRun, ValidatedSoFar
    <2> QED
      BY <1>1, <1>2, <2>1 DEF BeginAppends, Candidates, IsScoutRun, WithinBudgets
  <1>4. scout.trusted = scout.found
    BY <1>1, <1>3, PrefixGrows DEF IsScoutRun, ValidatedSoFar
  <1>5. /\ scout' \in ScoutRuns /\ scout'.at = "appending" /\ scout'.file = scout.file
        /\ scout'.listing = scout.listing /\ scout'.limits = scout.limits
        /\ scout'.late = scout.late /\ scout'.spent = scout.spent
        /\ scout'.counted = scout.counted /\ scout'.found = scout.found
        /\ scout'.trusted = scout.trusted /\ scout'.rejected = scout.rejected
        /\ evidenceOf' = evidenceOf
    BY <1>1 DEF BeginAppends, ScoutRuns
  <1>6. WithinBudgets(scout') /\ ValidatedSoFar(scout')
    BY <1>1, <1>4, <1>5 DEF IsScoutRun, WithinBudgets, ValidatedSoFar
  <1> QED
    BY <1>1, <1>5, <1>6 DEF ScoutInv, IsScoutRun, NoScout

LEMMA AppendsEndKeeps ==
    ASSUME ScoutInv, scout.at = "appending", scout' = [scout EXCEPT !.at = "ran"],
           UNCHANGED evidenceOf
    PROVE  ScoutInv'
  <1>1. /\ IsScoutRun(scout) /\ scout \in ScoutRuns
        /\ ~scout.late /\ scout.trusted = scout.found
    BY DEF ScoutInv, NoScout, IsScoutRun, ValidatedSoFar
  <1>2. /\ scout' \in ScoutRuns /\ scout'.at = "ran" /\ scout'.file = scout.file
        /\ scout'.listing = scout.listing /\ scout'.limits = scout.limits
        /\ scout'.late = scout.late /\ scout'.spent = scout.spent
        /\ scout'.counted = scout.counted /\ scout'.found = scout.found
        /\ scout'.trusted = scout.trusted /\ scout'.rejected = scout.rejected
    BY <1>1 DEF ScoutRuns
  <1>3. WithinBudgets(scout') /\ ValidatedSoFar(scout')
    BY <1>1, <1>2 DEF IsScoutRun, WithinBudgets, ValidatedSoFar
  <1> QED
    BY <1>1, <1>2, <1>3 DEF ScoutInv, IsScoutRun, NoScout

LEMMA AppendFindingKeeps ==
    ASSUME ScoutInv, AppendFinding
    PROVE  ScoutInv'
  <1>1. CASE scout' = [scout EXCEPT !.at = "ran"] /\ UNCHANGED evidenceOf
    BY <1>1, AppendsEndKeeps DEF AppendFinding
  <1>2. CASE /\ evidenceOf' = Append(evidenceOf, scout.trusted[Len(evidenceOf) + 1])
             /\ UNCHANGED scout
    <2>1. /\ IsScoutRun(scout) /\ scout.trusted \in Seq(Markers) /\ evidenceOf \in Seq(Markers)
          /\ IsPrefix(evidenceOf, scout.trusted) /\ Len(evidenceOf) < Len(scout.trusted)
      BY DEF ScoutInv, AppendFinding, NoScout, IsScoutRun, ScoutRuns
    <2>2. scout.trusted[Len(evidenceOf) + 1] \in Markers
      BY <2>1
    <2>3. evidenceOf' \in Seq(Markers) /\ IsPrefix(evidenceOf', scout.trusted)
      BY <1>2, <2>1, <2>2, PrefixGrows
    <2> QED
      BY <1>2, <2>1, <2>3 DEF ScoutInv
  <1> QED
    BY <1>1, <1>2 DEF AppendFinding

LEMMA ScoutStep == ScoutInv /\ [ScoutNext]_scoutVars => ScoutInv'
  <1> SUFFICES ASSUME ScoutInv, [ScoutNext]_scoutVars PROVE ScoutInv'
    OBVIOUS
  <1>1. CASE UNCHANGED scoutVars
    BY <1>1 DEF scoutVars, ScoutInv
  <1>2. CASE ScoutReturns
    BY <1>2 DEF ScoutReturns, ScoutInv
  <1>3. CASE EndAppends
    BY <1>3, AppendsEndKeeps DEF EndAppends
  <1> QED
    BY <1>1, <1>2, <1>3, StartScoutKeeps, ScanFileKeeps, ScanLineKeeps, DeadlineKeeps,
       ValidateKeeps, ValidateFindingKeeps, BeginAppendsKeeps, AppendFindingKeeps DEF ScoutNext

\* A scout that was in time trusts all that it has found, within every limit, a late one nothing;
\* and what a failed append leaves in the queue is the first part of it: for every tree, every
\* limit and every moment of the deadline (deterministicScan, validateScoutOutput, runScoutUnit).
THEOREM ScoutsTrustTheirScan == ScoutSpec => []ScoutTrustsWhatItFound
  <1>1. ScoutInit => ScoutInv
    BY DEF ScoutInit, ScoutInv
  <1>2. ScoutInv => ScoutTrustsWhatItFound
    <2> SUFFICES ASSUME ScoutInv, scout.at \in {"appending", "ran"}
                 PROVE  /\ scout.trusted = IF scout.late THEN <<>> ELSE scout.found
                        /\ CostOf(scout.listing, scout.trusted) <= scout.limits.tokens
                        /\ Len(scout.trusted) <= scout.limits.findings
                        /\ IsPrefix(evidenceOf, scout.trusted)
      BY DEF ScoutTrustsWhatItFound
    <2>1. /\ IsScoutRun(scout) /\ IsPrefix(evidenceOf, scout.trusted)
          /\ scout.trusted = IF scout.late THEN <<>> ELSE scout.found
      BY DEF ScoutInv, NoScout, IsScoutRun, ValidatedSoFar
    <2>2. /\ scout.found \in Seq(Markers) /\ scout.trusted \in Seq(Markers)
          /\ scout.limits \in [files : Nat, findings : Nat, tokens : Nat]
          /\ IsPrefix(scout.trusted, scout.found)
      BY <2>1 DEF IsScoutRun, ScoutRuns, ValidatedSoFar
    <2>3. /\ CostOf(scout.listing, scout.trusted) <= CostOf(scout.listing, scout.found)
          /\ CostOf(scout.listing, scout.trusted) \in Nat
          /\ CostOf(scout.listing, scout.found) \in Nat
      BY <2>1, <2>2, CostOfFirst DEF IsScoutRun, WithinBudgets
    <2>4. Len(scout.trusted) <= Len(scout.found)
      BY <2>2, PrefixGrows
    <2> QED
      BY <2>1, <2>2, <2>3, <2>4 DEF IsScoutRun, WithinBudgets
  <1> QED
    BY <1>1, <1>2, ScoutStep, PTL DEF ScoutSpec

===============================================================================
