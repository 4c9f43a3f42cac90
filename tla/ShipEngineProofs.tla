--------------------------- MODULE ShipEngineProofs ---------------------------
(*****************************************************************************)
(* Proofs about ShipEngine for every set of paths, outcomes and starts and    *)
(* for every retry budget, about the loop that drives it, and about the       *)
(* classifier that decides beside it.                                         *)
(*                                                                            *)
(* The invariant is a predicate of one durable state, Consistent, so that     *)
(* its preservation is a statement about a handler (s to t) that any module   *)
(* driving the engine can use.  Of the loop it says, besides, that the stage  *)
(* tells whether an approval is still about the change that is there.         *)
(*****************************************************************************)
EXTENDS MCShipSupervisor, TLAPS

\* The reviewer is owed wherever the lane's default owes one, and never in the
\* debug lane.
ReviewFits(s) ==
    /\ DefaultReviewerRequired(s.lane, s.hotfixKind) => s.reviewerRequired
    /\ s.lane = "debug" => ~s.reviewerRequired

\* Nothing was implemented in the debug lane, nor after its promotion to a
\* full-sprint lane whose gates nobody confirmed.
InertFits(s) ==
    s.lane = "debug" \/ GatesMissing(s) =>
        /\ s.attempts = 0
        /\ s.changedFiles = {}
        /\ s.stage # "implementing"

BudgetFits(s) ==
    /\ s.stage = "implementing" => s.attempts \in 1 .. s.retryBudget
    /\ s.stage = "fixing" => s.attempts < s.retryBudget

\* What finalization tested still holds of the state it left.
DeliveryFits(s) == s.stage = "delivery_complete" => ~RefusesDelivery(s)

Consistent(s) ==
    /\ s \in ShipStates
    /\ s.hotfixKind \in KindsOf(s.lane)
    /\ ReviewFits(s)
    /\ InertFits(s)
    /\ BudgetFits(s)
    /\ DeliveryFits(s)

IInv == Consistent(run)

-------------------------------------------------------------------------------
(* What the updates of a state do to its fields. *)

\* The fields that only a promotion of the lane changes.
SameContract(s, t) ==
    /\ t.lane = s.lane
    /\ t.hotfixKind = s.hotfixKind
    /\ t.retryBudget = s.retryBudget
    /\ t.fullSprintGatesConfirmed = s.fullSprintGatesConfirmed

\* The record of the work done.
SameRecord(s, t) ==
    /\ t.attempts = s.attempts
    /\ t.changedFiles = s.changedFiles
    /\ t.evidenceRefs = s.evidenceRefs
    /\ t.checks = s.checks

LEMMA StoppedFields ==
    ASSUME NEW s \in ShipStates,
           NEW condition \in StopConditions, NEW action \in NextActions
    PROVE  LET t == Stopped(s, condition, action) IN
           /\ t \in ShipStates
           /\ SameContract(s, t) /\ SameRecord(s, t)
           /\ t.reviewerRequired = s.reviewerRequired
           /\ t.reviewerOutcome = s.reviewerOutcome
           /\ t.stage = "blocked"
  BY DEF Stopped, ShipStates, Stages, SameContract, SameRecord

LEMMA MovedFields ==
    ASSUME NEW s \in ShipStates,
           NEW stage \in Stages, NEW action \in NextActions
    PROVE  LET t == Moved(s, stage, action) IN
           /\ t \in ShipStates
           /\ SameContract(s, t) /\ SameRecord(s, t)
           /\ t.reviewerRequired = s.reviewerRequired
           /\ t.reviewerOutcome = s.reviewerOutcome
           /\ t.stage = stage
  BY DEF Moved, ShipStates, SameContract, SameRecord

LEMMA WithEvidenceFields ==
    ASSUME NEW s \in ShipStates, NEW files, NEW refs, NEW outcomes,
           files \subseteq Paths, refs \subseteq Paths, outcomes \subseteq Outcomes,
           NEW t, t = WithEvidence(s, files, refs, outcomes)
    PROVE  /\ t \in ShipStates
           /\ SameContract(s, t)
           /\ t.attempts = s.attempts
           /\ t.changedFiles = s.changedFiles \cup files
           /\ t.evidenceRefs = s.evidenceRefs \cup refs
           /\ t.checks = s.checks \cup outcomes
           /\ t.reviewerRequired = s.reviewerRequired
           /\ t.reviewerOutcome = s.reviewerOutcome
           /\ t.stage = s.stage
<1>1. /\ s.changedFiles \cup files \in SUBSET Paths
      /\ s.evidenceRefs \cup refs \in SUBSET Paths
      /\ s.checks \cup outcomes \in SUBSET Outcomes
  BY DEF ShipStates
<1> QED BY <1>1 DEF WithEvidence, ShipStates, SameContract

LEMMA RoutedToReviewFields ==
    ASSUME NEW s \in ShipStates
    PROVE  LET t == RoutedToReview(s) IN
           /\ t \in ShipStates
           /\ SameContract(s, t) /\ SameRecord(s, t)
           /\ t.reviewerRequired
           /\ t.stage = "reviewing"
  BY DEF RoutedToReview, Moved, ShipStates, Stages, NextActions, SameContract, SameRecord

LEMMA PromotedFields ==
    ASSUME NEW s \in ShipStates,
           NEW lane \in {"full-sprint", "hotfix"}, NEW kind \in KindsOf(lane)
    PROVE  LET t == Promoted(s, lane, kind) IN
           /\ t \in ShipStates
           /\ t.lane = lane /\ t.hotfixKind = kind
           /\ SameRecord(s, t)
           /\ t.reviewerRequired = DefaultReviewerRequired(lane, kind)
           /\ t.stage = "created"
<1>1. DefaultReviewerRequired(lane, kind) \in BOOLEAN
  BY DEF DefaultReviewerRequired
<1>2. lane \in AutomationLanes \cap DebugNextLanes
  BY DEF AutomationLanes, DebugNextLanes
<1>3. kind \in HotfixKinds \cup {Unset}
  BY DEF KindsOf
<1> HIDE DEF DefaultReviewerRequired
<1> QED BY <1>1, <1>2, <1>3 DEF Promoted, ShipStates, Stages, NextActions, SameRecord

\* A step that keeps the contract, drops no review, records no work where none
\* may be done, and leaves for a stage that asks for nothing.
LEMMA QuietStep ==
    ASSUME NEW s, NEW t, Consistent(s), t \in ShipStates, SameContract(s, t),
           s.reviewerRequired => t.reviewerRequired,
           s.lane = "debug" => t.reviewerRequired = s.reviewerRequired,
           s.lane = "debug" \/ GatesMissing(s) =>
               t.attempts = s.attempts /\ t.changedFiles = s.changedFiles,
           t.stage \notin {"implementing", "fixing", "delivery_complete"}
    PROVE  Consistent(t)
  BY DEF Consistent, SameContract, ReviewFits, InertFits, GatesMissing, BudgetFits,
         DeliveryFits, DefaultReviewerRequired

-------------------------------------------------------------------------------
(* Preservation, handler by handler. *)

LEMMA StoppedConsistent ==
    ASSUME NEW s, Consistent(s),
           NEW condition \in StopConditions, NEW action \in NextActions
    PROVE  Consistent(Stopped(s, condition, action))
<1>1. s \in ShipStates
  BY DEF Consistent
<1> QED BY <1>1, StoppedFields, QuietStep DEF SameRecord

LEMMA DebugStopConsistent ==
    ASSUME NEW s, Consistent(s)
    PROVE  Consistent(DebugStop(s))
  BY StoppedConsistent DEF DebugStop, StopConditions, NextActions

LEMMA GatesStopConsistent ==
    ASSUME NEW s, Consistent(s)
    PROVE  Consistent(GatesStop(s))
  BY StoppedConsistent DEF GatesStop, StopConditions, NextActions

LEMMA DiagnoseConsistent ==
    ASSUME NEW s, NEW t, Consistent(s), Diagnose(s, t)
    PROVE  Consistent(t)
<1>1. CASE t = DebugStop(s)
  BY <1>1, DebugStopConsistent
<1>2. CASE t # DebugStop(s)
  <2> DEFINE action == IF s.selectedNextLane = Unset THEN "stop"
                       ELSE IF AllowsImplementation(s.selectedNextLane)
                            THEN "implement" ELSE "report-only"
  <2>1. PICK affected \in SUBSET Paths :
          t = [s EXCEPT !.diagnosed = TRUE,
                        !.stage = "diagnosing",
                        !.evidenceRefs = @ \cup affected,
                        !.nextAction = action]
    BY <1>2 DEF Diagnose
  <2>2. action \in NextActions
    BY DEF NextActions
  <2>3. s \in ShipStates /\ s.evidenceRefs \cup affected \in SUBSET Paths
    BY DEF Consistent, ShipStates
  <2> HIDE DEF action
  <2>4. /\ t \in ShipStates
        /\ SameContract(s, t)
        /\ t.attempts = s.attempts /\ t.changedFiles = s.changedFiles
        /\ t.reviewerRequired = s.reviewerRequired
        /\ t.stage = "diagnosing"
    BY <2>1, <2>2, <2>3 DEF ShipStates, Stages, SameContract
  <2> QED BY <2>4, QuietStep
<1> QED BY <1>1, <1>2

LEMMA SelectNextLaneConsistent ==
    ASSUME NEW s, NEW t, Consistent(s), SelectNextLane(s, t)
    PROVE  Consistent(t)
<1>1. CASE t = DebugStop(s)
  BY <1>1, DebugStopConsistent
<1>2. CASE t # DebugStop(s)
  <2>1. PICK lane \in {"full-sprint", "hotfix"} :
          \E kind \in KindsOf(lane) : HasDiagnosis(s) /\ t = Promoted(s, lane, kind)
    BY <1>2 DEF SelectNextLane, AutomationLanes
  <2>2. PICK kind \in KindsOf(lane) : HasDiagnosis(s) /\ t = Promoted(s, lane, kind)
    BY <2>1
  <2>3. s \in ShipStates /\ s.attempts = 0 /\ s.changedFiles = {}
    BY <2>2 DEF Consistent, InertFits, HasDiagnosis
  <2>4. /\ t \in ShipStates
        /\ t.lane = lane /\ t.hotfixKind = kind
        /\ t.attempts = 0 /\ t.changedFiles = {}
        /\ t.reviewerRequired = DefaultReviewerRequired(lane, kind)
        /\ t.stage = "created"
    BY <2>2, <2>3, PromotedFields DEF SameRecord
  <2> QED
    BY <2>4 DEF Consistent, ReviewFits, InertFits, BudgetFits, DeliveryFits,
         DefaultReviewerRequired
<1> QED BY <1>1, <1>2

LEMMA SelectReportOnlyConsistent ==
    ASSUME NEW s, NEW t, Consistent(s), SelectReportOnly(s, t)
    PROVE  Consistent(t)
<1>1. CASE ~HasDiagnosis(s)
  BY <1>1, DebugStopConsistent DEF SelectReportOnly
<1>2. CASE HasDiagnosis(s)
  <2> DEFINE chosen == [s EXCEPT !.selectedNextLane = "no-code/report-only",
                                 !.hotfixKind = Unset,
                                 !.reviewerRequired = FALSE]
  <2>1. /\ s \in ShipStates /\ s.lane = "debug"
        /\ s.hotfixKind = Unset /\ s.reviewerRequired = FALSE
    BY <1>2 DEF Consistent, HasDiagnosis, ReviewFits, KindsOf, ShipStates
  <2>2. /\ chosen \in ShipStates
        /\ SameContract(s, chosen) /\ SameRecord(s, chosen)
        /\ chosen.reviewerRequired = s.reviewerRequired
    BY <2>1 DEF ShipStates, DebugNextLanes, SameContract, SameRecord
  <2>3. t = Stopped(chosen, "report-only-stop", "report-only")
    BY <1>2 DEF SelectReportOnly
  <2> HIDE DEF chosen
  <2>4. "report-only-stop" \in StopConditions /\ "report-only" \in NextActions
    BY DEF StopConditions, NextActions
  <2>5. /\ t \in ShipStates
        /\ SameContract(chosen, t) /\ SameRecord(chosen, t)
        /\ t.reviewerRequired = chosen.reviewerRequired
        /\ t.stage = "blocked"
    BY <2>2, <2>3, <2>4, StoppedFields
  <2> QED BY <2>2, <2>5, QuietStep DEF SameContract, SameRecord
<1> QED BY <1>1, <1>2

LEMMA ImplementStartedConsistent ==
    ASSUME NEW s, NEW t, Consistent(s), ImplementStarted(s, t)
    PROVE  Consistent(t)
<1> DEFINE started == [s EXCEPT !.attempts = @ + 1]
<1> s \in ShipStates
  BY DEF Consistent
<1>1. CASE t = Stopped(s, "report-only-stop", "report-only")
  BY <1>1, StoppedConsistent DEF StopConditions, NextActions
<1>2. CASE t = DebugStop(s)
  BY <1>2, DebugStopConsistent
<1>3. CASE t = GatesStop(s)
  BY <1>3, GatesStopConsistent
<1>4. ASSUME s.lane # "debug", ~GatesMissing(s),
             \/ t = Stopped(started, "retry-budget-exhausted", "stop")
             \/ BudgetLeft(s) /\ t = Moved(started, "implementing", "implement")
      PROVE  Consistent(t)
  <2>1. /\ started \in ShipStates
        /\ SameContract(s, started)
        /\ started.attempts = s.attempts + 1
        /\ started.reviewerRequired = s.reviewerRequired
    BY DEF ShipStates, SameContract
  <2> HIDE DEF started
  <2>2. CASE t = Stopped(started, "retry-budget-exhausted", "stop")
    <3>1. /\ t \in ShipStates
          /\ SameContract(started, t)
          /\ t.reviewerRequired = started.reviewerRequired
          /\ t.stage = "blocked"
      BY <2>1, <2>2, StoppedFields DEF StopConditions, NextActions
    <3> QED BY <1>4, <2>1, <3>1, QuietStep DEF SameContract
  <2>3. CASE BudgetLeft(s) /\ t = Moved(started, "implementing", "implement")
    <3>1. /\ t \in ShipStates
          /\ SameContract(started, t)
          /\ t.attempts = started.attempts
          /\ t.reviewerRequired = started.reviewerRequired
          /\ t.stage = "implementing"
      BY <2>1, <2>3, MovedFields DEF Stages, NextActions, SameRecord
    <3>2. s.attempts \in Nat /\ s.retryBudget \in Nat
      BY BudgetAssumption DEF ShipStates
    <3>3. t.attempts \in 1 .. t.retryBudget
      BY <2>1, <2>3, <3>1, <3>2 DEF BudgetLeft, SameContract
    <3> QED
      BY <1>4, <2>1, <3>1, <3>3 DEF Consistent, SameContract, ReviewFits, InertFits,
           GatesMissing, BudgetFits, DeliveryFits, DefaultReviewerRequired
  <2> QED BY <1>4, <2>2, <2>3
<1> QED BY <1>1, <1>2, <1>3, <1>4 DEF ImplementStarted

LEMMA CoderCompletedConsistent ==
    ASSUME NEW s, NEW t, Consistent(s), CoderCompleted(s, t)
    PROVE  Consistent(t)
<1>1. PICK files \in SUBSET Paths, refs \in SUBSET Paths, outcomes \in SUBSET Outcomes :
        LET next == WithEvidence(s, files, refs, outcomes) IN
        \/ t = DebugStop(s)
        \/ t = GatesStop(s)
        \/ /\ s.lane # "debug" /\ ~GatesMissing(s)
           /\ \/ t = Stopped(next, "checks-failed-after-retries", "stop")
              \/ t = Moved(next, "reviewing", "review")
              \/ t = [Moved(next, "reviewing", "review") EXCEPT !.reviewerRequired = TRUE]
              \/ t = RoutedToReview(next)
              \/ t = Moved(next, "finalizing", "finalize")
  BY DEF CoderCompleted
<1> DEFINE next == WithEvidence(s, files, refs, outcomes)
<1>2. CASE t = DebugStop(s)
  BY <1>2, DebugStopConsistent
<1>3. CASE t = GatesStop(s)
  BY <1>3, GatesStopConsistent
<1>4. ASSUME s.lane # "debug", ~GatesMissing(s),
             \/ t = Stopped(next, "checks-failed-after-retries", "stop")
             \/ t = Moved(next, "reviewing", "review")
             \/ t = [Moved(next, "reviewing", "review") EXCEPT !.reviewerRequired = TRUE]
             \/ t = RoutedToReview(next)
             \/ t = Moved(next, "finalizing", "finalize")
      PROVE  Consistent(t)
  <2>1. s \in ShipStates
    BY DEF Consistent
  <2>2. /\ next \in ShipStates
        /\ SameContract(s, next)
        /\ next.reviewerRequired = s.reviewerRequired
    BY <2>1, WithEvidenceFields
  <2> HIDE DEF next
  <2>3. /\ t \in ShipStates
        /\ SameContract(next, t)
        /\ next.reviewerRequired => t.reviewerRequired
        /\ t.stage \in {"blocked", "reviewing", "finalizing"}
    <3>1. CASE t = Stopped(next, "checks-failed-after-retries", "stop")
      BY <3>1, <2>2, StoppedFields DEF StopConditions, NextActions
    <3>2. CASE t = Moved(next, "reviewing", "review")
      BY <3>2, <2>2, MovedFields DEF Stages, NextActions
    <3>3. CASE t = [Moved(next, "reviewing", "review") EXCEPT !.reviewerRequired = TRUE]
      <4> DEFINE moved == Moved(next, "reviewing", "review")
      <4>1. /\ moved \in ShipStates
            /\ SameContract(next, moved)
            /\ moved.stage = "reviewing"
        BY <2>2, MovedFields DEF Stages, NextActions
      <4> HIDE DEF moved
      <4>2. t = [moved EXCEPT !.reviewerRequired = TRUE]
        BY <3>3 DEF moved
      <4> QED BY <4>1, <4>2 DEF ShipStates, SameContract
    <3>4. CASE t = RoutedToReview(next)
      BY <3>4, <2>2, RoutedToReviewFields
    <3>5. CASE t = Moved(next, "finalizing", "finalize")
      BY <3>5, <2>2, MovedFields DEF Stages, NextActions
    <3> QED BY <1>4, <3>1, <3>2, <3>3, <3>4, <3>5
  <2> QED BY <1>4, <2>2, <2>3, QuietStep DEF SameContract
<1> QED BY <1>1, <1>2, <1>3, <1>4

LEMMA ReviewerChangesRequestedConsistent ==
    ASSUME NEW s, NEW t, Consistent(s), ReviewerChangesRequested(s, t)
    PROVE  Consistent(t)
<1> DEFINE next == [s EXCEPT !.reviewerOutcome = "changes-requested"]
           flagged == [next EXCEPT !.promotionReasonCodes = {"reviewer-broader-risk"}]
<1>1. s \in ShipStates
  BY DEF Consistent
<1>2. /\ next \in ShipStates
      /\ SameContract(s, next) /\ SameRecord(s, next)
      /\ next.reviewerRequired = s.reviewerRequired
  BY <1>1 DEF ShipStates, SameContract, SameRecord
<1> HIDE DEF next
<1>6. /\ flagged \in ShipStates
      /\ SameContract(s, flagged) /\ SameRecord(s, flagged)
      /\ flagged.reviewerRequired = s.reviewerRequired
  BY <1>2 DEF ShipStates, SameContract, SameRecord
<1>3. \/ t = Stopped(flagged, "scope-expansion-detected", "stop")
      \/ t = Stopped(next, "retry-budget-exhausted", "stop")
      \/ s.attempts < s.retryBudget /\ t = Moved(next, "fixing", "fix")
  BY DEF ReviewerChangesRequested, BudgetLeft, next
<1> HIDE DEF flagged
<1>4. CASE \/ t = Stopped(flagged, "scope-expansion-detected", "stop")
           \/ t = Stopped(next, "retry-budget-exhausted", "stop")
  <2>1. PICK u \in {next, flagged}, condition \in StopConditions :
          t = Stopped(u, condition, "stop")
    BY <1>4 DEF StopConditions
  <2>2. /\ t \in ShipStates
        /\ SameContract(u, t) /\ SameRecord(u, t)
        /\ t.reviewerRequired = u.reviewerRequired
        /\ t.stage = "blocked"
    BY <1>2, <1>6, <2>1, StoppedFields DEF NextActions
  <2> QED BY <1>2, <1>6, <2>2, QuietStep DEF SameContract, SameRecord
<1>5. CASE s.attempts < s.retryBudget /\ t = Moved(next, "fixing", "fix")
  <2>1. /\ t \in ShipStates
        /\ SameContract(next, t) /\ SameRecord(next, t)
        /\ t.reviewerRequired = next.reviewerRequired
        /\ t.stage = "fixing"
    BY <1>2, <1>5, MovedFields DEF Stages, NextActions
  <2> QED
    BY <1>2, <1>5, <2>1 DEF Consistent, SameContract, SameRecord, ReviewFits, InertFits,
         GatesMissing, BudgetFits, DeliveryFits, DefaultReviewerRequired
<1> QED BY <1>3, <1>4, <1>5

LEMMA ReviewerApprovedConsistent ==
    ASSUME NEW s, NEW t, Consistent(s), ReviewerApproved(s, t)
    PROVE  Consistent(t)
<1> DEFINE next == [s EXCEPT !.reviewerOutcome = "approved"]
<1>1. s \in ShipStates
  BY DEF Consistent
<1>2. /\ next \in ShipStates
      /\ SameContract(s, next) /\ SameRecord(s, next)
      /\ next.reviewerRequired = s.reviewerRequired
  BY <1>1 DEF ShipStates, SameContract, SameRecord
<1>3. \/ t = Stopped(next, "reviewer-required-implementation-evidence-missing", "stop")
      \/ t = Moved(next, "finalizing", "finalize")
  BY DEF ReviewerApproved
<1> HIDE DEF next
<1>4. /\ t \in ShipStates
      /\ SameContract(next, t) /\ SameRecord(next, t)
      /\ t.reviewerRequired = next.reviewerRequired
      /\ t.stage \in {"blocked", "finalizing"}
  BY <1>2, <1>3, StoppedFields, MovedFields DEF Stages, StopConditions, NextActions
<1> QED BY <1>2, <1>4, QuietStep DEF SameContract, SameRecord

LEMMA EvidenceCollectedConsistent ==
    ASSUME NEW s, NEW t, Consistent(s), EvidenceCollected(s, t)
    PROVE  Consistent(t)
<1>1. PICK refs \in SUBSET Paths, outcomes \in SUBSET Outcomes :
        LET next == WithEvidence(s, {}, refs, outcomes) IN
        \/ t = Stopped(s, "text-evidence-readiness-missing", "stop")
        \/ ~TextEvidenceReady(next) /\ t = RoutedToReview(next)
        \/ t = Moved(next, "finalizing", "finalize")
  BY DEF EvidenceCollected
<1> DEFINE next == WithEvidence(s, {}, refs, outcomes)
<1>2. s \in ShipStates
  BY DEF Consistent
<1>3. /\ next \in ShipStates
      /\ SameContract(s, next)
      /\ next.attempts = s.attempts /\ next.changedFiles = s.changedFiles
      /\ next.reviewerRequired = s.reviewerRequired
  <2>1. /\ s.changedFiles \cup {} = s.changedFiles
        /\ s.evidenceRefs \cup refs \in SUBSET Paths
        /\ s.checks \cup outcomes \in SUBSET Outcomes
    BY <1>2 DEF ShipStates
  <2> QED BY <1>2, <2>1 DEF WithEvidence, ShipStates, SameContract
<1> HIDE DEF next
<1>4. CASE t = Stopped(s, "text-evidence-readiness-missing", "stop")
  BY <1>4, StoppedConsistent DEF StopConditions, NextActions
<1>5. CASE ~TextEvidenceReady(next) /\ t = RoutedToReview(next)
  <2>1. s.lane # "debug"
    BY <1>3, <1>5 DEF TextEvidenceReady, IsTextHotfix, SameContract
  <2>2. /\ t \in ShipStates
        /\ SameContract(next, t) /\ SameRecord(next, t)
        /\ t.reviewerRequired
        /\ t.stage = "reviewing"
    BY <1>3, <1>5, RoutedToReviewFields
  <2> QED BY <1>3, <2>1, <2>2, QuietStep DEF SameContract, SameRecord
<1>6. CASE t = Moved(next, "finalizing", "finalize")
  <2>1. /\ t \in ShipStates
        /\ SameContract(next, t) /\ SameRecord(next, t)
        /\ t.reviewerRequired = next.reviewerRequired
        /\ t.stage = "finalizing"
    BY <1>3, <1>6, MovedFields DEF Stages, NextActions
  <2> QED BY <1>3, <2>1, QuietStep DEF SameContract, SameRecord
<1> QED BY <1>1, <1>4, <1>5, <1>6 DEF next

LEMMA FocusedFixCompletedConsistent ==
    ASSUME NEW s, NEW t, Consistent(s), FocusedFixCompleted(s, t)
    PROVE  Consistent(t)
<1>1. PICK files \in SUBSET Paths, refs \in SUBSET Paths, outcomes \in SUBSET Outcomes :
        LET next == WithEvidence(s, files, refs, outcomes)
            consumed == [next EXCEPT !.attempts = @ + 1]
        IN
        \/ t = DebugStop(s)
        \/ t = GatesStop(s)
        \/ /\ s.lane # "debug" /\ ~GatesMissing(s)
           /\ \/ t = Stopped(next, "checks-failed-after-retries", "stop")
              \/ t = Stopped(consumed, "retry-budget-exhausted", "stop")
              \/ t = Moved(consumed, "reviewing", "review")
              \/ t = Moved(consumed, "finalizing", "finalize")
  BY DEF FocusedFixCompleted
<1> DEFINE next == WithEvidence(s, files, refs, outcomes)
           consumed == [next EXCEPT !.attempts = @ + 1]
<1>2. CASE t = DebugStop(s)
  BY <1>2, DebugStopConsistent
<1>3. CASE t = GatesStop(s)
  BY <1>3, GatesStopConsistent
<1>4. ASSUME s.lane # "debug", ~GatesMissing(s),
             \/ t = Stopped(next, "checks-failed-after-retries", "stop")
             \/ t = Stopped(consumed, "retry-budget-exhausted", "stop")
             \/ t = Moved(consumed, "reviewing", "review")
             \/ t = Moved(consumed, "finalizing", "finalize")
      PROVE  Consistent(t)
  <2>1. s \in ShipStates
    BY DEF Consistent
  <2>2. /\ next \in ShipStates
        /\ SameContract(s, next)
        /\ next.reviewerRequired = s.reviewerRequired
    BY <2>1, WithEvidenceFields
  <2> HIDE DEF next
  <2>3. /\ consumed \in ShipStates
        /\ SameContract(s, consumed)
        /\ consumed.reviewerRequired = s.reviewerRequired
    BY <2>2 DEF ShipStates, SameContract
  <2> HIDE DEF consumed
  <2>4. PICK u \in {next, consumed} :
          \/ \E condition \in StopConditions : t = Stopped(u, condition, "stop")
          \/ \E stage \in {"reviewing", "finalizing"}, action \in NextActions :
                t = Moved(u, stage, action)
    BY <1>4 DEF StopConditions, NextActions
  <2>5. /\ t \in ShipStates
        /\ SameContract(u, t)
        /\ t.reviewerRequired = u.reviewerRequired
        /\ t.stage \in {"blocked", "reviewing", "finalizing"}
    <3>1. u \in ShipStates /\ "stop" \in NextActions
      BY <2>2, <2>3, <2>4 DEF NextActions
    <3>2. CASE \E condition \in StopConditions : t = Stopped(u, condition, "stop")
      <4>1. PICK condition \in StopConditions : t = Stopped(u, condition, "stop")
        BY <3>2
      <4> QED BY <3>1, <4>1, StoppedFields
    <3>3. CASE \E stage \in {"reviewing", "finalizing"}, action \in NextActions :
                 t = Moved(u, stage, action)
      <4>1. PICK stage \in {"reviewing", "finalizing"}, action \in NextActions :
              t = Moved(u, stage, action)
        BY <3>3
      <4>2. stage \in Stages
        BY DEF Stages
      <4> QED BY <3>1, <4>1, <4>2, MovedFields
    <3> QED BY <2>4, <3>2, <3>3
  <2> QED BY <1>4, <2>2, <2>3, <2>5, QuietStep DEF SameContract
<1> QED BY <1>1, <1>2, <1>3, <1>4

LEMMA FinalizationRecordedConsistent ==
    ASSUME NEW s, NEW t, Consistent(s), FinalizationRecorded(s, t)
    PROVE  Consistent(t)
<1>1. s \in ShipStates
  BY DEF Consistent
<1>2. CASE t = Stopped([s EXCEPT !.finalizationStatus = "blocked"],
                       "finalization-blocked", "stop")
  <2> DEFINE next == [s EXCEPT !.finalizationStatus = "blocked"]
  <2>1. /\ next \in ShipStates
        /\ SameContract(s, next) /\ SameRecord(s, next)
        /\ next.reviewerRequired = s.reviewerRequired
    BY <1>1 DEF ShipStates, SameContract, SameRecord
  <2> HIDE DEF next
  <2>2. t = Stopped(next, "finalization-blocked", "stop")
    BY <1>2 DEF next
  <2>3. /\ t \in ShipStates
        /\ SameContract(next, t) /\ SameRecord(next, t)
        /\ t.reviewerRequired = next.reviewerRequired
        /\ t.stage = "blocked"
    BY <2>1, <2>2, StoppedFields DEF StopConditions, NextActions
  <2> QED BY <2>1, <2>3, QuietStep DEF SameContract, SameRecord
<1>3. ASSUME ~RefusesDelivery(s),
             t = [Moved(s, "delivery_complete", "deliver")
                     EXCEPT !.finalizationStatus = "complete"]
      PROVE  Consistent(t)
  <2> DEFINE moved == Moved(s, "delivery_complete", "deliver")
  <2>1. /\ moved \in ShipStates
        /\ SameContract(s, moved) /\ SameRecord(s, moved)
        /\ moved.reviewerRequired = s.reviewerRequired
        /\ moved.reviewerOutcome = s.reviewerOutcome
        /\ moved.diagnosed = s.diagnosed
        /\ moved.stage = "delivery_complete"
    BY <1>1 DEF Moved, ShipStates, Stages, NextActions, SameContract, SameRecord
  <2> HIDE DEF moved
  <2>2. t = [moved EXCEPT !.finalizationStatus = "complete"]
    BY <1>3 DEF moved
  <2>3. /\ t \in ShipStates
        /\ SameContract(s, t) /\ SameRecord(s, t)
        /\ t.reviewerRequired = s.reviewerRequired
        /\ t.reviewerOutcome = s.reviewerOutcome
        /\ t.diagnosed = s.diagnosed
        /\ t.stage = "delivery_complete"
    BY <2>1, <2>2 DEF ShipStates, SameContract, SameRecord
  <2>4. ~RefusesDelivery(t)
    BY <1>3, <2>3 DEF RefusesDelivery, GatesMissing, TextEvidenceReady, IsTextHotfix,
         HasImplementationEvidence, SameContract, SameRecord
  <2> QED
    BY <2>3, <2>4 DEF Consistent, SameContract, SameRecord, ReviewFits, InertFits,
         GatesMissing, BudgetFits, DeliveryFits, DefaultReviewerRequired
<1> QED BY <1>2, <1>3 DEF FinalizationRecorded

LEMMA RemoteActionRequestedConsistent ==
    ASSUME NEW s, NEW t, Consistent(s), RemoteActionRequested(s, t)
    PROVE  Consistent(t)
  BY StoppedConsistent DEF RemoteActionRequested, StopConditions, NextActions

LEMMA MarkBlockedConsistent ==
    ASSUME NEW s, NEW t, Consistent(s), MarkBlocked(s, t)
    PROVE  Consistent(t)
  BY StoppedConsistent DEF MarkBlocked, StopConditions, NextActions

\* Every handler of the engine keeps a state consistent.
LEMMA TransitionConsistent ==
    ASSUME NEW s, NEW t, Consistent(s), Transition(s, t)
    PROVE  Consistent(t)
  BY DiagnoseConsistent, SelectNextLaneConsistent, SelectReportOnlyConsistent,
     ImplementStartedConsistent, CoderCompletedConsistent,
     ReviewerChangesRequestedConsistent, ReviewerApprovedConsistent,
     EvidenceCollectedConsistent, FocusedFixCompletedConsistent,
     FinalizationRecordedConsistent, RemoteActionRequestedConsistent,
     MarkBlockedConsistent DEF Transition

-------------------------------------------------------------------------------
(* What no event takes back. *)

\* The record only grows, a review once owed stays owed, and a lane that is not
\* debug is never left.
Keeps(s, t) ==
    /\ s.changedFiles \subseteq t.changedFiles
    /\ s.evidenceRefs \subseteq t.evidenceRefs
    /\ s.checks \subseteq t.checks
    /\ s.reviewerRequired => t.reviewerRequired
    /\ s.lane # "debug" => SameContract(s, t)

LEMMA UpdateKeeps ==
    ASSUME NEW s, NEW t, SameContract(s, t), SameRecord(s, t),
           s.reviewerRequired => t.reviewerRequired
    PROVE  Keeps(s, t)
  BY DEF SameRecord, Keeps

LEMMA KeepsTransitive ==
    ASSUME NEW s, NEW u, NEW t, Keeps(s, u), Keeps(u, t), u.lane = s.lane
    PROVE  Keeps(s, t)
  BY DEF Keeps, SameContract

LEMMA StoppedKeeps ==
    ASSUME NEW s \in ShipStates,
           NEW condition \in StopConditions, NEW action \in NextActions
    PROVE  Keeps(s, Stopped(s, condition, action))
  BY StoppedFields, UpdateKeeps

LEMMA StopsKeep ==
    ASSUME NEW s \in ShipStates
    PROVE  Keeps(s, DebugStop(s)) /\ Keeps(s, GatesStop(s))
  BY StoppedKeeps DEF DebugStop, GatesStop, StopConditions, NextActions

LEMMA MovedKeeps ==
    ASSUME NEW s \in ShipStates, NEW stage \in Stages, NEW action \in NextActions
    PROVE  Keeps(s, Moved(s, stage, action))
  BY MovedFields, UpdateKeeps

LEMMA RoutedToReviewKeeps ==
    ASSUME NEW s \in ShipStates
    PROVE  Keeps(s, RoutedToReview(s))
  BY RoutedToReviewFields, UpdateKeeps

LEMMA WithEvidenceKeeps ==
    ASSUME NEW s \in ShipStates, NEW files, NEW refs, NEW outcomes,
           files \subseteq Paths, refs \subseteq Paths, outcomes \subseteq Outcomes,
           NEW t, t = WithEvidence(s, files, refs, outcomes)
    PROVE  t \in ShipStates /\ t.lane = s.lane /\ Keeps(s, t)
<1>1. /\ t \in ShipStates
      /\ SameContract(s, t)
      /\ t.changedFiles = s.changedFiles \cup files
      /\ t.evidenceRefs = s.evidenceRefs \cup refs
      /\ t.checks = s.checks \cup outcomes
      /\ t.reviewerRequired = s.reviewerRequired
  BY WithEvidenceFields
<1> QED BY <1>1 DEF Keeps, SameContract

\* Setting fields that Keeps does not look at.
LEMMA OtherFieldsKeep ==
    ASSUME NEW s \in ShipStates, NEW outcome \in {"approved", "changes-requested"}
    PROVE  LET judged == [s EXCEPT !.reviewerOutcome = outcome]
               flagged == [judged EXCEPT !.promotionReasonCodes = {"reviewer-broader-risk"}]
               refused == [s EXCEPT !.finalizationStatus = "blocked"]
               counted == [s EXCEPT !.attempts = @ + 1]
           IN  \A u \in {judged, flagged, refused, counted} :
                  u \in ShipStates /\ u.lane = s.lane /\ Keeps(s, u)
<1>1. LET u == [s EXCEPT !.reviewerOutcome = outcome] IN
      u \in ShipStates /\ u.lane = s.lane /\ Keeps(s, u)
  BY DEF ShipStates, Keeps, SameContract
<1>2. LET u == [[s EXCEPT !.reviewerOutcome = outcome]
                   EXCEPT !.promotionReasonCodes = {"reviewer-broader-risk"}] IN
      u \in ShipStates /\ u.lane = s.lane /\ Keeps(s, u)
  BY DEF ShipStates, Keeps, SameContract
<1>3. LET u == [s EXCEPT !.finalizationStatus = "blocked"] IN
      u \in ShipStates /\ u.lane = s.lane /\ Keeps(s, u)
  BY DEF ShipStates, Keeps, SameContract
<1>4. LET u == [s EXCEPT !.attempts = @ + 1] IN
      u \in ShipStates /\ u.lane = s.lane /\ Keeps(s, u)
  BY DEF ShipStates, Keeps, SameContract
<1> QED BY <1>1, <1>2, <1>3, <1>4

LEMMA TransitionKeeps ==
    ASSUME NEW s, NEW t, Consistent(s), Transition(s, t)
    PROVE  Keeps(s, t)
<1> s \in ShipStates
  BY DEF Consistent
<1>1. Keeps(s, DebugStop(s)) /\ Keeps(s, GatesStop(s))
  BY StopsKeep
<1>2. CASE Diagnose(s, t)
  <2>1. CASE t = DebugStop(s)
    BY <1>1, <2>1
  <2>2. CASE t # DebugStop(s)
    <3> DEFINE action == IF s.selectedNextLane = Unset THEN "stop"
                         ELSE IF AllowsImplementation(s.selectedNextLane)
                              THEN "implement" ELSE "report-only"
    <3>1. PICK affected \in SUBSET Paths :
            t = [s EXCEPT !.diagnosed = TRUE,
                          !.stage = "diagnosing",
                          !.evidenceRefs = @ \cup affected,
                          !.nextAction = action]
      BY <1>2, <2>2 DEF Diagnose
    <3> HIDE DEF action
    <3>2. /\ SameContract(s, t)
          /\ t.evidenceRefs = s.evidenceRefs \cup affected
          /\ t.changedFiles = s.changedFiles /\ t.checks = s.checks
          /\ t.reviewerRequired = s.reviewerRequired
      BY <3>1 DEF ShipStates, SameContract
    <3> QED BY <3>2 DEF Keeps
  <2> QED BY <2>1, <2>2
<1>3. CASE SelectNextLane(s, t)
  <2>1. CASE t = DebugStop(s)
    BY <1>1, <2>1
  <2>2. CASE t # DebugStop(s)
    <3>1. PICK lane \in {"full-sprint", "hotfix"} :
            \E kind \in KindsOf(lane) : HasDiagnosis(s) /\ t = Promoted(s, lane, kind)
      BY <1>3, <2>2 DEF SelectNextLane, AutomationLanes
    <3>2. PICK kind \in KindsOf(lane) : HasDiagnosis(s) /\ t = Promoted(s, lane, kind)
      BY <3>1
    <3>3. s.lane = "debug" /\ ~s.reviewerRequired
      BY <3>2 DEF Consistent, ReviewFits, HasDiagnosis
    <3>4. SameRecord(s, t)
      BY <3>2, PromotedFields
    <3> QED BY <3>3, <3>4 DEF Keeps, SameRecord
  <2> QED BY <2>1, <2>2
<1>4. CASE SelectReportOnly(s, t)
  <2>1. CASE ~HasDiagnosis(s)
    BY <1>1, <1>4, <2>1 DEF SelectReportOnly
  <2>2. CASE HasDiagnosis(s)
    <3> DEFINE chosen == [s EXCEPT !.selectedNextLane = "no-code/report-only",
                                   !.hotfixKind = Unset,
                                   !.reviewerRequired = FALSE]
    <3>1. s.lane = "debug" /\ ~s.reviewerRequired
      BY <2>2 DEF Consistent, HasDiagnosis, ReviewFits
    <3>2. /\ chosen \in ShipStates
          /\ chosen.lane = s.lane
          /\ SameRecord(s, chosen)
      BY DEF ShipStates, DebugNextLanes, SameRecord
    <3>3. Keeps(s, chosen)
      BY <3>1, <3>2 DEF Keeps, SameRecord
    <3>4. t = Stopped(chosen, "report-only-stop", "report-only")
      BY <1>4, <2>2 DEF SelectReportOnly
    <3> HIDE DEF chosen
    <3>5. Keeps(chosen, t)
      BY <3>2, <3>4, StoppedKeeps DEF StopConditions, NextActions
    <3> QED BY <3>2, <3>3, <3>5, KeepsTransitive
  <2> QED BY <2>1, <2>2
<1>5. CASE ImplementStarted(s, t)
  <2> DEFINE started == [s EXCEPT !.attempts = @ + 1]
  <2>1. started \in ShipStates /\ started.lane = s.lane /\ Keeps(s, started)
    BY OtherFieldsKeep
  <2>2. \/ t \in {DebugStop(s), GatesStop(s)}
        \/ t = Stopped(s, "report-only-stop", "report-only")
        \/ t = Stopped(started, "retry-budget-exhausted", "stop")
        \/ t = Moved(started, "implementing", "implement")
    BY <1>5 DEF ImplementStarted
  <2> HIDE DEF started
  <2>3. \/ t \in {DebugStop(s), GatesStop(s)}
        \/ Keeps(s, t)
        \/ Keeps(started, t)
    BY <2>1, <2>2, StoppedKeeps, MovedKeeps DEF StopConditions, NextActions, Stages
  <2> QED BY <1>1, <2>1, <2>3, KeepsTransitive
<1>6. CASE CoderCompleted(s, t)
  <2>1. CASE t \in {DebugStop(s), GatesStop(s)}
    BY <1>1, <2>1
  <2>2. CASE t \notin {DebugStop(s), GatesStop(s)}
    <3>1. PICK files \in SUBSET Paths, refs \in SUBSET Paths, outcomes \in SUBSET Outcomes :
            LET next == WithEvidence(s, files, refs, outcomes) IN
            \/ t = Stopped(next, "checks-failed-after-retries", "stop")
            \/ t = Moved(next, "reviewing", "review")
            \/ t = [Moved(next, "reviewing", "review") EXCEPT !.reviewerRequired = TRUE]
            \/ t = RoutedToReview(next)
            \/ t = Moved(next, "finalizing", "finalize")
      BY <1>6, <2>2 DEF CoderCompleted
    <3> DEFINE next == WithEvidence(s, files, refs, outcomes)
    <3>2. next \in ShipStates /\ next.lane = s.lane /\ Keeps(s, next)
      BY WithEvidenceKeeps
    <3> HIDE DEF next
    <3>3. CASE t = [Moved(next, "reviewing", "review") EXCEPT !.reviewerRequired = TRUE]
      <4> DEFINE moved == Moved(next, "reviewing", "review")
      <4>1. moved \in ShipStates /\ SameContract(next, moved) /\ SameRecord(next, moved)
        BY <3>2, MovedFields DEF Stages, NextActions
      <4> HIDE DEF moved
      <4>2. t = [moved EXCEPT !.reviewerRequired = TRUE]
        BY <3>3 DEF moved
      <4>3. SameContract(next, t) /\ SameRecord(next, t) /\ t.reviewerRequired
        BY <4>1, <4>2 DEF ShipStates, SameContract, SameRecord
      <4> QED BY <3>2, <4>3, UpdateKeeps, KeepsTransitive
    <3>4. CASE \/ t = Stopped(next, "checks-failed-after-retries", "stop")
               \/ t = Moved(next, "reviewing", "review")
               \/ t = RoutedToReview(next)
               \/ t = Moved(next, "finalizing", "finalize")
      <4>1. Keeps(next, t)
        BY <3>2, <3>4, StoppedKeeps, MovedKeeps, RoutedToReviewKeeps
           DEF StopConditions, NextActions, Stages
      <4> QED BY <3>2, <4>1, KeepsTransitive
    <3> QED BY <3>1, <3>3, <3>4 DEF next
  <2> QED BY <2>1, <2>2
<1>7. CASE ReviewerChangesRequested(s, t)
  <2> DEFINE next == [s EXCEPT !.reviewerOutcome = "changes-requested"]
             flagged == [next EXCEPT !.promotionReasonCodes = {"reviewer-broader-risk"}]
  <2>1. \A u \in {next, flagged} : u \in ShipStates /\ u.lane = s.lane /\ Keeps(s, u)
    BY OtherFieldsKeep
  <2>2. \/ t = Stopped(flagged, "scope-expansion-detected", "stop")
        \/ t = Stopped(next, "retry-budget-exhausted", "stop")
        \/ t = Moved(next, "fixing", "fix")
    BY <1>7 DEF ReviewerChangesRequested
  <2> HIDE DEF next, flagged
  <2>3. Keeps(next, t) \/ Keeps(flagged, t)
    BY <2>1, <2>2, StoppedKeeps, MovedKeeps DEF StopConditions, NextActions, Stages
  <2> QED BY <2>1, <2>3, KeepsTransitive
<1>8. CASE ReviewerApproved(s, t)
  <2> DEFINE next == [s EXCEPT !.reviewerOutcome = "approved"]
  <2>1. next \in ShipStates /\ next.lane = s.lane /\ Keeps(s, next)
    BY OtherFieldsKeep
  <2>2. \/ t = Stopped(next, "reviewer-required-implementation-evidence-missing", "stop")
        \/ t = Moved(next, "finalizing", "finalize")
    BY <1>8 DEF ReviewerApproved
  <2> HIDE DEF next
  <2>3. Keeps(next, t)
    BY <2>1, <2>2, StoppedKeeps, MovedKeeps DEF StopConditions, NextActions, Stages
  <2> QED BY <2>1, <2>3, KeepsTransitive
<1>9. CASE EvidenceCollected(s, t)
  <2>1. PICK refs \in SUBSET Paths, outcomes \in SUBSET Outcomes :
          LET next == WithEvidence(s, {}, refs, outcomes) IN
          \/ t = Stopped(s, "text-evidence-readiness-missing", "stop")
          \/ t = RoutedToReview(next)
          \/ t = Moved(next, "finalizing", "finalize")
    BY <1>9 DEF EvidenceCollected
  <2> DEFINE next == WithEvidence(s, {}, refs, outcomes)
  <2>2. next \in ShipStates /\ next.lane = s.lane /\ Keeps(s, next)
    <3>1. /\ s.evidenceRefs \cup refs \in SUBSET Paths
          /\ s.checks \cup outcomes \in SUBSET Outcomes
      BY DEF ShipStates
    <3> QED BY <3>1 DEF WithEvidence, ShipStates, Keeps, SameContract
  <2> HIDE DEF next
  <2>3. CASE t = Stopped(s, "text-evidence-readiness-missing", "stop")
    BY <2>3, StoppedKeeps DEF StopConditions, NextActions
  <2>4. CASE t = RoutedToReview(next) \/ t = Moved(next, "finalizing", "finalize")
    <3>1. Keeps(next, t)
      BY <2>2, <2>4, RoutedToReviewKeeps, MovedKeeps DEF NextActions, Stages
    <3> QED BY <2>2, <3>1, KeepsTransitive
  <2> QED BY <2>1, <2>3, <2>4 DEF next
<1>10. CASE FocusedFixCompleted(s, t)
  <2>1. CASE t \in {DebugStop(s), GatesStop(s)}
    BY <1>1, <2>1
  <2>2. CASE t \notin {DebugStop(s), GatesStop(s)}
    <3>1. PICK files \in SUBSET Paths, refs \in SUBSET Paths, outcomes \in SUBSET Outcomes :
            LET next == WithEvidence(s, files, refs, outcomes)
                consumed == [next EXCEPT !.attempts = @ + 1]
            IN
            \/ t = Stopped(next, "checks-failed-after-retries", "stop")
            \/ t = Stopped(consumed, "retry-budget-exhausted", "stop")
            \/ t = Moved(consumed, "reviewing", "review")
            \/ t = Moved(consumed, "finalizing", "finalize")
      BY <1>10, <2>2 DEF FocusedFixCompleted
    <3> DEFINE next == WithEvidence(s, files, refs, outcomes)
               consumed == [next EXCEPT !.attempts = @ + 1]
    <3>2. next \in ShipStates /\ next.lane = s.lane /\ Keeps(s, next)
      BY WithEvidenceKeeps
    <3> HIDE DEF next
    <3>3. consumed \in ShipStates /\ consumed.lane = next.lane /\ Keeps(next, consumed)
      BY <3>2, OtherFieldsKeep
    <3> HIDE DEF consumed
    <3>4. Keeps(s, consumed)
      BY <3>2, <3>3, KeepsTransitive
    <3>5. \/ t = Stopped(next, "checks-failed-after-retries", "stop")
          \/ t = Stopped(consumed, "retry-budget-exhausted", "stop")
          \/ t = Moved(consumed, "reviewing", "review")
          \/ t = Moved(consumed, "finalizing", "finalize")
      BY <3>1 DEF consumed, next
    <3>6. Keeps(next, t) \/ Keeps(consumed, t)
      BY <3>2, <3>3, <3>5, StoppedKeeps, MovedKeeps DEF StopConditions, NextActions, Stages
    <3> QED BY <3>2, <3>3, <3>4, <3>6, KeepsTransitive
  <2> QED BY <2>1, <2>2
<1>11. CASE FinalizationRecorded(s, t)
  <2> DEFINE refused == [s EXCEPT !.finalizationStatus = "blocked"]
  <2>1. refused \in ShipStates /\ refused.lane = s.lane /\ Keeps(s, refused)
    BY OtherFieldsKeep
  <2>2. \/ t = Stopped(refused, "finalization-blocked", "stop")
        \/ t = [Moved(s, "delivery_complete", "deliver")
                   EXCEPT !.finalizationStatus = "complete"]
    BY <1>11 DEF FinalizationRecorded
  <2>3. CASE t = Stopped(refused, "finalization-blocked", "stop")
    <3> HIDE DEF refused
    <3>1. Keeps(refused, t)
      BY <2>1, <2>3, StoppedKeeps DEF StopConditions, NextActions
    <3> QED BY <2>1, <3>1, KeepsTransitive
  <2>4. CASE t = [Moved(s, "delivery_complete", "deliver")
                    EXCEPT !.finalizationStatus = "complete"]
    <3>1. SameContract(s, t) /\ SameRecord(s, t) /\ t.reviewerRequired = s.reviewerRequired
      BY <2>4 DEF Moved, ShipStates, SameContract, SameRecord
    <3> QED BY <3>1, UpdateKeeps
  <2> QED BY <2>2, <2>3, <2>4
<1>12. CASE RemoteActionRequested(s, t) \/ MarkBlocked(s, t)
  <2>1. \/ t = s
        \/ t = Stopped(s, "unauthorized-remote-action", "stop")
        \/ t = Stopped(s, "scope-expansion-detected", "stop")
    BY <1>12 DEF RemoteActionRequested, MarkBlocked
  <2>2. Keeps(s, s)
    BY DEF Keeps, SameContract
  <2> QED BY <2>1, <2>2, StoppedKeeps DEF StopConditions, NextActions
<1> QED
  BY <1>2, <1>3, <1>4, <1>5, <1>6, <1>7, <1>8, <1>9, <1>10, <1>11, <1>12 DEF Transition

-------------------------------------------------------------------------------
(* The theorems. *)

LEMMA InitConsistent == Init => IInv
<1> SUFFICES ASSUME Init PROVE IInv
  OBVIOUS
<1>1. PICK start \in Starts, budget \in RetryBudgets, granted \in SUBSET RemoteActions,
           diagnosed \in BOOLEAN, selected \in Selections :
        run = InitialShipState(start.lane, start.kind, budget, granted, diagnosed, selected)
  BY DEF Init
<1> DEFINE action == IF selected = Unset THEN Unset
                     ELSE IF AllowsImplementation(selected)
                          THEN "implement" ELSE "report-only"
           stage == IF start.lane = "debug" THEN "diagnosing" ELSE "created"
           confirmed == start.lane = "full-sprint"
           owed == DefaultReviewerRequired(start.lane, start.kind)
<1>2. /\ start.lane \in AutomationLanes
      /\ start.kind \in KindsOf(start.lane) /\ start.kind \in HotfixKinds \cup {Unset}
      /\ selected \in DebugNextLanes \cup {Unset}
  BY StartsAssumption
<1>3. /\ action \in NextActions \cup {Unset}
      /\ stage \in Stages /\ stage \notin {"implementing", "fixing", "delivery_complete"}
      /\ confirmed \in BOOLEAN /\ owed \in BOOLEAN
  BY DEF NextActions, Stages, DefaultReviewerRequired
<1>4. /\ run.lane = start.lane /\ run.hotfixKind = start.kind
      /\ run.stage = stage /\ run.attempts = 0 /\ run.changedFiles = {}
      /\ run.reviewerRequired = owed
  BY <1>1 DEF InitialShipState
<1>5. run \in ShipStates
  <2> HIDE DEF action, stage, confirmed, owed
  <2>1. run = [lane |-> start.lane, hotfixKind |-> start.kind, stage |-> stage,
               attempts |-> 0, retryBudget |-> budget, hasBlockers |-> FALSE,
               evidenceRefs |-> {}, changedFiles |-> {}, checks |-> {},
               reviewerOutcome |-> Unset, finalizationStatus |-> "pending",
               permissions |-> granted, reviewerRequired |-> owed,
               promotionReasonCodes |-> {}, lastStopCondition |-> Unset,
               nextAction |-> action, diagnosed |-> diagnosed,
               selectedNextLane |-> selected, fullSprintGatesConfirmed |-> confirmed]
    BY <1>1 DEF InitialShipState, action, stage, confirmed, owed
  <2> QED BY <1>2, <1>3, <2>1 DEF ShipStates
<1> HIDE DEF stage, action, confirmed
<1> QED
  BY <1>2, <1>3, <1>4, <1>5 DEF IInv, Consistent, ReviewFits, InertFits, BudgetFits,
     DeliveryFits, DefaultReviewerRequired

\* The invariant holds in every reachable state, for every value of the constants.
THEOREM Invariance == Spec => []IInv
<1>1. IInv /\ [Next]_run => IInv'
  <2> SUFFICES ASSUME IInv, [Next]_run PROVE IInv'
    OBVIOUS
  <2>1. CASE Next
    BY <2>1, TransitionConsistent DEF Next, IInv
  <2>2. CASE UNCHANGED run
    BY <2>2 DEF IInv
  <2> QED BY <2>1, <2>2
<1> QED BY InitConsistent, <1>1, PTL DEF Spec

\* The durable state keeps its type under every event in every stage.
THEOREM Typing == Spec => []TypeOK
<1>1. IInv => TypeOK
  BY DEF IInv, Consistent, TypeOK
<1> QED BY <1>1, Invariance, PTL

\* Without an approving reviewer only the debug lane (without a changed file)
\* and a text hotfix without code deliver.
THEOREM UnreviewedDelivery == Spec => []UnreviewedDeliveryIsTextOnly
<1>1. IInv => UnreviewedDeliveryIsTextOnly
  BY DEF IInv, Consistent, ReviewFits, InertFits, DeliveryFits, RefusesDelivery,
     TextEvidenceReady, IsTextHotfix, GatesMissing, DefaultReviewerRequired, ShipStates,
     AutomationLanes, UnreviewedDeliveryIsTextOnly, Delivered
<1> QED BY <1>1, Invariance, PTL

\* Every delivered implementation has its evidence on record.
THEOREM EvidencedDelivery == Spec => []DeliveryIsEvidenced
<1>1. IInv => DeliveryIsEvidenced
  BY DEF IInv, Consistent, ReviewFits, DeliveryFits, RefusesDelivery, TextEvidenceReady,
     IsTextHotfix, HasImplementationEvidence, DefaultReviewerRequired, ShipStates,
     AutomationLanes, DeliveryIsEvidenced, Delivered
<1> QED BY <1>1, Invariance, PTL

\* Neither a debug run nor an unconfirmed full-sprint run records work.
THEOREM InertLanes == Spec => [](UnconfirmedFullSprintIsInert /\ DebugNeverImplements)
<1>1. IInv => UnconfirmedFullSprintIsInert /\ DebugNeverImplements
  BY DEF IInv, Consistent, ReviewFits, InertFits, GatesMissing, DeliveryFits,
     RefusesDelivery, UnconfirmedFullSprintIsInert, DebugNeverImplements
<1> QED BY <1>1, Invariance, PTL

\* Work is only started while the budget lasts.
THEOREM BudgetedWork == Spec => []WorkWithinBudget
<1>1. IInv => WorkWithinBudget
  BY DEF IInv, Consistent, BudgetFits, WorkWithinBudget
<1> QED BY <1>1, Invariance, PTL

\* No event drops a review that is owed.
THEOREM OwedReview == Spec => ReviewStaysOwed
<1>1. IInv /\ [Next]_run => [run.reviewerRequired => run'.reviewerRequired]_run
  BY TransitionKeeps DEF Next, IInv, Keeps
<1> QED BY <1>1, Invariance, PTL DEF Spec, ReviewStaysOwed

\* From a doomed state no sequence of events leads to delivery.
THEOREM DoomedRuns == Spec => DoomedRunsNeverDeliver
<1>1. IInv /\ Doomed => ~Delivered
  BY DEF IInv, Consistent, DeliveryFits, RefusesDelivery, TextEvidenceReady, IsTextHotfix,
     HasImplementationEvidence, GatesMissing, Doomed, Delivered
<1>2. IInv /\ Doomed /\ [Next]_run => Doomed'
  <2> SUFFICES ASSUME IInv, Doomed, [Next]_run PROVE Doomed'
    OBVIOUS
  <2>1. CASE Next
    <3>1. Keeps(run, run') /\ run.lane \in AutomationLanes
      BY <2>1, TransitionKeeps DEF Next, IInv, Consistent, ShipStates
    <3>2. CASE run.reviewerRequired /\ "failed" \in run.checks
      BY <3>1, <3>2 DEF Keeps, Doomed
    <3>3. CASE /\ run.lane = "hotfix" /\ run.hotfixKind = "text-evidence-only"
               /\ (run.changedFiles \cup run.evidenceRefs) \cap CodePaths # {}
      BY <3>1, <3>3 DEF Keeps, SameContract, Doomed
    <3>4. CASE run.lane = "full-sprint" /\ ~run.fullSprintGatesConfirmed
      BY <3>1, <3>4 DEF Keeps, SameContract, Doomed
    <3> QED BY <3>2, <3>3, <3>4 DEF Doomed
  <2>2. CASE UNCHANGED run
    BY <2>2 DEF Doomed
  <2> QED BY <2>1, <2>2
<1> QED BY <1>1, <1>2, Invariance, PTL DEF Spec, DoomedRunsNeverDeliver

-------------------------------------------------------------------------------
(* The run that is driven.  The loop asks for nothing but finalization once the *)
(* reviewer has approved, so no change comes between the verdict and delivery;   *)
(* and a run that is still in the debug lane has met no reviewer.                *)

LoopFits(s, reviewed) ==
    /\ s.stage \notin {"delivery_complete", "blocked"} =>
          /\ s.reviewerOutcome = "approved" => s.nextAction = "finalize" /\ reviewed
          /\ s.lane = "debug" => /\ s.reviewerOutcome # "approved"
                                 /\ s.nextAction \notin {"review", "fix", "finalize"}
    /\ s.stage = "delivery_complete" /\ s.reviewerRequired =>
          reviewed /\ s.reviewerOutcome = "approved"

LoopInv == IInv /\ LoopFits(run, changeReviewed)

\* A step that stops the run, or leaves it unapproved and out of the debug lane.
LEMMA UnapprovedFits ==
    ASSUME NEW t, NEW reviewed,
           \/ t.stage = "blocked"
           \/ /\ t.reviewerOutcome # "approved"
              /\ t.lane # "debug" /\ t.stage # "delivery_complete"
    PROVE  LoopFits(t, reviewed)
  BY DEF LoopFits

LEMMA MovedWork ==
    ASSUME NEW s \in ShipStates, NEW next \in ShipStates, SameContract(s, next),
           next.reviewerOutcome = s.reviewerOutcome,
           NEW stage \in Stages, NEW action \in NextActions,
           NEW t, t = Moved(next, stage, action)
    PROVE  /\ t.lane = s.lane /\ t.reviewerOutcome = s.reviewerOutcome
           /\ t.stage = stage /\ t.nextAction = action
           /\ t \in ShipStates
  BY DEF Moved, ShipStates, SameContract

LEMMA StopIsBlocked ==
    ASSUME NEW s \in ShipStates, NEW condition \in StopConditions, NEW action \in NextActions
    PROVE  Stopped(s, condition, action).stage = "blocked"
  BY StoppedFields

LEMMA ImplementLeaves ==
    ASSUME NEW s \in ShipStates, NEW t, ImplementStarted(s, t)
    PROVE  \/ t.stage = "blocked"
           \/ /\ t.reviewerOutcome = s.reviewerOutcome
              /\ t.lane = s.lane /\ s.lane # "debug" /\ t.stage = "implementing"
<1> DEFINE started == [s EXCEPT !.attempts = @ + 1]
<1>1. started \in ShipStates /\ SameContract(s, started)
      /\ started.reviewerOutcome = s.reviewerOutcome
  BY DEF ShipStates, SameContract
<1>2. \/ t = Stopped(s, "report-only-stop", "report-only") \/ t = DebugStop(s) \/ t = GatesStop(s)
      \/ t = Stopped(started, "retry-budget-exhausted", "stop")
      \/ s.lane # "debug" /\ t = Moved(started, "implementing", "implement")
  BY DEF ImplementStarted
<1> HIDE DEF started
<1>3. CASE s.lane # "debug" /\ t = Moved(started, "implementing", "implement")
  BY <1>1, <1>3, MovedWork DEF Stages, NextActions
<1>4. CASE t \in {Stopped(s, "report-only-stop", "report-only"), DebugStop(s), GatesStop(s),
                  Stopped(started, "retry-budget-exhausted", "stop")}
  BY <1>1, <1>4, StopIsBlocked DEF DebugStop, GatesStop, StopConditions, NextActions
<1> QED BY <1>2, <1>3, <1>4

LEMMA CoderLeaves ==
    ASSUME NEW s \in ShipStates, NEW t, CoderCompleted(s, t)
    PROVE  \/ t.stage = "blocked"
           \/ /\ t.reviewerOutcome = s.reviewerOutcome
              /\ t.lane = s.lane /\ s.lane # "debug" /\ t.stage \in {"reviewing", "finalizing"}
<1>1. PICK files \in SUBSET Paths, refs \in SUBSET Paths, outcomes \in SUBSET Outcomes :
        LET next == WithEvidence(s, files, refs, outcomes) IN
        \/ t = DebugStop(s) \/ t = GatesStop(s)
        \/ t = Stopped(next, "checks-failed-after-retries", "stop")
        \/ /\ s.lane # "debug"
           /\ \/ t = Moved(next, "reviewing", "review")
              \/ t = [Moved(next, "reviewing", "review") EXCEPT !.reviewerRequired = TRUE]
              \/ t = RoutedToReview(next)
              \/ t = Moved(next, "finalizing", "finalize")
  BY DEF CoderCompleted
<1> DEFINE next == WithEvidence(s, files, refs, outcomes)
<1>2. next \in ShipStates /\ SameContract(s, next) /\ next.reviewerOutcome = s.reviewerOutcome
  BY WithEvidenceFields
<1> HIDE DEF next
<1>3. LET sent == Moved(next, "reviewing", "review") IN
        /\ sent \in ShipStates /\ sent.lane = s.lane /\ sent.stage = "reviewing"
        /\ sent.reviewerOutcome = s.reviewerOutcome
  BY <1>2, MovedWork DEF Stages, NextActions
<1>4. CASE t \in {DebugStop(s), GatesStop(s), Stopped(next, "checks-failed-after-retries", "stop")}
  BY <1>2, <1>4, StopIsBlocked DEF DebugStop, GatesStop, StopConditions, NextActions
<1>5. CASE /\ s.lane # "debug"
           /\ t = [Moved(next, "reviewing", "review") EXCEPT !.reviewerRequired = TRUE]
  BY <1>3, <1>5 DEF ShipStates
<1>6. CASE s.lane # "debug" /\ t = RoutedToReview(next)
  BY <1>3, <1>6 DEF RoutedToReview, ShipStates
<1>7. CASE /\ s.lane # "debug"
           /\ t \in {Moved(next, "reviewing", "review"), Moved(next, "finalizing", "finalize")}
  BY <1>2, <1>7, MovedWork DEF Stages, NextActions
<1> QED BY <1>1, <1>4, <1>5, <1>6, <1>7 DEF next

LEMMA FixLeaves ==
    ASSUME NEW s \in ShipStates, NEW t, FocusedFixCompleted(s, t)
    PROVE  \/ t.stage = "blocked"
           \/ /\ t.reviewerOutcome = s.reviewerOutcome
              /\ t.lane = s.lane /\ s.lane # "debug" /\ t.stage \in {"reviewing", "finalizing"}
<1>1. PICK files \in SUBSET Paths, refs \in SUBSET Paths, outcomes \in SUBSET Outcomes :
        LET next == WithEvidence(s, files, refs, outcomes)
            consumed == [next EXCEPT !.attempts = @ + 1]
        IN  \/ t = DebugStop(s) \/ t = GatesStop(s)
            \/ t = Stopped(next, "checks-failed-after-retries", "stop")
            \/ t = Stopped(consumed, "retry-budget-exhausted", "stop")
            \/ /\ s.lane # "debug"
               /\ \/ t = Moved(consumed, "reviewing", "review")
                  \/ t = Moved(consumed, "finalizing", "finalize")
  BY DEF FocusedFixCompleted
<1> DEFINE next == WithEvidence(s, files, refs, outcomes)
           consumed == [next EXCEPT !.attempts = @ + 1]
<1>2. next \in ShipStates /\ SameContract(s, next) /\ next.reviewerOutcome = s.reviewerOutcome
  BY WithEvidenceFields
<1>3. consumed \in ShipStates /\ SameContract(s, consumed)
      /\ consumed.reviewerOutcome = s.reviewerOutcome
  <2> HIDE DEF next
  <2> QED BY <1>2 DEF ShipStates, SameContract
<1> HIDE DEF next, consumed
<1>4. CASE t \in {DebugStop(s), GatesStop(s), Stopped(next, "checks-failed-after-retries", "stop"),
                  Stopped(consumed, "retry-budget-exhausted", "stop")}
  BY <1>2, <1>3, <1>4, StopIsBlocked DEF DebugStop, GatesStop, StopConditions, NextActions
<1>5. CASE s.lane # "debug" /\ t \in {Moved(consumed, "reviewing", "review"),
                                      Moved(consumed, "finalizing", "finalize")}
  BY <1>3, <1>5, MovedWork DEF Stages, NextActions
<1> QED BY <1>1, <1>4, <1>5 DEF next, consumed

LEMMA EvidenceLeaves ==
    ASSUME NEW s \in ShipStates, NEW t, EvidenceCollected(s, t)
    PROVE  \/ t.stage = "blocked"
           \/ /\ t.reviewerOutcome = s.reviewerOutcome
              /\ t.lane = s.lane /\ t.stage \in {"reviewing", "finalizing"}
<1>1. PICK refs \in SUBSET Paths, outcomes \in SUBSET Outcomes :
        LET next == WithEvidence(s, {}, refs, outcomes) IN
        \/ t = Stopped(s, "text-evidence-readiness-missing", "stop")
        \/ t = RoutedToReview(next)
        \/ t = Moved(next, "finalizing", "finalize")
  BY DEF EvidenceCollected
<1> DEFINE next == WithEvidence(s, {}, refs, outcomes)
<1>2. next \in ShipStates /\ SameContract(s, next) /\ next.reviewerOutcome = s.reviewerOutcome
  BY WithEvidenceFields
<1> HIDE DEF next
<1>3. CASE t = Stopped(s, "text-evidence-readiness-missing", "stop")
  BY <1>3, StopIsBlocked DEF StopConditions, NextActions
<1>4. CASE t = RoutedToReview(next)
  <2>1. LET sent == Moved(next, "reviewing", "review") IN
          /\ sent \in ShipStates /\ sent.lane = s.lane /\ sent.stage = "reviewing"
          /\ sent.reviewerOutcome = s.reviewerOutcome
    BY <1>2, MovedWork DEF Stages, NextActions
  <2> QED BY <1>4, <2>1 DEF RoutedToReview, ShipStates
<1>5. CASE t = Moved(next, "finalizing", "finalize")
  BY <1>2, <1>5, MovedWork DEF Stages, NextActions
<1> QED BY <1>1, <1>3, <1>4, <1>5 DEF next

LEMMA ReviewLeaves ==
    ASSUME NEW s \in ShipStates, NEW t, ReviewerApproved(s, t) \/ ReviewerChangesRequested(s, t)
    PROVE  \/ t.stage = "blocked"
           \/ /\ t.lane = s.lane
              /\ \/ t.stage = "finalizing" /\ t.nextAction = "finalize"
                 \/ t.stage = "fixing" /\ t.reviewerOutcome = "changes-requested"
<1> DEFINE approved == [s EXCEPT !.reviewerOutcome = "approved"]
           refused == [s EXCEPT !.reviewerOutcome = "changes-requested"]
           promoted == [refused EXCEPT !.promotionReasonCodes = {"reviewer-broader-risk"}]
<1>1. /\ approved \in ShipStates /\ SameContract(s, approved)
      /\ refused \in ShipStates /\ SameContract(s, refused)
      /\ refused.reviewerOutcome = "changes-requested"
      /\ promoted \in ShipStates
  BY DEF ShipStates, SameContract
<1>2. \/ t \in {Stopped(approved, "reviewer-required-implementation-evidence-missing", "stop"),
                Stopped(promoted, "scope-expansion-detected", "stop"),
                Stopped(refused, "retry-budget-exhausted", "stop")}
      \/ t = Moved(approved, "finalizing", "finalize")
      \/ t = Moved(refused, "fixing", "fix")
  BY DEF ReviewerApproved, ReviewerChangesRequested
<1> HIDE DEF approved, refused, promoted
<1>3. Moved(approved, "finalizing", "finalize").lane = s.lane
      /\ Moved(approved, "finalizing", "finalize").stage = "finalizing"
      /\ Moved(approved, "finalizing", "finalize").nextAction = "finalize"
  BY <1>1 DEF Moved, ShipStates, SameContract
<1>4. Moved(refused, "fixing", "fix").lane = s.lane
      /\ Moved(refused, "fixing", "fix").stage = "fixing"
      /\ Moved(refused, "fixing", "fix").reviewerOutcome = "changes-requested"
  BY <1>1 DEF Moved, ShipStates, SameContract
<1> QED BY <1>1, <1>2, <1>3, <1>4, StopIsBlocked DEF StopConditions, NextActions

\* Each step of the loop is a step of the engine and keeps LoopFits.
LEMMA LoopStep ==
    ASSUME LoopInv, NextSupervised
    PROVE  LoopInv'
<1>1. run \in ShipStates /\ LoopFits(run, changeReviewed)
  BY DEF LoopInv, IInv, Consistent
<1>2. Transition(run, run')
  BY DEF NextSupervised, Transition, DiagnoseFirst, LeaveDebugLane, Implement, Code, Review,
         BringEvidence, Fix, Finalize, ReportOnly
<1>3. IInv'
  BY <1>2, TransitionConsistent DEF LoopInv, IInv
<1>4. run.nextAction # "finalize" /\ Running => run.reviewerOutcome # "approved"
  BY <1>1 DEF LoopFits, Running
<1>5. ASSUME DiagnoseFirst PROVE LoopFits(run', changeReviewed')
  <2>1. PICK stated \in BOOLEAN, affected \in SUBSET Paths :
          \/ run' = DebugStop(run)
          \/ run' = [run EXCEPT !.diagnosed = TRUE, !.stage = "diagnosing",
                                !.evidenceRefs = @ \cup affected,
                                !.nextAction =
                                    IF run.selectedNextLane = Unset THEN "stop"
                                    ELSE IF AllowsImplementation(run.selectedNextLane)
                                         THEN "implement" ELSE "report-only"]
    BY <1>5 DEF DiagnoseFirst, Diagnose
  <2>2. CASE run' = DebugStop(run)
    BY <1>1, <2>2, StopIsBlocked, UnapprovedFits DEF DebugStop, StopConditions, NextActions
  <2>3. CASE run' # DebugStop(run)
    BY <1>1, <1>5, <2>1, <2>3 DEF DiagnoseFirst, Running, LoopFits, ShipStates
  <2> QED BY <2>2, <2>3
<1>6. ASSUME LeaveDebugLane PROVE LoopFits(run', changeReviewed')
  <2>1. run.reviewerOutcome # "approved"
    BY <1>1, <1>6 DEF LeaveDebugLane, LoopFits, Running
  <2>2. CASE SelectReportOnly(run, run')
    <3>1. [run EXCEPT !.selectedNextLane = "no-code/report-only", !.hotfixKind = Unset,
                      !.reviewerRequired = FALSE] \in ShipStates
      BY <1>1 DEF ShipStates, DebugNextLanes
    <3> QED
      BY <1>1, <2>2, <3>1, StopIsBlocked, UnapprovedFits
         DEF SelectReportOnly, DebugStop, StopConditions, NextActions
  <2>3. CASE SelectNextLane(run, run')
    <3>1. PICK lane \in AutomationLanes :
            \/ run' = DebugStop(run)
            \/ lane # "debug" /\ \E kind \in KindsOf(lane) : run' = Promoted(run, lane, kind)
      BY <2>3 DEF SelectNextLane
    <3>2. CASE run' = DebugStop(run)
      BY <1>1, <3>2, StopIsBlocked, UnapprovedFits DEF DebugStop, StopConditions, NextActions
    <3>3. ASSUME lane # "debug", NEW kind \in KindsOf(lane), run' = Promoted(run, lane, kind)
          PROVE  LoopFits(run', changeReviewed')
      <4>1. run'.lane = lane /\ run'.stage = "created"
            /\ run'.reviewerOutcome = run.reviewerOutcome
        BY <1>1, <3>3 DEF Promoted, ShipStates
      <4> QED BY <2>1, <3>3, <4>1, UnapprovedFits
    <3> QED BY <3>1, <3>2, <3>3
  <2> QED BY <1>6, <2>2, <2>3 DEF LeaveDebugLane
<1>7. ASSUME Implement PROVE LoopFits(run', changeReviewed')
  BY <1>1, <1>4, <1>7, ImplementLeaves, UnapprovedFits DEF Implement, AskedFor, Unset
<1>8. ASSUME Code PROVE LoopFits(run', changeReviewed')
  BY <1>1, <1>4, <1>8, CoderLeaves, UnapprovedFits DEF Code, AskedFor, Unset
<1>9. ASSUME Review PROVE LoopFits(run', changeReviewed')
  <2>1. run.lane # "debug" /\ changeReviewed'
    BY <1>1, <1>9 DEF Review, AskedFor, Running, LoopFits
  <2>2. \/ run'.stage = "blocked"
        \/ /\ run'.lane = run.lane
           /\ \/ run'.stage = "finalizing" /\ run'.nextAction = "finalize"
              \/ run'.stage = "fixing" /\ run'.reviewerOutcome = "changes-requested"
    BY <1>1, <1>9, ReviewLeaves DEF Review
  <2> QED BY <2>1, <2>2 DEF LoopFits
<1>10. ASSUME BringEvidence PROVE LoopFits(run', changeReviewed')
  <2>1. run.lane # "debug" /\ run.reviewerOutcome # "approved"
    BY <1>1, <1>10 DEF BringEvidence, AskedFor, Running, LoopFits
  <2> QED BY <1>1, <1>10, <2>1, EvidenceLeaves, UnapprovedFits DEF BringEvidence
<1>11. ASSUME Fix PROVE LoopFits(run', changeReviewed')
  <2>1. run.reviewerOutcome # "approved"
    BY <1>1, <1>11 DEF Fix, AskedFor, Running, LoopFits
  <2> QED BY <1>1, <1>11, <2>1, FixLeaves, UnapprovedFits DEF Fix
<1>12. ASSUME Finalize PROVE LoopFits(run', changeReviewed')
  <2>1. PICK linked \in BOOLEAN :
          \/ run' = Stopped([run EXCEPT !.finalizationStatus = "blocked"],
                            "finalization-blocked", "stop")
          \/ /\ ~RefusesDelivery(run)
             /\ run' = [Moved(run, "delivery_complete", "deliver")
                          EXCEPT !.finalizationStatus = "complete"]
    BY <1>12 DEF Finalize, FinalizationRecorded
  <2>2. CASE run' = Stopped([run EXCEPT !.finalizationStatus = "blocked"],
                            "finalization-blocked", "stop")
    <3>1. [run EXCEPT !.finalizationStatus = "blocked"] \in ShipStates
      BY <1>1 DEF ShipStates
    <3> QED BY <2>2, <3>1, StopIsBlocked, UnapprovedFits DEF StopConditions, NextActions
  <2>3. CASE /\ ~RefusesDelivery(run)
             /\ run' = [Moved(run, "delivery_complete", "deliver")
                          EXCEPT !.finalizationStatus = "complete"]
    <3>1. /\ run'.stage = "delivery_complete"
          /\ run'.reviewerRequired = run.reviewerRequired
          /\ run'.reviewerOutcome = run.reviewerOutcome
      BY <1>1, <2>3 DEF Moved, ShipStates
    <3>2. run.reviewerRequired => run.reviewerOutcome = "approved"
      BY <2>3 DEF RefusesDelivery
    <3>3. run.reviewerOutcome = "approved" => changeReviewed'
      BY <1>1, <1>12 DEF Finalize, AskedFor, Running, LoopFits
    <3> QED BY <3>1, <3>2, <3>3 DEF LoopFits
  <2> QED BY <2>1, <2>2, <2>3
<1>13. ASSUME ReportOnly PROVE LoopFits(run', changeReviewed')
  <2>1. run' = DebugStop(run)
    BY <1>13 DEF ReportOnly, SelectReportOnly, HasDiagnosis
  <2> QED BY <1>1, <2>1, StopIsBlocked, UnapprovedFits DEF DebugStop, StopConditions, NextActions
<1> QED
  BY <1>3, <1>5, <1>6, <1>7, <1>8, <1>9, <1>10, <1>11, <1>12, <1>13 DEF NextSupervised, LoopInv

LEMMA LoopStart == Init /\ changeReviewed = FALSE => LoopInv
<1> SUFFICES ASSUME Init PROVE LoopFits(run, changeReviewed)
  BY InitConsistent DEF LoopInv
<1>1. PICK start \in Starts, budget \in RetryBudgets, granted \in SUBSET RemoteActions,
           diagnosed \in BOOLEAN, selected \in Selections :
        run = InitialShipState(start.lane, start.kind, budget, granted, diagnosed, selected)
  BY DEF Init
<1>2. /\ run.reviewerOutcome = Unset /\ run.stage \in {"diagnosing", "created"}
      /\ run.nextAction \in {Unset, "implement", "report-only"}
  BY <1>1 DEF InitialShipState
<1> QED BY <1>2 DEF LoopFits, Unset

\* The loop that the supervising session drives delivers no change that owes a
\* review and has not been reviewed since it was made, for every lane, budget,
\* set of paths and answer of coder and reviewer.
THEOREM SupervisedDeliveries == SpecSupervised => []DeliveredChangesWereReviewed
<1>1. InitSupervised => LoopInv
  BY LoopStart DEF InitSupervised
<1>2. LoopInv /\ [NextSupervised]_vars => LoopInv'
  <2>1. CASE UNCHANGED vars
    BY <2>1 DEF LoopInv, IInv, vars
  <2> QED BY <2>1, LoopStep
<1>3. LoopInv => DeliveredChangesWereReviewed
  BY DEF LoopInv, LoopFits, DeliveredChangesWereReviewed, Delivered
<1> QED BY <1>1, <1>2, <1>3, PTL DEF SpecSupervised

-------------------------------------------------------------------------------
(* The three sides of the composition: the run that is sent any events, the run *)
(* that is driven, and the text hotfix that is classified.                      *)

\* What the session may have said of the fields that the agreement rests on.
RequestFits ==
    /\ request = [field \in DOMAIN LanePolicyInput |-> request[field]]
    /\ \A field \in {"lane", "hotfixKind", "changedFiles", "refs"} :
          request[field] \in LanePolicyInput[field]

SideInv ==
    /\ IInv
    /\ side = "loop" => LoopFits(run, changeReviewed)
    /\ side = "classifier" => IsTextHotfix(run)
    /\ RequestFits

LEMMA AmendFits == RequestFits /\ Amend => RequestFits'
<1> SUFFICES ASSUME RequestFits, Amend PROVE RequestFits'
  OBVIOUS
<1>1. PICK field \in AmendedFields : \E value \in LanePolicyInput[field] :
        request' = [request EXCEPT ![field] = value]
  BY DEF Amend
<1>2. PICK value \in LanePolicyInput[field] : request' = [request EXCEPT ![field] = value]
  BY <1>1
<1>3. request' = [f \in DOMAIN LanePolicyInput |-> IF f = field THEN value ELSE request[f]]
  BY <1>2 DEF RequestFits
<1>4. {"lane", "hotfixKind", "changedFiles", "refs"} \subseteq DOMAIN LanePolicyInput
  BY DEF LanePolicyInput
<1> HIDE DEF LanePolicyInput
<1> QED BY <1>2, <1>3, <1>4 DEF RequestFits

LEMMA SideStart == SideInit => SideInv
<1> SUFFICES ASSUME SideInit PROVE SideInv
  OBVIOUS
<1>1. LoopInv
  BY LoopStart DEF SideInit, InitSupervised
<1>2. side = "classifier" => IsTextHotfix(run)
  BY DEF SideInit, InitialShipState, IsTextHotfix
<1>3. RequestFits
  <2>1. request = buildLanePolicyInput
    BY DEF SideInit, LaneInit
  <2>2. request = [field \in DOMAIN LanePolicyInput |-> request[field]]
    BY <2>1 DEF buildLanePolicyInput, LanePolicyInput
  <2>3. \A field \in {"lane", "hotfixKind", "changedFiles", "refs"} :
            request[field] \in LanePolicyInput[field]
    BY <2>1 DEF buildLanePolicyInput, LanePolicyInput
  <2> QED BY <2>2, <2>3 DEF RequestFits
<1> QED BY <1>1, <1>2, <1>3 DEF SideInv, LoopInv

LEMMA SideStep == SideInv /\ [SideNext]_sideVars => SideInv'
<1> SUFFICES ASSUME SideInv, [SideNext]_sideVars PROVE SideInv'
  OBVIOUS
<1>1. CASE side = "events" /\ Next /\ UNCHANGED <<changeReviewed, request, side>>
  <2>1. Consistent(run')
    BY <1>1, TransitionConsistent DEF Next, SideInv, IInv
  <2> QED BY <1>1, <2>1 DEF SideInv, IInv, RequestFits
<1>2. CASE side = "loop" /\ NextSupervised /\ UNCHANGED <<request, side>>
  <2>1. LoopInv
    BY <1>2 DEF SideInv, LoopInv
  <2>2. LoopInv'
    BY <1>2, <2>1, LoopStep
  <2> QED BY <1>2, <2>2 DEF SideInv, LoopInv, RequestFits
<1>3. CASE side = "classifier" /\ Amend /\ UNCHANGED <<vars, side>>
  <2>1. RequestFits'
    BY <1>3, AmendFits DEF SideInv
  <2> QED BY <1>3, <2>1 DEF SideInv, IInv, vars
<1>4. CASE UNCHANGED sideVars
  BY <1>4 DEF sideVars, vars, SideInv, IInv, RequestFits
<1> QED BY <1>1, <1>2, <1>3, <1>4 DEF SideNext, OnEvents, OnLoop, OnClassifier

LEMMA SideInvariance == SideSpec => []SideInv
  BY SideStart, SideStep, PTL DEF SideSpec

\* The approval of what the loop delivers is given after the last change: what the composition
\* checks of its driven side, for every value of the constants.
THEOREM DrivenDeliveries == SideSpec => []DrivenChangesWereReviewed
<1>1. SideInv => DrivenChangesWereReviewed
  BY DEF SideInv, LoopFits, DrivenChangesWereReviewed, DeliveredChangesWereReviewed, Delivered
<1> QED BY <1>1, SideInvariance, PTL

\* The classifier and the engine agree on review, whatever the session says of a change and in
\* whatever order it says it.
THEOREM ReviewRulesAgree == SideSpec => []ClassifierAndEngineAgree
<1>1. SideInv => ClassifierAndEngineAgree
  <2> SUFFICES ASSUME SideInv PROVE ClassifierAndEngineAgree
    OBVIOUS
  <2>1. /\ run \in ShipStates
        /\ side = "classifier" => IsTextHotfix(run)
        /\ request.changedFiles \subseteq Files /\ request.refs \subseteq Files
        /\ request.lane \in AutomationLanes /\ request.hotfixKind \in HotfixKinds
    BY DEF SideInv, IInv, Consistent, RequestFits, LanePolicyInput, AutomationLanes, HotfixKinds
  <2>2. /\ side = "classifier" => IsTextHotfix(Reported)
        /\ Reported.changedFiles = request.changedFiles
        /\ Reported.evidenceRefs = request.refs
        /\ "passed" \in Reported.checks <=> request.validated
    BY <2>1 DEF Reported, ShipStates, IsTextHotfix
  <2>3. side = "classifier" =>
          (TextEvidenceReady(Reported) <=>
            /\ request.changedFiles # {} /\ request.refs # {} /\ request.validated
            /\ \A f \in request.changedFiles \cup request.refs : ~isCodeLookingPath(f))
    BY <2>1, <2>2, SameRuleAssumption DEF TextEvidenceReady, isCodeLookingPath
  <2>4. evaluateTextEvidenceOnlyHotfix(request) = {} <=>
            /\ request.textOnlyClass \notin {"uncertain", "other"}
            /\ request.refs # {} /\ request.validated
            /\ \A f \in request.changedFiles \cup request.refs : ~isCodeLookingPath(f)
    BY DEF evaluateTextEvidenceOnlyHotfix, If
  <2>5. IsText(request) => reviewerRequired(request) = (evaluateTextEvidenceOnlyHotfix(request) # {})
    BY DEF reviewerRequired, IsText, IsCode
  <2>6. status(request) = "evidence-only" => ~reviewerRequired(request)
    <3> DEFINE codes == riskCodes(request)
               owed == reviewerRequired(request)
    <3>1. CASE codes # {}
      <4>1. status(request) = IF codes \subseteq PromoteCodes THEN "promote" ELSE "block"
        BY <3>1 DEF status
      <4> QED BY <4>1
    <3>2. CASE codes = {} /\ owed
      <4>1. status(request) = "review-required"
        BY <3>2 DEF status
      <4> QED BY <4>1
    <3> QED BY <3>1, <3>2
  <2>7. ~IsText(request) =>
            reviewerRequired(request) = DefaultReviewerRequired(request.lane, request.hotfixKind)
    BY <2>1 DEF reviewerRequired, IsText, IsCode, DefaultReviewerRequired, AutomationLanes,
                HotfixKinds
  <2> HIDE DEF status
  <2> QED BY <2>3, <2>4, <2>5, <2>6, <2>7 DEF ClassifierAndEngineAgree
<1> QED BY <1>1, SideInvariance, PTL

===============================================================================
