------------------------------ MODULE ShipEngine ------------------------------
(***************************************************************************)
(* The stage-transition engine of one AFK ("away from keyboard") ship run:  *)
(* extensions/sprint/ship-engine.ts over the durable state that             *)
(* ship-state.ts creates.                                                   *)
(*                                                                          *)
(* The engine is a pure function from a durable state and an event to the   *)
(* next durable state.  Each handler is a relation here: Handler(s, t)      *)
(* holds when the handler takes state s to state t for some payload of its  *)
(* event.  No handler looks at the stage of the run, so every event may     *)
(* arrive in every stage, the ones after "blocked" and "delivery_complete"  *)
(* included.                                                                *)
(*                                                                          *)
(* Abstracted: a path is a member of Paths, of which the members of         *)
(* CodePaths look like code to isCodeLookingPathForText; the list of checks *)
(* is the set of their outcomes, the list of blockers whether there is one; *)
(* free text is present or absent; diagnosed stands for a diagnosis and a    *)
(* valid recommended next lane, which every handler asks for together.      *)
(* Left out: what no handler reads back (the timestamps, root-cause and     *)
(* risk notes, affectedFiles, the finalization and audit texts, of which    *)
(* finalizationStatus remains).                                             *)
(***************************************************************************)
EXTENDS Integers

CONSTANTS
    Starts,         \* the lanes runs are started in, each with its hotfix kind
    Selections,     \* what a start may name as selectedNextLane
    Paths,          \* the file paths and evidence refs an event can name
    CodePaths,      \* those that look like code or control flow
    Outcomes,       \* the outcomes of the checks an event can report
    RemoteActions,  \* push, pr, deploy, destructive, credentialed
    RetryBudgets,   \* the retry budgets a run may be started with
    MaxAttempts     \* bound: attempts are not counted beyond it

VARIABLE run        \* the durable ShipState of the run

-------------------------------------------------------------------------------
(* The vocabulary of the durable state. *)

Unset == "unset"

AutomationLanes == {"full-sprint", "hotfix", "debug"}
HotfixKinds == {"code-changing", "text-evidence-only"}
DebugNextLanes == {"hotfix", "full-sprint", "no-code/report-only"}
Stages == {"created", "diagnosing", "implementing", "reviewing", "fixing",
           "finalizing", "delivery_complete", "blocked"}
NextActions == {"implement", "review", "fix", "finalize", "deliver",
                "report-only", "stop"}
StopConditions ==
    {"scope-expansion-detected", "retry-budget-exhausted",
     "checks-failed-after-retries", "finalization-blocked",
     "debug-implementation-without-selected-lane",
     "unauthorized-remote-action", "report-only-stop",
     "full-sprint-gates-not-confirmed", "text-evidence-readiness-missing",
     "reviewer-required-implementation-evidence-missing"}

\* Only a hotfix run has a kind, and `sprint_ship action=start` requires one.
KindsOf(lane) == IF lane = "hotfix" THEN HotfixKinds ELSE {Unset}

ASSUME StartsAssumption ==
    /\ Starts \subseteq [lane : AutomationLanes, kind : HotfixKinds \cup {Unset}]
    /\ \A start \in Starts : start.kind \in KindsOf(start.lane)
    /\ Selections \subseteq DebugNextLanes \cup {Unset}
ASSUME EvidenceAssumption ==
    CodePaths \subseteq Paths /\ Outcomes \subseteq {"passed", "failed", "skipped"}
ASSUME BudgetAssumption == RetryBudgets \subseteq Nat /\ MaxAttempts \in Nat

ShipStates ==
    [lane                     : AutomationLanes,
     hotfixKind               : HotfixKinds \cup {Unset},
     stage                    : Stages,
     attempts                 : Nat,
     retryBudget              : RetryBudgets,
     hasBlockers              : BOOLEAN,
     evidenceRefs             : SUBSET Paths,
     changedFiles             : SUBSET Paths,
     checks                   : SUBSET Outcomes,
     reviewerOutcome          : {"approved", "changes-requested", Unset},
     finalizationStatus       : {"pending", "blocked", "complete"},
     permissions              : SUBSET RemoteActions,
     reviewerRequired         : BOOLEAN,
     promotionReasonCodes     : SUBSET {"reviewer-broader-risk"},
     lastStopCondition        : StopConditions \cup {Unset},
     nextAction               : NextActions \cup {Unset},
     diagnosed                : BOOLEAN,
     selectedNextLane         : DebugNextLanes \cup {Unset},
     fullSprintGatesConfirmed : BOOLEAN]

-------------------------------------------------------------------------------
(* The predicates and updates the handlers share. *)

AllowsImplementation(next) == next \in {"hotfix", "full-sprint"}

DefaultReviewerRequired(lane, kind) ==
    \/ lane = "full-sprint"
    \/ lane = "hotfix" /\ kind # "text-evidence-only"

IsTextHotfix(s) == s.lane = "hotfix" /\ s.hotfixKind = "text-evidence-only"

GatesMissing(s) == s.lane = "full-sprint" /\ ~s.fullSprintGatesConfirmed

\* Mutant: looks for code in the changed files only, not in the evidence refs.
TextEvidenceReadyIgnoringRefs(s) ==
    IsTextHotfix(s) =>
        /\ s.changedFiles # {}
        /\ s.evidenceRefs # {}
        /\ "passed" \in s.checks
        /\ s.changedFiles \cap CodePaths = {}

\* textEvidenceReadinessSatisfied: only a text-evidence-only hotfix is held to it.
TextEvidenceReady(s) ==
    IsTextHotfix(s) =>
        /\ s.changedFiles # {}
        /\ s.evidenceRefs # {}
        /\ "passed" \in s.checks
        /\ (s.changedFiles \cup s.evidenceRefs) \cap CodePaths = {}

\* Mutant: forgets that a failed check on the record refuses the evidence.
HasImplementationEvidenceDespiteFailure(s) ==
    /\ s.changedFiles # {}
    /\ s.evidenceRefs # {}
    /\ "passed" \in s.checks

\* reviewerRequiredEvidenceBlocker returns no reason.
HasImplementationEvidence(s) ==
    /\ s.changedFiles # {}
    /\ s.evidenceRefs # {}
    /\ "passed" \in s.checks
    /\ "failed" \notin s.checks

BudgetLeft(s) == s.attempts < s.retryBudget

\* Mutant: leaves the next action of the stage before.
MovedKeepingAction(s, stage, action) == [s EXCEPT !.stage = stage]

Moved(s, stage, action) == [s EXCEPT !.stage = stage, !.nextAction = action]

Stopped(s, condition, action) ==
    [s EXCEPT !.stage = "blocked",
              !.hasBlockers = TRUE,
              !.lastStopCondition = condition,
              !.nextAction = action]

DebugStop(s) == Stopped(s, "debug-implementation-without-selected-lane", "stop")
GatesStop(s) == Stopped(s, "full-sprint-gates-not-confirmed", "stop")

WithEvidence(s, files, refs, outcomes) ==
    [s EXCEPT !.changedFiles = @ \cup files,
              !.evidenceRefs = @ \cup refs,
              !.checks = @ \cup outcomes]

\* A text hotfix that is not ready loses its reviewer-free status for good.
RoutedToReview(s) ==
    [Moved(s, "reviewing", "review") EXCEPT !.reviewerRequired = TRUE,
                                            !.hasBlockers = TRUE]

-------------------------------------------------------------------------------
(* The start of a run. *)

\* createInitialShipState as `sprint_ship action=start` calls it: the
\* implementation gate stands before every full-sprint start, and the reviewer
\* default and the confirmation flag follow from the lane.
InitialShipState(lane, kind, budget, granted, diagnosed, selected) ==
    [lane                     |-> lane,
     hotfixKind               |-> kind,
     stage                    |-> IF lane = "debug" THEN "diagnosing" ELSE "created",
     attempts                 |-> 0,
     retryBudget              |-> budget,
     hasBlockers              |-> FALSE,
     evidenceRefs             |-> {},
     changedFiles             |-> {},
     checks                   |-> {},
     reviewerOutcome          |-> Unset,
     finalizationStatus       |-> "pending",
     permissions              |-> granted,
     reviewerRequired         |-> DefaultReviewerRequired(lane, kind),
     promotionReasonCodes     |-> {},
     lastStopCondition        |-> Unset,
     nextAction               |-> IF selected = Unset THEN Unset
                                  ELSE IF AllowsImplementation(selected)
                                       THEN "implement" ELSE "report-only",
     diagnosed                |-> diagnosed,
     selectedNextLane         |-> selected,
     fullSprintGatesConfirmed |-> lane = "full-sprint"]

Init ==
    \E start \in Starts, budget \in RetryBudgets, granted \in SUBSET RemoteActions,
       diagnosed \in BOOLEAN, selected \in Selections :
        run = InitialShipState(start.lane, start.kind, budget, granted,
                               diagnosed, selected)

-------------------------------------------------------------------------------
(* The debug lane. *)

\* stated: the event gives a diagnosis and a valid recommended next lane.  Its
\* affected files become evidence refs of the run.
Diagnose(s, t) ==
    \E stated \in BOOLEAN, affected \in SUBSET Paths :
        \/ /\ s.lane # "debug" \/ ~stated
           /\ t = DebugStop(s)
        \/ /\ s.lane = "debug" /\ stated
           /\ t = [s EXCEPT !.diagnosed = TRUE,
                            !.stage = "diagnosing",
                            !.evidenceRefs = @ \cup affected,
                            !.nextAction =
                                IF s.selectedNextLane = Unset THEN "stop"
                                ELSE IF AllowsImplementation(s.selectedNextLane)
                                     THEN "implement" ELSE "report-only"]

\* Mutant: a diagnosis on the state is enough, in whatever lane the run is.
HasDiagnosisInAnyLane(s) == s.diagnosed

HasDiagnosis(s) == s.lane = "debug" /\ s.diagnosed

\* The lane the debug run is promoted to; the confirmation flag stays as it was.
Promoted(s, lane, kind) ==
    [s EXCEPT !.selectedNextLane = lane,
              !.lane = lane,
              !.hotfixKind = kind,
              !.stage = "created",
              !.reviewerRequired = DefaultReviewerRequired(lane, kind),
              !.nextAction = "implement"]

SelectNextLane(s, t) ==
    \E lane \in AutomationLanes :
        \/ /\ ~HasDiagnosis(s) \/ lane = "debug"
           /\ t = DebugStop(s)
        \/ /\ HasDiagnosis(s) /\ lane # "debug"
           /\ \E kind \in KindsOf(lane) : t = Promoted(s, lane, kind)

SelectReportOnly(s, t) ==
    \/ /\ ~HasDiagnosis(s)
       /\ t = DebugStop(s)
    \/ /\ HasDiagnosis(s)
       /\ t = Stopped([s EXCEPT !.selectedNextLane = "no-code/report-only",
                                !.hotfixKind = Unset,
                                !.reviewerRequired = FALSE],
                      "report-only-stop", "report-only")

-------------------------------------------------------------------------------
(* The implement, review and focused-fix loop. *)

ImplementStarted(s, t) ==
    \/ /\ s.lane = "debug" /\ s.selectedNextLane = "no-code/report-only"
       /\ t = Stopped(s, "report-only-stop", "report-only")
    \/ /\ s.lane = "debug" /\ s.selectedNextLane # "no-code/report-only"
       /\ t = DebugStop(s)
    \/ /\ GatesMissing(s)
       /\ t = GatesStop(s)
    \/ /\ s.lane # "debug" /\ ~GatesMissing(s)
       /\ s.attempts < MaxAttempts
       /\ LET started == [s EXCEPT !.attempts = @ + 1] IN
          \/ /\ ~BudgetLeft(s)
             /\ t = Stopped(started, "retry-budget-exhausted", "stop")
          \/ /\ BudgetLeft(s)
             /\ t = Moved(started, "implementing", "implement")

CoderCompleted(s, t) ==
    \E files, refs \in SUBSET Paths, outcomes \in SUBSET Outcomes :
        LET next == WithEvidence(s, files, refs, outcomes) IN
        \/ s.lane = "debug" /\ t = DebugStop(s)
        \/ GatesMissing(s) /\ t = GatesStop(s)
        \/ /\ s.lane # "debug" /\ ~GatesMissing(s)
           /\ \/ /\ "failed" \in outcomes
                 /\ t = Stopped(next, "checks-failed-after-retries", "stop")
              \/ /\ "failed" \notin outcomes /\ s.reviewerRequired
                 /\ t = Moved(next, "reviewing", "review")
              \/ /\ "failed" \notin outcomes /\ ~s.reviewerRequired
                 /\ IsTextHotfix(s) /\ files \cap CodePaths # {}
                 /\ t = [Moved(next, "reviewing", "review") EXCEPT !.reviewerRequired = TRUE]
              \/ /\ "failed" \notin outcomes /\ ~s.reviewerRequired
                 /\ IsTextHotfix(s) /\ files \cap CodePaths = {}
                 /\ ~TextEvidenceReady(next)
                 /\ t = RoutedToReview(next)
              \/ /\ "failed" \notin outcomes /\ ~s.reviewerRequired
                 /\ IsTextHotfix(s) => files \cap CodePaths = {} /\ TextEvidenceReady(next)
                 /\ t = Moved(next, "finalizing", "finalize")

ReviewerChangesRequested(s, t) ==
    \E broaderRisk \in BOOLEAN :
        LET next == [s EXCEPT !.reviewerOutcome = "changes-requested"] IN
        \/ /\ broaderRisk
           /\ t = Stopped([next EXCEPT !.promotionReasonCodes = {"reviewer-broader-risk"}],
                          "scope-expansion-detected", "stop")
        \/ /\ ~broaderRisk /\ ~BudgetLeft(s)
           /\ t = Stopped(next, "retry-budget-exhausted", "stop")
        \/ /\ ~broaderRisk /\ BudgetLeft(s)
           /\ t = Moved(next, "fixing", "fix")

\* The approval is recorded even when the missing evidence blocks the run.
ReviewerApproved(s, t) ==
    LET next == [s EXCEPT !.reviewerOutcome = "approved"] IN
    \/ /\ s.reviewerRequired /\ ~HasImplementationEvidence(s)
       /\ t = Stopped(next, "reviewer-required-implementation-evidence-missing", "stop")
    \/ /\ s.reviewerRequired => HasImplementationEvidence(s)
       /\ t = Moved(next, "finalizing", "finalize")

\* Neither the lane nor the full-sprint gate nor a failed check is looked at.
EvidenceCollected(s, t) ==
    \E refs \in SUBSET Paths, outcomes \in SUBSET Outcomes :
        LET next == WithEvidence(s, {}, refs, outcomes) IN
        \/ /\ refs = {} /\ outcomes = {}
           /\ t = Stopped(s, "text-evidence-readiness-missing", "stop")
        \/ /\ refs # {} \/ outcomes # {}
           /\ ~TextEvidenceReady(next)
           /\ t = RoutedToReview(next)
        \/ /\ refs # {} \/ outcomes # {}
           /\ TextEvidenceReady(next)
           /\ t = Moved(next, "finalizing", "finalize")

\* The reviewer outcome on the record is kept, whatever the fix changed.
FocusedFixCompleted(s, t) ==
    \E files, refs \in SUBSET Paths, outcomes \in SUBSET Outcomes :
        LET next == WithEvidence(s, files, refs, outcomes)
            consumed == [next EXCEPT !.attempts = @ + 1]
        IN
        \/ s.lane = "debug" /\ t = DebugStop(s)
        \/ GatesMissing(s) /\ t = GatesStop(s)
        \/ /\ s.lane # "debug" /\ ~GatesMissing(s)
           /\ \/ /\ "failed" \in outcomes
                 /\ t = Stopped(next, "checks-failed-after-retries", "stop")
              \/ /\ "failed" \notin outcomes /\ s.attempts < MaxAttempts
                 /\ ~BudgetLeft(s)
                 /\ t = Stopped(consumed, "retry-budget-exhausted", "stop")
              \/ /\ "failed" \notin outcomes /\ s.attempts < MaxAttempts
                 /\ BudgetLeft(s)
                 /\ t = IF s.reviewerRequired
                        THEN Moved(consumed, "reviewing", "review")
                        ELSE Moved(consumed, "finalizing", "finalize")

-------------------------------------------------------------------------------
(* Finalization, remote actions, an explicit block. *)

\* Mutant: only the lanes that require a reviewer look at his outcome.
RefusesDeliveryIgnoringVerdict(s) ==
    \/ GatesMissing(s)
    \/ s.lane = "debug" /\ ~s.diagnosed
    \/ ~TextEvidenceReady(s)
    \/ s.reviewerRequired /\ ~HasImplementationEvidence(s)

\* The reasons of handleFinalizationRecorded that come from the durable state.
RefusesDelivery(s) ==
    \/ GatesMissing(s)
    \/ s.lane = "debug" /\ ~s.diagnosed
    \/ ~TextEvidenceReady(s)
    \/ s.reviewerRequired /\ s.reviewerOutcome # "approved"
    \/ s.reviewerRequired /\ ~HasImplementationEvidence(s)
    \/ s.reviewerOutcome = "changes-requested"

\* linked: the event carries a finalization summary, a passing result and the
\* summary and artifact of the quality audit.
FinalizationRecorded(s, t) ==
    \E linked \in BOOLEAN :
        \/ /\ ~linked \/ RefusesDelivery(s)
           /\ t = Stopped([s EXCEPT !.finalizationStatus = "blocked"],
                          "finalization-blocked", "stop")
        \/ /\ linked /\ ~RefusesDelivery(s)
           /\ t = [Moved(s, "delivery_complete", "deliver")
                      EXCEPT !.finalizationStatus = "complete"]

RemoteActionRequested(s, t) ==
    \E action \in RemoteActions :
        \/ action \in s.permissions /\ t = s
        \/ /\ action \notin s.permissions
           /\ t = Stopped(s, "unauthorized-remote-action", "stop")

MarkBlocked(s, t) == t = Stopped(s, "scope-expansion-detected", "stop")

-------------------------------------------------------------------------------

Transition(s, t) ==
    \/ Diagnose(s, t)
    \/ SelectNextLane(s, t)
    \/ SelectReportOnly(s, t)
    \/ ImplementStarted(s, t)
    \/ CoderCompleted(s, t)
    \/ ReviewerChangesRequested(s, t)
    \/ ReviewerApproved(s, t)
    \/ EvidenceCollected(s, t)
    \/ FocusedFixCompleted(s, t)
    \/ FinalizationRecorded(s, t)
    \/ RemoteActionRequested(s, t)
    \/ MarkBlocked(s, t)

Next == Transition(run, run')

Spec == Init /\ [][Next]_run

-------------------------------------------------------------------------------
(* Properties. *)

Delivered == run.stage = "delivery_complete"

\* Every field of the durable state keeps its type.
TypeOK == run \in ShipStates

\* Whatever the order of events, a run that delivers without an approving
\* reviewer is either a debug run that changed no file, or a text-evidence-only
\* hotfix none of whose reported files and refs ever looked like code.  (The
\* reviewer default, its forcing by the text path and by promotion, and the
\* finalization guards have to agree for this.)
UnreviewedDeliveryIsTextOnly ==
    Delivered /\ run.reviewerOutcome # "approved" =>
        \/ run.lane = "debug" /\ run.changedFiles = {}
        \/ /\ run.lane = "hotfix" /\ run.hotfixKind = "text-evidence-only"
           /\ (run.changedFiles \cup run.evidenceRefs) \cap CodePaths = {}

\* A delivered implementation has changed files, evidence refs and a passed
\* check on its record, also when delivery was reached through
\* evidence_collected or through an approval that came before the coder.
DeliveryIsEvidenced ==
    Delivered /\ run.lane # "debug" =>
        /\ run.changedFiles # {}
        /\ run.evidenceRefs # {}
        /\ "passed" \in run.checks

\* A full-sprint run whose planning gates were never confirmed (a promoted debug
\* run) makes no attempt, records no changed file and does not deliver, in
\* whatever order the events that do not test the gate come.
UnconfirmedFullSprintIsInert ==
    run.lane = "full-sprint" /\ ~run.fullSprintGatesConfirmed =>
        /\ run.attempts = 0
        /\ run.changedFiles = {}
        /\ run.stage \notin {"implementing", "delivery_complete"}

\* Until it is promoted, a debug run makes no attempt and records no changed
\* file; and it owes no review that a promotion could then drop.
DebugNeverImplements ==
    run.lane = "debug" =>
        /\ run.attempts = 0
        /\ run.changedFiles = {}
        /\ run.stage # "implementing"
        /\ ~run.reviewerRequired

\* A run is sent to implement or to fix only while an attempt is left.
WorkWithinBudget ==
    /\ run.stage = "implementing" => run.attempts \in 1 .. run.retryBudget
    /\ run.stage = "fixing" => run.attempts < run.retryBudget

\* What no later event can repair: a failed check where a reviewer is required
\* (checks are only appended), code reported in a text hotfix (finalization asks
\* for text readiness even after an approval), unconfirmed full-sprint gates.
Doomed ==
    \/ run.reviewerRequired /\ "failed" \in run.checks
    \/ /\ run.lane = "hotfix" /\ run.hotfixKind = "text-evidence-only"
       /\ (run.changedFiles \cup run.evidenceRefs) \cap CodePaths # {}
    \/ run.lane = "full-sprint" /\ ~run.fullSprintGatesConfirmed

\* A doomed run never delivers: the retry loop does not lead out of it.
DoomedRunsNeverDeliver == [](Doomed => []~Delivered)

\* A review once owed stays owed: no event makes a run reviewer-free, the
\* promotions and the report-only selection of the debug lane included.
ReviewStaysOwed == [][run.reviewerRequired => run'.reviewerRequired]_run

-------------------------------------------------------------------------------
(* Statements of the documentation that the engine does not keep. *)

\* README.md:702-705: "Once the budget is exhausted the run stops with a
\* `retry-budget-exhausted` stop condition."  A run so stopped does not deliver.
ExhaustedRunStops ==
    run.lastStopCondition = "retry-budget-exhausted" => ~Delivered

===============================================================================
