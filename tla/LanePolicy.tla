------------------------------ MODULE LanePolicy -------------------------------
(***************************************************************************)
(* The classifier of automation requests: sprint_classify_lane over           *)
(* evaluateLanePolicy (extensions/sprint/lane-policy.ts), a pure function from *)
(* what the session says of a change to a decision.                           *)
(*                                                                           *)
(* A session classifies a change again whenever it learns more of it: Amend   *)
(* changes what it says in one field, and the decision is always the one of   *)
(* the last call.  The tool hands no thresholds and no confirmations on, so    *)
(* the default thresholds hold and a full sprint is always refused; free text  *)
(* is given or not given; a ref stands for its file, without the section.     *)
(***************************************************************************)
EXTENDS Integers, FiniteSets

CONSTANTS
    Files,          \* the files and refs a change can name
    CodeFiles,      \* those isCodeLookingPath takes for code
    Sizes,          \* the numbers a session reports: lines, behaviour paths, earlier fixes
    AmendedFields   \* bound: the fields a session says something of

ASSUME LanePolicyAssumption == CodeFiles \subseteq Files /\ Sizes \subseteq Nat

VARIABLE request    \* the LanePolicyInput of the last call

NextLanes == {"hotfix", "full-sprint", "no-code/report-only"}

DEFAULT_LANE_THRESHOLDS ==
    [filesChanged |-> 2, locChanged |-> 50, behaviorPaths |-> 1, repeatAreaThreshold |-> 2]

\* What a session may say in each field; a next lane or a lane that is unknown is not passed on.
LanePolicyInput ==
    [lane |-> {"full-sprint", "hotfix", "debug"},
     hotfixKind |-> {"code-changing", "text-evidence-only"},
     scoped |-> BOOLEAN,
     changedFiles |-> SUBSET Files,
     changedLOC |-> Sizes, behaviorPaths |-> Sizes, repeatedSameAreaFixCount |-> Sizes,
     flags |-> SUBSET {"architecture-state-schema-refactor", "unclear-root-cause",
                       "reviewer-broader-risk"},
     textOnlyClass |-> {"docs", "prompt-template", "typo", "other", "uncertain"},
     refs |-> SUBSET Files,
     validated |-> BOOLEAN,
     diagnosed |-> BOOLEAN,
     recommendedNextLane |-> NextLanes \cup {"none"},
     selectedNextLane |-> NextLanes \cup {"none"},
     debugImplementationAttempt |-> BOOLEAN,
     remoteAction |-> {"none", "authorized", "unauthorized"}]

(***************************************************************************)
(* The risk codes of each lane.                                              *)
(***************************************************************************)
If(condition, code) == IF condition THEN {code} ELSE {}

\* No confirmation reaches the policy.
evaluateFullSprintLane(in) ==
    {"full-sprint-confirmation-missing", "full-sprint-architecture-missing",
     "full-sprint-implementation-confirmation-missing"}

\* The triggers that promote a hotfix of either kind.
evaluateHotfixScope(in) ==
    in.flags
    \cup If(~in.scoped, "scope-expansion")
    \cup If(Cardinality(in.changedFiles) > DEFAULT_LANE_THRESHOLDS.filesChanged, "file-threshold")
    \cup If(in.changedLOC > DEFAULT_LANE_THRESHOLDS.locChanged, "loc-threshold")
    \cup If(in.behaviorPaths > DEFAULT_LANE_THRESHOLDS.behaviorPaths, "multiple-behavior-paths")
    \cup If(in.repeatedSameAreaFixCount >= DEFAULT_LANE_THRESHOLDS.repeatAreaThreshold,
            "repeated-same-area")

isCodeLookingPath(path) == path \in CodeFiles

\* The slip to guard against: looks for code in the changed files only.
TextOfFilesOnly(in) ==
    IF in.textOnlyClass \in {"uncertain", "other"} THEN {"text-classification-uncertain"}
    ELSE LET unproven == If(in.refs = {}, "missing-text-refs")
                         \cup If(~in.validated, "missing-validation-evidence")
         IN  IF unproven # {} THEN unproven
             ELSE If(\E f \in in.changedFiles : isCodeLookingPath(f), "text-classification-uncertain")

\* The class is looked at before the evidence, and the evidence before the paths.
evaluateTextEvidenceOnlyHotfix(in) ==
    IF in.textOnlyClass \in {"uncertain", "other"} THEN {"text-classification-uncertain"}
    ELSE LET unproven == If(in.refs = {}, "missing-text-refs")
                         \cup If(~in.validated, "missing-validation-evidence")
         IN  IF unproven # {} THEN unproven
             ELSE If(\E f \in in.changedFiles \cup in.refs : isCodeLookingPath(f),
                     "text-classification-uncertain")

evaluateDebugLane(in) ==
    If(~in.diagnosed, "debug-diagnosis-missing")
    \cup If(in.recommendedNextLane = "none", "debug-next-lane-missing")
    \cup If(in.debugImplementationAttempt /\ in.selectedNextLane = "none",
            "debug-implementation-without-selected-lane")
    \cup If(in.debugImplementationAttempt /\ in.selectedNextLane = "no-code/report-only",
            "debug-implementation-with-report-only-selection")

evaluateRemoteActionGuard(in) == If(in.remoteAction = "unauthorized", "unauthorized-remote-action")

(***************************************************************************)
(* The decision.  The flags reviewerRequired and evidenceOnly are those of    *)
(* the lane: the triggers of the scope do not take them back.                 *)
(***************************************************************************)
IsText(in) == in.lane = "hotfix" /\ in.hotfixKind = "text-evidence-only"
IsCode(in) == in.lane = "hotfix" /\ in.hotfixKind = "code-changing"

PromoteCodes ==
    {"scope-expansion", "file-threshold", "loc-threshold", "multiple-behavior-paths",
     "architecture-state-schema-refactor", "unclear-root-cause", "repeated-same-area",
     "reviewer-broader-risk", "text-classification-uncertain"}

riskCodes(in) ==
    evaluateRemoteActionGuard(in)
    \cup CASE in.lane = "full-sprint" -> evaluateFullSprintLane(in)
           [] in.lane = "debug"       -> evaluateDebugLane(in)
           [] IsCode(in)              -> evaluateHotfixScope(in)
           [] IsText(in) -> evaluateTextEvidenceOnlyHotfix(in) \cup evaluateHotfixScope(in)

reviewerRequired(in) ==
    \/ in.lane = "full-sprint"
    \/ IsCode(in)
    \/ IsText(in) /\ evaluateTextEvidenceOnlyHotfix(in) # {}

\* finalizeDecision; every code comes with a blocker.
status(in) ==
    CASE riskCodes(in) # {} -> IF riskCodes(in) \subseteq PromoteCodes THEN "promote" ELSE "block"
      [] riskCodes(in) = {} /\ reviewerRequired(in) -> "review-required"
      [] OTHER -> IF IsText(in) THEN "evidence-only" ELSE "allow"

(***************************************************************************)
(* The session that classifies: at first it has said nothing but the lane.   *)
(***************************************************************************)
buildLanePolicyInput ==
    [lane |-> "hotfix", hotfixKind |-> "code-changing", scoped |-> FALSE, changedFiles |-> {},
     changedLOC |-> 0, behaviorPaths |-> 0, repeatedSameAreaFixCount |-> 0, flags |-> {},
     textOnlyClass |-> "uncertain", refs |-> {}, validated |-> FALSE, diagnosed |-> FALSE,
     recommendedNextLane |-> "none", selectedNextLane |-> "none",
     debugImplementationAttempt |-> FALSE, remoteAction |-> "none"]

LaneInit == request = buildLanePolicyInput

Amend ==
    \E field \in AmendedFields : \E value \in LanePolicyInput[field] :
        request' = [request EXCEPT ![field] = value]

===============================================================================
