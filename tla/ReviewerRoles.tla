---------------------------- MODULE ReviewerRoles ----------------------------
(***************************************************************************)
(* What a review of a plan's phase needs and what its answers amount to     *)
(* (delegate/reviewer-roles.ts): the roles the matrix asks for, the verdict *)
(* of each reviewer on the evidence it left, the memo that draws them       *)
(* together.                                                                *)
(*                                                                          *)
(* A matrix row here has, besides what the coder must show for it, the      *)
(* roles that review it, whether it is about documentation or configuration *)
(* and whether its text hints at runtime behaviour.  Of a reviewer's text   *)
(* there is the verdict it opens with and whether it settles for a mere     *)
(* prompt.  Every target derived from a plan is required.                   *)
(***************************************************************************)
EXTENDS CoderEvidence

CONSTANTS
    DefaultRoles,   \* DEFAULT_NON_TRIVIAL_REQUIRED_ROLES
    RuntimeRoles    \* behavior, evidence-test, regression

Verdicts == {"APPROVED", "CHANGES_REQUESTED", "UNKNOWN"}

-------------------------------------------------------------------------------
(* Targets. *)

IsDocsConfigInScope(plan) ==
    plan.docsFiles \/ \E i \in DOMAIN plan.matrix : plan.matrix[i].docs

\* Mutant of RolesRequired: the defaults fill in only when no row names a role.
RolesRequiredOfRows(plan) ==
    LET ofRows == UNION {plan.matrix[i].roles : i \in DOMAIN plan.matrix}
    IN  IF ofRows = {} THEN DefaultRoles ELSE ofRows

\* The roles of the rows, docs-config when in scope, and the default roles.
RolesRequired(plan) ==
    (UNION {plan.matrix[i].roles : i \in DOMAIN plan.matrix})
        \cup (IF IsDocsConfigInScope(plan) THEN {"docs-config"} ELSE {})
        \cup DefaultRoles

\* A role no row names is given the first five criteria of the plan.
CriteriaOf(plan, role) ==
    LET own == {i \in DOMAIN plan.matrix : role \in plan.matrix[i].roles}
    IN  IF own # {} THEN own ELSE DOMAIN plan.matrix \cap 1..5

HasRuntimeBehaviorScope(plan, role) ==
    role \in RuntimeRoles \/ \E i \in CriteriaOf(plan, role) : plan.matrix[i].runtime

-------------------------------------------------------------------------------
(* One reviewer. *)

\* Evidence with substance: rows, commands, or a rejection with its reasons.
IsTypedReviewerEvidence(evidence) ==
    \/ evidence.covers
    \/ /\ evidence.blocking
       /\ "CHANGES_REQUESTED" =
            IF Has(evidence, "effectiveVerdict") THEN evidence.effectiveVerdict
            ELSE IF Has(evidence, "verdict") THEN evidence.verdict ELSE "UNKNOWN"

\* Where the reviewer's envelope may be: with the details, or in the sidecar.
EnvelopesOfDetails(details) ==
    (IF Has(details, "evidence") THEN <<details.evidence>> ELSE <<>>)
    \o (IF Has(details, "done") /\ Has(details.done, "evidence")
        THEN <<details.done.evidence>> ELSE <<>>)

\* The first typed evidence, a sequence of at most one.
ResolveReviewerExplicitEvidence(details) ==
    LET extracted == [i \in DOMAIN EnvelopesOfDetails(details) |->
                          ExtractCanonicalEvidence(EnvelopesOfDetails(details)[i])]
        typed == Keep(extracted, LAMBDA x : /\ Has(x, "reviewerEvidence")
                                            /\ IsTypedReviewerEvidence(x.reviewerEvidence))
    IN  IF IsEmpty(typed) THEN <<>> ELSE <<First(typed).reviewerEvidence>>

PickCanonicalVerdict(evidence) ==
    IF Has(evidence, "effectiveVerdict") /\ evidence.effectiveVerdict \in Verdicts
    THEN evidence.effectiveVerdict
    ELSE IF Has(evidence, "verdict") /\ evidence.verdict \in Verdicts
         THEN evidence.verdict ELSE "none"

\* Mutant of BaseVerdict: the text's approval counts when there is no other.
BaseVerdictOfText(explicit, textVerdict) ==
    LET canonical == IF explicit = <<>> THEN "none" ELSE PickCanonicalVerdict(Head(explicit))
    IN  IF canonical # "none" THEN canonical ELSE textVerdict

\* The canonical verdict decides; a text may only add a refusal.
BaseVerdict(explicit, textVerdict) ==
    LET canonical == IF explicit = <<>> THEN "none" ELSE PickCanonicalVerdict(Head(explicit))
    IN  IF canonical # "none" THEN canonical
        ELSE IF textVerdict = "CHANGES_REQUESTED" THEN "CHANGES_REQUESTED" ELSE "UNKNOWN"

IsProvisional(source) == source \in {"auto_exit", "process_exit", "missing", "legacy"}

\* Whether evaluateReviewerResult finds any reason to block.
IsBlocked(plan, role, answer, explicit) ==
    LET base == BaseVerdict(explicit, answer.verdict)
        claimed == base = "APPROVED" \/ answer.verdict = "APPROVED"
    IN  \/ explicit # <<>> /\ Head(explicit).blocking
        \/ answer.status \in {"failed", "aborted"}
        \/ base # "APPROVED"
        \/ IsProvisional(answer.source) /\ explicit = <<>>
        \/ claimed /\ role \in RuntimeRoles /\ explicit = <<>>
        \/ claimed /\ HasRuntimeBehaviorScope(plan, role) /\ answer.promptOnly

EvaluateReviewerResult(plan, role, answer) ==
    LET explicit == ResolveReviewerExplicitEvidence(answer.details)
        blocked == IsBlocked(plan, role, answer, explicit)
    IN  [role |-> role,
         verdict |-> BaseVerdict(explicit, answer.verdict),
         effectiveVerdict |-> IF blocked THEN "CHANGES_REQUESTED"
                              ELSE BaseVerdict(explicit, answer.verdict),
         provisional |-> IsProvisional(answer.source) /\ explicit = <<>>,
         blocked |-> blocked]

Approves(evaluation) ==
    /\ evaluation.effectiveVerdict = "APPROVED"
    /\ ~evaluation.provisional
    /\ ~evaluation.blocked

-------------------------------------------------------------------------------
(* The memo. *)

NoAnswer == [verdict |-> "UNKNOWN", status |-> "failed", source |-> "none",
             promptOnly |-> FALSE, details |-> <<>>]

ConsolidateReviewerMemo(evaluations, rolesRequired) ==
    LET missing == rolesRequired \ {e.role : e \in evaluations}
    IN  [missing |-> missing,
         approved |-> missing = {} /\ \A e \in evaluations : Approves(e)]

\* Every required role is evaluated, on no answer if there is none for it.
EvaluationsOf(plan, answers) ==
    {EvaluateReviewerResult(plan, role, IF role \in DOMAIN answers THEN answers[role] ELSE NoAnswer)
        : role \in RolesRequired(plan)}

BuildReviewerMemoForResults(plan, answers) ==
    ConsolidateReviewerMemo(EvaluationsOf(plan, answers), RolesRequired(plan))

===============================================================================
