--------------------------- MODULE ArchitecturePlan ---------------------------
(***************************************************************************)
(* One architecture plan (extensions/workflow/architecture/) and the        *)
(* delegations it gates (delegate/architecture-gate.ts, delegate/tools.ts). *)
(*                                                                          *)
(* A plan is a file: a lifecycle status, acceptance criteria, a matrix with *)
(* the evidence each criterion asks for, open questions, and the status of  *)
(* two phases.  A delegation reads it once, passes the phase gate, works    *)
(* for minutes or hours, and then advances its phase by reading the file    *)
(* again and rewriting it.  Meanwhile other calls, of this session or of    *)
(* another, may rewrite the file, or truncate it and die.                   *)
(*                                                                          *)
(* Abstracted: a matrix is the set of criteria it has rows for and a row    *)
(* per criterion, of which only its being acceptable matters; texts, files  *)
(* and phase evidence are left out.  What the delegates do is a choice: the *)
(* coder's evidence passes its gate or not, the reviewers clear or not.     *)
(* The planning gate in front of a coder is PlanningGate's.                 *)
(***************************************************************************)
CONSTANTS
    Callers,        \* calls that may be in flight at once
    Criteria,       \* acceptance criteria
    Rows,           \* the contents a matrix row may have
    UnfitRows,      \* rows that no ready plan may have (prompt-only rules, duplicates)
    Recordings,     \* inputs of workflow_record_architecture_plan
    Patches,        \* inputs of workflow_update_architecture_plan
    Found,          \* plans that earlier versions, or editors, left on disk
    Keep,           \* a field that a patch leaves alone
    NoPlan,         \* no such file
    TornPlan,       \* a file that is not valid JSON
    NoCall          \* no call

VARIABLES
    file,           \* the plan's file
    call,           \* the calls in flight
    earned,         \* history: <<phase, status>> that a delegation's result has given
    worked,         \* history: phases a coder has worked on since their last review began
    overlapped      \* history: two calls that do not go together were in flight

planVars == <<file, call, earned, worked, overlapped>>
history == <<earned, worked, overlapped>>

-------------------------------------------------------------------------------
PhaseIds == {"phaseA", "phaseB"}
PhaseStatuses == {"not_started", "coder_completed", "review_approved", "changes_requested"}
\* The statuses workflow_update_architecture_plan accepts.
PublicStatuses == {"not_started", "changes_requested"}
PlanStatuses == {"draft", "ready"}

\* The empty matrix is none.
Matrices == UNION {[covered -> Rows] : covered \in SUBSET Criteria}
CriteriaSets == (SUBSET Criteria) \ {{}}

\* rows: "malformed" if reading drops some of the matrix's rows, "remnant" if a
\* rewrite has dropped them for good.  The code cannot tell a remnant from a whole.
Plans == [status : PlanStatuses, criteria : CriteriaSets, matrix : Matrices,
          rows : {"whole", "malformed", "remnant"}, open : BOOLEAN,
          phases : [PhaseIds -> PhaseStatuses]]

\* A delegation that is under way ("working").
Delegations == [kind : {"coder", "reviewer"}, step : {"working"}, phase : PhaseIds]
\* A call that has read the file ("read") or truncated it ("opened").  The last
\* field is the phase status that the tool sets in a second rewrite.
Rewrites == [kind : {"coder", "reviewer", "tool"}, step : {"read", "opened"},
             phase : PhaseIds, next : Plans, then : PublicStatuses \cup {Keep}]
\* The tool between its two rewrites.
Halfway == [kind : {"tool"}, step : {"patched"}, phase : PhaseIds, then : PublicStatuses]
PlanCalls == Delegations \cup Rewrites \cup Halfway

ASSUME InputsAssumption ==
    /\ UnfitRows \subseteq Rows
    /\ Recordings \subseteq [status : PlanStatuses, criteria : CriteriaSets,
                             matrix : Matrices, open : BOOLEAN]
    /\ Patches \subseteq [status : PlanStatuses \cup {Keep},
                          criteria : CriteriaSets \cup {Keep},
                          matrix : Matrices \cup {Keep}, open : BOOLEAN \cup {Keep}]
    /\ Found \subseteq Plans
ASSUME AbsentAssumption ==
    /\ NoPlan /= TornPlan
    /\ {NoPlan, TornPlan} \cap Plans = {}
    /\ NoPlan \notin [PhaseIds -> PhaseStatuses]
    /\ NoCall \notin PlanCalls
    /\ Keep \notin PublicStatuses

-------------------------------------------------------------------------------
(* Plans and their gate. *)

\* readArchitecturePlan finds a plan.
IsPlan(content) == content \notin {NoPlan, TornPlan}

\* validateEvidenceMatrix for a ready plan, and no rows lost in reading.
IsCovered(plan) ==
    /\ DOMAIN plan.matrix = plan.criteria
    /\ \A criterion \in plan.criteria : plan.matrix[criterion] \notin UnfitRows
    /\ plan.rows /= "malformed"

\* assertReadyMatrix.
IsAdmissible(plan) == plan.status = "ready" => IsCovered(plan)

\* Mutant: the coder may go on with an approved phase.
PhaseGateWithoutApprovalLock(plan, phase, agent) ==
    /\ plan.status = "ready"
    /\ ~plan.open
    /\ phase = "phaseB" => plan.phases["phaseA"] = "review_approved"
    /\ agent = "reviewer" => plan.phases[phase] = "coder_completed"
    /\ IsCovered(plan)

\* Mutant: the order of the phases is not looked at.
PhaseGateOutOfOrder(plan, phase, agent) ==
    /\ plan.status = "ready"
    /\ ~plan.open
    /\ agent = "reviewer" => plan.phases[phase] = "coder_completed"
    /\ agent = "coder" => plan.phases[phase] /= "review_approved"
    /\ IsCovered(plan)

\* validatePhaseGate.
PhaseGate(plan, phase, agent) ==
    /\ plan.status = "ready"
    /\ ~plan.open
    /\ phase = "phaseB" => plan.phases["phaseA"] = "review_approved"
    /\ agent = "reviewer" => plan.phases[phase] = "coder_completed"
    /\ agent = "coder" => plan.phases[phase] /= "review_approved"
    /\ IsCovered(plan)

Recorded(input) ==
    [status |-> input.status, criteria |-> input.criteria, matrix |-> input.matrix,
     rows |-> "whole", open |-> input.open,
     phases |-> [phase \in PhaseIds |-> "not_started"]]

\* What a rewrite makes of the rows that reading had to drop.
Rewritten(rows) == IF rows = "malformed" THEN "remnant" ELSE rows

Chosen(value, old) == IF value = Keep THEN old ELSE value

\* The plan in memory after updatePlanRecord's patch.
Patched(plan, patch) ==
    [plan EXCEPT !.status = Chosen(patch.status, @),
                 !.criteria = Chosen(patch.criteria, @),
                 !.matrix = Chosen(patch.matrix, @),
                 !.rows = IF patch.matrix = Keep THEN @ ELSE "whole",
                 !.open = Chosen(patch.open, @)]

\* The plan in memory after updatePlanPhase's change.
Advanced(plan, phase, status) == [plan EXCEPT !.phases[phase] = status]

\* writeArchitecturePlan strips the reading issues.
Written(plan) == [plan EXCEPT !.rows = Rewritten(@)]

-------------------------------------------------------------------------------
(* Calls. *)

\* What the status of a phase in a plan found on disk is taken to show.
Implied(phase, status) ==
    {<<phase, status>>} \cup
    IF status = "review_approved" THEN {<<phase, "coder_completed">>} ELSE {}

PlanInit ==
    /\ file \in {NoPlan} \cup Found
    /\ call = [c \in Callers |-> NoCall]
    /\ earned = IF IsPlan(file) THEN UNION {Implied(phase, file.phases[phase]) : phase \in PhaseIds}
                ELSE {}
    /\ worked = [phase \in PhaseIds |-> FALSE]
    /\ overlapped = FALSE

\* Coders of one phase may work side by side; no other two calls go together.
GoTogether(one, other) ==
    one.kind = "coder" /\ other.kind = "coder" /\ one.phase = other.phase

Begin(c, new) ==
    /\ call[c] = NoCall
    /\ call' = [call EXCEPT ![c] = new]
    /\ overlapped' = (overlapped \/ \E other \in Callers :
           call[other] /= NoCall /\ ~GoTogether(call[other], new))
    /\ UNCHANGED <<file, earned>>

Rewriting(kind, phase, plan, then) ==
    [kind |-> kind, step |-> "read", phase |-> phase, next |-> Written(plan), then |-> then]

\* workflow_record_architecture_plan: rewrites the file, whatever it is.
Record(c) ==
    /\ \E input \in Recordings :
           /\ IsAdmissible(Recorded(input))
           /\ Begin(c, Rewriting("tool", "phaseA", Recorded(input), Keep))
    /\ UNCHANGED worked

\* workflow_update_architecture_plan with a patch, and perhaps a phase status.
Update(c) ==
    /\ IsPlan(file)
    /\ \E patch \in Patches, phase \in PhaseIds, then \in PublicStatuses \cup {Keep} :
           /\ then = Keep => phase = "phaseA"
           /\ IsAdmissible(Patched(file, patch))
           /\ Begin(c, Rewriting("tool", phase, Patched(file, patch), then))
    /\ UNCHANGED worked

\* The same tool with a phase status only.
UpdatePhase(c) ==
    /\ IsPlan(file)
    /\ IsAdmissible(file)
    /\ \E phase \in PhaseIds, status \in PublicStatuses :
           Begin(c, Rewriting("tool", phase, Advanced(file, phase, status), Keep))
    /\ UNCHANGED worked

\* updatePlanPhase at the end of a call: fails on a plan that is gone, or that is
\* ready without a proper matrix, and the call ends all the same.
MarkPhase(c, status) ==
    LET mine == call[c]
    IN  call' = [call EXCEPT ![c] =
            IF IsPlan(file) /\ IsAdmissible(file)
            THEN Rewriting(mine.kind, mine.phase, Advanced(file, mine.phase, status), Keep)
            ELSE NoCall]

IsAt(c, step) == call[c] /= NoCall /\ call[c].step = step

UpdatePhaseAfterPatch(c) ==
    /\ IsAt(c, "patched")
    /\ MarkPhase(c, call[c].then)
    /\ UNCHANGED <<file, history>>

\* The tool checks its input with resolveArchitectureContext before it delegates.
DelegateToCoder(c, phase) ==
    /\ IsPlan(file)
    /\ PhaseGate(file, phase, "coder")
    /\ Begin(c, [kind |-> "coder", step |-> "working", phase |-> phase])
    /\ worked' = [worked EXCEPT ![phase] = TRUE]

DelegateToReviewer(c, phase) ==
    /\ IsPlan(file)
    /\ PhaseGate(file, phase, "reviewer")
    /\ Begin(c, [kind |-> "reviewer", step |-> "working", phase |-> phase])
    /\ worked' = [worked EXCEPT ![phase] = \E other \in Callers :
           IsAt(other, "working") /\ call[other].kind = "coder" /\ call[other].phase = phase]

\* The delegation's result gives its phase the status.
Decide(c, kind, status) ==
    /\ IsAt(c, "working")
    /\ call[c].kind = kind
    /\ MarkPhase(c, status)
    /\ earned' = earned \cup {<<call[c].phase, status>>}
    /\ UNCHANGED <<file, worked, overlapped>>

CoderCompletes(c) == Decide(c, "coder", "coder_completed")

\* Failed, aborted or timed out, or its evidence refused: no phase is advanced.
CoderFails(c) ==
    /\ IsAt(c, "working")
    /\ call[c].kind = "coder"
    /\ call' = [call EXCEPT ![c] = NoCall]
    /\ UNCHANGED <<file, history>>

ReviewersClear(c) == Decide(c, "reviewer", "review_approved")

\* Also when the reviewers failed or were aborted.
ReviewersObject(c) == Decide(c, "reviewer", "changes_requested")

\* writeJson: truncates the file, then writes at offset 0.  If another call has
\* written since the truncation, its end may remain.
OpenFile(c) ==
    /\ IsAt(c, "read")
    /\ file' = TornPlan
    /\ call' = [call EXCEPT ![c].step = "opened"]
    /\ UNCHANGED history

WriteFile(c) ==
    /\ IsAt(c, "opened")
    /\ \/ file' = call[c].next
       \/ file /= TornPlan /\ file' = TornPlan
    /\ call' = [call EXCEPT ![c] =
           IF @.then = Keep THEN NoCall
           ELSE [kind |-> "tool", step |-> "patched", phase |-> @.phase, then |-> @.then]]
    /\ UNCHANGED history

\* The process is killed.  A coder it waited for may work on in its pane, beside
\* whatever comes next.
PlanDie(c) ==
    /\ call[c] /= NoCall
    /\ call' = [call EXCEPT ![c] = NoCall]
    /\ overlapped' = (overlapped \/ (IsAt(c, "working") /\ call[c].kind = "coder"))
    /\ UNCHANGED <<file, earned, worked>>

Step(c) ==
    \/ Record(c) \/ Update(c) \/ UpdatePhase(c) \/ UpdatePhaseAfterPatch(c)
    \/ \E phase \in PhaseIds : DelegateToCoder(c, phase) \/ DelegateToReviewer(c, phase)
    \/ CoderCompletes(c) \/ CoderFails(c)
    \/ ReviewersClear(c) \/ ReviewersObject(c)
    \/ OpenFile(c) \/ WriteFile(c)
    \/ PlanDie(c)

PlanNext == \E c \in Callers : Step(c)

PlanSpec == PlanInit /\ [][PlanNext]_planVars

-------------------------------------------------------------------------------
(* Properties. *)

PlanTypeOK ==
    /\ file \in Plans \cup {NoPlan, TornPlan}
    /\ call \in [Callers -> PlanCalls \cup {NoCall}]
    /\ earned \subseteq PhaseIds \X PhaseStatuses
    /\ worked \in [PhaseIds -> BOOLEAN]
    /\ overlapped \in BOOLEAN

\* A ready plan whose matrix does not cover its criteria was found on disk and is
\* as it was found: whatever the calls and their interleaving, none advances its
\* phases or passes it on (assertReadyMatrix on every way to the file).
UncoveredPlansAreFrozen ==
    IsPlan(file) => file.status = "draft" \/ IsCovered(file) \/ file \in Found

\* A phase is complete or approved only if a coder's evidence was accepted for
\* it at some time, and approved only if its reviewers cleared it at some time:
\* no update, no stale rewrite and no lost one makes up a status.
StatusesAreEarned ==
    IsPlan(file) => \A phase \in PhaseIds :
        /\ file.phases[phase] \in {"coder_completed", "review_approved"} =>
               <<phase, "coder_completed">> \in earned
        /\ file.phases[phase] = "review_approved" => <<phase, "review_approved">> \in earned

\* As long as no calls have overlapped, no coder has touched an approved phase
\* since the review that approved it began.
ApprovalRestsOnReview ==
    IsPlan(file) /\ ~overlapped => \A phase \in PhaseIds :
        file.phases[phase] = "review_approved" => ~worked[phase]

\* The phases on file, or in the memory of a call that is rewriting a torn file.
Rewriter(c) == IsAt(c, "read") \/ IsAt(c, "opened")
Committed ==
    CASE IsPlan(file) -> file.phases
      [] file = TornPlan /\ (\E c \in Callers : Rewriter(c)) ->
             call[CHOOSE c \in Callers : Rewriter(c)].next.phases
      [] OTHER -> NoPlan

Protocol == INSTANCE PhaseProtocol WITH phases <- Committed, None <- NoPlan

\* As long as no calls have overlapped, every step is one that PhaseProtocol
\* allows: the gate that admitted a delegation still holds when its result is
\* recorded, though the code does not ask it again.
FollowsProtocol == [][~overlapped' => Protocol!Next \/ Committed' = Committed]_planVars

\* What architecture/gate.ts says of read-time issues: a matrix that was corrupt
\* on disk is not normalized down to one that passes the gate, until it has been
\* replaced.
CorruptMatrixNeverPasses ==
    IsPlan(file) => \A phase \in PhaseIds, agent \in {"coder", "reviewer"} :
        PhaseGate(file, phase, agent) => file.rows = "whole"

===============================================================================
