---------------------------- MODULE ReviewerSwarm ----------------------------
(***************************************************************************)
(* The two delegations of a plan's phase as the session makes them, one     *)
(* after the other and again: delegate_to_coder, whose evidence must carry  *)
(* the plan's matrix, and delegate_to_reviewer, which sends out a swarm of  *)
(* reviewers and draws their answers together (delegate/tools.ts, swarm.ts, *)
(* reviewer-memo-file.ts).                                                  *)
(*                                                                          *)
(* The workers of a swarm are promises of one thread: from one await to the *)
(* next a worker runs undisturbed, so that taking the result of a reviewer  *)
(* and starting the next is one step.  How a single delegate comes to its   *)
(* answer is the matter of module Delegate; here it gives any answer of     *)
(* CoderResults or Answers.                                                 *)
(***************************************************************************)
EXTENDS ReviewerRoles

CONSTANTS
    Configs,        \* plans under review, with reviewerSwarm.enabled and maxConcurrency
    Targets,        \* goals, or configured targets: the queue without a matrix
    CoderResults,   \* what a coder's delegation may return; trusted says whether
                    \* its packet is evidence the coder itself filed as such
    Answers,        \* what a reviewer's delegation may return; approves says
                    \* whether the reviewer's own evidence approves
    MaxCalls        \* bound: delegations of the phase

\* The reviewer's own evidence says APPROVED, and names nothing that blocks.
ApprovesInEvidence(answer) ==
    LET own == ResolveReviewerExplicitEvidence(answer.details)
    IN  /\ own # <<>> /\ PickCanonicalVerdict(Head(own)) = "APPROVED"
        /\ ~Head(own).blocking

\* What the sidecar, or the runner's details without one, has at evidence and done.evidence.
FiledEnvelopes(result) ==
    LET json == IF result.sidecar # <<>> THEN Head(result.sidecar) ELSE result.details
    IN  (IF Has(json, "evidence") THEN {json.evidence} ELSE {})
        \cup (IF Has(json, "done") /\ Has(json.done, "evidence") THEN {json.done.evidence} ELSE {})

\* An envelope, and the events in it.
FiledObjects(envelope) ==
    LET nested == Envelopes(envelope)
    IN  {envelope} \cup {nested[i].event : i \in {j \in DOMAIN nested : Has(nested[j], "event")}}

IsFiledEvent(event) ==
    /\ Has(event, "kind") /\ event.kind = "coder_evidence"
    /\ Has(event, "payload") /\ IsCanonicalEvent(event)

\* A packet of the coder's is there as it stands, or in an event of the coder's own.
HoldsPacket(json) ==
    \/ \E i \in DOMAIN Envelopes(json) : Has(Envelopes(json)[i], "coderEvidence")
    \/ IsFiledEvent(json)
    \/ Has(json, "events") /\ \E i \in DOMAIN json.events : IsFiledEvent(json.events[i])

\* The coder filed a packet as its evidence, whichever of several an extraction finds.
FiledAsEvidence(result) ==
    \E envelope \in FiledEnvelopes(result) : \E json \in FiledObjects(envelope) : HoldsPacket(json)

IsList(list) == Len(list) \in Nat /\ DOMAIN list = 1..Len(list)

ASSUME CoderResultsAssumption ==
    \A result \in CoderResults :
        /\ result.source \in {"explicit", "none", "auto_exit", "process_exit", "missing", "legacy"}
        /\ result.trusted = FiledAsEvidence(result)
        /\ IsList(GatePacket(result).commandsRun) /\ IsList(GatePacket(result).criterionCoverage)
        /\ \A envelope \in FiledEnvelopes(result) : \A json \in FiledObjects(envelope) :
              Has(json, "events") => IsList(json.events)

ASSUME SwarmAssumption ==
    /\ \A c \in Configs : c.concurrency \in Nat \ {0} /\ IsFiniteSet(RolesRequired(c.plan))
    /\ \A answer \in Answers :
          /\ answer.status \in {"completed", "failed", "aborted"}
          /\ answer.approves = ApprovesInEvidence(answer)

VARIABLES
    config,         \* the plan, and the swarm's configuration
    phase,          \* status of the phase; the result it was completed on, until
                    \* a review begins
    swarm,          \* the run of reviewers: queue, cursor, workers, results
    signal,         \* the abort signal of the call
    memo,           \* the memo file of the plan's phase
    calls           \* delegations so far

vars == <<config, phase, swarm, signal, memo, calls>>

-------------------------------------------------------------------------------
NoMemo == [approved |-> FALSE, missing |-> {}]

Pending == [status |-> "running", verdict |-> "UNKNOWN", answer |-> <<>>]

NoSwarm == [at |-> "idle", cursor |-> 0, queue |-> <<>>, results |-> <<>>,
            workers |-> <<>>, aborted |-> FALSE]

Init ==
    /\ config \in Configs
    /\ phase = [status |-> "coder_started", evidence |-> <<>>]
    /\ swarm = NoSwarm
    /\ signal = FALSE
    /\ memo = NoMemo
    /\ calls = 0

Plan == config.plan

\* isMatrixGatedPlan: whatever the plan's status, it has rows.
RoleMode == Plan.matrix # <<>>

Calling == swarm.at = "idle" /\ calls < MaxCalls /\ calls' = calls + 1

MarkPhase(status, evidence) == phase' = [status |-> status, evidence |-> evidence]

-------------------------------------------------------------------------------
(* delegate_to_coder *)

DelegateToCoder ==
    /\ Calling
    /\ \E result \in CoderResults :
          IF result.status = "completed" /\ CoderMayAdvance(Plan, result)
          THEN MarkPhase("coder_completed", <<result>>)
          ELSE UNCHANGED phase
    /\ UNCHANGED <<config, swarm, signal, memo>>

-------------------------------------------------------------------------------
(* delegate_to_reviewer without a swarm *)

\* The single reviewer of a configuration that has the swarm disabled.
SingleVerdictStatus(answer) ==
    IF answer.verdict = "CHANGES_REQUESTED" \/ answer.status # "completed"
    THEN "changes_requested" ELSE "review_approved"

DelegateToSingleReviewer ==
    /\ Calling
    /\ ~config.enabled /\ ~RoleMode
    /\ \E answer \in Answers : MarkPhase(SingleVerdictStatus(answer), <<>>)
    /\ UNCHANGED <<config, swarm, signal, memo>>

-------------------------------------------------------------------------------
(* delegate_to_reviewer with a swarm *)

\* The workers run up to their first await when they are created.
StartSwarm ==
    /\ Calling
    /\ config.enabled \/ RoleMode
    /\ LET queue == IF RoleMode THEN SetToSeq(RolesRequired(Plan)) ELSE Targets
           workers == IF Len(queue) < config.concurrency THEN Len(queue) ELSE config.concurrency
       IN  swarm' = [at |-> "running", queue |-> queue, cursor |-> workers,
                     results |-> [i \in DOMAIN queue |-> Pending],
                     workers |-> [w \in 1..workers |-> w], aborted |-> FALSE]
    /\ phase' = [phase EXCEPT !.evidence = <<>>]
    /\ UNCHANGED <<config, signal, memo>>

Abort ==
    /\ swarm.at = "running" /\ ~signal
    /\ signal' = TRUE
    /\ UNCHANGED <<config, phase, swarm, memo, calls>>

\* Every target that has no result yet, also one another worker still waits for.
MarkPendingAborted(results) ==
    [i \in DOMAIN results |-> IF results[i].status = "running"
                              THEN [results[i] EXCEPT !.status = "aborted"] ELSE results[i]]

AbortSeen(answer) == answer.status = "aborted" \/ signal

\* Mutant of Advanced: the cursor stays.
AdvancedNot(cursor) == cursor

Advanced(cursor) == cursor + 1

\* A reviewer answers; its worker takes the next target or, after an abort, none.
WorkerReturns(w) ==
    /\ swarm.at = "running" /\ w \in DOMAIN swarm.workers /\ swarm.workers[w] # 0
    /\ \E answer \in Answers :
         LET results == [swarm.results EXCEPT ![swarm.workers[w]] =
                            [status |-> answer.status, verdict |-> answer.verdict,
                             answer |-> <<answer>>]]
             aborted == swarm.aborted \/ AbortSeen(answer)
             goesOn == ~aborted /\ swarm.cursor < Len(swarm.queue)
         IN  swarm' = [swarm EXCEPT
                 !.aborted = aborted,
                 !.results = IF aborted THEN MarkPendingAborted(results) ELSE results,
                 !.workers[w] = IF goesOn THEN swarm.cursor + 1 ELSE 0,
                 !.cursor = IF goesOn THEN Advanced(@) ELSE @]
    /\ UNCHANGED <<config, phase, signal, memo, calls>>

\* What a result tells the role evaluator; a target never sent out tells nothing.
ResultLike(result) ==
    IF result.answer # <<>> THEN Head(result.answer)
    ELSE [NoAnswer EXCEPT !.status = result.status]

\* toReviewerTargetResult: the status comes from the exit code again.
RestampedStatus(result) ==
    IF result.answer = <<>> THEN "completed" ELSE Head(result.answer).exitStatus

Unfinished(results) ==
    \E i \in DOMAIN results : RestampedStatus(results[i]) # "completed"

\* Mutant of RoleModeFails: the durable memo is not insisted on.
RoleModeFailsWithoutMemo(evaluations, results, missing, written) ==
    Unfinished(results) \/ (\E e \in evaluations : ~Approves(e)) \/ missing # {}

RoleModeFails(evaluations, results, missing, written) ==
    \/ Unfinished(results)
    \/ \E e \in evaluations : ~Approves(e)
    \/ missing # {}
    \/ ~written

LegacyFails(results) ==
    \E i \in DOMAIN results : results[i].status # "completed" \/ results[i].verdict # "APPROVED"

ReviewStatus(failed, aborted) ==
    IF failed \/ aborted THEN "changes_requested" ELSE "review_approved"

ConcludeInRoleMode(results, aborted) ==
    LET answers == [role \in ToSet(swarm.queue) |->
                       ResultLike(results[CHOOSE i \in DOMAIN results : swarm.queue[i] = role])]
        built == BuildReviewerMemoForResults(Plan, answers)
    IN  \E written \in BOOLEAN :
          /\ memo' = IF written THEN built ELSE memo
          /\ MarkPhase(ReviewStatus(RoleModeFails(EvaluationsOf(Plan, answers), results,
                                                  built.missing, written), aborted), <<>>)

\* All workers are done: the answers are drawn together, the memo is written
\* unless the disk fails, and the phase is marked.
Conclude ==
    /\ swarm.at = "running" /\ \A w \in DOMAIN swarm.workers : swarm.workers[w] = 0
    /\ LET aborted == swarm.aborted \/ signal
           results == IF aborted THEN MarkPendingAborted(swarm.results) ELSE swarm.results
       IN  /\ IF RoleMode THEN ConcludeInRoleMode(results, aborted)
              ELSE /\ MarkPhase(ReviewStatus(LegacyFails(results), aborted), <<>>)
                   /\ UNCHANGED memo
    /\ swarm' = NoSwarm
    /\ signal' = FALSE
    /\ UNCHANGED <<config, calls>>

Workers == 1..Max({c.concurrency : c \in Configs})

Next ==
    \/ DelegateToCoder
    \/ DelegateToSingleReviewer
    \/ StartSwarm
    \/ Abort
    \/ \E w \in Workers : WorkerReturns(w)
    \/ Conclude

\* A step that ends the swarm: of all steps, Conclude alone is one.
EndsSwarm ==
    /\ swarm.at = "running" /\ \A w \in DOMAIN swarm.workers : swarm.workers[w] = 0
    /\ swarm' = NoSwarm

\* Each delegation returns (module Delegate: CallReturns) and the promises of the
\* workers are taken up.
Fairness ==
    /\ \A w \in Workers : WF_swarm(WorkerReturns(w))
    /\ WF_swarm(EndsSwarm)

Spec == Init /\ [][Next]_vars /\ Fairness

-------------------------------------------------------------------------------
(* Properties. *)

\* What carries a criterion that asks for a run: some row names a command that
\* went green, and none of the commands it names ended otherwise the last time
\* that it had an outcome at all.
RanGreen(entry, packet) ==
    \E i \in DOMAIN packet.criterionCoverage :
        LET row == packet.criterionCoverage[i]
            runs(c) == {k \in DOMAIN packet.commandsRun :
                           /\ packet.commandsRun[k].command = c
                           /\ packet.commandsRun[k].outcome \in Outcomes}
            last(c) == {k \in runs(c) : \A l \in runs(c) : l <= k}
        IN  /\ row.criterion = entry.criterion
            /\ row.evidenceKind \in RunnableCoderKinds
            /\ row.strength = "sufficient"
            /\ \E c \in row.commands : last(c) # {}
            /\ \A c \in row.commands : \A k \in last(c) : packet.commandsRun[k].outcome = "passed"

\* completion-evidence-gate.ts: a ready plan with a matrix is coder_completed
\* only on evidence the coder put into done.evidence itself, in a completion it
\* called for, and every criterion that asks for a run was seen to run green.
\* However the packet is placed, labelled, ordered or repeated.
CompletionIsEvidenced ==
    phase.evidence # <<>> /\ Plan.status = "ready" /\ RoleMode =>
        LET result == Head(phase.evidence)
        IN  /\ result.source \in {"explicit", "none"}
            /\ result.trusted
            /\ \A i \in DOMAIN Plan.matrix :
                  Plan.matrix[i].requires \cap RunnableRequiredKinds # {} =>
                      RanGreen(Plan.matrix[i], GatePacket(result))

\* The roles whose reviewer ended well and approved in its own evidence.
Approving(results) ==
    {swarm.queue[i] : i \in {j \in DOMAIN results :
        results[j].answer # <<>> /\ LET answer == Head(results[j].answer)
                                    IN  answer.status = "completed" /\ answer.approves}}

\* A review of a plan with a matrix passes only if every role of its rows and
\* every default role has a reviewer that ended well and approved in its own
\* evidence, and no abort has cut the swarm short: no abort of one worker, late
\* answer or order of the queue lets a role slip by.
ApprovalIsUnanimous ==
    [][Conclude /\ phase'.status = "review_approved" /\ RoleMode =>
          /\ ~signal
          /\ \A i \in DOMAIN Plan.matrix : Plan.matrix[i].roles \subseteq Approving(swarm.results)
          /\ DefaultRoles \subseteq Approving(swarm.results)]_vars

\* The memo is the durable record of a review: no phase of a plan with a matrix
\* is approved while the memo on disk, perhaps of an earlier round, says no.
MemoBacksApproval ==
    phase.status = "review_approved" /\ RoleMode => memo.approved

\* A swarm that was sent out comes back, also when it is aborted half-way.
SwarmReturns == swarm.at = "running" ~> swarm.at = "idle"

===============================================================================
