--------------------------- MODULE FinalizationGate ---------------------------
(***************************************************************************)
(* The gate in front of the final status of a sprint task                   *)
(* (workflow/finalization-gate.ts, finalization-runtime.ts; its caller is   *)
(* sprint_update_task): it reads the plan, the manifests that the           *)
(* delegates' panes left, and the memo of the last review, and asks for a   *)
(* note that admits what went wrong on the way.                             *)
(*                                                                          *)
(* The writers of these files are the actions' own choice here; what they   *)
(* write is modelled in ArchitecturePlan, Delegate and ReviewerSwarm.  A    *)
(* manifest belongs to a plan if the text of its task names the plan, by a  *)
(* search for a substring: a name may be the beginning of another's.  Texts *)
(* are what they name; a note is the troubles it mentions.  The quality     *)
(* audit that the gate also runs is advice and blocks nothing.              *)
(***************************************************************************)
EXTENDS CoderEvidence, Integers, FiniteSets

CONSTANTS
    Plans,          \* ids of architecture plans
    Tasks,          \* ids of sprint tasks
    Forms,          \* contents a plan's file may have
    Mentions,       \* texts of delegated tasks: the plans whose name is found in each
    Packets,        \* coder evidence; "words" says that its texts sound prompt-only
    Notes,          \* notes to a status change: the troubles they mention
    NoPlan,         \* no plan: none asked for, none found
    MaxRuns         \* bound: manifests

\* No plan without rows is valid as a ready one (validateEvidenceMatrix); a packet has its fields.
ASSUME FormsAssumption ==
    /\ NoPlan \notin Plans
    /\ \A form \in Forms : form.valid => form.matrix # <<>>
    /\ \A packet \in Packets : DOMAIN packet.shown = DOMAIN EmptyPacket

PhasesOfReview == {"phaseA", "phaseB"}
FullStatuses == {"done"}
DowngradedStatuses == {"prompt_only_mitigation", "provisional_done"}
FinalStatuses == FullStatuses \cup DowngradedStatuses

VARIABLES
    plan,           \* the plans' files, NoPlan where there is none
    recency,        \* the plans by updatedAt, the latest last
    manifests,      \* manifests of delegates by their time, the latest last
    memos,          \* reviewer memos, by plan and phase
    task            \* task files: the status; history: the note and the plan the gate took

finalVars == <<plan, recency, manifests, memos, task>>

\* The gate has vouched for nothing.
Unvouched(status) == [status |-> status, note |-> {}, plan |-> NoPlan]

FinalInit ==
    /\ plan = [p \in Plans |-> NoPlan]
    /\ recency = <<>>
    /\ manifests = <<>>
    /\ memos = [p \in Plans |-> [phase \in PhasesOfReview |-> "none"]]
    /\ task = [t \in Tasks |-> Unvouched("open")]

-------------------------------------------------------------------------------
(* The manifests of a plan *)

\* completionSourceFrom: sidecars of this version always say how they came about.
CompletionSource(record) == IF record.sidecar = "none" THEN "missing" ELSE record.sidecar

AttemptStatus(record) ==
    CASE record.state \in {"failed", "aborted"} -> "failed"
      [] record.state \notin {"failed", "aborted"} ->
            IF record.sidecar # "none" \/ record.state = "completed" THEN "completed" ELSE "aborted"

HasCoderEvidence(record) ==
    record.agent = "coder" /\ record.sidecar = "explicit" /\ record.packet # Nothing

\* readMatchingManifests, the mutant: the runs that failed are left out.
MatchingManifestsThatEnded(p) ==
    Keep(manifests, LAMBDA r : p \in r.mentions /\ AttemptStatus(r) = "completed")

\* readMatchingManifests: the latest has the last place.
MatchingManifests(p) == Keep(manifests, LAMBDA r : p \in r.mentions)

TroubleOf(record) ==
    (IF CompletionSource(record) = "auto_exit" THEN {"auto_exit"} ELSE {})
    \cup (IF CompletionSource(record) = "process_exit" THEN {"process_exit", "retries"} ELSE {})
    \cup (IF record.sidecar = "none" THEN {"missing_sidecar", "retries"} ELSE {})
    \cup (IF AttemptStatus(record) # "completed" THEN {"retries"} ELSE {})
    \cup (IF AttemptStatus(record) = "failed" THEN {"failed_attempt"} ELSE {})

TroublesOf(records) == UNION {TroubleOf(records[i]) : i \in DOMAIN records}

\* latestEvidence of mergeManifestHistory, the mutant: the oldest evidence is taken.
LatestEvidenceLast(records) ==
    LET withEvidence == Keep(records, HasCoderEvidence)
    IN  IF IsEmpty(withEvidence) THEN Nothing ELSE First(withEvidence)

\* latestEvidence of mergeManifestHistory: of a run that failed as well.
LatestEvidence(records) ==
    LET withEvidence == Keep(records, HasCoderEvidence)
    IN  IF IsEmpty(withEvidence) THEN Nothing ELSE withEvidence[Max(DOMAIN withEvidence)]

FlagsOf(troubles) ==
    (IF "auto_exit" \in troubles THEN {"autoExit"} ELSE {})
    \cup (IF "process_exit" \in troubles THEN {"processExit"} ELSE {})
    \cup (IF "missing_sidecar" \in troubles THEN {"missingSidecar"} ELSE {})

\* mergeEvidenceWithHistory, then what the gate's normalisation makes of it.
EvidenceWithHistory(records) ==
    LET found == LatestEvidence(records)
        packet == IF found = Nothing THEN EmptyPacket ELSE found.packet.shown
        source == IF found = Nothing THEN "none" ELSE CompletionSource(found)
    IN  NormalizeCoderCompletionEvidence(
            [packet EXCEPT !.flags = @ \cup FlagsOf(TroublesOf(records))], source, FALSE)

-------------------------------------------------------------------------------
(* The memo *)

PhaseUnderReview(p) == IF plan[p].phaseB THEN "phaseB" ELSE "phaseA"

\* Mutant of ReadOrder: the first phase's memo is read first.
ReadOrderAlways(p) == <<"phaseA", "phaseB">>

ReadOrder(p) == IF PhaseUnderReview(p) = "phaseB" THEN <<"phaseB", "phaseA">>
                ELSE <<"phaseA", "phaseB">>

\* readLatestReviewerMemo: the memo of the phase under review, else the other's.
LatestMemo(p) ==
    LET found == Keep(ReadOrder(p), LAMBDA phase : memos[p][phase] # "none")
    IN  IF IsEmpty(found) THEN "none" ELSE memos[p][First(found)]

\* parseReviewerMemoMarkdown and memoHardBlock, on memos that the swarm has written.
MemoApproves(memo) == memo \in {"approves", "approves with prompt-only caveats"}

-------------------------------------------------------------------------------
(* evaluateSprint *)

WaivableCodes == {"auto_exit_incomplete", "process_exit_incomplete", "missing_sidecar_incomplete"}

\* historyDisclosureIssues, of the matching manifests and of the packet's own account.
DisclosureIssues(records) ==
    TroublesOf(records)
    \cup {CASE flag = "autoExit" -> "auto_exit"
            [] flag = "processExit" -> "process_exit"
            [] flag = "missingSidecar" -> "missing_sidecar"
            [] flag = "freeFormOnly" -> "free_form" : flag \in EvidenceWithHistory(records).flags}

Disclosed(records, note) == DisclosureIssues(records) \subseteq note

CoderRejections(p, records, note) ==
    EvaluateCoderCompletionEvidence([status |-> "ready", matrix |-> plan[p].matrix],
                                    EvidenceWithHistory(records))
    \ (IF Disclosed(records, note) THEN WaivableCodes ELSE {})

PromptOnlySignal(p, records, note) ==
    LET found == LatestEvidence(records)
    IN  \/ plan[p].promptOnly
        \/ \E i \in DOMAIN EvidenceWithHistory(records).criterionCoverage :
              EvidenceWithHistory(records).criterionCoverage[i].evidenceKind = "prompt-only"
        \/ found # Nothing /\ found.packet.words
        \/ "prompt-only" \in note           \* a packet without a summary takes the note
        \/ LatestMemo(p) = "approves with prompt-only caveats"

\* evaluateSprint finds nothing to block, for a plan that is there.
PassesFor(p, records, status, note) ==
    /\ plan[p].status = "ready"
    /\ plan[p].valid
    /\ MemoApproves(LatestMemo(p))
    /\ Disclosed(records, note)
    /\ status \in FullStatuses => ~PromptOnlySignal(p, records, note)
    /\ CoderRejections(p, records, note) = {}

\* A plan that was asked for need not be the task's.
EvaluateSprint(p, status, note) ==
    p # NoPlan /\ plan[p] # NoPlan /\ PassesFor(p, MatchingManifests(p), status, note)

\* resolvePlan: as asked, else the task's plan that was updated last.
ResolvePlan(t, requested) ==
    LET own == Keep(recency, LAMBDA p : plan[p].task = t)
    IN  IF requested # NoPlan THEN requested
        ELSE IF IsEmpty(own) THEN NoPlan ELSE own[Max(DOMAIN own)]

-------------------------------------------------------------------------------
(* The files that the gate reads come about *)

WritePlan(p, form) ==
    /\ plan' = [plan EXCEPT ![p] = form]
    /\ \/ p \notin ToSet(recency) /\ recency' = Append(recency, p)
       \/ \E i \in DOMAIN recency : recency[i] = p /\ recency' = Append(RemoveAt(recency, i), p)
    /\ UNCHANGED <<manifests, memos, task>>

StartRun(agent, mentions) ==
    /\ Len(manifests) < MaxRuns
    /\ manifests' = Append(manifests, [agent |-> agent, mentions |-> mentions, state |-> "running",
                                       sidecar |-> "none", packet |-> Nothing])
    /\ UNCHANGED <<plan, recency, memos, task>>

\* A run that ends or is polled carries a new time, and so comes last.
MoveToEnd(i, record) == manifests' = Append(RemoveAt(manifests, i), record)

\* The completion tool; the pane may still count the run as failed (pane.ts:431).
EndExplicitly(i, packet, state) ==
    /\ manifests[i].state = "running" /\ manifests[i].sidecar = "none"
    /\ manifests[i].agent = "coder" \/ packet = Nothing
    /\ MoveToEnd(i, [manifests[i] EXCEPT !.state = state, !.sidecar = "explicit", !.packet = packet])
    /\ UNCHANGED <<plan, recency, memos, task>>

\* The end of the agent's run without the tool, the child's exit, or an abort.
EndOtherwise(i, state, sidecar) ==
    /\ manifests[i].state = "running" /\ manifests[i].sidecar = "none"
    /\ <<state, sidecar>> \in {<<"completed", "auto_exit">>, <<"failed", "auto_exit">>,
                               <<"failed", "process_exit">>, <<"failed", "none">>,
                               <<"aborted", "none">>}
    /\ MoveToEnd(i, [manifests[i] EXCEPT !.state = state, !.sidecar = sidecar])
    /\ UNCHANGED <<plan, recency, memos, task>>

Poll(i) ==
    /\ manifests[i].state = "running" /\ i # Len(manifests)
    /\ MoveToEnd(i, manifests[i])
    /\ UNCHANGED <<plan, recency, memos, task>>

WriteMemo(p, phase, memo) ==
    /\ memos' = [memos EXCEPT ![p][phase] = memo]
    /\ UNCHANGED <<plan, recency, manifests, task>>

-------------------------------------------------------------------------------
(* sprint_update_task: the gate and the update are one step; a dry run updates as well. *)

UpdateTask(t, status, requested, note, mode) ==
    LET p == ResolvePlan(t, requested)
    IN  /\ \/ /\ mode = "strict" /\ EvaluateSprint(p, status, note)
              /\ task' = [task EXCEPT ![t] = [status |-> status, note |-> note, plan |-> p]]
           \/ /\ mode = "dry-run"
              /\ task' = [task EXCEPT ![t] = Unvouched(status)]
        /\ UNCHANGED <<plan, recency, manifests, memos>>

\* A status that is not final passes unseen, and reopens a finished task.
ReopenTask(t) ==
    /\ task[t].status # "open"
    /\ task' = [task EXCEPT ![t] = Unvouched("open")]
    /\ UNCHANGED <<plan, recency, manifests, memos>>

FinalNext ==
    \/ \E p \in Plans, form \in Forms : WritePlan(p, form)
    \/ \E agent \in {"coder", "reviewer"}, mentions \in Mentions : StartRun(agent, mentions)
    \/ \E i \in DOMAIN manifests :
        \/ \E packet \in Packets \cup {Nothing}, state \in {"running", "completed", "failed"} :
              EndExplicitly(i, packet, state)
        \/ \E state \in {"completed", "failed", "aborted"},
              sidecar \in {"auto_exit", "process_exit", "none"} : EndOtherwise(i, state, sidecar)
        \/ Poll(i)
    \/ \E p \in Plans, phase \in PhasesOfReview,
          memo \in {"approves", "approves with prompt-only caveats", "objects"} :
            WriteMemo(p, phase, memo)
    \/ \E t \in Tasks, status \in FinalStatuses, requested \in Plans \cup {NoPlan},
          note \in Notes, mode \in {"strict", "dry-run"} :
            UpdateTask(t, status, requested, note, mode)
    \/ \E t \in Tasks : ReopenTask(t)

FinalSpec == FinalInit /\ [][FinalNext]_finalVars

-------------------------------------------------------------------------------
(* Properties *)

\* The finalization of task t in this step went through the strict gate.
Finalizes(t) == task'[t] # task[t] /\ task'[t].plan # NoPlan

\* The runs whose task names the plan, the latest last.
RunsOf(p) == {i \in DOMAIN manifests : p \in manifests[i].mentions}

\* The run that spoke last of the plan has evidence for every criterion.
HasLastWord(p) ==
    LET spoke == {i \in RunsOf(p) : HasCoderEvidence(manifests[i])}
    IN  \E i \in spoke :
          /\ \A j \in spoke : j <= i
          /\ \A k \in DOMAIN plan[p].matrix :
                EntryIssues(plan[p].matrix[k],
                            NormalizeCoderCompletionEvidence(manifests[i].packet.shown,
                                                             "explicit", FALSE)) = {}

\* Evidence may be given by several runs.  What finalizes a task is the word of
\* the run that spoke last, whatever better evidence an earlier one has left,
\* and it covers every criterion (finalization-runtime.ts: sort, latestEvidence).
LastWordCounts ==
    [][\A t \in Tasks : Finalizes(t) => HasLastWord(task'[t].plan)]_finalVars

\* A reviewer's objection to the phase in work stands in the way of a strict
\* finalization, whatever was approved before, and somebody has approved.
ObjectionsStand ==
    [][\A t \in Tasks : Finalizes(t) =>
          LET p == task'[t].plan
          IN  /\ memos[p][PhaseUnderReview(p)] # "objects"
              /\ \E which \in PhasesOfReview : MemoApproves(memos[p][which])]_finalVars

\* Nobody finalizes in silence over a delegate that crashed, was killed or is
\* still at work: the note mentions each kind of trouble that the plan's runs,
\* the reviewers' included, have had (historyDisclosureIssues).
TroubleIsAdmitted ==
    [][\A t \in Tasks : Finalizes(t) =>
          \A i \in RunsOf(task'[t].plan) :
             LET run == manifests[i]
                 note == task'[t].note
             IN  /\ run.sidecar = "none" => "missing_sidecar" \in note
                 /\ run.sidecar \in {"auto_exit", "process_exit"} => run.sidecar \in note
                 /\ run.state \in {"failed", "aborted"} =>
                        {"retries", "failed_attempt"} \subseteq note]_finalVars

===============================================================================
