----------------------------- MODULE QualityAudit -----------------------------
(***************************************************************************)
(* The quality audit that the finalization gate runs and hands on           *)
(* (workflow/quality-audit-scan.ts): its scan of the delegates' directory,  *)
(* and the summary for the task that is to be finished.  The gate and the   *)
(* audit read the same manifests in two pieces of code; the gate looks for  *)
(* the plan, the audit for the task that a run names.                       *)
(*                                                                          *)
(* The scans of tasks, progress, debug items and large files look for       *)
(* words and counts and are left out.  A finding is its code.  The summary  *)
(* is also written to a file, which nothing reads.                          *)
(***************************************************************************)
EXTENDS FinalizationGate

CONSTANTS
    TaskNamed,      \* the first task named in the texts of delegated tasks
    NoTask,         \* none
    MaxAudited      \* maxDelegateManifests

ASSUME QualityAuditAssumption ==
    /\ TaskNamed \in [Mentions -> Tasks \cup {NoTask}]
    /\ NoTask \notin Tasks
    /\ MaxAudited \in Nat \ {0}

TaskOf(record) == TaskNamed[record.mentions]

\* Mutant of IsDelegateManifestPath: the sidecar of a run is a .json file as well.
IsJsonPath(file) == TRUE

IsDelegateManifestPath(file) == file.is = "manifest"

\* The files of a run: its manifest, and the sidecar that it left.
FilesOf(i) ==
    {[is |-> "manifest", run |-> i]}
        \cup (IF manifests[i].sidecar = "none" THEN {} ELSE {[is |-> "sidecar", run |-> i]})

DirectoryFiles == UNION {FilesOf(i) : i \in DOMAIN manifests}

\* A sidecar is written after its manifest.
IsNewer(file, other) ==
    \/ file.run > other.run
    \/ file.run = other.run /\ file.is = "sidecar" /\ other.is = "manifest"

\* scanDelegateArtifacts: first what the files are, then the bound, on the newest.
Audited ==
    LET candidates == {file \in DirectoryFiles : IsDelegateManifestPath(file)}
        taken == {file \in candidates :
                     Cardinality({other \in candidates : IsNewer(other, file)}) < MaxAudited}
    IN  {file.run : file \in {f \in taken : f.is = "manifest"}}

RunFailed(record) == record.state \in {"failed", "aborted"}

\* A coder that is still at work misses its sidecar as well.
FindingsOfRun(record) ==
    (IF record.agent = "coder" /\ RunFailed(record) THEN {"delegate_failed_coder"} ELSE {})
    \cup (IF record.agent = "coder" /\ record.sidecar = "none"
          THEN {"delegate_missing_done"} ELSE {})
    \cup (IF record.sidecar = "auto_exit" THEN {"delegate_auto_exit"} ELSE {})
    \cup (IF record.sidecar = "process_exit" THEN {"delegate_process_exit"} ELSE {})

ReviewerRetries(t) ==
    LET attempts == {i \in Audited : manifests[i].agent = "reviewer" /\ TaskOf(manifests[i]) = t}
    IN  IF Cardinality(attempts) >= 2 /\ \E i \in attempts : RunFailed(manifests[i])
        THEN {"reviewer_retries_repeated"} ELSE {}

\* buildWorkflowQualityAuditFinalizationSummary: what is found of the task.
AuditSummary(t) ==
    (UNION {FindingsOfRun(manifests[i]) : i \in {j \in Audited : TaskOf(manifests[j]) = t}})
        \cup ReviewerRetries(t)

\* What makes the gate ask for an admission is in the audit's summary as well, as
\* long as the run names the task that is finished, and not just its plan, and is
\* one of the newest; the files that a run leaves next to its manifest do not push
\* an older manifest over the bound (isDelegateManifestPath, historyDisclosureIssues).
AuditAgreesWithGate ==
    [][\A t \in Tasks : Finalizes(t) =>
          \A i \in RunsOf(task'[t].plan) :
             LET record == manifests[i]
                 troubles == TroubleOf(record)
             IN  TaskOf(record) = t /\ i > Len(manifests) - MaxAudited =>
                    /\ "auto_exit" \in troubles => "delegate_auto_exit" \in AuditSummary(t)
                    /\ "process_exit" \in troubles => "delegate_process_exit" \in AuditSummary(t)
                    /\ "missing_sidecar" \in troubles /\ record.agent = "coder" =>
                          "delegate_missing_done" \in AuditSummary(t)
                    /\ "failed_attempt" \in troubles /\ record.agent = "coder" =>
                          "delegate_failed_coder" \in AuditSummary(t)]_finalVars

===============================================================================
