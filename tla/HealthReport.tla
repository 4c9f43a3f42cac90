----------------------------- MODULE HealthReport -----------------------------
(***************************************************************************)
(* The health report (tools/repo_health_report.ts, src/integrity): several  *)
(* pi processes share a table of findings, a cache of what the consultant   *)
(* last found.  A report syncs the index, looks whether the cache will do,  *)
(* else empties it and fills it again, and then reads it.  A process runs   *)
(* all that without yielding, but every statement is a transaction of its   *)
(* own, and so the steps of several reports interleave.                     *)
(*                                                                          *)
(* A finding says what the consultant saw of one of three things: the       *)
(* tables of the index, the files themselves (the scan for smells), and     *)
(* the memory next to them, the cards and the evidence.  Only the first two *)
(* have a part in the context version.  How findings are worded, ranked and *)
(* filtered is left out; a finding that is in the table twice is there once. *)
(***************************************************************************)
EXTENDS Naturals

CONSTANTS
    Reporters,      \* pi processes that share the database
    NumTrees,       \* bound: states of the working tree
    MaxChanges,     \* bound: changes of the tree and the memory
    MaxTroubles     \* bound: statements that fail and processes that die

\* A context version is a hash: its place among the strings says nothing.
ContextVersions == 1..NumTrees

VARIABLES
    worktree,       \* the working tree, by its context version
    memory,         \* the state of cards and evidence
    indexed,        \* the tree that the index is of
    findings,       \* the rows of health_findings
    call,           \* each process: the report it is at
    changes, troubles

healthVars == <<worktree, memory, indexed, findings, call, changes, troubles>>

NoCall == [at |-> "idle"]

HealthInit ==
    /\ worktree = 1 /\ memory = 1 /\ indexed = 1
    /\ findings = {}
    /\ call = [p \in Reporters |-> NoCall]
    /\ changes = 0 /\ troubles = 0

-------------------------------------------------------------------------------
\* generateFindings: old says that maxAgeMs has passed since then.
Finding(about, says, version) ==
    [about |-> about, says |-> says, version |-> version, old |-> FALSE]

\* Stale and missing cards, stale evidence.
MemoryFindings(version) == {Finding("memory", memory, version)}

\* The git state of the last sync, secrets, tests, type checking, a README.
IndexFindings(version) == {Finding("index", indexed, version)}

\* scanFileSmells: files as they are now, by the list in the index.
SmellFindings(version) == {Finding("smells", worktree, version)}

GeneratedFindings(version) ==
    MemoryFindings(version) \cup IndexFindings(version) \cup SmellFindings(version)

\* Mutant of FindingsNeedRefresh: the age of the findings is not looked at.
FindingsNeedRefreshByVersion(version, force) ==
    \/ force
    \/ findings = {}
    \/ \E r \in findings : (\A s \in findings : s.version <= r.version) /\ r.version # version

\* findingsNeedRefresh: by the greatest context version and by the newest row.
FindingsNeedRefresh(version, force) ==
    \/ force
    \/ findings = {}
    \/ \E r \in findings : (\A s \in findings : s.version <= r.version) /\ r.version # version
    \/ \A r \in findings : r.old

-------------------------------------------------------------------------------
(* A report *)

\* The scan of the report's own sync.
BeginReport(p) ==
    /\ call[p] = NoCall
    /\ call' = [call EXCEPT ![p] = [at |-> "scanned", version |-> worktree]]
    /\ UNCHANGED <<worktree, memory, indexed, findings, changes, troubles>>

CommitIndex(p) ==
    /\ call[p].at = "scanned"
    /\ indexed' = call[p].version
    /\ call' = [call EXCEPT ![p].at = "synced"]
    /\ UNCHANGED <<worktree, memory, findings, changes, troubles>>

\* Asked for a task or a query, it does without the cache.
ReportForTask(p) ==
    /\ call[p].at = "synced"
    /\ call' = [call EXCEPT ![p] = NoCall]
    /\ UNCHANGED <<worktree, memory, indexed, findings, changes, troubles>>

\* The queries and the reading of files are one step.
CheckCache(p, forceRefresh) ==
    /\ call[p].at = "synced"
    /\ call' = [call EXCEPT ![p] =
          IF FindingsNeedRefresh(call[p].version, forceRefresh)
          THEN [at |-> "generated", todo |-> GeneratedFindings(call[p].version)]
          ELSE [at |-> "reading"]]
    /\ UNCHANGED <<worktree, memory, indexed, findings, changes, troubles>>

\* persistFindings goes on if the DELETE fails.
DeleteFindings(p) ==
    /\ call[p].at = "generated"
    /\ call' = [call EXCEPT ![p].at = "inserting"]
    /\ \/ findings' = {} /\ UNCHANGED troubles
       \/ troubles < MaxTroubles /\ troubles' = troubles + 1 /\ UNCHANGED findings
    /\ UNCHANGED <<worktree, memory, indexed, changes>>

InsertFinding(p) ==
    /\ call[p].at = "inserting"
    /\ \E f \in call[p].todo :
          /\ findings' = findings \cup {f}
          /\ call' = [call EXCEPT ![p] = IF call[p].todo = {f} THEN [at |-> "reading"]
                                         ELSE [call[p] EXCEPT !.todo = @ \ {f}]]
    /\ UNCHANGED <<worktree, memory, indexed, changes, troubles>>

ReadReport(p) ==
    /\ call[p].at = "reading"
    /\ call' = [call EXCEPT ![p] = NoCall]
    /\ UNCHANGED <<worktree, memory, indexed, findings, changes, troubles>>

\* A statement throws, or the process dies and starts again.
ReportFails(p) ==
    /\ call[p] # NoCall
    /\ troubles < MaxTroubles /\ troubles' = troubles + 1
    /\ call' = [call EXCEPT ![p] = NoCall]
    /\ UNCHANGED <<worktree, memory, indexed, findings, changes>>

-------------------------------------------------------------------------------
(* What goes on around it *)

ChangeTree(version) ==
    /\ changes < MaxChanges /\ changes' = changes + 1
    /\ version # worktree /\ worktree' = version
    /\ UNCHANGED <<memory, indexed, findings, call, troubles>>

\* The keeper writes cards, agents record evidence and syncs mark it as stale.
ChangeMemory ==
    /\ changes < MaxChanges /\ changes' = changes + 1
    /\ memory' = 3 - memory
    /\ UNCHANGED <<worktree, indexed, findings, call, troubles>>

Aged(rows) == {[r EXCEPT !.old = TRUE] : r \in rows}

\* maxAgeMs passes.
Age ==
    /\ \E r \in findings : ~r.old
    /\ findings' = Aged(findings)
    /\ call' = [p \in Reporters |-> IF call[p].at \in {"generated", "inserting"}
                                    THEN [call[p] EXCEPT !.todo = Aged(@)] ELSE call[p]]
    /\ UNCHANGED <<worktree, memory, indexed, changes, troubles>>

HealthNext ==
    \/ \E p \in Reporters :
        \/ BeginReport(p) \/ CommitIndex(p) \/ ReportForTask(p)
        \/ \E forceRefresh \in BOOLEAN : CheckCache(p, forceRefresh)
        \/ DeleteFindings(p) \/ InsertFinding(p) \/ ReadReport(p) \/ ReportFails(p)
    \/ \E version \in ContextVersions : ChangeTree(version)
    \/ ChangeMemory
    \/ Age

\* Time passes.
HealthSpec == HealthInit /\ [][HealthNext]_healthVars /\ WF_healthVars(Age)

-------------------------------------------------------------------------------
IsCurrent(f) == f.says = IF f.about = "memory" THEN memory ELSE worktree

(* If reports go on being read, the cache is rid in the end of whatever was found  *)
(* in an earlier state: of rows that overlapping reports, a failed DELETE and a    *)
(* dead process left there in any mixture, and of findings about what the context  *)
(* version says nothing of (findingsNeedRefresh, persistFindings).                 *)
ReportsRecover ==
    []<><<\E p \in Reporters : ReadReport(p)>>_healthVars
        => <>[](\A f \in findings : IsCurrent(f))

===============================================================================
