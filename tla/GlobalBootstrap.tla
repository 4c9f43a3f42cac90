--------------------------- MODULE GlobalBootstrap ---------------------------
(***************************************************************************)
(* The bootstrap of the global workflow bundle.  Every start of a process     *)
(* that is not a delegate's inspects workflow.json and, unless the user made   *)
(* it his own, writes it and its sidecars one after the other, in place.  The  *)
(* check of a file and the truncation that begins its write are one step; the  *)
(* content follows in another, and the process may be killed in between.       *)
(***************************************************************************)
EXTENDS WorkflowConfig

CONSTANTS
    Processes,
    MaxKills,       \* bound: processes killed while they write
    MaxUserEdits    \* bound: changes of the bundle by the user or by an upgrade

VARIABLES
    bundle,     \* [BundleFiles -> FileStates]
    boot,       \* [Processes -> [file: the number of the file it is at, writing: BOOLEAN]]
    kills, userEdits

bootVars == <<bundle, boot, kills, userEdits>>

FileStates == {"missing", "torn", "managed", "old", "legacy", "custom", "malformed"}
NotStarted == [file |-> 0, writing |-> FALSE]

\* workflow.json first, then the sidecars.
Order == <<"workflow", "agents", "models", "gates">>

BootInit ==
    /\ bundle \in {[f \in BundleFiles |-> IF f = "workflow" THEN w ELSE c] :
                      w \in {"missing", "legacy", "old", "custom"}, c \in {"missing", "old"}}
    /\ boot = [p \in Processes |-> NotStarted]
    /\ kills = 0 /\ userEdits = 0

\* inspectGlobalWorkflowState: unreadable and custom workflows are left alone.
Refreshed == {"missing", "managed", "old", "legacy"}

\* A start that finds such a workflow begins to write it, a legacy one after a backup.
ensureManagedGlobalWorkflow(p) ==
    /\ boot[p] = NotStarted
    /\ bundle["workflow"] \in Refreshed
    /\ bundle' = [bundle EXCEPT !["workflow"] = "torn"]
    /\ boot' = [boot EXCEPT ![p] = [file |-> 1, writing |-> TRUE]]
    /\ UNCHANGED <<kills, userEdits>>

AfterFile(p) ==
    IF boot[p].file = Len(Order) THEN NotStarted ELSE [file |-> boot[p].file + 1, writing |-> FALSE]

\* The rest of writeJson.
FinishWrite(p) ==
    /\ boot[p].writing
    /\ bundle' = [bundle EXCEPT ![Order[boot[p].file]] = "managed"]
    /\ boot' = [boot EXCEPT ![p] = AfterFile(p)]
    /\ UNCHANGED <<kills, userEdits>>

\* A sidecar is written when it is missing or managed, whatever its version; two slips to guard
\* against are to write it only once and to write it always.
OverwrittenOnce(content) == content = "missing"
OverwrittenAlways(content) == content # "torn"
Overwritten(content) == content \in {"missing", "managed", "old"}

writeManagedSidecar(p) ==
    /\ boot[p].file > 1 /\ ~boot[p].writing
    /\ LET file == Order[boot[p].file]
       IN  IF Overwritten(bundle[file])
           THEN /\ bundle' = [bundle EXCEPT ![file] = "torn"]
                /\ boot' = [boot EXCEPT ![p].writing = TRUE]
           ELSE /\ boot' = [boot EXCEPT ![p] = AfterFile(p)]
                /\ UNCHANGED bundle
    /\ UNCHANGED <<kills, userEdits>>

\* A file that is being written stays torn; the rest of the bundle is not reached.
Killed(p) ==
    /\ boot[p] # NotStarted /\ kills < MaxKills
    /\ kills' = kills + 1
    /\ boot' = [boot EXCEPT ![p] = NotStarted]
    /\ UNCHANGED <<bundle, userEdits>>

\* The user edits or deletes a file that nobody is writing, or installs another version.
BeingWritten(file) == \E p \in Processes : boot[p].writing /\ Order[boot[p].file] = file

UserEdits ==
    /\ userEdits < MaxUserEdits
    /\ userEdits' = userEdits + 1
    /\ \/ \E f \in BundleFiles, content \in {"custom", "malformed", "missing"} :
             ~BeingWritten(f) /\ bundle' = [bundle EXCEPT ![f] = content]
       \/ /\ \A p \in Processes : boot[p] = NotStarted
          /\ bundle' = [f \in BundleFiles |-> IF bundle[f] = "managed" THEN "old" ELSE bundle[f]]
    /\ UNCHANGED <<boot, kills>>

BootStep(p) == ensureManagedGlobalWorkflow(p) \/ FinishWrite(p) \/ writeManagedSidecar(p)
BootNext == (\E p \in Processes : BootStep(p) \/ Killed(p)) \/ UserEdits

\* Sessions keep being started, and a process that is not killed gets through the bundle.
BootSpec ==
    BootInit /\ [][BootNext]_bootVars /\ \A p \in Processes : WF_bootVars(BootStep(p))

(***************************************************************************)
(* Properties.                                                               *)
(***************************************************************************)

BootTypeOK ==
    /\ bundle \in [BundleFiles -> FileStates]
    /\ boot \in [Processes -> [file : 0..Len(Order), writing : BOOLEAN]]
    /\ kills \in Nat /\ userEdits \in Nat

\* No process ever replaces what the user made of a file, nor one it cannot read.
CustomFilesSurvive ==
    [][boot' # boot => \A f \in BundleFiles :
          bundle[f] \in {"custom", "malformed"} => bundle'[f] = bundle[f]]_bootVars

\* However often processes are killed within the bundle and whichever files an upgrade outdates,
\* in the end a managed workflow has sidecars of its own version, except those that are the
\* user's or were torn: no start leaves the bundle half written for good.
BundleHeals ==
    <>[](bundle["workflow"] = "managed" => \A f \in ToSet(Sidecars) : bundle[f] \notin {"missing", "old"})

===============================================================================
