------------------------------ MODULE MCDelivery ------------------------------
(***************************************************************************)
(* What a delivery rests on, in small instances side by side: the gate in   *)
(* front of a task's final status with the audit it runs, the ledger of     *)
(* evidence with what it takes over from earlier versions, and the scout    *)
(* that records evidence.  A behaviour runs one of them and leaves the      *)
(* others in their first states.                                            *)
(***************************************************************************)
EXTENDS QualityAudit, LegacyImport, Scout

VARIABLE side

deliveryVars == <<finalVars, ledgerVars, scoutVars, side>>

\* The gate: one task, a plan and a plan whose name begins with the same letters.
MCRunRow == [criterion |-> "runs", requires |-> {"behavior-test"}]
MCForm(status, phaseB) ==
    [status |-> status, task |-> "t", matrix |-> <<MCRunRow>>, valid |-> TRUE,
     promptOnly |-> FALSE, phaseB |-> phaseB]
MCForms == {MCForm("ready", FALSE), MCForm("ready", TRUE), MCForm("draft", FALSE),
            [MCForm("ready", FALSE) EXCEPT !.promptOnly = TRUE, !.valid = FALSE, !.matrix = <<>>]}

MCShown(kind, outcome) ==
    [filesChanged |-> TRUE, commandsRun |-> <<[command |-> "c", outcome |-> outcome]>>,
     criterionCoverage |-> <<[criterion |-> "runs", evidenceKind |-> kind,
                              strength |-> "sufficient", commands |-> {"c"}, caveats |-> FALSE]>>,
     flags |-> {}]
MCPackets == {[shown |-> MCShown("behavior-test", "passed"), words |-> FALSE],
              [shown |-> MCShown("prompt-only", "failed"), words |-> TRUE]}

MCMentions == {{"p1"}, {"p1", "p10"}}
MCNotes == {{}, {"auto_exit", "process_exit", "missing_sidecar", "retries", "failed_attempt"},
            {"missing_sidecar", "retries", "prompt-only"}}

\* A run that names the task as well, and one for another task or none.
MCTaskNamed == [mentions \in MCMentions |-> IF mentions = {"p1"} THEN "t" ELSE "none"]

\* The ledger: artifacts of every shape.
MCObject == [coderEvidence |-> "absent", reviewerEvidence |-> "absent",
             delegateHistory |-> "absent", summary |-> NoSummary]
MCSummary == [coderEvidence |-> "absent", reviewerEvidence |-> "absent",
              delegateHistory |-> "absent", nested |-> FALSE, loose |-> FALSE]

MCArtifacts ==
    {Text, MCObject, [MCObject EXCEPT !.summary = Text]}
    \cup {[MCObject EXCEPT ![f] = shape, !.reviewerEvidence = "structured"] :
             f \in {"coderEvidence"}, shape \in Shapes}
    \cup {[MCObject EXCEPT ![f] = shape] :
             f \in {"reviewerEvidence", "delegateHistory"}, shape \in Shapes}
    \cup {[MCObject EXCEPT !.summary = summary] :
             summary \in {MCSummary, [MCSummary EXCEPT !.loose = TRUE],
                          [MCSummary EXCEPT !.coderEvidence = "hollow", !.nested = TRUE],
                          [MCSummary EXCEPT !.reviewerEvidence = "structured"],
                          [MCSummary EXCEPT !.delegateHistory = "opaque"]}}

MCCustomIds == {<<"coder_evidence", 2>>, <<"legacy_import", 1>>, <<"own", 1>>}

\* The scout: one or two files, of up to three markers.
MCFilesToScan == {<<>>, <<1>>, <<2>>, <<2, 1>>, <<1, 2, 1>>}
MCListings == {<<f>> : f \in MCFilesToScan} \cup {<<f, g>> : f, g \in MCFilesToScan}
                \cup {<<>>}

DeliveryInit ==
    side \in {"gate", "ledger", "scout"} /\ FinalInit /\ LedgerInit /\ ScoutInit

OnGate(A) == side = "gate" /\ A /\ UNCHANGED <<ledgerVars, scoutVars, side>>
OnLedger(A) == side = "ledger" /\ A /\ UNCHANGED <<finalVars, scoutVars, side>>
OnScout(A) == side = "scout" /\ A /\ UNCHANGED <<finalVars, ledgerVars, side>>

DeliveryNext == OnGate(FinalNext) \/ OnLedger(LedgerNext) \/ OnScout(ScoutNext)

DeliverySpec == DeliveryInit /\ [][DeliveryNext]_deliveryVars

\* The second plan is a name and a form; an approval with caveats, which counts alike in
\* both phases, is given to phase A; a task that was finalized over manifests is left as it is.
FinalBounded ==
    /\ memos["p1"]["phaseB"] # "approves with prompt-only caveats"
    /\ plan["p10"] \in {NoPlan, MCForm("ready", FALSE)}
    /\ \A phase \in PhasesOfReview : memos["p10"][phase] = "none"
    /\ \A t \in Tasks : task[t].status # "open" => manifests = <<>>

===============================================================================
