--------------------------- MODULE MCReviewerSwarm ---------------------------
(***************************************************************************)
(* A phase of a plan for TLC: three roles on two workers, packets of        *)
(* evidence that are right and wrong in every way the gate tells apart, in  *)
(* every place a delegate may leave them.                                   *)
(***************************************************************************)
EXTENDS ReviewerSwarm

Row(criterion, requires, roles, docs, runtime) ==
    [criterion |-> criterion, requires |-> requires, roles |-> roles, docs |-> docs,
     runtime |-> runtime]

MCPlan(status, matrix) == [status |-> status, matrix |-> matrix, docsFiles |-> FALSE]

RunRow == Row("runs", {"behavior-test", "diff"}, {"behavior"}, FALSE, TRUE)
ManualRow == Row("reads", {"manual-validation"}, {"safety", "behavior"}, FALSE, FALSE)
DocsRow == Row("docs", {"diff"}, {}, TRUE, FALSE)

MCConfigs ==
    {[plan |-> MCPlan("ready", <<RunRow, ManualRow>>), enabled |-> TRUE, concurrency |-> 2],
     [plan |-> MCPlan("ready", <<DocsRow>>), enabled |-> FALSE, concurrency |-> 1],
     [plan |-> MCPlan("draft", <<RunRow>>), enabled |-> TRUE, concurrency |-> 3],
     [plan |-> MCPlan("ready", <<>>), enabled |-> TRUE, concurrency |-> 2],
     [plan |-> MCPlan("ready", <<>>), enabled |-> FALSE, concurrency |-> 2]}

MCTargets == <<"behavior", "quality">>

-------------------------------------------------------------------------------
Coverage(criterion, kind, strength, commands) ==
    [criterion |-> criterion, evidenceKind |-> kind, strength |-> strength,
     commands |-> commands, caveats |-> TRUE]
Ran(command, outcome) == [command |-> command, outcome |-> outcome]
Packet(rows, commands) ==
    [filesChanged |-> TRUE, commandsRun |-> commands, criterionCoverage |-> rows, flags |-> {}]

Runs == Coverage("runs", "behavior-test", "sufficient", {"t"})
Reads == Coverage("reads", "manual-validation", "manual-caveat", {})
Docs == Coverage("docs", "diff", "sufficient", {})
Passed == <<Ran("t", "passed")>>

Packets ==
    {Packet(<<Runs, Reads>>, Passed),
     Packet(<<Runs, Reads, Docs>>, <<Ran("t", "failed"), Ran("t", "passed")>>),
     Packet(<<Runs, Reads>>, <<Ran("t", "passed"), Ran("t", "failed")>>),
     Packet(<<Runs, Reads>>, <<Ran("u", "passed")>>),
     Packet(<<Runs, Reads>>, <<Ran("t", "no such outcome")>>),
     Packet(<<Runs, Reads>>, <<Ran("t", "passed"), Ran("t", "no such outcome")>>),
     Packet(<<Coverage("runs", "source-string", "sufficient", {"t"}), Runs, Reads>>, Passed),
     Packet(<<Coverage("runs", "source-string", "weak", {"t"}), Runs, Reads>>, Passed),
     Packet(<<Coverage("runs", "no such kind", "sufficient", {"t"}), Reads>>, Passed),
     Packet(<<Coverage("runs", "diff", "sufficient", {"t"}), Reads>>, Passed),
     Packet(<<Coverage("runs", "unit-test", "manual-caveat", {"t"}), Reads>>, Passed),
     Packet(<<Coverage("runs", "unit-test", "skipped", {"t"}), Reads>>, Passed),
     Packet(<<Runs, Coverage("reads", "diff", "sufficient", {})>>, Passed),
     Packet(<<Runs, [Reads EXCEPT !.caveats = FALSE]>>, Passed),
     Packet(<<Docs, Coverage("docs", "prompt-only", "weak", {})>>, Passed),
     Packet(<<>>, Passed),
     [Packet(<<Runs, Reads>>, Passed) EXCEPT !.flags = {"autoExit"}],
     [Packet(<<Runs, Reads>>, Passed) EXCEPT !.filesChanged = FALSE]}

Event(packet, provenance) ==
    [kind |-> "coder_evidence", provenance |-> provenance, payload |-> packet]

\* The places of a packet: sidecar, details, and whether it was filed as evidence.
Places(packet) ==
    LET top == [coderEvidence |-> packet]
        sidecar(json, trusted) == [sidecar |-> <<json>>, details |-> <<>>, trusted |-> trusted]
        details(json, trusted) == [sidecar |-> <<>>, details |-> json, trusted |-> trusted]
    IN  {sidecar([evidence |-> top, summary |-> "s"], TRUE),
         sidecar([done |-> [evidence |-> top]], TRUE),
         sidecar(top, FALSE),
         sidecar(top @@ [summary |-> "s"], FALSE),
         sidecar([evidence |-> top @@ [summary |-> "s"]], FALSE),
         sidecar([evidence |-> [event |-> Event(packet, "canonical")]], TRUE),
         sidecar([evidence |-> [event |-> Event(packet, "legacy")]], FALSE),
         sidecar([evidence |-> [event |-> [kind |-> "coder_evidence", payload |-> packet]]], FALSE),
         sidecar([evidence |-> [events |-> <<Event(EmptyPacket, "legacy"),
                                             Event(packet, "canonical")>>]], TRUE),
         details([evidence |-> top], TRUE),
         details(top, FALSE)}

MCCoderResults ==
    {place @@ ended : place \in UNION {Places(p) : p \in Packets},
                      ended \in {[status |-> "completed", source |-> "explicit", hasOutput |-> TRUE],
                                 [status |-> "completed", source |-> "none", hasOutput |-> TRUE],
                                 [status |-> "completed", source |-> "auto_exit", hasOutput |-> FALSE],
                                 [status |-> "completed", source |-> "legacy", hasOutput |-> TRUE],
                                 [status |-> "failed", source |-> "process_exit", hasOutput |-> TRUE]}}

-------------------------------------------------------------------------------
Evidence(verdict, covers, blocking) == [verdict |-> verdict, covers |-> covers, blocking |-> blocking]

Filed(evidence) == [done |-> [evidence |-> [reviewerEvidence |-> evidence]]]

Answer(verdict, details, approves) ==
    [status |-> "completed", exitStatus |-> "completed", source |-> "explicit",
     verdict |-> verdict, promptOnly |-> FALSE, details |-> details, approves |-> approves]

ApprovingAnswer == Answer("APPROVED", Filed(Evidence("APPROVED", TRUE, FALSE)), TRUE)

MCAnswers ==
    {ApprovingAnswer,
     [ApprovingAnswer EXCEPT !.source = "auto_exit", !.promptOnly = TRUE],
     [ApprovingAnswer EXCEPT !.status = "failed"],
     [ApprovingAnswer EXCEPT !.status = "aborted", !.exitStatus = "aborted"],
     Answer("APPROVED", <<>>, FALSE),
     Answer("APPROVED", Filed(Evidence("APPROVED", TRUE, FALSE)
                                @@ [effectiveVerdict |-> "CHANGES_REQUESTED"]), FALSE),
     Answer("UNKNOWN", Filed(Evidence("APPROVED", FALSE, TRUE)), FALSE)}

===============================================================================
