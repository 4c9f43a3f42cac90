---------------------------- MODULE CoderEvidence ----------------------------
(***************************************************************************)
(* The gate between a coder that says it is done and the phase status       *)
(* coder_completed: completion-evidence.ts (what a packet of evidence shows *)
(* about the plan's matrix) and completion-evidence-gate.ts (which packet). *)
(*                                                                          *)
(* A matrix row is its criterion and the kinds of evidence it requires; of  *)
(* texts there is whether they are empty.  A packet's lists keep the order  *)
(* and the repetitions the delegate wrote them with.                        *)
(***************************************************************************)
EXTENDS CanonicalEvidence

RunnableRequiredKinds == {"behavior-test", "runtime-gate-test", "regression-test", "unit-test"}
ReviewOrManualKinds == {"reviewer-approval", "manual-validation"}
RunnableCoderKinds == {"runnable-check", "behavior-test", "runtime-gate",
                       "regression-test", "unit-test"}
WeakCoderKinds == {"prompt-only", "static-only", "source-string"}
EvidenceKinds == RunnableCoderKinds \cup WeakCoderKinds \cup ReviewOrManualKinds
                    \cup {"static-check", "diff", "artifact", "skipped"}
Strengths == <<"skipped", "insufficient", "weak", "manual-caveat", "sufficient">>
StrengthRank == [strength \in ToSet(Strengths) |-> CHOOSE k \in 1..5 : Strengths[k] = strength]
Outcomes == {"passed", "failed", "skipped"}

-------------------------------------------------------------------------------
(* Normalisation: rows and commands that are not what they should be are      *)
(* dropped; what the runner knows of the completion is added to the flags.    *)

FlagOfSource(source) ==
    CASE source = "auto_exit" -> {"autoExit"}
      [] source = "process_exit" -> {"processExit"}
      [] source = "missing" -> {"missingSidecar"}
      [] source = "legacy" -> {"freeFormOnly"}
      [] OTHER -> {}

\* buildHistory: flags only come; a final text stands for a free-form answer.
BuildHistory(packetFlags, source, hasOutput) ==
    packetFlags \cup FlagOfSource(source)
        \cup (IF source \notin {"explicit", "none"} /\ hasOutput THEN {"freeFormOnly"} ELSE {})

NormalizeCoderCompletionEvidence(packet, source, hasOutput) ==
    [filesChanged |-> packet.filesChanged,
     commandsRun |-> Keep(packet.commandsRun, LAMBDA c : c.outcome \in Outcomes),
     criterionCoverage |-> Keep(packet.criterionCoverage,
                              LAMBDA r : /\ r.evidenceKind \in EvidenceKinds
                                         /\ r.strength \in DOMAIN StrengthRank),
     flags |-> BuildHistory(packet.flags, source, hasOutput)]

-------------------------------------------------------------------------------
(* Evaluation against the matrix. *)

IsMatrixGated(plan) == plan.status = "ready" /\ plan.matrix # <<>>

ClassifySourcePrecedence(packet) ==
    LET structured == ~IsEmpty(packet.criterionCoverage) \/ ~IsEmpty(packet.commandsRun)
    IN  CASE packet.flags \cap {"processExit", "missingSidecar"} # {} -> "pane-structured"
          [] packet.flags \cap {"processExit", "missingSidecar"} = {} /\ "autoExit" \in packet.flags ->
                IF structured THEN "pane-structured" ELSE "free-form-only"
          [] OTHER -> IF structured /\ "freeFormOnly" \notin packet.flags
                      THEN "explicit-structured" ELSE "free-form-only"

\* Mutant of CommandOutcome: the first run is the one that is kept.
CommandOutcomeFirst(packet, command) ==
    LET runs == Keep(packet.commandsRun, LAMBDA c : c.command = command)
    IN  IF IsEmpty(runs) THEN "unknown" ELSE First(runs).outcome

\* The map of commands keeps the outcome of a command's last run.
CommandOutcome(packet, command) ==
    LET runs == Keep(packet.commandsRun, LAMBDA c : c.command = command)
    IN  IF IsEmpty(runs) THEN "unknown" ELSE runs[Max(DOMAIN runs)].outcome

RunnableRowIssues(row, packet) ==
    CASE row.evidenceKind \in WeakCoderKinds -> {"static_only_behavior_criterion"}
      [] row.evidenceKind \notin WeakCoderKinds \cup RunnableCoderKinds -> {"insufficient_evidence"}
      [] row.evidenceKind \in RunnableCoderKinds /\ row.strength # "sufficient" -> {"weak_evidence"}
      [] OTHER ->
            (IF \E c \in row.commands : CommandOutcome(packet, c) = "passed"
             THEN {} ELSE {"insufficient_evidence"})
            \cup (IF \E c \in row.commands : CommandOutcome(packet, c) \in {"failed", "skipped"}
                  THEN {"failed_command_unsupported"} ELSE {})

ManualRowIssues(row) ==
    CASE row.evidenceKind \notin ReviewOrManualKinds -> {"insufficient_evidence"}
      [] row.evidenceKind \in ReviewOrManualKinds
            /\ (row.strength \notin {"manual-caveat", "sufficient"} \/ ~row.caveats) -> {"weak_evidence"}
      [] OTHER -> {}

OtherRowIssues(row) ==
    (IF row.strength \in {"sufficient", "manual-caveat"} THEN {} ELSE {"weak_evidence"})
    \cup (IF row.evidenceKind \in WeakCoderKinds THEN {"insufficient_evidence"} ELSE {})

\* rowSatisfiesEntry
RowIssues(entry, row, packet) ==
    CASE row.strength = "skipped" -> {"skipped_command_unsupported"}
      [] row.strength # "skipped" /\ entry.requires \cap RunnableRequiredKinds # {} ->
            RunnableRowIssues(row, packet)
      [] row.strength # "skipped" /\ entry.requires \subseteq ReviewOrManualKinds ->
            ManualRowIssues(row)
      [] OTHER -> OtherRowIssues(row)

\* The strongest row, the first of them as the code's sort is stable.
StrongestRow(rows) ==
    LET rank(i) == StrengthRank[rows[i].strength]
    IN  First(Keep(rows, LAMBDA row : \A j \in DOMAIN rows : rank(j) <= StrengthRank[row.strength]))

EntryIssues(entry, packet) ==
    LET rows == Keep(packet.criterionCoverage, LAMBDA r : r.criterion = entry.criterion)
    IN  IF IsEmpty(rows) THEN {"missing_criterion"}
        ELSE RowIssues(entry, StrongestRow(rows), packet)

HistoryIssues(packet) ==
    {CASE flag = "autoExit" -> "auto_exit_incomplete"
       [] flag = "processExit" -> "process_exit_incomplete"
       [] flag = "missingSidecar" -> "missing_sidecar_incomplete"
       : flag \in packet.flags \ {"freeFormOnly"}}
    \cup (IF \/ ClassifySourcePrecedence(packet) = "free-form-only"
             \/ "freeFormOnly" \in packet.flags /\ IsEmpty(packet.criterionCoverage)
          THEN {"free_form_only"} ELSE {})

PacketIssues(packet) ==
    (IF packet.filesChanged THEN {} ELSE {"missing_files_changed"})
    \cup (IF IsEmpty(packet.commandsRun) THEN {"missing_commands_run"} ELSE {})
    \cup (IF IsEmpty(packet.criterionCoverage) THEN {"missing_criterion"} ELSE {})

\* The rejection codes; the coder is let through when there is none.  A plan
\* that is not gated asks for no evidence (no call passes a lightweight scope).
EvaluateCoderCompletionEvidence(plan, packet) ==
    IF ~IsMatrixGated(plan) THEN {}
    ELSE HistoryIssues(packet) \cup PacketIssues(packet)
            \cup UNION {EntryIssues(plan.matrix[i], packet) : i \in DOMAIN plan.matrix}

-------------------------------------------------------------------------------
(* Which packet: the sidecar's envelope, or the one in the runner's details;  *)
(* never the sidecar or the details themselves.                               *)

\* Mutant of EnvelopeOf: the whole object is handed to the parser.
EnvelopeOfWhole(json) == <<json>>

EnvelopeOf(json) ==
    IF Has(json, "evidence") THEN <<json.evidence>>
    ELSE IF Has(json, "done") /\ Has(json.done, "evidence") THEN <<json.done.evidence>> ELSE <<>>

RecognizedEnvelopes(details) ==
    Keep((IF Has(details, "evidence") THEN <<details.evidence>> ELSE <<>>)
            \o (IF Has(details, "done") /\ Has(details.done, "evidence")
                THEN <<details.done.evidence>> ELSE <<>>),
         LAMBDA e : HasPayload(e) \/ Has(e, "event"))

\* result.sidecar is the parsed done file, a sequence of at most one; a sidecar
\* that is there speaks alone.
RunCanonicalExtraction(result) ==
    LET found == IF result.sidecar # <<>> THEN EnvelopeOf(Head(result.sidecar))
                 ELSE RecognizedEnvelopes(result.details)
    IN  IF IsEmpty(found) THEN Nothing ELSE ExtractCanonicalEvidence(First(found))

EmptyPacket == [filesChanged |-> FALSE, commandsRun |-> <<>>, criterionCoverage |-> <<>>,
                flags |-> {}]

\* A payload that is no object is turned down like none at all.
GatePacket(result) ==
    LET extracted == RunCanonicalExtraction(result)
    IN  IF Has(extracted, "coderEvidence") THEN extracted.coderEvidence ELSE EmptyPacket

RunCompletionEvidenceGate(plan, result) ==
    EvaluateCoderCompletionEvidence(plan,
        NormalizeCoderCompletionEvidence(GatePacket(result), result.source, result.hasOutput))

\* evaluateCoderPhaseAdvancement
CoderMayAdvance(plan, result) == RunCompletionEvidenceGate(plan, result) = {}

===============================================================================
