----------------------------- MODULE LegacyImport -----------------------------
(***************************************************************************)
(* What earlier versions left behind, brought into the ledger               *)
(* (workflow/delivery/legacy-import.ts): one legacy_import event for the    *)
(* artifact, and a mirror for the structured evidence that is found in it.  *)
(*                                                                          *)
(* An artifact is a text, or an object of four fields, each absent, opaque  *)
(* (no object), hollow (an object with nothing that counts) or structured.  *)
(* A summary is text that may turn out to be such an object.                *)
(***************************************************************************)
EXTENDS DeliveryLedger, SequencesExt

CONSTANT Artifacts  \* the artifacts that are imported

Shapes == {"absent", "opaque", "hollow", "structured"}

Text == [text |-> TRUE]
NoSummary == <<>>

\* nested says that a delegateHistory in the summary holds a reviewer's evidence,
\* loose that it has rows or a verdict of its own.
Summaries == [coderEvidence : Shapes, reviewerEvidence : Shapes, delegateHistory : Shapes,
              nested : BOOLEAN, loose : BOOLEAN]
ASSUME ArtifactsAssumption ==
    Artifacts \subseteq {Text} \cup [coderEvidence : Shapes, reviewerEvidence : Shapes,
                                     delegateHistory : Shapes,
                                     summary : {NoSummary, Text} \cup Summaries]

IsObject(shape) == shape \in {"hollow", "structured"}

Template(kind, payload) == [kind |-> kind, payload |-> payload, status |-> "recorded"]

MirrorOf(field) ==
    Template(IF field = "reviewerEvidence" THEN "reviewer_evidence" ELSE "coder_evidence",
             OtherPayload)

ImportOf(from, structured) ==
    [Template("legacy_import", LegacyPayload(from, structured))
        EXCEPT !.status = IF structured THEN "recorded" ELSE "rejected"]

\* The free-form branch, importGenericObject and importFreeFormFallback.
FreeForm == <<ImportOf("freeFormOnly", FALSE)>>

\* importCoderEvidence, importReviewerEvidence, importDelegateHistory.
ImportField(field, shape) ==
    CASE shape = "opaque" -> FreeForm
      [] shape = "hollow" -> <<ImportOf(field, FALSE)>>
      [] shape = "structured" -> <<ImportOf(field, TRUE), MirrorOf(field)>>

\* importSummary: an object is mirrored without a look at what is in it, and a
\* reviewer's evidence is taken from the history if it is nowhere else.
ImportSummary(summary) ==
    LET structured == /\ summary # Text
                      /\ \/ IsObject(summary.coderEvidence) \/ IsObject(summary.reviewerEvidence)
                         \/ summary.delegateHistory # "absent" \/ summary.nested \/ summary.loose
        coder == IF IsObject(summary.coderEvidence) THEN <<MirrorOf("coderEvidence")>> ELSE <<>>
        reviewer == IF IsObject(summary.reviewerEvidence) \/ summary.nested
                    THEN <<MirrorOf("reviewerEvidence")>> ELSE <<>>
    IN  IF structured THEN <<ImportOf("summary", TRUE)>> \o coder \o reviewer
        ELSE <<ImportOf("summary", FALSE)>>

\* importLegacyEvidence: the first field that is there decides.
ImportsOf(artifact) ==
    CASE artifact = Text -> FreeForm
      [] artifact # Text /\ artifact.coderEvidence # "absent" ->
            ImportField("coderEvidence", artifact.coderEvidence)
      [] artifact # Text /\ artifact.coderEvidence = "absent"
            /\ artifact.reviewerEvidence # "absent" ->
            ImportField("reviewerEvidence", artifact.reviewerEvidence)
      [] artifact # Text /\ artifact.coderEvidence = "absent"
            /\ artifact.reviewerEvidence = "absent" /\ artifact.delegateHistory # "absent" ->
            ImportField("delegateHistory", artifact.delegateHistory)
      [] OTHER -> IF artifact.summary # NoSummary THEN ImportSummary(artifact.summary) ELSE FreeForm

\* The number of an id counts the events of its kind that came before, here too.
NewEvents(list, imports) ==
    [k \in DOMAIN imports |->
        [id |-> <<imports[k].kind, CountEventsByKind(list, imports[k].kind)
                                     + CountEventsByKind(SubSeq(imports, 1, k), imports[k].kind)>>,
         run |-> Run, kind |-> imports[k].kind, status |-> imports[k].status,
         payload |-> imports[k].payload]]

\* The events are appended one by one; if one cannot be, none of them is.
ImportLegacyEvidence(artifact) ==
    LET imported == events \o NewEvents(events, ImportsOf(artifact))
    IN  /\ Len(imported) <= MaxEvents
        /\ \A i \in (Len(events) + 1)..Len(imported) :
              MayAppend(SubSeq(imported, 1, i - 1), imported[i])
        /\ events' = imported

LedgerNext ==
    \/ \E run \in {Run, OtherRun}, kind \in Kinds, status \in EvidenceStatuses,
          id \in CustomIds \cup {<<>>} :
            \E payload \in PayloadsOf(kind) : AppendEvent(run, kind, status, payload, id)
    \/ \E i \in DOMAIN events, status \in EvidenceStatuses :
            MarkEventStatus(events[i].id, status)
    \/ \E artifact \in Artifacts : ImportLegacyEvidence(artifact)

LedgerSpec == LedgerInit /\ [][LedgerNext]_ledgerVars

-------------------------------------------------------------------------------
(* Properties *)

\* Free-form evidence never counts as accepted: not by an append, not by an
\* import, not by any sequence of markings.  The second line of defence has
\* nothing left to do (isFreeFormLegacyImport and its three guards).
FreeFormIsNoAuthority ==
    /\ \A i \in DOMAIN events :
          events[i].status = "accepted" /\ events[i].kind = "legacy_import" =>
              events[i].payload.structured /\ events[i].payload.importedFrom # "freeFormOnly"
    /\ FindAcceptedCurrentRun("legacy_import") =
          {i \in FindCurrentEvents("legacy_import") : events[i].status = "accepted"}

===============================================================================
