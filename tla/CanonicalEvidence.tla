--------------------------- MODULE CanonicalEvidence ---------------------------
(***************************************************************************)
(* The one place a delegate's structured evidence is read from: the         *)
(* canonical envelope `done.evidence` (delegate/canonical-evidence.ts).     *)
(*                                                                          *)
(* A JSON object is a record that has the fields it has; an undefined field *)
(* is no field.  The objects the callers hand in are the sidecar a delegate *)
(* wrote and the details its runner attached, so anything may be in them.   *)
(***************************************************************************)
EXTENDS Naturals, Sequences, SequencesExt

Has(json, field) == field \in DOMAIN json

\* The entries of a list that pass the test, each at its place.
Keep(list, Test(_)) == [i \in {j \in DOMAIN list : Test(list[j])} |-> list[i]]

IsEmpty(kept) == DOMAIN kept = {}
First(kept) == kept[Min(DOMAIN kept)]

\* A record of the fields of both, those of `one` in front.
Joined(one, other) ==
    [f \in DOMAIN one \cup DOMAIN other |-> IF f \in DOMAIN one THEN one[f] ELSE other[f]]

Payloads == {"coderEvidence", "reviewerEvidence"}

\* What a full done sidecar, or a runner's details, is told by.
SidecarMarkers == {"done", "completion", "source", "from_exit", "from_auto_exit",
                   "at", "tool", "exit_code", "stop_reason", "warning", "summary",
                   "delegateHistory"}

LooksLikeFullSidecar(json) == DOMAIN json \cap SidecarMarkers # {}

HasPayload(envelope) == DOMAIN envelope \cap Payloads # {}

Nothing == [provenance |-> "none"]

Canonical(envelope) ==
    Joined([provenance |-> "canonical"], [f \in DOMAIN envelope \cap Payloads |-> envelope[f]])

IsCanonicalEvent(event) == Has(event, "provenance") /\ event.provenance = "canonical"

EvidenceOf(kind) == IF kind = "coder_evidence" THEN "coderEvidence" ELSE "reviewerEvidence"

IsEvidenceEvent(json) ==
    Has(json, "kind") /\ json.kind \in {"coder_evidence", "reviewer_evidence"}

PayloadFromEvent(event) ==
    [field \in {f \in {EvidenceOf(event.kind)} : Has(event, "payload")} |-> event.payload]

FromEvent(event) ==
    IF IsCanonicalEvent(event) THEN Canonical(PayloadFromEvent(event)) ELSE Nothing

\* The first canonical event of a kind in a ledger says it all.
PickFromLedger(events, kind) ==
    LET ofKind == Keep(events, LAMBDA e : IsEvidenceEvent(e) /\ e.kind = kind /\ IsCanonicalEvent(e))
    IN  IF IsEmpty(ofKind) THEN <<>> ELSE PayloadFromEvent(First(ofKind))

FromLedger(events) ==
    LET found == Joined(PickFromLedger(events, "coder_evidence"),
                        PickFromLedger(events, "reviewer_evidence"))
    IN  IF HasPayload(found) THEN Canonical(found) ELSE Nothing

-------------------------------------------------------------------------------

\* Where an envelope may sit in an object, in the order in which it is sought;
\* the object itself is one unless it looks like a whole sidecar.
Envelopes(json) ==
    (IF Has(json, "evidence") THEN <<json.evidence>> ELSE <<>>)
    \o (IF Has(json, "done") /\ Has(json.done, "evidence")
        THEN <<json.done.evidence>> ELSE <<>>)
    \o (IF LooksLikeFullSidecar(json) THEN <<>> ELSE <<json>>)

Carrying(json) ==
    Keep(Envelopes(json), LAMBDA e : HasPayload(e) \/ Has(e, "event"))

CarriesEvent(json) == ~IsEmpty(Carrying(json)) /\ ~HasPayload(First(Carrying(json)))

\* What an object yields, if the event its envelope carries yields that.
Extraction(json, ofEvent) ==
    CASE CarriesEvent(json) -> ofEvent
      [] ~IsEmpty(Carrying(json)) /\ ~CarriesEvent(json) -> Canonical(First(Carrying(json)))
      [] IsEmpty(Carrying(json)) /\ IsEvidenceEvent(json) -> FromEvent(json)
      [] IsEmpty(Carrying(json)) /\ ~IsEvidenceEvent(json) /\ Has(json, "events") ->
            FromLedger(json.events)
      [] OTHER -> Nothing

\* The code recurses into an event; an event within an event is left unread here.
ExtractCanonicalEvidence(json) ==
    Extraction(json, IF CarriesEvent(json)
                     THEN Extraction(First(Carrying(json)).event, Nothing) ELSE Nothing)

===============================================================================
