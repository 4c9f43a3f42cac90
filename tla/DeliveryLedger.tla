---------------------------- MODULE DeliveryLedger ----------------------------
(***************************************************************************)
(* The evidence ledger of a delivery run (workflow/delivery/ledger.ts): an  *)
(* append-only list of events, whose status alone is changed afterwards.    *)
(* The helpers are pure; the callers keep the ledger and may choose the     *)
(* ids.  A helper that throws leaves the ledger as it was.                  *)
(*                                                                          *)
(* An id is <<kind, number>>, as the run id in it is the ledger's; one that *)
(* a caller chooses may look the same.  Of a payload there is what tells    *)
(* authority apart: where an import comes from and whether it had           *)
(* structure.  Times, by which queries sort, are left out.                  *)
(***************************************************************************)
EXTENDS Naturals, Sequences, FiniteSets

CONSTANTS
    Run, OtherRun,  \* the ledger's run, and another
    Kinds,          \* kinds of events that are appended
    AppendSources,  \* sources of the imports that callers append themselves
    CustomIds,      \* ids callers choose
    MaxEvents       \* bound: events of a ledger

VARIABLE events

ledgerVars == <<events>>

ImportSources == {"coderEvidence", "reviewerEvidence", "summary", "delegateHistory",
                  "doneSidecar", "freeFormOnly"}

ASSUME KindsAssumption ==
    /\ Kinds \subseteq {"coder_evidence", "reviewer_evidence", "gate_decision", "legacy_import",
                        "finalization_decision", "quality_audit_blocker", "afk_reference"}
    /\ AppendSources \subseteq ImportSources

EvidenceStatuses == {"recorded", "accepted", "rejected", "superseded"}

LegacyPayload(from, structured) == [importedFrom |-> from, structured |-> structured]
OtherPayload == [plain |-> TRUE]

\* buildEvent: a payload is made to fit its kind; no known source is free form.
PayloadsOf(kind) ==
    IF kind = "legacy_import"
    THEN {LegacyPayload(from, structured) : from \in AppendSources, structured \in BOOLEAN}
    ELSE {OtherPayload}

LedgerInit == events = <<>>

-------------------------------------------------------------------------------
(* Ids and authority *)

\* Mutant of IsFreeFormLegacyImport: a source that is named will do.
IsNamelessLegacyImport(event) ==
    event.kind = "legacy_import" /\ event.payload.importedFrom = "freeFormOnly"

IsFreeFormLegacyImport(event) ==
    /\ event.kind = "legacy_import"
    /\ ~event.payload.structured \/ event.payload.importedFrom = "freeFormOnly"

CountEventsByKind(list, kind) == Cardinality({i \in DOMAIN list : list[i].kind = kind})

\* nextEventId without a chosen id or number.
GeneratedId(list, kind) == <<kind, CountEventsByKind(list, kind) + 1>>

IsFresh(list, event) == \A i \in DOMAIN list : list[i].id # event.id

\* appendEvent: what it throws on, and what it returns.
MayAppend(list, event) ==
    /\ event.run = Run
    /\ ~(event.status = "accepted" /\ IsFreeFormLegacyImport(event))
    /\ IsFresh(list, event)

NewEvent(list, kind, status, payload) ==
    [id |-> GeneratedId(list, kind), run |-> Run, kind |-> kind, status |-> status,
     payload |-> payload]

-------------------------------------------------------------------------------
(* Queries *)

IsCurrent(event) == event.run = Run /\ event.status \notin {"superseded", "rejected"}

\* findCurrentEvents
FindCurrentEvents(kind) == {i \in DOMAIN events : events[i].kind = kind /\ IsCurrent(events[i])}

FindAcceptedCurrentRun(kind) ==
    {i \in FindCurrentEvents(kind) : /\ events[i].status = "accepted"
                                     /\ ~IsFreeFormLegacyImport(events[i])}

-------------------------------------------------------------------------------
(* Operations *)

AppendEvent(run, kind, status, payload, id) ==
    LET event == [NewEvent(events, kind, status, payload)
                    EXCEPT !.run = run, !.id = IF id = <<>> THEN @ ELSE id]
    IN  /\ Len(events) < MaxEvents
        /\ MayAppend(events, event)
        /\ events' = Append(events, event)

\* markEventStatus: from any status to any.
MarkEventStatus(id, status) ==
    \E i \in DOMAIN events :
        /\ events[i].id = id
        /\ \A j \in DOMAIN events : events[j].id = id => j = i
        /\ ~(status = "accepted" /\ IsFreeFormLegacyImport(events[i]))
        /\ events' = [events EXCEPT ![i].status = status]

===============================================================================
