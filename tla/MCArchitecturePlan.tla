-------------------------- MODULE MCArchitecturePlan --------------------------
(***************************************************************************)
(* Small instances of one architecture plan for TLC: two criteria, of which *)
(* the second may be added later, and rows that are fit for a ready plan or *)
(* not.  Each patch changes one thing, or repairs a plan in one go.         *)
(***************************************************************************)
EXTENDS ArchitecturePlan, FiniteSets, TLC

CONSTANTS First, Second,        \* the criteria
          Fit, Unfit            \* the rows

NoMatrix == [criterion \in {} |-> Fit]
FitFor(criteria) == [criterion \in criteria |-> Fit]

SomeRecordings ==
    {[status |-> "ready", criteria |-> {First}, matrix |-> FitFor({First}), open |-> FALSE],
     [status |-> "draft", criteria |-> {First}, matrix |-> NoMatrix, open |-> FALSE]}

Same == [status |-> Keep, criteria |-> Keep, matrix |-> Keep, open |-> Keep]

SomePatches ==
    {Same,
     [Same EXCEPT !.status = "draft"],
     [Same EXCEPT !.status = "ready", !.open = FALSE],
     [Same EXCEPT !.open = TRUE],
     [Same EXCEPT !.criteria = {First, Second}],
     [Same EXCEPT !.matrix = [FitFor({First}) EXCEPT ![First] = Unfit]],
     [Same EXCEPT !.matrix = FitFor({First})]}

Legacy(status, matrix, rows) ==
    [status |-> status, criteria |-> {First}, matrix |-> matrix, rows |-> rows, open |-> FALSE,
     phases |-> [phase \in PhaseIds |-> "not_started"]]

\* A ready plan from before the matrix, and plans of which a row is malformed.
LegacyPlans == {Legacy("ready", NoMatrix, "whole")}
MalformedPlans == {Legacy(status, FitFor({First}), "malformed") : status \in PlanStatuses}

\* Once calls have overlapped, only the first criterion and phase A are in use,
\* and nobody has worked on phase B before.
IsPlain(plan) ==
    /\ plan.criteria = {First}
    /\ plan.matrix \in {NoMatrix, FitFor({First})}
    /\ ~plan.open
    /\ plan.phases["phaseB"] = "not_started"

PlanInUse ==
    overlapped =>
        /\ ~worked["phaseB"]
        /\ \A result \in earned : result[1] = "phaseA"
        /\ IsPlan(file) => IsPlain(file)
        /\ \A c \in Callers :
               call[c] /= NoCall =>
                   /\ call[c].phase = "phaseA"
                   /\ call[c].step \in {"read", "opened"} => IsPlain(call[c].next)

===============================================================================
