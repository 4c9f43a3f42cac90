---------------------------- MODULE MCPlanningGate ----------------------------
(***************************************************************************)
(* Small instances of the planning gates for TLC.  Two processes and two    *)
(* rooms are too many for everything at once: InUse lets both processes     *)
(* work while only one room has a file, or while both are being created,    *)
(* and both rooms fill while one process works.                             *)
(***************************************************************************)
EXTENDS PlanningGate, Integers, FiniteSets, TLC

\* What the sprint gate asks for, and the last confirmation alone.
Updates == {<<StateNames \ {"implementation_confirmed"}, {}>>,
            <<{"implementation_confirmed"}, {}>>}

OneRoom == Cardinality({room \in Rooms : stateFile[room] /= Missing}) <= 1

OneProcess ==
    /\ Cardinality({p \in Processes : planningCall[p] /= Idle}) <= 1
    /\ \A room \in Rooms : ~planningOverlapped[room]

OnlyCreated ==
    LET new == {Created(scope) : scope \in Scopes} IN
    /\ \A room \in Rooms : stateFile[room] \in {Missing, Torn} \cup new
    /\ \A p \in Processes : planningCall[p] = Idle \/ planningCall[p].next \in new

PlanningInUse == OneRoom \/ OneProcess \/ OnlyCreated

===============================================================================
