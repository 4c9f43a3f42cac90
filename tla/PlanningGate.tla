----------------------------- MODULE PlanningGate -----------------------------
(***************************************************************************)
(* The PRD-first planning state and its gates (extensions/workflow/         *)
(* planning-state.ts, planning-tools.ts, planning-pointer.ts and            *)
(* planning-gate-runtime.ts).                                               *)
(*                                                                          *)
(* Each planning room has a file planning-state.json: the scope of the      *)
(* work, four confirmation flags, and whether a material change has         *)
(* invalidated them.  The sprint tools and delegate_to_coder ask the gates, *)
(* which read that file; a call that names no room finds it through the     *)
(* pointer that the last planning write left in planning-current.json.      *)
(*                                                                          *)
(* Every writing call of workflow_planning_state reads the file, derives    *)
(* the next record, rewrites the file and rewrites the pointer.  Within a   *)
(* process nothing comes between; but several processes work in the same    *)
(* directory, there is no lock, writeFileSync truncates before it writes,   *)
(* and a process may be killed anywhere.                                    *)
(*                                                                          *)
(* Abstracted: paths, task ids, versions and transitions, which no gate     *)
(* reads; an invalidation is there or not (its kind is only printed); an    *)
(* approval text is the stage it confirms explicitly, if any.  A call that  *)
(* names no room works on one that another call may name.                   *)
(***************************************************************************)
CONSTANTS
    Processes,      \* pi processes in one working directory
    Rooms,          \* planning room ids
    Scopes,         \* the scope classifications in use
    FlagUpdates,    \* <<on, off>>: the flags a set_flag call turns on and off
    Missing,        \* no such file
    Torn,           \* a file that is not valid JSON
    Idle            \* no call

VARIABLES
    stateFile,               \* each room's planning-state.json
    planningPointer,    \* planning-current.json
    workflowPointer,    \* current.json, of the workflow rooms
    planningCall,               \* each process: the writing call it is in
    owed,               \* history: flags that await a confirmation
    unanswered,         \* history: an invalidation the user has not answered
    planningOverlapped          \* history: two calls on the room have overlapped

planningVars == <<stateFile, planningPointer, workflowPointer, planningCall, owed, unanswered, planningOverlapped>>
planningHistory == <<owed, unanswered, planningOverlapped>>

-------------------------------------------------------------------------------
StateNames == {"prd_started", "prd_ready_for_sprint", "sprint_confirmed",
               "implementation_confirmed"}
ScopeClassifications == {"tiny_debug", "non_trivial", "expanded_from_tiny"}
NonTrivialScopes == {"non_trivial", "expanded_from_tiny"}
InvalidationKinds == {"prd_or_scope", "architecture_or_evidence"}
Stages == {"sprint", "implementation"}

Confirmations == StateNames \ {"prd_started"}

\* What a material change of each kind clears.
Cleared(kind) ==
    IF kind = "prd_or_scope" THEN Confirmations ELSE {"implementation_confirmed"}

PlanningStates == [scope : ScopeClassifications, flags : SUBSET StateNames,
                   invalidated : BOOLEAN]

\* A call has read the file ("read"), truncated it ("state"), written it
\* ("pointer"), truncated the pointer ("pointing").  The last three fields are
\* for the history: what the call voids and gives, and its being an invalidation.
PlanningCalls == [phase : {"read", "state", "pointer", "pointing"},
          room : Rooms,
          next : PlanningStates,
          voids : SUBSET Confirmations,
          gives : SUBSET Confirmations,
          invalidates : BOOLEAN]

ASSUME PlanningInputsAssumption ==
    /\ Scopes \subseteq ScopeClassifications
    /\ FlagUpdates \subseteq (SUBSET StateNames) \X (SUBSET StateNames)
    /\ \A update \in FlagUpdates : update[1] \cap update[2] = {}
ASSUME PlanningAbsentAssumption ==
    /\ Missing /= Torn
    /\ Missing \notin Rooms \cup PlanningStates
    /\ Torn \notin Rooms \cup PlanningStates
    /\ Idle \notin PlanningCalls

-------------------------------------------------------------------------------
(* The records a call derives from the one it read. *)

IsNonTrivial(state) == state.scope \in NonTrivialScopes

Created(scope) == [scope |-> scope, flags |-> {}, invalidated |-> FALSE]

\* applyFlagUpdates: recording any flag takes the invalidation off the record.
WithFlags(state, on, off) ==
    [state EXCEPT !.flags = (@ \cup on) \ off, !.invalidated = FALSE]

Invalidated(state, kind) ==
    [state EXCEPT !.flags = @ \ Cleared(kind), !.invalidated = TRUE]

\* Mutant: only a promotion to non_trivial asks for new confirmations.
IsPromotionToNonTrivial(state, scope) ==
    state.scope /= "non_trivial" /\ scope = "non_trivial"

IsPromotion(state, scope) ==
    state.scope /= "non_trivial" /\ scope \in NonTrivialScopes

Reclassified(state, scope) ==
    IF IsPromotion(state, scope)
    THEN [Invalidated(state, "prd_or_scope") EXCEPT !.scope = scope]
    ELSE [state EXCEPT !.scope = scope]

-------------------------------------------------------------------------------
(* The gates.  No caller enables the tiny_debug bypass. *)

SprintGateAllows(state) ==
    /\ IsNonTrivial(state)
    /\ ~state.invalidated
    /\ StateNames \ {"implementation_confirmed"} \subseteq state.flags

ImplementationGateAllows(state) ==
    /\ IsNonTrivial(state)
    /\ ~state.invalidated
    /\ StateNames \subseteq state.flags

\* readPlanningState: a file that is missing or torn has no state.
IsReadable(room) == stateFile[room] \notin {Missing, Torn}

\* resolvePlanningRoomId for a call that names no room; Torn is a refusal.
GateRoom ==
    CASE planningPointer \in Rooms /\ stateFile[planningPointer] /= Missing -> planningPointer
      [] planningPointer = Torn -> Torn
      [] OTHER ->
           IF workflowPointer \in Rooms /\ stateFile[workflowPointer] /= Missing
           THEN workflowPointer ELSE planningPointer

-------------------------------------------------------------------------------
(* workflow_planning_state. *)

PlanningInit ==
    /\ stateFile = [room \in Rooms |-> Missing]
    /\ planningPointer = Missing
    /\ workflowPointer = Missing
    /\ planningCall = [p \in Processes |-> Idle]
    /\ owed = [room \in Rooms |-> Confirmations]
    /\ unanswered = [room \in Rooms |-> FALSE]
    /\ planningOverlapped = [room \in Rooms |-> FALSE]

\* p has read the file of the room and not yet written it.
Holds(p, room) ==
    planningCall[p] /= Idle /\ planningCall[p].room = room /\ planningCall[p].phase \in {"read", "state"}

PlanningBegin(p, room, next, voids, gives, invalidates) ==
    /\ planningCall[p] = Idle
    /\ planningCall' = [planningCall EXCEPT ![p] =
           [phase |-> "read", room |-> room, next |-> next, voids |-> voids,
            gives |-> gives, invalidates |-> invalidates]]
    /\ planningOverlapped' = [planningOverlapped EXCEPT ![room] = @ \/ \E q \in Processes : Holds(q, room)]
    /\ UNCHANGED <<stateFile, planningPointer, workflowPointer, owed, unanswered>>

Create(p, room) ==
    /\ stateFile[room] = Missing
    /\ \E scope \in Scopes :
           PlanningBegin(p, room, Created(scope), Confirmations, {}, FALSE)

\* A stage's flag is turned on only by a text that confirms this very stage, and
\* a text confirms one stage at most.  Confirmations of a room that is not
\* non-trivial work count for nothing.
IsConfirmedBy(on, stage) ==
    /\ "sprint_confirmed" \in on => stage = "sprint"
    /\ "implementation_confirmed" \in on => stage = "implementation"

SetFlag(p, room) ==
    /\ IsReadable(room)
    /\ \E update \in FlagUpdates, stage \in Stages :
           /\ IsConfirmedBy(update[1], stage)
           /\ PlanningBegin(p, room, WithFlags(stateFile[room], update[1], update[2]), {},
                    IF IsNonTrivial(stateFile[room])
                    THEN update[1] \cap Confirmations ELSE {},
                    FALSE)

SetScopeClassification(p, room) ==
    /\ IsReadable(room)
    /\ \E scope \in Scopes :
           PlanningBegin(p, room, Reclassified(stateFile[room], scope),
                 IF IsPromotion(stateFile[room], scope) \/ scope \notin NonTrivialScopes
                 THEN Confirmations ELSE {},
                 {}, IsPromotion(stateFile[room], scope))

Invalidate(p, room) ==
    /\ IsReadable(room)
    /\ \E kind \in InvalidationKinds :
           PlanningBegin(p, room, Invalidated(stateFile[room], kind), Cleared(kind), {}, TRUE)

\* writePlanningState, first file: truncated, then written at offset 0.  If
\* another process has written since the truncation, its end may remain.
TruncateState(p) ==
    /\ planningCall[p] /= Idle /\ planningCall[p].phase = "read"
    /\ stateFile' = [stateFile EXCEPT ![planningCall[p].room] = Torn]
    /\ planningCall' = [planningCall EXCEPT ![p].phase = "state"]
    /\ UNCHANGED <<planningPointer, workflowPointer, planningHistory>>

WriteState(p) ==
    LET c == planningCall[p] IN
    /\ c /= Idle /\ c.phase = "state"
    /\ \/ stateFile' = [stateFile EXCEPT ![c.room] = c.next]
       \/ stateFile[c.room] /= Torn /\ stateFile' = [stateFile EXCEPT ![c.room] = Torn]
    /\ owed' = [owed EXCEPT ![c.room] = (@ \cup c.voids) \ c.gives]
    /\ unanswered' = [unanswered EXCEPT ![c.room] =
           c.invalidates \/ (@ /\ "sprint_confirmed" \notin c.gives)]
    /\ planningCall' = [planningCall EXCEPT ![p].phase = "pointer"]
    /\ UNCHANGED <<planningPointer, workflowPointer, planningOverlapped>>

IsPointerDue(c) == c.phase = "pointer"

\* writePlanningState, second file.
TruncatePointer(p) ==
    /\ planningCall[p] /= Idle /\ IsPointerDue(planningCall[p])
    /\ planningPointer' = Torn
    /\ planningCall' = [planningCall EXCEPT ![p].phase = "pointing"]
    /\ UNCHANGED <<stateFile, workflowPointer, planningHistory>>

WritePointer(p) ==
    LET c == planningCall[p] IN
    /\ c /= Idle /\ c.phase = "pointing"
    /\ \/ planningPointer' = c.room
       \/ planningPointer \notin {Torn, c.room} /\ planningPointer' = Torn
    /\ planningCall' = [planningCall EXCEPT ![p] = Idle]
    /\ UNCHANGED <<stateFile, workflowPointer, planningHistory>>

\* The process is killed; the next one starts without a call.
PlanningDie(p) ==
    /\ planningCall[p] /= Idle
    /\ planningCall' = [planningCall EXCEPT ![p] = Idle]
    /\ UNCHANGED <<stateFile, planningPointer, workflowPointer, planningHistory>>

\* room_create of a workflow room moves the other pointer; while it is truncated,
\* or if the process is killed then, it reads as none.
CreateWorkflowRoom(room) ==
    /\ workflowPointer' \in {room, Missing}
    /\ UNCHANGED <<stateFile, planningPointer, planningCall, planningHistory>>

PlanningStep(p) ==
    \/ \E room \in Rooms : \/ Create(p, room)
                           \/ SetFlag(p, room)
                           \/ SetScopeClassification(p, room)
                           \/ Invalidate(p, room)
    \/ TruncateState(p) \/ WriteState(p)
    \/ TruncatePointer(p) \/ WritePointer(p)
    \/ PlanningDie(p)

PlanningNext ==
    \/ \E p \in Processes : PlanningStep(p)
    \/ \E room \in Rooms : CreateWorkflowRoom(room)

PlanningSpec == PlanningInit /\ [][PlanningNext]_planningVars

-------------------------------------------------------------------------------
PlanningTypeOK ==
    /\ stateFile \in [Rooms -> PlanningStates \cup {Missing, Torn}]
    /\ planningPointer \in Rooms \cup {Missing, Torn}
    /\ workflowPointer \in Rooms \cup {Missing}
    /\ planningCall \in [Processes -> PlanningCalls \cup {Idle}]
    /\ owed \in [Rooms -> SUBSET Confirmations]
    /\ unanswered \in [Rooms -> BOOLEAN]
    /\ planningOverlapped \in [Rooms -> BOOLEAN]

\* A gate never opens on a confirmation that a later material change has voided,
\* nor on one given while the room was tiny_debug work, however flags, scopes and
\* invalidations follow each other and whoever is killed where: what opens it was
\* confirmed since, for this room.  Only calls on the room that overlapped, the
\* unlocked read-modify-write of two processes, can bring an old flag back.
GatesRestOnConfirmations ==
    \A room \in Rooms :
        IsReadable(room) /\ ~planningOverlapped[room] =>
            /\ SprintGateAllows(stateFile[room]) =>
                   owed[room] \subseteq {"implementation_confirmed"}
            /\ ImplementationGateAllows(stateFile[room]) => owed[room] = {}

\* The pointer never names a room without a state file: the file is written
\* first, so a kill between the two writes leaves the pointer where it was.
PointedRoomHasState == planningPointer \in Rooms => stateFile[planningPointer] /= Missing

\* README.md:150: the dedicated pointer keeps the gates "decoupled ... from
\* runtime workflow room churn".  Once there is one, only a planning write moves
\* the room of a gate call that names none.
ChurnDoesNotMoveGates ==
    [][planningPointer /= Missing /\ planningPointer' = planningPointer
          => GateRoom' = GateRoom]_planningVars

\* scripts/task-006-prd-planning-gate-smokes.ts:401, after an architecture
\* change: "the sprint gate must also block until the user re-issues the (PRD +
\* sprint) confirmations for the new architecture/evidence material version."
SprintGateAwaitsReissue ==
    \A room \in Rooms :
        IsReadable(room) /\ unanswered[room] /\ ~planningOverlapped[room] =>
            ~SprintGateAllows(stateFile[room])

===============================================================================
