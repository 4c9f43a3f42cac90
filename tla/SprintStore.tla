----------------------------- MODULE SprintStore -----------------------------
(***************************************************************************)
(* The .sprints directory of a workspace and the sessions that share it     *)
(* (sprint/store.ts, tools.ts, command.ts, start-session.ts, hooks.ts): the *)
(* sprints, the task files, the pointer current.json, and the binding that  *)
(* pins a session to one task.                                              *)
(*                                                                          *)
(* A tool body runs without an await and is one step, with two exceptions.  *)
(* Starting a task session and asking the user whether to create a sprint   *)
(* wait for an answer between what they read and what they write.  And the  *)
(* id of a new task is computed from a listing of the directory before the  *)
(* file is written, by sessions of different processes.                     *)
(*                                                                          *)
(* The directory is listed in no order, so the first file whose name begins *)
(* with the id is any of them.                                              *)
(***************************************************************************)
EXTENDS Naturals, FiniteSetsExt, TLC

CONSTANTS
    Sprints,        \* directories a sprint may have: its day and the slug of its name
    Slugs,          \* slugs of task titles
    Sessions,       \* sessions, each of a process of its own
    None,           \* no sprint, no task, no binding
    MaxTasks        \* bound: task files

\* "todo" and "in_progress" are told apart by nothing that follows.
Statuses == {"open", "done"}

VARIABLES
    created,        \* sprints that have their sprint.json
    tasks,          \* task files, by sprint, id and slug: the status
    current,        \* current.json, None when there is no such file
    gateOpen,       \* what the planning gate answers for "sprint" (module PlanningGate)
    binding,        \* the sprint binding of the session a process is in
    pending,        \* what a process was about when it waited, or listed the tasks
    declined        \* processes whose user wanted no sprint (DECLINED_CWDS)

sprintVars == <<created, tasks, current, gateOpen, binding, pending, declined>>

Pointer(sprint, task) == [sprint |-> sprint, task |-> task]

Idle == [at |-> "idle"]

\* A directory, as a function of its files, once a file was written.
Saved(files, file, content) ==
    [f \in DOMAIN files \cup {file} |-> IF f = file THEN content ELSE files[f]]

SprintInit ==
    /\ created = {}
    /\ tasks = <<>>
    /\ current = None
    /\ gateOpen \in BOOLEAN
    /\ binding = [p \in Sessions |-> None]
    /\ pending = [p \in Sessions |-> Idle]
    /\ declined = {}

-------------------------------------------------------------------------------
(* Pointers and what they resolve to *)

ActiveSprint == IF current = None THEN None ELSE current.sprint

\* normalizeActiveSprintPath: the pointed sprint must have its sprint.json.
IsSprint(sprint) == sprint \in created

IsTaskOf(file, sprint) == file \in DOMAIN tasks /\ file.sprint = sprint

\* resolveSprintAbs, the mutant: the shared pointer for everybody.
ResolveActiveSprint(p) == ActiveSprint

\* resolveSprintAbs: the session's own sprint before the shared pointer.
ResolveSprint(p) ==
    IF binding[p] # None /\ IsSprint(binding[p].file.sprint)
    THEN binding[p].file.sprint ELSE ActiveSprint

\* The files that updateTaskStatus, setActiveTask and findTaskFileInSprint may find.
Matches(sprint, id) == {file \in DOMAIN tasks : file.sprint = sprint /\ file.id = id}

TaskIds == {file.id : file \in DOMAIN tasks}

\* What sprint_read_context reports to a session.
ContextSource(p) ==
    IF binding[p] # None /\ IsSprint(binding[p].file.sprint)
                         /\ IsTaskOf(binding[p].file, binding[p].file.sprint)
    THEN Pointer(binding[p].file.sprint, binding[p].file)
    ELSE IF ActiveSprint # None /\ IsSprint(ActiveSprint)
            /\ (current.task = None \/ IsTaskOf(current.task, ActiveSprint))
    THEN current
    ELSE Pointer(None, None)

-------------------------------------------------------------------------------
(* Sprints *)

\* initSprints leaves an existing pointer alone.
InitSprints ==
    /\ current = None
    /\ current' = Pointer(None, None)
    /\ UNCHANGED <<created, tasks, gateOpen, binding, pending, declined>>

\* The files of an existing sprint of that name are kept.
CreateSprint(sprint) ==
    /\ created' = created \cup {sprint}
    /\ current' = Pointer(sprint, None)

\* /sprint new and sprint_create.
NewSprint(p) ==
    /\ pending[p] = Idle /\ gateOpen
    /\ \E sprint \in Sprints : CreateSprint(sprint)
    /\ UNCHANGED <<tasks, gateOpen, binding, pending, declined>>

\* before_agent_start goes past the pointers: neither the binding nor current.json
\* leads to a task or a sprint.  The process is no workflow child, its prompt not trivial.
WouldCreate(p) == ContextSource(p).sprint = None /\ p \notin declined

\* autoCreate is "always": the sprint is created on the spot.
AutoCreate(p) ==
    /\ pending[p] = Idle /\ WouldCreate(p) /\ gateOpen
    /\ \E sprint \in Sprints : CreateSprint(sprint)
    /\ UNCHANGED <<tasks, gateOpen, binding, pending, declined>>

\* autoCreate is "ask".
AskToCreate(p) ==
    /\ pending[p] = Idle /\ WouldCreate(p)
    /\ pending' = [pending EXCEPT ![p] = [at |-> "asked", gate |-> gateOpen]]
    /\ UNCHANGED <<created, tasks, current, gateOpen, binding, declined>>

\* Mutant of GateAtAnswer: the gate as it was when the user was asked.
GateWhenAsked(p) == pending[p].gate

\* The gate is evaluated after the user's answer.
GateAtAnswer(p) == gateOpen

UserAnswers(p) ==
    /\ pending[p].at = "asked"
    /\ \/ declined' = declined \cup {p} /\ UNCHANGED <<created, current>>
       \/ ~GateAtAnswer(p) /\ UNCHANGED <<created, current, declined>>
       \/ GateAtAnswer(p) /\ UNCHANGED declined /\ \E sprint \in Sprints : CreateSprint(sprint)
    /\ pending' = [pending EXCEPT ![p] = Idle]
    /\ UNCHANGED <<tasks, gateOpen, binding>>

-------------------------------------------------------------------------------
(* Tasks *)

\* nextTaskId
NextTaskId(sprint) ==
    LET ids == {file.id : file \in {f \in DOMAIN tasks : f.sprint = sprint}}
    IN  IF ids = {} THEN 1 ELSE Max(ids) + 1

\* createTask up to its listing of the directory, for the debug item `item` or none.
ListTasks(p, item) ==
    /\ pending[p] = Idle /\ gateOpen
    /\ ActiveSprint # None /\ IsSprint(ActiveSprint)
    /\ Cardinality(DOMAIN tasks) < MaxTasks
    /\ \E slug \in Slugs :
          pending' = [pending EXCEPT ![p] =
              [at |-> "creating", item |-> item,
               file |-> [sprint |-> ActiveSprint, id |-> NextTaskId(ActiveSprint), slug |-> slug]]]
    /\ UNCHANGED <<created, tasks, current, gateOpen, binding, declined>>

\* writeTaskFile, and the pointer read again: it may by now be that of another sprint.
WriteTask(p) ==
    /\ pending[p].at = "creating"
    /\ tasks' = Saved(tasks, pending[p].file, "open")
    /\ current' = IF current.task = None THEN [current EXCEPT !.task = pending[p].file]
                                         ELSE current
    /\ UNCHANGED <<created, gateOpen, binding, declined>>

CreateTask(p) ==
    /\ WriteTask(p) /\ pending[p].item = None
    /\ pending' = [pending EXCEPT ![p] = Idle]

\* sprint_set_active: the sprint's pointer is saved before the task is looked for.
SetActive(p) ==
    /\ pending[p] = Idle
    /\ \E sprint \in Sprints \cup {None}, id \in TaskIds \cup {None} :
          LET old == IF current = None THEN Pointer(None, None) ELSE current
              switched == IF sprint = None THEN old
                          ELSE Pointer(sprint, IF id = None THEN None ELSE old.task)
              found == Matches(switched.sprint, id)
          IN  /\ sprint = None \/ IsSprint(sprint)
              /\ \/ /\ found = {}
                    /\ sprint # None
                    /\ current' = switched
                 \/ \E file \in found : current' = [switched EXCEPT !.task = file]
    /\ UNCHANGED <<created, tasks, gateOpen, binding, pending, declined>>

\* updateTaskStatus of a session's tool: the file of its binding, or one by its id.
WrittenFiles(p, id) ==
    IF binding[p] # None
    THEN {file \in {binding[p].file} : IsTaskOf(file, ResolveSprint(p))}
    ELSE Matches(ResolveSprint(p), id)

\* sprint_update_task.  A final status passes the finalization gate (module
\* FinalizationGate) or is asked for in dry-run mode.
UpdateTask(p) ==
    /\ pending[p] = Idle
    /\ \E id \in TaskIds, status \in Statuses :
         /\ binding[p] # None => id = binding[p].file.id
         /\ \E file \in WrittenFiles(p, id) : tasks' = [tasks EXCEPT ![file] = status]
    /\ UNCHANGED <<created, current, gateOpen, binding, pending, declined>>

\* /sprint task done: the active sprint's task, past the finalization gate.
CommandDone(p) ==
    /\ pending[p] = Idle
    /\ \E id \in TaskIds : \E file \in Matches(ActiveSprint, id) :
          tasks' = [tasks EXCEPT ![file] = "done"]
    /\ UNCHANGED <<created, current, gateOpen, binding, pending, declined>>

-------------------------------------------------------------------------------
(* Task sessions *)

\* startSprintTaskSession up to newSession: the sprint and the file are settled.
StartSession(p) ==
    /\ pending[p] = Idle /\ gateOpen
    /\ \E id \in TaskIds : \E file \in Matches(ActiveSprint, id) :
          pending' = [pending EXCEPT ![p] = [at |-> "starting", file |-> file]]
    /\ UNCHANGED <<created, tasks, current, gateOpen, binding, declined>>

SessionCancelled(p) ==
    /\ pending[p].at = "starting"
    /\ pending' = [pending EXCEPT ![p] = Idle]
    /\ UNCHANGED <<created, tasks, current, gateOpen, binding, declined>>

\* setup: the new session is bound, then the status is written to the task of that
\* id in whichever sprint is active by now, then the pointer moves to the bound task.
SessionSetUp(p) ==
    /\ pending[p].at = "starting"
    /\ LET file == pending[p].file
           found == Matches(ActiveSprint, file.id)
       IN  /\ binding' = [binding EXCEPT ![p] = [file |-> file]]
           /\ \/ found = {} /\ UNCHANGED <<tasks, current>>
              \/ \E f \in found : /\ tasks' = [tasks EXCEPT ![f] = "open"]
                                  /\ current' = Pointer(file.sprint, file)
    /\ pending' = [pending EXCEPT ![p] = Idle]
    /\ UNCHANGED <<created, gateOpen, declined>>

\* The process turns to a session that has no binding.
UnboundSession(p) ==
    /\ pending[p] = Idle /\ binding[p] # None
    /\ binding' = [binding EXCEPT ![p] = None]
    /\ UNCHANGED <<created, tasks, current, gateOpen, pending, declined>>

\* The process ends between two steps.
Crash(p) ==
    /\ pending[p] # Idle
    /\ pending' = [pending EXCEPT ![p] = Idle]
    /\ binding' = [binding EXCEPT ![p] = None]
    /\ declined' = declined \ {p}
    /\ UNCHANGED <<created, tasks, current, gateOpen>>

\* Confirmations are recorded and withdrawn by others.
GateTurns ==
    /\ gateOpen' = ~gateOpen
    /\ UNCHANGED <<created, tasks, current, binding, pending, declined>>

SprintNext ==
    \/ InitSprints
    \/ GateTurns
    \/ \E p \in Sessions :
          \/ NewSprint(p) \/ AutoCreate(p) \/ AskToCreate(p) \/ UserAnswers(p)
          \/ ListTasks(p, None) \/ CreateTask(p)
          \/ SetActive(p) \/ UpdateTask(p) \/ CommandDone(p)
          \/ StartSession(p) \/ SessionCancelled(p) \/ SessionSetUp(p)
          \/ UnboundSession(p) \/ Crash(p)

-------------------------------------------------------------------------------
(* A session that was started for a task is told of that task and updates it, and no   *)
(* other, whatever sprint was or became active while the start waited or since, and    *)
(* however many files of one id there are (start-session.ts, sprint_read_context,      *)
(* sprint_update_task).                                                                *)
BoundSessionsKeepTheirTask ==
    \A p \in Sessions :
        binding[p] # None =>
            LET file == binding[p].file
            IN  /\ ContextSource(p) = Pointer(file.sprint, file)
                /\ WrittenFiles(p, file.id) = {file}

(* A sprint comes into being only while the planning gate allows it, also when the *)
(* user took long to answer the question of the hook (hooks.ts).                    *)
SprintsAreConfirmed == [][created' # created => gateOpen]_sprintVars

===============================================================================
