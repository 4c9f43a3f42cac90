--------------------------- MODULE DebugLaneProofs ----------------------------
(***************************************************************************)
(* What holds of sprints, tasks and debug items for any number of sessions,  *)
(* sprints, tasks and items.  Neither a sprint nor a task file is ever       *)
(* removed, so that what a process has read before it waited is still there  *)
(* when it goes on, although the pointers may have moved: this is what the   *)
(* invariant says of each of the places a process waits at.                  *)
(***************************************************************************)
EXTENDS DebugLane, FiniteSetTheorems, TLAPS

ItemStatuses == {"open", "done", "promoted"}

ItemRecords(files) ==
    [status : ItemStatuses, area : Areas \cup {None}, task : files \cup {None},
     how : {"strict", "dry-run", None}]

(* What is known of the task of a process that waits. *)
PendingFits(waiting, sprints, files, lane) ==
    /\ waiting.at = "creating" => waiting.file.sprint \in sprints
    /\ waiting.at \in {"starting", "promoting"} => waiting.file \in files
    /\ waiting.at \in {"creating", "promoting"} => waiting.item \in lane \cup {None}

SprintInv ==
    /\ pending = [p \in Sessions |-> pending[p]]
    /\ binding = [p \in Sessions |-> binding[p]]
    /\ \A file \in DOMAIN tasks : file.sprint \in created
    /\ \A p \in Sessions : PendingFits(pending[p], created, DOMAIN tasks, DOMAIN items)
    /\ \A p \in Sessions : binding[p] # None => binding[p].file \in DOMAIN tasks

ItemInv ==
    /\ IsFiniteSet(DOMAIN items)
    /\ \A i \in DOMAIN items : items[i] \in ItemRecords(DOMAIN tasks)
    /\ \A i \in DOMAIN items : items[i].how = "strict" => items[i].status # "open"
    /\ \A i \in DOMAIN items : items[i].status = "promoted" => items[i].task \in DOMAIN tasks

LaneInv == SprintInv /\ ItemInv

LEMMA InitInv == LaneInit => LaneInv
  <1> SUFFICES ASSUME LaneInit PROVE LaneInv
    OBVIOUS
  <1>1. DOMAIN tasks = {} /\ DOMAIN items = {}
    BY DEF LaneInit, SprintInit
  <1>2. SprintInv
    BY <1>1 DEF LaneInit, SprintInit, SprintInv, PendingFits, Idle
  <1>3. ItemInv
    BY <1>1, FS_EmptySet DEF ItemInv
  <1> QED
    BY <1>2, <1>3 DEF LaneInv

-------------------------------------------------------------------------------
(* Nothing is taken away.                                                     *)

LEMMA WriteTaskAdds ==
    ASSUME NEW p \in Sessions, WriteTask(p)
    PROVE  DOMAIN tasks' = DOMAIN tasks \cup {pending[p].file}
  BY DEF WriteTask, Saved

LEMMA PendingStillFits ==
    ASSUME NEW waiting, NEW sprints, NEW files, NEW lane, NEW more, NEW written, NEW longer,
           sprints \subseteq more, files \subseteq written, lane \subseteq longer,
           PendingFits(waiting, sprints, files, lane)
    PROVE  PendingFits(waiting, more, written, longer)
  BY DEF PendingFits

(* A step of one process that leaves the items, and what the others wait for, alone. *)
LEMMA ProcessStep ==
    ASSUME SprintInv, NEW p \in Sessions, NEW waiting, NEW bound,
           pending' = [pending EXCEPT ![p] = waiting],
           binding' = [binding EXCEPT ![p] = bound],
           created \subseteq created', DOMAIN tasks \subseteq DOMAIN tasks',
           DOMAIN items \subseteq DOMAIN items',
           \A file \in DOMAIN tasks' \ DOMAIN tasks : file.sprint \in created',
           PendingFits(waiting, created', DOMAIN tasks', DOMAIN items'),
           bound # None => bound.file \in DOMAIN tasks'
    PROVE  SprintInv'
  <1>1. \A q \in Sessions : PendingFits(pending'[q], created', DOMAIN tasks', DOMAIN items')
    BY PendingStillFits DEF SprintInv
  <1> QED
    BY <1>1 DEF SprintInv

(* The items when only task files were added. *)
LEMMA ItemsKept ==
    ASSUME ItemInv, items' = items, DOMAIN tasks \subseteq DOMAIN tasks'
    PROVE  ItemInv'
  BY DEF ItemInv, ItemRecords

-------------------------------------------------------------------------------
(* The steps of the sprint store.                                             *)

LEMMA IdleFits ==
    ASSUME NEW sprints, NEW files, NEW lane PROVE PendingFits(Idle, sprints, files, lane)
  BY DEF PendingFits, Idle

(* A process that keeps waiting, or bound, as it was. *)
LEMMA Untouched ==
    ASSUME SprintInv, NEW p \in Sessions
    PROVE  /\ pending = [pending EXCEPT ![p] = pending[p]]
           /\ binding = [binding EXCEPT ![p] = binding[p]]
           /\ PendingFits(pending[p], created, DOMAIN tasks, DOMAIN items)
           /\ binding[p] # None => binding[p].file \in DOMAIN tasks
  BY DEF SprintInv

\* A step that leaves alone what the processes wait for and are bound to.
LEMMA SprintKept ==
    ASSUME SprintInv, pending' = pending, binding' = binding,
           created \subseteq created', DOMAIN tasks' = DOMAIN tasks,
           DOMAIN items \subseteq DOMAIN items'
    PROVE  SprintInv'
  <1>1. \A q \in Sessions : PendingFits(pending'[q], created', DOMAIN tasks', DOMAIN items')
    BY PendingStillFits DEF SprintInv
  <1> QED
    BY <1>1 DEF SprintInv

\* Listing the tasks of the active sprint names a file of a sprint that exists.
LEMMA ListTasksStep ==
    ASSUME SprintInv, UNCHANGED items, NEW p \in Sessions, NEW item \in DOMAIN items \cup {None},
           ListTasks(p, item)
    PROVE  SprintInv'
  <1>1. PICK slug \in Slugs :
            pending' = [pending EXCEPT ![p] =
                [at |-> "creating", item |-> item,
                 file |-> [sprint |-> ActiveSprint, id |-> NextTaskId(ActiveSprint),
                           slug |-> slug]]]
    BY DEF ListTasks
  <1>2. PendingFits([at |-> "creating", item |-> item,
                     file |-> [sprint |-> ActiveSprint, id |-> NextTaskId(ActiveSprint),
                               slug |-> slug]],
                    created', DOMAIN tasks', DOMAIN items')
    BY DEF ListTasks, IsSprint, PendingFits
  <1> QED
    BY <1>1, <1>2, Untouched, ProcessStep DEF ListTasks

\* Writing the task file, whatever the process waits for after it.
LEMMA WriteTaskStep ==
    ASSUME SprintInv, UNCHANGED items, NEW p \in Sessions, WriteTask(p), NEW waiting,
           pending' = [pending EXCEPT ![p] = waiting],
           \/ waiting = Idle
           \/ waiting = [at |-> "promoting", item |-> pending[p].item, file |-> pending[p].file]
    PROVE  SprintInv'
  <1>1. DOMAIN tasks' = DOMAIN tasks \cup {pending[p].file}
    BY WriteTaskAdds
  <1>2. pending[p].at = "creating" /\ PendingFits(pending[p], created, DOMAIN tasks, DOMAIN items)
    BY Untouched DEF WriteTask
  <1>3. PendingFits(waiting, created', DOMAIN tasks', DOMAIN items')
    BY <1>1, <1>2, IdleFits DEF PendingFits
  <1>4. \A file \in DOMAIN tasks' \ DOMAIN tasks : file.sprint \in created'
    BY <1>1, <1>2 DEF PendingFits, WriteTask
  <1>5. binding[p] # None => binding[p].file \in DOMAIN tasks'
    BY <1>1, Untouched
  <1>6. created' = created /\ binding' = [binding EXCEPT ![p] = binding[p]]
    BY Untouched DEF WriteTask
  <1> QED
    BY <1>1, <1>3, <1>4, <1>5, <1>6, ProcessStep

\* A process that starts a session, or ends one, and writes no new file.
LEMMA SessionSteps ==
    ASSUME SprintInv, UNCHANGED items, NEW p \in Sessions,
           \/ AskToCreate(p) \/ UserAnswers(p) \/ StartSession(p) \/ SessionCancelled(p)
           \/ SessionSetUp(p) \/ UnboundSession(p) \/ Crash(p)
    PROVE  SprintInv'
  <1>1. CASE AskToCreate(p)
    <2>1. PendingFits([at |-> "asked", gate |-> gateOpen],
                      created', DOMAIN tasks', DOMAIN items')
      BY DEF PendingFits
    <2> QED
      BY <1>1, <2>1, Untouched, ProcessStep DEF AskToCreate
  <1>2. CASE UserAnswers(p)
    <2>1. created \subseteq created'
      BY <1>2 DEF UserAnswers, CreateSprint
    <2> QED
      BY <1>2, <2>1, IdleFits, Untouched, ProcessStep DEF UserAnswers
  <1>3. CASE StartSession(p)
    <2>1. PICK id \in TaskIds : \E file \in Matches(ActiveSprint, id) :
              pending' = [pending EXCEPT ![p] = [at |-> "starting", file |-> file]]
      BY <1>3 DEF StartSession
    <2>2. PICK file \in DOMAIN tasks :
              pending' = [pending EXCEPT ![p] = [at |-> "starting", file |-> file]]
      BY <2>1 DEF Matches
    <2>3. PendingFits([at |-> "starting", file |-> file],
                      created', DOMAIN tasks', DOMAIN items')
      BY <1>3 DEF PendingFits, StartSession
    <2> QED
      BY <1>3, <2>2, <2>3, Untouched, ProcessStep DEF StartSession
  <1>4. CASE SessionCancelled(p)
    BY <1>4, IdleFits, Untouched, ProcessStep DEF SessionCancelled
  <1>5. CASE SessionSetUp(p)
    <2>1. pending[p].file \in DOMAIN tasks
      BY <1>5, Untouched DEF SessionSetUp, PendingFits
    <2>2. DOMAIN tasks' = DOMAIN tasks
      BY <1>5 DEF SessionSetUp
    <2>3. [file |-> pending[p].file].file \in DOMAIN tasks'
      BY <2>1, <2>2
    <2>4. /\ pending' = [pending EXCEPT ![p] = Idle]
          /\ binding' = [binding EXCEPT ![p] = [file |-> pending[p].file]]
          /\ created' = created
      BY <1>5 DEF SessionSetUp
    <2> QED
      BY <2>2, <2>3, <2>4, IdleFits, ProcessStep
  <1>6. CASE UnboundSession(p)
    BY <1>6, Untouched, ProcessStep DEF UnboundSession
  <1>7. CASE Crash(p)
    BY <1>7, IdleFits, ProcessStep DEF Crash
  <1> QED
    BY <1>1, <1>2, <1>3, <1>4, <1>5, <1>6, <1>7

LEMMA SprintStep ==
    ASSUME SprintInv, SprintNext, UNCHANGED items
    PROVE  SprintInv' /\ DOMAIN tasks \subseteq DOMAIN tasks'
  <1>1. CASE InitSprints \/ GateTurns
    BY <1>1, SprintKept DEF InitSprints, GateTurns
  <1>2. ASSUME NEW p \in Sessions,
               NewSprint(p) \/ AutoCreate(p) \/ SetActive(p) \/ UpdateTask(p) \/ CommandDone(p)
        PROVE  SprintInv' /\ DOMAIN tasks \subseteq DOMAIN tasks'
    <2>1. CASE NewSprint(p)
      BY <2>1, SprintKept DEF NewSprint, CreateSprint
    <2>2. CASE AutoCreate(p)
      BY <2>2, SprintKept DEF AutoCreate, CreateSprint
    <2>3. CASE SetActive(p)
      BY <2>3, SprintKept DEF SetActive
    <2>4. CASE UpdateTask(p)
      BY <2>4, SprintKept DEF UpdateTask
    <2>5. CASE CommandDone(p)
      BY <2>5, SprintKept DEF CommandDone
    <2> QED
      BY <1>2, <2>1, <2>2, <2>3, <2>4, <2>5
  <1>3. ASSUME NEW p \in Sessions, ListTasks(p, None)
        PROVE  SprintInv' /\ DOMAIN tasks \subseteq DOMAIN tasks'
    BY <1>3, ListTasksStep DEF ListTasks
  <1>4. ASSUME NEW p \in Sessions, CreateTask(p)
        PROVE  SprintInv' /\ DOMAIN tasks \subseteq DOMAIN tasks'
    BY <1>4, WriteTaskStep, WriteTaskAdds DEF CreateTask
  <1>5. ASSUME NEW p \in Sessions,
               \/ AskToCreate(p) \/ UserAnswers(p) \/ StartSession(p) \/ SessionCancelled(p)
               \/ SessionSetUp(p) \/ UnboundSession(p) \/ Crash(p)
        PROVE  SprintInv' /\ DOMAIN tasks \subseteq DOMAIN tasks'
    <2>1. SprintInv'
      BY <1>5, SessionSteps
    <2>2. DOMAIN tasks' = DOMAIN tasks
      BY <1>5 DEF AskToCreate, UserAnswers, StartSession, SessionCancelled, SessionSetUp,
                  UnboundSession, Crash
    <2> QED
      BY <2>1, <2>2
  <1> QED
    BY <1>1, <1>2, <1>3, <1>4, <1>5 DEF SprintNext

-------------------------------------------------------------------------------
(* The steps of the debug lane.                                               *)

LEMMA AddItemStep == ASSUME LaneInv, AddItem PROVE LaneInv'
  <1>1. PICK i \in Items, area \in Areas \cup {None} :
            i \notin DOMAIN items /\ items' = Saved(items, i, Item("open", area))
    BY DEF AddItem
  <1>2. UNCHANGED sprintVars
    BY DEF AddItem
  <1>3. DOMAIN items' = DOMAIN items \cup {i}
    BY <1>1 DEF Saved
  <1>4. \A j \in DOMAIN items : items'[j] = items[j]
    BY <1>1 DEF Saved
  <1>5. items'[i] = Item("open", area)
    BY <1>1 DEF Saved
  <1>6. SprintInv'
    BY <1>2, <1>3, SprintKept DEF LaneInv, sprintVars
  <1>7. IsFiniteSet(DOMAIN items')
    BY <1>3, FS_AddElement DEF LaneInv, ItemInv
  <1>8. DOMAIN tasks' = DOMAIN tasks
    BY <1>2 DEF sprintVars
  <1>9. Item("open", area) \in ItemRecords(DOMAIN tasks)
    BY DEF Item, ItemRecords, ItemStatuses
  <1>10. ItemInv'
    BY <1>3, <1>4, <1>5, <1>7, <1>8, <1>9, DebugAssumption
       DEF LaneInv, ItemInv, Item, DebugAssumption
  <1> QED
    BY <1>6, <1>10 DEF LaneInv

\* One item is rewritten, by a record that is in order.
LEMMA ItemWritten ==
    ASSUME ItemInv, NEW i, NEW record,
           items' = [items EXCEPT ![i] = record], DOMAIN tasks' = DOMAIN tasks,
           record \in ItemRecords(DOMAIN tasks),
           record.how = "strict" => record.status # "open",
           record.status = "promoted" => record.task \in DOMAIN tasks
    PROVE  ItemInv'
  BY DEF ItemInv

LEMMA AddNoteStep == ASSUME LaneInv, AddNote PROVE LaneInv'
  <1>1. PICK i \in DOMAIN items : \E area \in AreaOnceTold(i) :
            items' = [items EXCEPT ![i] = [items[i] EXCEPT !.area = area]]
    BY DEF AddNote
  <1>2. UNCHANGED sprintVars
    BY DEF AddNote
  <1>3. items[i] \in ItemRecords(DOMAIN tasks) /\ AreaOnceTold(i) \subseteq Areas \cup {None}
    BY DEF LaneInv, ItemInv, ItemRecords, AreaOnceTold
  <1>4. ItemInv'
    BY <1>1, <1>2, <1>3, ItemWritten DEF LaneInv, ItemInv, ItemRecords, sprintVars
  <1> QED
    BY <1>1, <1>2, <1>4, SprintKept DEF LaneInv, sprintVars

LEMMA CompleteItemStep == ASSUME LaneInv, CompleteItem PROVE LaneInv'
  <1> DEFINE Completed(i, mode, area) ==
                 [items[i] EXCEPT !.status = "done", !.how = mode, !.area = area]
  <1>1. PICK i \in DOMAIN items, mode \in {"strict", "dry-run"} :
            \E area \in AreaOnceTold(i) : items' = [items EXCEPT ![i] = Completed(i, mode, area)]
    BY DEF CompleteItem
  <1>2. PICK area \in AreaOnceTold(i) : items' = [items EXCEPT ![i] = Completed(i, mode, area)]
    BY <1>1
  <1>3. UNCHANGED sprintVars
    BY DEF CompleteItem
  <1>4. items[i] \in ItemRecords(DOMAIN tasks) /\ area \in Areas \cup {None}
    BY DEF LaneInv, ItemInv, ItemRecords, AreaOnceTold
  <1>5. /\ Completed(i, mode, area) \in ItemRecords(DOMAIN tasks)
        /\ Completed(i, mode, area).status = "done"
    BY <1>4 DEF ItemRecords, ItemStatuses
  <1>6. DOMAIN items' = DOMAIN items
    BY <1>2
  <1> HIDE DEF Completed
  <1>7. ItemInv'
    BY <1>2, <1>3, <1>5, ItemWritten DEF LaneInv, sprintVars
  <1> QED
    BY <1>3, <1>6, <1>7, SprintKept DEF LaneInv, sprintVars

LEMMA PromotionSteps ==
    ASSUME LaneInv, NEW p \in Sessions,
           BeginPromotion(p) \/ PromotionTask(p) \/ FinishPromotion(p)
    PROVE  LaneInv'
  <1>1. CASE BeginPromotion(p)
    <2>1. SprintInv'
      BY <1>1, ListTasksStep DEF BeginPromotion, LaneInv
    <2>2. ItemInv'
      BY <1>1, ItemsKept DEF BeginPromotion, ListTasks, LaneInv
    <2> QED
      BY <2>1, <2>2 DEF LaneInv
  <1>2. CASE PromotionTask(p)
    <2>1. SprintInv'
      BY <1>2, WriteTaskStep DEF PromotionTask, LaneInv
    <2>2. ItemInv'
      BY <1>2, WriteTaskAdds, ItemsKept DEF PromotionTask, LaneInv
    <2> QED
      BY <2>1, <2>2 DEF LaneInv
  <1>3. CASE FinishPromotion(p)
    <2> DEFINE i == pending[p].item
    <2>1. /\ pending[p].file \in DOMAIN tasks
          /\ DOMAIN tasks' = DOMAIN tasks
          /\ created' = created /\ binding' = binding
          /\ pending' = [pending EXCEPT ![p] = Idle]
      BY <1>3, Untouched DEF FinishPromotion, TaskIsCreated, PendingFits, LaneInv
    <2>2. items' = [items EXCEPT ![i] = [items[i] EXCEPT !.status = "promoted",
                                                         !.task = pending[p].file]]
      BY <1>3 DEF FinishPromotion
    <2>3. SprintInv'
      BY <2>1, <2>2, IdleFits, Untouched, ProcessStep DEF LaneInv
    <2>4. ItemInv'
      BY <2>1, <2>2 DEF LaneInv, ItemInv, ItemRecords, ItemStatuses
    <2> QED
      BY <2>3, <2>4 DEF LaneInv
  <1> QED
    BY <1>1, <1>2, <1>3

LEMMA StepInv == LaneInv /\ [LaneNext]_laneVars => LaneInv'
  <1> SUFFICES ASSUME LaneInv, [LaneNext]_laneVars PROVE LaneInv'
    OBVIOUS
  <1>1. CASE SprintNext /\ UNCHANGED items
    BY <1>1, SprintStep, ItemsKept DEF LaneInv
  <1>2. CASE AddItem \/ AddNote \/ CompleteItem
    BY <1>2, AddItemStep, AddNoteStep, CompleteItemStep
  <1>3. CASE \E p \in Sessions : BeginPromotion(p) \/ PromotionTask(p) \/ FinishPromotion(p)
    BY <1>3, PromotionSteps
  <1>4. CASE UNCHANGED laneVars
    BY <1>4, SprintKept, ItemsKept DEF laneVars, sprintVars, LaneInv
  <1> QED
    BY <1>1, <1>2, <1>3, <1>4 DEF LaneNext

LEMMA LaneInvariant == LaneSpec => []LaneInv
  <1> QED
    BY InitInv, StepInv, PTL DEF LaneSpec

-------------------------------------------------------------------------------

\* For any number of sessions and items: wherever a promotion was cut short, and however the
\* pointer moved since, a promoted item names a task file that exists (promoteDebugItem).
THEOREM PromotionLeavesTheTask == LaneSpec => []PromotedItemsHaveTheirTask
  <1>1. LaneInv => PromotedItemsHaveTheirTask
    BY DEF LaneInv, ItemInv, PromotedItemsHaveTheirTask
  <1> QED
    BY <1>1, LaneInvariant, PTL

\* For any number of sessions, sprints and files of one id: a session that was started for a
\* task reads the context of that task, and a status it writes goes to that task's file
\* (startSprintTaskSession, sprint_read_context, sprint_update_task).
THEOREM SessionsStayBound == LaneSpec => []BoundSessionsKeepTheirTask
  <1>1. LaneInv => BoundSessionsKeepTheirTask
    <2> SUFFICES ASSUME LaneInv, NEW p \in Sessions, binding[p] # None
                 PROVE  /\ ContextSource(p) = Pointer(binding[p].file.sprint, binding[p].file)
                        /\ WrittenFiles(p, binding[p].file.id) = {binding[p].file}
      BY DEF BoundSessionsKeepTheirTask
    <2>1. binding[p].file \in DOMAIN tasks /\ binding[p].file.sprint \in created
      BY DEF LaneInv, SprintInv
    <2>2. ContextSource(p) = Pointer(binding[p].file.sprint, binding[p].file)
      BY <2>1 DEF ContextSource, IsSprint, IsTaskOf
    <2>3. ResolveSprint(p) = binding[p].file.sprint
      BY <2>1 DEF ResolveSprint, IsSprint
    <2>4. WrittenFiles(p, binding[p].file.id) = {binding[p].file}
      BY <2>1, <2>3 DEF WrittenFiles, IsTaskOf
    <2> QED
      BY <2>2, <2>4
  <1> QED
    BY <1>1, LaneInvariant, PTL

\* For any number of items and any threshold: once an area has had its fill of fixes, done or
\* promoted, an open item of that area is completed in dry-run mode only
\* (evaluateDebugLaneEscalation).
THEOREM AreasAreBounded == LaneSpec => RepeatedFixesEscalate
  <1> DEFINE Escalates(i) ==
                 (items[i].status = "open" /\ items'[i].how = "strict" /\ items[i].area # None)
                     => Cardinality(FixedAlike(i)) < RepeatAreaThreshold
  <1>1. LaneInv /\ [LaneNext]_laneVars => [\A i \in DOMAIN items : Escalates(i)]_laneVars
    <2> SUFFICES ASSUME LaneInv, LaneNext, NEW i \in DOMAIN items,
                        items[i].status = "open", items'[i].how = "strict", items[i].area # None
                 PROVE  Cardinality(FixedAlike(i)) < RepeatAreaThreshold
      OBVIOUS
    <2> USE DEF ItemRecords
    <2>0. items[i] \in ItemRecords(DOMAIN tasks)
      BY DEF LaneInv, ItemInv
    <2>1. items[i].how # "strict"
      BY DEF LaneInv, ItemInv
    <2>2. items'[i].how # items[i].how
      BY <2>1
    <2>3. ~(SprintNext /\ UNCHANGED items)
      BY <2>2
    <2>4. ~AddItem
      BY <2>2 DEF AddItem, Saved
    <2>5. ~AddNote
      BY <2>0, <2>2 DEF AddNote
    <2>6. ~(\E p \in Sessions : BeginPromotion(p) \/ PromotionTask(p) \/ FinishPromotion(p))
      <3>1. ASSUME NEW p \in Sessions, FinishPromotion(p) PROVE items'[i].how = items[i].how
        <4>1. items' = [items EXCEPT ![pending[p].item] =
                           [items[pending[p].item] EXCEPT !.status = "promoted",
                                                          !.task = pending[p].file]]
          BY <3>1 DEF FinishPromotion
        <4> QED
          BY <2>0, <4>1
      <3> QED
        BY <2>2, <3>1 DEF BeginPromotion, PromotionTask
    <2>7. CompleteItem
      BY <2>3, <2>4, <2>5, <2>6 DEF LaneNext
    <2>8. PICK k \in DOMAIN items, large \in BOOLEAN, mode \in {"strict", "dry-run"} :
              /\ NeedsEscalation(k, large) => mode = "dry-run"
              /\ \E area \in AreaOnceTold(k) :
                    items' = [items EXCEPT ![k] = [items[k] EXCEPT !.status = "done",
                                                                   !.how = mode, !.area = area]]
      BY <2>7 DEF CompleteItem
    <2>9. k = i
      BY <2>2, <2>8
    <2>10. mode = "strict"
      BY <2>0, <2>8, <2>9
    <2>11. ~(FixesInArea(i) >= RepeatAreaThreshold)
      BY <2>8, <2>9, <2>10 DEF NeedsEscalation
    <2>12. FixedAlike(i) = {j \in DOMAIN items \ {i} :
                           items[j].status \in {"done", "promoted"}
                           /\ items[j].area = items[i].area}
      BY DEF FixedAlike, LaneInv, ItemInv, ItemRecords, ItemStatuses
    <2>13. FixesInArea(i) = Cardinality(FixedAlike(i))
      BY <2>12 DEF FixesInArea
    <2>14. Cardinality(FixedAlike(i)) \in Nat
      <3>1. IsFiniteSet(FixedAlike(i))
        BY FS_Subset DEF FixedAlike, LaneInv, ItemInv
      <3> QED
        BY <3>1, FS_CardinalityType
    <2> QED
      BY <2>11, <2>13, <2>14, DebugAssumption DEF DebugAssumption
  <1> QED
    BY <1>1, LaneInvariant, PTL DEF LaneSpec, RepeatedFixesEscalate

-------------------------------------------------------------------------------
(* What a step may do to the sprints and the task files.                      *)

LEMMA LaneStepSums ==
    [LaneNext]_laneVars =>
        /\ created \subseteq created' /\ DOMAIN tasks \subseteq DOMAIN tasks'
        /\ created' # created => gateOpen
  <1> SUFFICES ASSUME LaneNext
               PROVE  /\ created \subseteq created' /\ DOMAIN tasks \subseteq DOMAIN tasks'
                      /\ created' # created => gateOpen
    BY DEF laneVars, sprintVars
  <1>1. ASSUME NEW p \in Sessions, WriteTask(p)
        PROVE  DOMAIN tasks \subseteq DOMAIN tasks' /\ created' = created
    BY <1>1, WriteTaskAdds DEF WriteTask
  <1>2. ASSUME NEW p \in Sessions, UserAnswers(p)
        PROVE  /\ created \subseteq created' /\ tasks' = tasks
               /\ created' # created => gateOpen
    BY <1>2 DEF UserAnswers, GateAtAnswer, CreateSprint
  <1>3. CASE SprintNext
    <2>1. CASE InitSprints \/ GateTurns
      BY <2>1 DEF InitSprints, GateTurns
    <2>2. ASSUME NEW p \in Sessions, NewSprint(p) \/ AutoCreate(p)
          PROVE  created \subseteq created' /\ tasks' = tasks /\ gateOpen
      BY <2>2 DEF NewSprint, AutoCreate, CreateSprint
    <2>3. ASSUME NEW p \in Sessions,
                 \/ AskToCreate(p) \/ ListTasks(p, None) \/ SetActive(p) \/ StartSession(p)
                 \/ SessionCancelled(p) \/ UnboundSession(p) \/ Crash(p)
          PROVE  created' = created /\ tasks' = tasks
      BY <2>3 DEF AskToCreate, ListTasks, SetActive, StartSession, SessionCancelled,
         UnboundSession, Crash
    <2>4. ASSUME NEW p \in Sessions, UpdateTask(p) \/ CommandDone(p) \/ SessionSetUp(p)
          PROVE  created' = created /\ DOMAIN tasks' = DOMAIN tasks
      BY <2>4 DEF UpdateTask, CommandDone, SessionSetUp
    <2> QED
      BY <1>1, <1>2, <1>3, <2>1, <2>2, <2>3, <2>4 DEF SprintNext, CreateTask
  <1>4. CASE AddItem \/ AddNote \/ CompleteItem
    BY <1>4 DEF AddItem, AddNote, CompleteItem, sprintVars
  <1>5. ASSUME NEW p \in Sessions, BeginPromotion(p) \/ PromotionTask(p) \/ FinishPromotion(p)
        PROVE  created' = created /\ DOMAIN tasks \subseteq DOMAIN tasks'
    BY <1>1, <1>5 DEF BeginPromotion, ListTasks, PromotionTask, FinishPromotion
  <1> QED
    BY <1>3, <1>4, <1>5 DEF LaneNext

\* A sprint comes into being only while the planning gate allows it, for any number of
\* sessions that were asked before the confirmation was withdrawn (hooks.ts).
THEOREM SprintsNeedTheGate == LaneSpec => SprintsAreConfirmed
  <1>1. [LaneNext]_laneVars => [created' # created => gateOpen]_sprintVars
    BY LaneStepSums
  <1> QED
    BY <1>1, PTL DEF LaneSpec, SprintsAreConfirmed

\* No step of the store takes a sprint or a task file away (store.ts, tasks.ts): what a session
\* has settled on before it waits is there when it goes on.
THEOREM NothingIsTakenAway ==
    LaneSpec => [][created \subseteq created' /\ DOMAIN tasks \subseteq DOMAIN tasks']_laneVars
  <1>1. [LaneNext]_laneVars
            => [created \subseteq created' /\ DOMAIN tasks \subseteq DOMAIN tasks']_laneVars
    BY LaneStepSums
  <1> QED
    BY <1>1, PTL DEF LaneSpec

===============================================================================
