------------------------------ MODULE DebugLane ------------------------------
(***************************************************************************)
(* The debug lane (sprint/debug.ts, debug-escalation.ts, debug-tooling.ts): *)
(* items for fixes too small for a task, the rules that say when a fix is   *)
(* not that small, and the promotion of an item to a task of the active     *)
(* sprint, which module SprintStore creates.                                *)
(*                                                                          *)
(* Promotion writes two files, the task's first.  A crash may come between  *)
(* them, and creating the task may fail.                                    *)
(***************************************************************************)
EXTENDS SprintStore

CONSTANTS
    Items,                  \* items the lane may come to hold, by number
    Areas,                  \* feature areas a title or a note may tell of
    RepeatAreaThreshold     \* fixes of an area after which one more needs a task

ASSUME DebugAssumption ==
    /\ RepeatAreaThreshold \in Nat \ {0}
    /\ None \notin {"strict", "dry-run"}

VARIABLE
    items                   \* the lane's items: status, area, task; how it was done

laneVars == <<sprintVars, items>>

Item(status, area) == [status |-> status, area |-> area, task |-> None, how |-> None]

LaneInit == SprintInit /\ items = <<>>

-------------------------------------------------------------------------------
(* Escalation *)

\* countCompletedDebugFixesInArea, the mutant: promoted items are forgotten.
FixesInAreaDone(i) ==
    IF items[i].area = None THEN 0
    ELSE Cardinality({j \in DOMAIN items \ {i} :
            items[j].status = "done" /\ items[j].area = items[i].area})

\* The other items of the area that are done or promoted.  The area is inferred from
\* what the item's file says; one that is only named in a call is kept nowhere.
FixesInArea(i) ==
    IF items[i].area = None THEN 0
    ELSE Cardinality({j \in DOMAIN items \ {i} :
            items[j].status \in {"done", "promoted"} /\ items[j].area = items[i].area})

\* evaluateDebugLaneEscalation.  What a call tells of the size of the change
\* (files, lines, paths, state machine, missing evidence) is `large`.
NeedsEscalation(i, large) == large \/ FixesInArea(i) >= RepeatAreaThreshold

-------------------------------------------------------------------------------
(* Items *)

AddItem ==
    /\ \E i \in Items \ DOMAIN items :
          /\ \A j \in DOMAIN items : j < i
          /\ \A j \in Items : j < i => j \in DOMAIN items
          /\ \E area \in Areas \cup {None} : items' = Saved(items, i, Item("open", area))
    /\ UNCHANGED sprintVars

\* Notes and evidence go to the item's file and may tell of an area for the first time.
AreaOnceTold(i) == IF items[i].area = None THEN Areas \cup {None} ELSE {items[i].area}

AddNote ==
    /\ \E i \in DOMAIN items :
          /\ items[i].status # "promoted"
          /\ \E area \in AreaOnceTold(i) : items' = [items EXCEPT ![i].area = area]
    /\ UNCHANGED sprintVars

\* sprint_debug done and /sprint debug done: escalation blocks in strict mode only,
\* and the finalization gate of a debug item never does.
CompleteItem ==
    /\ \E i \in DOMAIN items, large \in BOOLEAN, mode \in {"strict", "dry-run"} :
          /\ items[i].status # "promoted"
          /\ NeedsEscalation(i, large) => mode = "dry-run"
          /\ \E area \in AreaOnceTold(i) :
                items' = [items EXCEPT ![i] = [@ EXCEPT !.status = "done", !.how = mode,
                                                        !.area = area]]
    /\ UNCHANGED sprintVars

\* promoteDebugItem: the item is read, the id of its task settled.
BeginPromotion(p) ==
    /\ \E i \in DOMAIN items : items[i].status # "promoted" /\ ListTasks(p, i)
    /\ UNCHANGED items

\* The task is created.
PromotionTask(p) ==
    /\ WriteTask(p) /\ pending[p].item # None
    /\ pending' = [pending EXCEPT ![p] = [at |-> "promoting", item |-> pending[p].item,
                                          file |-> pending[p].file]]
    /\ UNCHANGED items

\* Mutant of TaskIsCreated: the item is settled before its task.
TaskIsNamed(p) == pending[p].at \in {"creating", "promoting"} /\ pending[p].item # None

TaskIsCreated(p) == pending[p].at = "promoting"

\* The item, as it was read, is written with the task's name.
FinishPromotion(p) ==
    /\ TaskIsCreated(p)
    /\ items' = [items EXCEPT ![pending[p].item].status = "promoted",
                              ![pending[p].item].task = pending[p].file]
    /\ pending' = [pending EXCEPT ![p] = Idle]
    /\ UNCHANGED <<created, tasks, current, gateOpen, binding, declined>>

LaneNext ==
    \/ SprintNext /\ UNCHANGED items
    \/ AddItem \/ AddNote \/ CompleteItem
    \/ \E p \in Sessions : BeginPromotion(p) \/ PromotionTask(p) \/ FinishPromotion(p)

LaneSpec == LaneInit /\ [][LaneNext]_laneVars

-------------------------------------------------------------------------------
(* A promoted item names a task that exists, wherever the promotion was cut short *)
(* and whatever became of the sprint in between (debug.ts, promoteDebugItem).      *)
PromotedItemsHaveTheirTask ==
    \A i \in DOMAIN items : items[i].status = "promoted" => items[i].task \in DOMAIN tasks

\* The other items of i's area that were fixed, in a lane that has not forgotten any.
FixedAlike(i) ==
    {j \in DOMAIN items \ {i} : items[j].status # "open" /\ items[j].area = items[i].area}

(* When an area has had its fill of fixes, done or promoted, an open item of it is not *)
(* completed outside dry-run mode (debug-escalation.ts, DBG-006).                       *)
RepeatedFixesEscalate ==
    [][\A i \in DOMAIN items :
          (items[i].status = "open" /\ items'[i].how = "strict" /\ items[i].area # None)
              => Cardinality(FixedAlike(i)) < RepeatAreaThreshold]_laneVars

===============================================================================
