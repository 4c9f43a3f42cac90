----------------------------- MODULE DeepPlanning ------------------------------
(***************************************************************************)
(* One call of workflow_deep_plan (extensions/workflow/deep-planning.ts,       *)
(* deep-planning-core.ts, config/deep-planning.ts): in each round a pool of     *)
(* workers, which are asynchronous functions of one process, take the planners *)
(* from a queue, run each as a headless delegate and report its start and end   *)
(* to the planning room; the next round begins when every worker has returned.  *)
(*                                                                           *)
(* A worker is interrupted at each await: the two messages to the room, whose  *)
(* lock can be refused it, and the delegate.  The first worker that throws     *)
(* ends the call, and the others go on.                                       *)
(*                                                                           *)
(* A planner is its id: a name and the numbers added to it.  The room is what  *)
(* the call's workers have written to it; prompts, roles and models are left   *)
(* out, and so is what the planners say to each other.                        *)
(***************************************************************************)
EXTENDS Integers, Sequences

CONSTANTS
    Tunings,          \* the plannerCount, rounds and maxConcurrency a request can pass, 0 for none
    PlannerLists,     \* the planners a request or a configuration can list
    Configured,       \* the deepPlanning sections of the configuration
    MaxLockFailures   \* bound: how often the room's lock is refused

VARIABLES
    plan,          \* the effective planners, rounds and workers of the call
    callAt,        \* where the call is
    round,
    cursor,        \* the next place in the queue of the round
    worker,        \* the workers of the round: where each is, and with which planner
    results,       \* plannerResults
    roomLog,       \* what the workers have posted
    abortSignal,
    lockFailures   \* history: the refusals so far

deepVars == <<plan, callAt, round, cursor, worker, results, roomLog, abortSignal, lockFailures>>

(***************************************************************************)
(* The effective settings.                                                   *)
(***************************************************************************)
Unnamed == "unnamed"
Id(name) == [name |-> name, numbers |-> <<>>]

Ids == [name : STRING, numbers : Seq(Nat)]
Counts == [plannerCount : Nat, rounds : Nat, maxConcurrency : Nat]

ASSUME DeepPlanningAssumption ==
    /\ Tunings \subseteq Counts
    /\ PlannerLists \subseteq Seq(Ids)
    /\ Configured \subseteq [enabled : BOOLEAN, planners : Seq(Ids), plannerCount : Nat,
                              rounds : Nat, maxConcurrency : Nat]
    /\ MaxLockFailures \in Nat

clampPositive(value, fallback) == IF value > 0 THEN value ELSE fallback

\* normalizeDeepPlanning of a section of the configuration: a count is at least one.
normalizeDeepPlanning(section) ==
    [section EXCEPT !.plannerCount = clampPositive(@, 1), !.rounds = clampPositive(@, 1),
                    !.maxConcurrency = clampPositive(@, 1)]

\* A number is added to an id already taken; that the longer id is free is not checked.
dedupePlanners(planners) ==
    LET deduped[n \in DOMAIN planners] ==
            LET taken == {deduped[m] : m \in 1..(n - 1)}
                named == IF planners[n].name = Unnamed THEN [name |-> "planner", numbers |-> <<n>>]
                         ELSE planners[n]
            IN  IF named \in taken THEN [named EXCEPT !.numbers = Append(@, n)] ELSE named
    IN  [n \in DOMAIN planners |-> deduped[n]]

Overrides(request) ==
    \/ request.force \/ request.planners # <<>>
    \/ request.plannerCount # 0 \/ request.rounds # 0 \/ request.maxConcurrency # 0

\* Fewer planners than the count asks for are run as they are.
mergeDeepPlanningConfig(base, request) ==
    LET count == clampPositive(request.plannerCount, base.plannerCount)
        listed == dedupePlanners(IF request.planners # <<>> THEN request.planners ELSE base.planners)
    IN  [enabled |-> base.enabled \/ Overrides(request),
         planners |-> SubSeq(listed, 1, IF count < Len(listed) THEN count ELSE Len(listed)),
         rounds |-> clampPositive(request.rounds, base.rounds),
         maxConcurrency |-> clampPositive(request.maxConcurrency, base.maxConcurrency)]

workerConcurrency(effective) ==
    LET planners == Len(effective.planners)
    IN  IF effective.maxConcurrency < planners THEN effective.maxConcurrency ELSE planners

Workers == 1..workerConcurrency(plan)

Free == [at |-> "free", planner |-> 0]
NewWorkers(effective) == [w \in 1..workerConcurrency(effective) |-> Free]

(***************************************************************************)
(* The call.                                                                 *)
(***************************************************************************)
NoPlan == [enabled |-> FALSE, planners |-> <<>>, rounds |-> 0, maxConcurrency |-> 0]

DeepInit ==
    /\ plan = NoPlan /\ callAt = "called" /\ round = 0 /\ cursor = 1 /\ worker = <<>>
    /\ results = <<>> /\ roomLog = <<>> /\ abortSignal = FALSE /\ lockFailures = 0

StartDeepPlan ==
    /\ callAt = "called"
    /\ \E base \in Configured, force \in BOOLEAN, planners \in PlannerLists, tuning \in Tunings :
          plan' = mergeDeepPlanningConfig(normalizeDeepPlanning(base),
                                          [force |-> force, planners |-> planners,
                                           plannerCount |-> tuning.plannerCount,
                                           rounds |-> tuning.rounds,
                                           maxConcurrency |-> tuning.maxConcurrency])
    /\ callAt' = IF plan'.enabled THEN "opening" ELSE "refused"
    /\ UNCHANGED <<round, cursor, worker, results, roomLog, abortSignal, lockFailures>>

LockRefused == lockFailures < MaxLockFailures /\ lockFailures' = lockFailures + 1

BeginRound(r) == round' = r /\ cursor' = 1 /\ worker' = NewWorkers(plan)

\* The room and the brain's two messages; that there is a planner is checked after them.
ensurePlanningRoom ==
    /\ callAt = "opening"
    /\ \/ /\ LockRefused /\ callAt' = "threw" /\ UNCHANGED <<round, cursor, worker>>
       \/ /\ plan.planners = <<>> /\ callAt' = "refused"
          /\ UNCHANGED <<round, cursor, worker, lockFailures>>
       \/ /\ plan.planners # <<>> /\ callAt' = "rounds" /\ BeginRound(1)
          /\ UNCHANGED lockFailures
    /\ UNCHANGED <<plan, results, roomLog, abortSignal>>

(***************************************************************************)
(* A worker, between one await and the next.                                 *)
(***************************************************************************)
\* The slip to guard against: the cursor moves on only once the start is posted.
TakeWithoutMoving(w) ==
    /\ worker[w].at = "free"
    /\ IF abortSignal \/ cursor > Len(plan.planners)
       THEN worker' = [worker EXCEPT ![w].at = "returned"] /\ UNCHANGED cursor
       ELSE /\ worker' = [worker EXCEPT ![w] = [at |-> "starting", planner |-> cursor]]
            /\ cursor' = cursor + (IF \E v \in Workers : worker[v].at = "starting" THEN 1 ELSE 0)
    /\ UNCHANGED <<plan, callAt, round, results, roomLog, abortSignal, lockFailures>>

\* The signal is looked at between planners.
TakePlanner(w) ==
    /\ worker[w].at = "free"
    /\ IF abortSignal \/ cursor > Len(plan.planners)
       THEN worker' = [worker EXCEPT ![w].at = "returned"] /\ UNCHANGED cursor
       ELSE /\ worker' = [worker EXCEPT ![w] = [at |-> "starting", planner |-> cursor]]
            /\ cursor' = cursor + 1
    /\ UNCHANGED <<plan, callAt, round, results, roomLog, abortSignal, lockFailures>>

\* appendRoomMessage by a worker; refused the lock it throws, and Promise.all with it.
Post(w, topic, next) ==
    /\ \/ /\ roomLog' = Append(roomLog, [topic |-> topic, planner |-> worker[w].planner, round |-> round])
          /\ worker' = [worker EXCEPT ![w].at = next]
          /\ UNCHANGED <<callAt, lockFailures>>
       \/ /\ LockRefused
          /\ worker' = [worker EXCEPT ![w].at = "threw"] /\ callAt' = "threw"
          /\ UNCHANGED roomLog
    /\ UNCHANGED <<plan, round, cursor, results, abortSignal>>

PostStart(w) == worker[w].at = "starting" /\ Post(w, "round-start", "running")

runAgentPresetHeadless(w) ==
    /\ worker[w].at = "running"
    /\ \E status \in IF abortSignal THEN {"aborted"} ELSE {"completed", "failed"} :
          results' = Append(results, [planner |-> worker[w].planner, round |-> round, status |-> status])
    /\ worker' = [worker EXCEPT ![w].at = "reporting"]
    /\ UNCHANGED <<plan, callAt, round, cursor, roomLog, abortSignal, lockFailures>>

PostComplete(w) == worker[w].at = "reporting" /\ Post(w, "round-complete", "free")

RunPlanner(w) == TakePlanner(w) \/ PostStart(w) \/ runAgentPresetHeadless(w) \/ PostComplete(w)

RoundOver == \A w \in Workers : worker[w].at = "returned"

NextRound ==
    /\ callAt = "rounds" /\ RoundOver
    /\ IF round < plan.rounds
       THEN BeginRound(round + 1) /\ UNCHANGED callAt
       ELSE callAt' = "ended" /\ UNCHANGED <<round, cursor, worker>>
    /\ UNCHANGED <<plan, results, roomLog, abortSignal, lockFailures>>

AbortDeepPlan ==
    /\ callAt \in {"opening", "rounds"} /\ ~abortSignal
    /\ abortSignal' = TRUE
    /\ UNCHANGED <<plan, callAt, round, cursor, worker, results, roomLog, lockFailures>>

DeepNext ==
    \/ StartDeepPlan \/ ensurePlanningRoom \/ NextRound \/ AbortDeepPlan
    \/ \E w \in DOMAIN worker : RunPlanner(w)

DeepSpec == DeepInit /\ [][DeepNext]_deepVars

(***************************************************************************)
(* Types.                                                                    *)
(***************************************************************************)
Records == [planner : Nat, round : Nat, status : {"completed", "failed", "aborted"}]

WorkerStates ==
    [at : {"free", "starting", "running", "reporting", "returned", "threw"}, planner : Nat]

DeepTypeOK ==
    /\ plan.planners \in Seq({plan.planners[n] : n \in DOMAIN plan.planners})
    /\ plan.rounds \in Nat /\ plan.maxConcurrency \in Nat
    /\ callAt \in {"called", "refused", "opening", "rounds", "threw", "ended"}
    /\ round \in Nat /\ cursor \in Nat \ {0}
    /\ DOMAIN worker \subseteq Nat
    /\ worker \in [DOMAIN worker -> WorkerStates]
    /\ results \in Seq(Records)
    /\ abortSignal \in BOOLEAN

(***************************************************************************)
(* Properties.                                                               *)
(***************************************************************************)
failed == \E i \in 1..Len(results) : results[i].status # "completed"

\* "All planners finished": a call that was not aborted and reports no failure has run every
\* selected planner once in every round, however its workers shared the queue.
SuccessMeansEveryRound ==
    callAt = "ended" /\ ~failed /\ ~abortSignal =>
        /\ Len(results) = Len(plan.planners) * plan.rounds
        /\ \A p \in 1..Len(plan.planners), r \in 1..plan.rounds :
              \E i \in 1..Len(results) : results[i].planner = p /\ results[i].round = r

===============================================================================
