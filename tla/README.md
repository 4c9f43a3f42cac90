# A TLA+ model of pi-ai-automation

pi-ai-automation is a set of extensions to the pi coding agent. One half (`extensions/`) turns an
agent session into a small development organisation: work is planned behind gates, delegated to
coder and reviewer processes, coordinated through shared "rooms" and driven to delivery by lanes
("AFK ship"). The other half (`src/`) keeps a SQLite memory of the repository up to date. Everything
the parts share lies in files or in SQLite, and several pi processes use it at once: parent
sessions, delegated children, users in other terminals.

The modules here model that shared state and the handlers that change it. `PROJECT.json` maps each
definition to the lines it stands for, and lists runs, mutants, findings, hazards and theorems.
Paths below are relative to the sources: `sprint/`, `workflow/` are in `src/extensions/`, the memory
is in `src/src/`.

## 1. Inventory

| Component | State | Operations | Who else touches it |
|---|---|---|---|
| AFK ship engine (`sprint/ship-engine.ts`) | one record per run: lane, stage, next action, stop condition, attempts and budget, changed files, evidence refs, checks, reviewer outcome, permissions | `start`, `transition` with 14 events | the agent decides which event comes when; a later session resumes the run |
| Ship supervision (`sprint/prompt.ts`) | none of its own | the loop the session is told to follow | reads `nextAction`, sends the events |
| Lane policy (`sprint/lane-policy.ts`) | none: a pure function of a request | classify | the session, which carries the answer to the engine by hand |
| Sprint store, sessions (`sprint/store.ts`, `tools.ts`, `start-session.ts`, `hooks.ts`) | sprint directories, task files, a pointer, bindings of sessions to tasks | create sprint and task, update, start a task session, the hook that offers a sprint | every session |
| Debug lane (`sprint/debug*.ts`) | debug items | start, note, complete under the escalation rule, promote to a task | every session |
| Planning state and gates (`workflow/planning-*.ts`) | a planning file per room, two pointers to "the current room" | create, set flag, set scope, invalidate; the sprint and implementation gates | every session of the repository |
| Workflow rooms (`workflow/rooms/*`) | `events.jsonl`, `agents.json`, a lock file | create, job start, send, read, job done | parent and children on one machine |
| Delegates (`workflow/delegate/pane.ts`, `headless.ts`, `done-tools.ts`) | a run directory with session, sidecar, activity, manifest; a child process, perhaps in a pane | launch, poll, drain, complete, abort, time out | child, shell script and parent write concurrently |
| Deep planning (`workflow/deep-planning*.ts`) | a queue of planners, a room | rounds of parallel planners | asynchronous workers of one process |
| Architecture plans (`workflow/architecture/*`, `delegate/architecture-gate.ts`) | a plan file with two phases and an evidence matrix | record, update, gate, advance a phase | every delegation, before and after |
| Coder evidence (`delegate/canonical-evidence.ts`, `completion-evidence*.ts`) | none: a packet, the matrix, a verdict | extract, normalise, judge | the coder's delegation, the finalization gate |
| Reviewer swarm (`delegate/swarm.ts`, `reviewer-roles.ts`, `reviewer-memo-file.ts`) | answers of the reviewers, a memo file | derive roles, send out, collect, conclude | asynchronous workers of one process |
| Finalization gate (`workflow/finalization-*.ts`) | none: reads plan, manifests, sidecars, memos | gate in front of a final status | everything the delegates leave behind |
| Quality audit (`workflow/quality-audit*.ts`) | none: reads the same manifests in code of its own | scan, summary for a task | the finalization gate calls it |
| Delivery ledger (`workflow/delivery/*`) | a list of events | append, mark, query, import legacy artifacts | its callers keep the list |
| Configuration (`workflow/config/*`, `runtime/*`, `profiles.ts`) | a global bundle of four files, project and local files | load, merge, resolve, guard; bootstrap of the bundle at every start | users, other versions, other processes |
| Configuration overlay (`workflow/configure*.ts`) | a staged draft per session | open, hydrate, stage, apply | other overlays, editors |
| Keeper (`keeper/*`) | lease row, cards, run log in SQLite | `runKeeperUnit`: acquire, claim, write cards, complete, refresh, release | one per pi process, after each agent turn |
| Evidence queue (`evidence/queue.ts`) | evidence rows with state, claimant, expiry | record, mark stale, claim and reclaim, complete | every keeper run; scouts and hooks that record |
| Repository index (`index/*`, `git/state.ts`) | tables of files, cards, imports | sync | every process; the keeper writes cards late |
| Health report (`integrity/*`, `tools/repo_health_report.ts`) | a cache of findings | report: sync, look, delete, insert, read | every process |
| Scout (`scout/runner.ts`) | none: appends to the evidence queue | scan under limits, validate, append | after each agent turn |

**What is hard here.**
Nothing coordinates the processes except a lock file (rooms), SQLite transactions (memory) and an
exclusive create (the sidecar). So: leases that expire under a run that still works; rows reclaimed
while their first claimant finishes; scans older than what they overwrite; caches filled row by row;
read-modify-write of planning, plan, sprint and configuration files without a lock; answers of users
and delegates awaited between a read and a write; processes killed within a write, which leaves a
torn file that some readers take for an empty one; timeouts and aborts racing a late answer; events
accepted in any stage; flags and approvals that outlive the change which should have voided them;
the same decision taken in two pieces of code. The list, at the line where each bites, is under
`hazards` in `PROJECT.json`.

**What makes each component correct.**
- Ship engine and lane policy: nothing is delivered without the evidence and review the lane asks
  for, in whatever order events arrive; work stays within its budget; the driven loop ends;
  classifier and engine agree.
- Sprints and debug items: what a session works on exists and is coherent; no sprint is made without
  the confirmations; a promoted item has its task; repeated fixes of an area escalate.
- Rooms: events have the numbers of their places in the file; a cursor never passes an event that
  was not returned; "done" means informed.
- Planning: a gate opens only on confirmations given after the last change that voided them.
- Delegates: "completed" is the child's own word; the call returns; nothing works on behind it. A
  deep plan that reports success has heard every planner in every round.
- Architecture plans: a status on file was earned by a delegation; an approval covers the work of
  every coder; phases go in order; a ready plan has evidence rules for each of its criteria.
- Evidence and review: a phase is completed on evidence that its coder filed as such and that went
  green; it is approved by every role, with a memo that says so.
- Finalization: the run that spoke last decides, objections stand, troubles are admitted, and the
  audit tells the same story. The ledger gives free-form text no authority.
- Configuration: what resolves can run; an Apply takes effect and destroys nobody's later work; the
  bundle heals and a user's files survive.
- Keeper and queue: one process at a time under a live lease; a piece of evidence is processed once,
  by its claimant, and is not lost when that claimant dies.
- Index and report: both catch up with a tree at rest. Scouts trust what they found, within their
  limits.

## 2. Modules

| Module | What it is | Extends |
|---|---|---|
| `ShipEngine` | the durable state of one ship run; one action per event of `transitionShipState` | |
| `ShipSupervisor` | the engine with the events restricted to those the documented loop sends | `ShipEngine` |
| `LanePolicy` | the classifier, and a session that learns more of its change and classifies again | |
| `SprintStore` | the `.sprints` directory and the sessions that share it | |
| `DebugLane` | items, escalation and promotion over that directory | `SprintStore` |
| `Rooms` | one room: log, agent table, lock, and any number of processes inside their tool calls | |
| `PlanningGate` | planning files, the two pointers, and processes inside their calls | |
| `Delegate` | one delegated agent: child, shell, pane, sidecar, parent | |
| `DeepPlanning` | one `workflow_deep_plan` call and its workers | |
| `PhaseProtocol` | abstract: what a plan promises about its two phases | |
| `ArchitecturePlan` | one plan file, the calls that rewrite it, the delegations it gates; implements `PhaseProtocol` | |
| `CanonicalEvidence`, `CoderEvidence` | where structured evidence is read from; what it shows about a matrix | operators |
| `ReviewerRoles`, `ReviewerSwarm` | what a review needs and what answers amount to; the delegations of a phase | `CoderEvidence` |
| `FinalizationGate` | the gate over what delegates leave on disk | `CoderEvidence` |
| `QualityAudit` | the audit of the same files | `FinalizationGate` |
| `DeliveryLedger`, `LegacyImport` | events of a delivery; imports of every legacy shape | |
| `WorkflowConfig` | presets, layers, merge, catalogs, the guard of a delegation's model | operators |
| `GlobalBootstrap`, `ConfigureOverlay` | starts that write the bundle; sessions that open the overlay | `WorkflowConfig` |
| `Keeper` | lease, evidence queue and any number of keeper runs, one action per transaction | |
| `RepoIndex` | syncs of several processes and the keeper's cards over a tree that is edited | |
| `HealthReport` | reports of several processes over one cache of findings | |
| `Scout` | one scout run | |
| `MC*` | the instances TLC checks | |
| `*Proofs` | the theorems, one module per component | |

**Composition.** Components that use each other's state or decisions are one specification by
EXTENDS: the debug lane creates its tasks through the sprint store, the reviewer swarm decides on
the coder's packets, the audit reads what the gate reads, bootstrap and overlay change what
`WorkflowConfig` merges. Where a component only needs what another one promises, it assumes it:
`ReviewerSwarm`'s delegations return because of `Delegate`'s `CallReturns`; `ArchitecturePlan`'s
delegation ends in one of the outcomes of `ReviewerSwarm`; `FinalizationGate` meets any files these
can leave. Components without common state that face the same question are checked side by side
(`MCSharedState`, `MCMemory`, `MCDelivery`, `MCWorkspace`, `MCDelegate`, `MCShipSupervisor`): a
behaviour runs one of them, the others keep their first states. Names of operators are the sources'
names where TLA+ allows it; a prefix (`PlanningNext`, `RoomSpec`, `bootVars`) tells modules apart
that are extended together.

### ShipEngine, ShipSupervisor, LanePolicy
`run` is `ShipState`, without timestamps, texts and the history list. Each handler is an action with
the handler's guards, its stops (`Stopped`) and its updates (`Moved`, `WithEvidence`, ...); an event
the engine refuses changes nothing and is left out. Files are members of `Paths`, of which
`CodePaths` look like code to `textEvidenceReadinessSatisfied`. The engine does not look at the
stage when an event arrives, so the model does not either. `ShipSupervisor` is the other view of the
same code: what happens if the session does what `prompt.ts` tells it, with a coder and a reviewer
that answer anything. `LanePolicy` is `evaluateLanePolicy` with all of its risk codes; `Amend` is a
session that says more and calls again.

### SprintStore, DebugLane
A tool body is one step, as it runs without an await, with two exceptions that are two steps: a
session start and the hook's question wait for an answer between what they read and what they write.
The id of a task is computed in one step and used in another, because the directory is shared by
processes. A promotion writes task and item in two steps with a crash in between.

### Rooms
A call is a sequence: wait for the lock, load, append, save the agent table, leave; a kill may come
between any two and within either write. A torn log line, and a torn agent table that is read as
empty, are states of the model. `handed` records which events an agent was ever returned; no code
reads it.

### PlanningGate
A call reads a planning file, derives the next record, and writes file and pointer in four steps
(`writeFileSync` opens, then writes). `owed` and `unanswered` record which confirmations a later
change has voided, `planningOverlapped` marks the rooms on which two calls have overlapped. The gate
operators are translations of `evaluateSprintPlanningGate` and `evaluateImplementationGate`;
`GateRoom` is the resolution of the room.

### Delegate, DeepPlanning
The child works in turns, calls its completion tool, ends its agent run or dies anywhere. Every
writer of the sidecar has two steps, the open (after which the file does not parse) and the write.
The parent polls, drains the session, times out, is aborted. The result and the manifest are
computed as in `pane.ts`, `headless.ts` and `pane-completion.ts`. cmux and the pi host are external:
that closing a surface ends what runs in it is an assumption. In `DeepPlanning` a worker is
interrupted at each of its awaits; the room's lock may be refused it; the first worker that throws
ends the call while the others go on.

### ArchitecturePlan, PhaseProtocol
A call of the two tools reads the plan and rewrites it in two steps (open, write); a delegation
reads it, passes `validatePhaseGate`, is under way for any time, and ends in `updatePlanPhase`,
which reads and rewrites again. What comes of a delegation is a choice: the coder's evidence is
accepted or not, the reviewers clear the phase or not. A matrix is the criteria it has rows for,
each row fit for a ready plan or not; a matrix of which reading drops a row is `malformed`, and a
`remnant` once it was rewritten, which the code cannot tell from a whole one. `earned` and `worked`
record what delegations have reported and which phases were worked on since their review began,
`overlapped` that two calls were in flight at once which do not go together: all but coders of one
phase, which one swarm of sessions may run side by side. The kill of a coder's parent counts as an
overlap, since the coder may work on in its pane.

`Committed` is the refinement mapping: the phases on file, or, while the file is truncated, those in
the memory of the call that is writing it, or none.

### CoderEvidence, ReviewerRoles, ReviewerSwarm
A JSON object is a record that has the fields it has. `Extraction` follows the order in which
`extractCanonicalEvidence` looks for an envelope; `RowIssues` and `EntryIssues` are the codes of
`evaluateCoderCompletion`. A packet's lists keep their order and repetitions, because the last run
of a command and the first of the strongest rows decide. From one await to the next a worker of the
swarm runs undisturbed, so that taking an answer and starting the next reviewer is one step; a
second worker may be waiting across an abort.

### FinalizationGate, QualityAudit, DeliveryLedger, LegacyImport, Scout
Manifests are a sequence in the order of their times; ending or polling a run moves it to the end. A
manifest belongs to a plan if its task names the plan, by a substring: "p1" is also found in "p10".
A note is the set of troubles it mentions. The audit's bound on manifests and its own filter of
paths are kept, the scans of free text left out. The ledger's helpers are pure; an id is `<<kind,
number>>`, and a caller's own id may look the same. Artifacts are records of four fields, each
absent, opaque, hollow or structured. A scout goes through its files line by line and validates and
appends finding by finding, and its deadline may pass before any file or after the last; a file is
the sequence of what its markers cost in tokens.

### WorkflowConfig, GlobalBootstrap, ConfigureOverlay
A preset is a partial function from its fields, and layers merge field by field. A start checks a
file of the bundle and truncates it in one step, and finishes the write in another, so that a kill
leaves it torn; its user edits, deletes and upgrades it. An overlay reads the layers when it opens,
the local file when a block opens, and once more when the block is applied.

### Keeper, RepoIndex, HealthReport
A keeper run is a program counter with what it remembers: how much time it believes its lease and
its claims have left. Each SQLite transaction is one action; between two of them anything happens,
including the expiry of lease or claims, a statement that throws, the death of the process, and new
evidence or files that change. Time is counted in ticks towards expiry (`Duration`), which keeps it
bounded without an artificial clock. `<` and `<=` in the SQL are kept apart. A sync of the index has
four steps: read the table, scan, read the cards it may reuse, commit. A report empties the cache
and fills it statement by statement.

## 3. What the runs check

Nine passing runs, and at the end three that look for a violation (section 5). Times are of two
workers.

| Run | Instance | Distinct states | Properties |
|---|---|---|---|
| `ship` | a run under every event in every order (every lane, one code and one text path, budget 1, two attempts); a run driven by the documented loop (budgets 0, 1, 3); a text hotfix that is classified and classified again | 216,132; 2 min | `UnreviewedDeliveryIsTextOnly`, `DoomedRunsNeverDeliver`, `ReviewStaysOwed`; `DrivenChangesWereReviewed`, `DrivenLoopTerminates`; `ClassifierAndEngineAgree` |
| `shared` | keeper: 2 processes, 2 pieces of evidence, 1 fault; planning: 2 processes, 2 rooms; plan: 2 calls at a time, 2 criteria, 7 patches | 2,144,728; 3 min | `ClaimsAreExclusive`, `CompletedOnceByClaimant`; `GatesRestOnConfirmations`; `ApprovalRestsOnReview`, and that `ArchitecturePlan` implements `PhaseProtocol` (`FollowsProtocol`) |
| `rooms` | 2 processes, 2 agents, 3 events, 1 death | 5,167,661; 2 min | `CursorNeverSkips`, `DoneIsInformed` |
| `delegate` | one delegate on both transports, no bound; a deep plan of up to 3 planners, 3 workers, 2 rounds, one refused lock | 1,569,589; 1 min | `CompletionWasSignalled`, `ExplicitStands`, `NoWorkAfterReturn`, `CallReturns`; `SuccessMeansEveryRound` |
| `review` | one phase, 3 delegations, plans with rows of every kind, 3 roles on 2 workers, packets and answers that are right and wrong in every way the gates tell apart | 40,775; 45 s | `CompletionIsEvidenced`, `MemoBacksApproval`, `ApprovalIsUnanimous`, `SwarmReturns` |
| `lane` | 2 sessions, 2 sprints, 2 tasks, 2 debug items of one area | 1,238,594; 2 min | `BoundSessionsKeepTheirTask`, `SprintsAreConfirmed`; `PromotedItemsHaveTheirTask`, `RepeatedFixesEscalate` |
| `delivery` | a task, two plans of which one's name begins with the other's, 2 manifests, memos of both phases; a ledger of 3 events, artifacts of every shape; a scout with 2 files of up to 3 markers and every limit around them | 716,634; 1½ min | `LastWordCounts`, `ObjectionsStand`, `TroubleIsAdmitted`, `AuditAgreesWithGate`; `FreeFormIsNoAuthority`; `ScoutTrustsWhatItFound` |
| `memory_live` | queue: 3 processes, 2 faults, runs that keep to their time; index: 2 processes, 2 files, 1 edit, 1 failure; report: 2 processes, 1 change, 1 failure | 732,417; 2 min | `EvidenceIsSettled`, `IndexCatchesUp`, `ReportsRecover` (all liveness) |
| `workspace` | 2 sessions, 2 directories, 2 writes, an editor; 2 starting processes, 1 kill, 2 edits of the bundle | 358,692; 1 min | `DelegatesAreAvailable`, `ApplyKeepsLaterWork`, `AppliedIsEffective`; `CustomFilesSurvive`, `BundleHeals` |
| `ship_exhausted` | code-changing starts | | violation of `ExhaustedRunStops` |
| `planning_reissue` | one process, one room | | violation of `SprintGateAwaitsReissue` |
| `plan_corrupt` | one call at a time on a plan with a malformed row | | violation of `CorruptMatrixNeverPasses` |

**Bounds.** `MaxAttempts`, `MaxFaults`, `MaxDeaths`, `MaxEvents`, the other constants commented
"bound" and the sets in the cfg files are all there are. One attempt beyond the budget is where the
two comparisons of the budget differ. Two processes are what every interleaving argument here needs;
a third matters only for liveness of the queue, where one may be dead and one may have failed. One
death is enough to leave a torn file or an orphaned lock and one survivor to meet it. Three events
let a cursor pass, skip and be overtaken. Two criteria let criteria outgrow the matrix. Three
delegations of a phase are a coder, a review that objects or is aborted, and another. Two manifests
are an earlier and a later word. A repeat threshold of 1 is met by the second of two items. Two
edits of the bundle are one under a writing process and one after it. Two syncs are an older and a
later scan, one edit tells them apart.

State constraints drop combinations, never interleavings of what is left: `InUse` of
`MCShipSupervisor` those that only multiply the lanes (a text file outside a text hotfix, a
permission outside a full sprint, a diagnosis outside debug); `PlanningInUse` lets two processes
race on one room, one process use two rooms, and two processes create two rooms, but not all at
once; `PlanInUse` follows plans on which calls have overlapped only with their first criterion and
phase A, because what is claimed of those plans does not distinguish criteria or phases; `Bounded`
of `MCDebugLane` gives debug items one sprint and no bound session; `FinalBounded` leaves alone a
task that was finalized and gives approvals with caveats to phase A only. No constraint touches a
side whose liveness is checked. Symmetry is used where the checked properties are safety and do not
name processes, rooms or agents. For the safety properties proved in section 4 nothing rests on
bounds.

**Deadlock** is checked except where the system may really stop: a call that has returned, edits and
faults that are used up, a room whose log is full or whose processes are dead, a ledger that is
full.

**One of each.** One room log, one plan, one keeper scope, one delegate, one phase of a plan at a
time: the code keeps these apart by file or key. `PlanningGate` has several rooms because its
pointers span them.

**Fairness.** Safety assumes none.
- `ShipSupervisor`: the session takes its next step; the reviewer and coder may answer anything.
- `Keeper.TimelySpec`: live runs take their steps, and a run does not outlive its lease (its time
  bound is 30 s, a lease lasts 5 min). Every process ends agent turns again and again, and so starts
  runs.
- `RepoIndex`: every tool call, edit and prompt begins a sync, and a sync that has begun waits for
  nobody.
- `HealthReport`: time passes; `ReportsRecover` has "reports go on being read" as its premise.
- `Delegate.FairSpec`: the parent's timers fire and the kernel delivers signals. Nothing is assumed
  of the child.
- `ReviewerSwarm`: each reviewer's delegation returns (`CallReturns`) and promises that are resolved
  are taken up.
- `GlobalBootstrap`: sessions keep being started, and a process that is not killed gets through the
  bundle.
- `Rooms`, `PlanningGate`, `ArchitecturePlan` and the sprint modules make no liveness claim: their
  calls are synchronous, or last as long as a user or a delegate.

## 4. What is proved

`tlapm` checks these for every value of the constants that satisfies the assumptions named below.
Each proof module also proves its component's type invariant (`TypeOK`, `RoomTypeOK`,
`PlanningTypeOK`, `PlanTypeOK`, `BootTypeOK`, the `Typing` and `TypeCorrect` theorems; for the debug
lane it is part of `LaneInv`), which is why no run lists one.

- `ShipEngineProofs` (`StartsAssumption`, `BudgetAssumption`): `Consistent(s)` says of one state
  that the reviewer is owed where the lane's default owes one, that debug and unconfirmed runs are
  inert, that implementing and fixing stages are within budget, and that a delivered state would
  still pass finalization's own tests. Each handler preserves it, as a statement about `s` and its
  successor. The invariants follow, and so do `ReviewStaysOwed` and, through "doomed stays doomed,
  and a doomed state is refused", `DoomedRunsNeverDeliver`. For the driven loop the invariant is
  `LoopFits`: an approval in hand means that finalizing is next and that what changed was reviewed
  since, and debug has met no reviewer; `NextSupervised` keeps the engine's invariant as well, as
  each of its steps is one of the engine's (`LoopStep`). That classifier and engine agree
  (`SameRuleAssumption`, `ReviewRulesAgree`) is a comparison of their two definitions, request by
  request.
- `KeeperProofs` (`KeeperAssumption`): exclusiveness alone is not inductive. What makes it so is
  that a run's belief is a lower bound of the row (`LeaseHonoured`, `ClaimsHonoured`): while the run
  thinks its time is not up, the row names it and has at least that time left. `ExclusiveLease`,
  which no run lists, is the exclusion of two live leases.
- `RoomsProofs` (`RoomsAssumption`): the lock excludes every other call, so what a call has read is
  still current when it writes (`ReadIsCurrent`); and a torn line implies that the lock belongs to a
  dead process for good, so nothing is ever appended to it (`TornIsLocked`). That numbers are places
  (`MonotonicSeq`), posts are not lost (`NoLostPost`) and cursors only advance (`AdvancingCursors`)
  is proved only.
- `PlanningProofs`, for the gates (`PlanningInputsAssumption`, `PlanningAbsentAssumption`): on a
  room where no calls have overlapped the process that has read is the only one that may write
  (`Exclusive`), so the record it derived fits the history when it is written (`NextRecordFits`);
  and the file is written before the pointer (`WrittenFirst`).
- `PlanningProofs`, for architecture plans (`InputsAssumption`, `AbsentAssumption`), in two
  invariants. `SoundInv` says that what any call holds in memory is as admissible and as earned as
  what is on file, so that a stale rewrite can bring back an old status but not make one up: this
  holds under every overlap. `OrderlyInv` holds until calls overlap: the calls in flight go
  together, a rewriting call is alone with the file it has read, and, for delegations,
  `GateStillHolds`: what the gate saw at the start is still so at the end, up to the work of coders
  of the same phase. From these `ImplementsProtocol` shows, action by action, that a step maps to a
  step of `PhaseProtocol` or to a stutter of `Committed`. `PlanInit` needs no mapping, as
  `PhaseProtocol` starts from any phases.
- `DebugLaneProofs` (`DebugAssumption`), for the sprint store and the debug lane: no step takes away
  a sprint, a task file or an item (`NothingIsTakenAway`), so what a process settled before it
  waited is still there when it goes on, wherever the pointer has moved. `PendingFits` says so for
  each place a process waits at, and three theorems follow: a promoted item has its task, a bound
  session reads and writes its own task, an area that had its fill escalates. `SprintsNeedTheGate`
  needs no invariant: in the step that creates a sprint the hook's question has its answer.
- `DelegateProofs` (`SidecarAssumption`), for a delegate: `CompletionWasSignalled` alone is not
  inductive, as it says nothing of who may write next. What makes it so: the three writers of the
  sidecar take turns between their test and their write (`WritersTakeTurns`), a sidecar that says
  more than that the process ended is the child's own (`SidecarIsTheChilds`, for the file and for
  what the parent has read), and the parent completes only what it has read (`StartedInOrder`).
- `DelegateProofs` (`DeepPlanningAssumption`), for a deep plan: below the cursor of a round every
  planner was run in it or is held by a worker (`NoneSkipped`), held by one only (`HeldOnce`), and
  nobody runs twice in a round (`RunOnce`). That the results are as many as planners times rounds is
  a count of pairs (`EveryRoundCounted`).
- `WorkspaceProofs`, for the bundle: what a process is writing is torn, and it only begins to write
  what is missing or managed (`WritesWhatIsTorn`), so no number of starts and kills reaches a file
  that is the user's. For the layers: a merge takes no field away, so whatever they contain the
  result names the delegates of the defaults (`LayersName`), and what resolves was looked up
  (`ResolvedIsAvailable`); `DelegatesRunWhatIsThere` needs no invariant of the files. For the
  overlay (`ConfigureOverlayAssumption`): an edit in a draft is for a role that the file had when
  the block was opened, or that was staged since (`EditsAreKnown`); the rest of the payload is the
  file as it is at the Apply, which gives `ApplyLosesNothing`. What was applied takes effect because
  of two facts about the layers (`OwnFieldsCount`, `OwnProfileCounts`): nothing but the profile of
  the command line lies over the local file, and the profile that file names lies directly below it.
- `DeliveryProofs` (`CoderResultsAssumption`, `SwarmAssumption`, `FormsAssumption`,
  `QualityAuditAssumption`, `ArtifactsAssumption`, `ScoutAssumption`), for what a delivery rests on:
  - *The swarm.* Only reviews that end in role mode touch memo and status together, which makes
    `MemoBacksApproval` inductive as it stands. For `ApprovalIsUnanimous` the invariant is that a
    running swarm has one place per role of the plan (`SwarmInv`), and the rest is what an evaluated
    set of answers amounts to.
  - *Completion.* `EvidenceInv` says what was true of the packet at the time the coder's phase was
    completed; that it implies `CompletionIsEvidenced` is a matter of `CommandOutcome` (the last run
    of a command) and of the strongest row of a criterion, over lists of any length, and of where an
    envelope is looked for.
  - *The ledger.* The events, the ids and the imports keep to the form in which free-form text is
    never the accepted event of a kind (`LedgerInv`); ids stay apart (`IdsTellEventsApart`) because
    a new one is above every number of its kind, a caller's own included.
  - *The gate.* `FinalInv` is the form of the files. Each step that finalizes is an evaluation of
    the files in that very step (`FinalizesByEvaluation`); what remains is which manifests, which
    memo and which packet an evaluation picks: the newest that matches, the phase's own before
    another's, the last that has any evidence.
  - *The audit.* Each trouble of a run that the gate asks about is a finding of the audit
    (`TroublesAreFound`).
  - *The scout.* What it has found is within its budgets, and what it has validated is the first
    part of it, so that the validation, which counts again, never meets its own limits
    (`WithinBudgets`, `ValidatedSoFar`). The cost of a list is a recursive function, of which
    existence and prefixes are proved (`TotalsExist`, `TotalsAgree`, `TotalsGrow`).

Induction over numbers, which these lists need, is `SetInduction`: a set that has 0 and with each
number the next has all numbers. It follows from the library's fact that finite subsets are
well-founded under inclusion, applied to the intervals that end outside the set; the library's own
induction theorem takes an operator, which none of the installed provers can instantiate.

**The assumptions** say what the constants stand for, and TLC evaluates them on the instances.
- Most are types, markers that are not among the things they mark the absence of
  (`SidecarAssumption`, the `Absent` ones) and numbers the code never lets be zero.
- `FormsAssumption`: a plan that is valid as a ready one has rows, which `validateEvidenceMatrix`
  demands (`evidence-matrix.ts:467`); a packet has its fields, which the normaliser fills.
- `QualityAuditAssumption`: a text names at most one task.
- `CoderResultsAssumption` and `SwarmAssumption` tie two labels to what they mean. The results of
  coders and the answers of reviewers carry `trusted` and `approves`, what a reader of the files
  would say: that the coder filed a packet as its evidence, that the reviewer's own evidence
  approves. The assumptions define these by what is in the result (`FiledAsEvidence`: anywhere
  evidence may be filed; `ApprovesInEvidence`); the gate's order of looking, its flags and its
  verdicts have no part in `trusted`, and that the gate accepts nothing else is the theorem.
- `SameRuleAssumption`: both copies of the rule for paths that look like code know the same files,
  as their expressions are the same.

Only model-checked: liveness (`DrivenLoopTerminates`, `CallReturns`, `SwarmReturns`,
`EvidenceIsSettled`, `IndexCatchesUp`, `ReportsRecover`, `BundleHeals`: it rests on fairness and
ENABLED).
The properties of the last three runs are false, as they are meant to be.

## 5. Where code and documents disagree

The three violation runs. Each quotes its line in `PROJECT.json`.
- A ship run stopped with `retry-budget-exhausted` is not stopped: later events are accepted and
  deliver it.
- After an architecture change, recording any flag (not the re-issued confirmation) reopens the
  sprint gate.
- A draft plan with a malformed matrix row loses the row at its next update, whatever that updates,
  and can then be made ready and pass the gate, which was to report the row.

**Noticed while modelling**, in the model's actions but outside what its properties claim, or
abstracted:

- *Ship, lanes.* A focused fix after an approval re-enters the reviewer stage with the old approval
  and can be delivered from there (`ship-engine.ts:376`). A debug run that gets reviewer changes
  enters the fixing stage, but can implement nothing. A run remembers no classification.
  `sprint_classify_lane` hands on no confirmations or thresholds, so a full sprint is always
  blocked. The rule for paths that look like code exists twice (`lane-policy.ts:146`,
  `ship-engine.ts:385`). `state.json` is written in place, twice per transition; a kill within
  leaves a run no action can read.
- *Sprints, debug.* `sprint_set_active` saves the pointer before it reports that the task is not
  there. The session start resolves the active sprint again after its await. A promotion cut short
  leaves a task without its item, and a second promotion makes a second task. `/sprint task done`
  (`command.ts:213`) asks no finalization gate. An `area` given to a call is never stored.
- *Rooms.* The lock file of a killed process is never removed (`rooms/store.ts:130`), and every
  later call on the room times out.
- *Planning.* A room whose planning file was torn by a kill keeps its gates closed until the file is
  removed.
- *Delegates.* A headless child killed by a signal counts as exited with 0 (`headless.ts:147`); a
  turn that ends badly after `sub_agent_done` turns the completion into a failure (`pane.ts:431`).
- *Deep planning.* An abort between two planners ends in "All planners finished" of those that ran,
  and aborted calls are outside `SuccessMeansEveryRound`. Workers go on after the call threw. More
  planners asked for than are listed run as the fewer that are.
- *Plans.* A reviewer is given the matrix on file when the review starts, which may not be the one
  the coder's evidence was accepted against (`tools.ts:474`); the sprint a plan lies in is resolved
  again at the end of a delegation (`sprint-path.ts:86`).
- *Review.* The single reviewer's UNKNOWN verdict is recorded as an approval (`tools.ts:402`), and
  it writes no memo. A memo that cannot be written leaves the previous one.
- *Finalization.* Runs are matched by a substring of their tasks. Phase B without a memo falls back
  to phase A's. Headless work leaves no manifest and can never be finalized strictly. A plan given
  by id is not checked against the task. A dry run does update the task.
- *Ledger.* No caller is wired in yet. A chosen id can block a later generated one. A superseded
  event that is accepted again keeps `supersededBy`. Mirrors of a summary accept hollow objects.
- *Audit.* Its bound on manifests counts the newest, its bound on files the alphabetically first. A
  coder that is still running is reported as missing its sidecar. A run that names only the plan is
  in no task's summary.
- *Configuration.* A kill within the bundle leaves a torn file, which is left alone as the user's
  from then on. The version of managed sidecars is never compared: they are rewritten at every
  start. Applying the role presets writes back hydrated values over what another session changed
  since. A local file that cannot be read counts as `{}` and is lost at the next Apply. A
  subdirectory's local file hides its parent's. `presetOverride` skips the second guard
  (`runner.ts:44`).
- *Keeper.* A lease is not checked again after it was acquired, so a run that outlives it writes
  cards beside its successor, although the lease is "used to prevent multiple Pi processes from
  running keeper writes concurrently" (`docs/pi-ai-automation-memory-spec.md:258`). What is proved
  and checked is that this harms no evidence, and that the index gets over late cards.
- *Index.* A card written late makes a row fresh for a hash it was not made for; an older scan that
  commits last writes older hashes; an edit that keeps size and time is not seen. All are repaired
  by the next sync of a tree at rest, but the last. Evidence marked stale by an older scan stays so.
- *Health report.* The rows of the cache are deleted and inserted without a transaction. Partial,
  doubled or mixed sets pass as fresh until they age; the newest version is picked by comparing
  hashes as strings; evidence and cards have no part in the version.
- *Scout.* The context version is that of the sync, though files are read later. A path with a line
  break would fail the validation of its findings.

## 6. Plan

Done: sections 2 to 4. What is left, in this order:
1. Safety of the index and of the report, of which only liveness is claimed so far.
2. `state.json` and `REPORT.md` of a ship run, with the kill between and within their writes.
3. One task's life in one specification: planning gate, plan, delegations, finalization, as the
   implementation of an abstract "nothing is finished unreviewed". The state of the parts
   multiplies; it needs abstract versions of the delegations first, for which
   `CompletionIsEvidenced` and `ApprovalIsUnanimous` are the contracts.
4. The choice of room and plan directory, which the modules take as given.

**Not modelled**, and not planned: the rendering of results, overlays, pickers, projections and
reports, the wording of prompts, memos and reasons, the smoke scripts and examples; redaction, globs
and language detection (`src/src/security`, `src/src/util`: stateless functions over text); the
read-only queries of the memory tools; the audit's scans of free text; cmux, the pi host, SQLite
itself and the models behind the agents, which are external.
