-------------------------------- MODULE Keeper --------------------------------
(***************************************************************************)
(* The keeper of the repository memory (src/keeper, src/evidence): several  *)
(* pi processes share one SQLite index, and at the end of an agent turn     *)
(* each may run one unit of keeper work, runKeeperUnit.                     *)
(*                                                                          *)
(* A run takes the keeper lease, plans, claims a batch of evidence rows,    *)
(* picks the files to card, writes the cards, completes its evidence and    *)
(* gives the lease back.  A process runs this code without yielding, but    *)
(* every statement is a transaction of its own, so the steps of several     *)
(* processes interleave, time passes between them, any of them may throw    *)
(* (SQLITE_BUSY), and the process may die.                                  *)
(*                                                                          *)
(* Abstracted: an expiry time is the time left until it, -1 once it is in   *)
(* the past (0 is the boundary where neither `expires_at > now` nor         *)
(* `expires_at < now` holds); the content of a card; the time and token     *)
(* budgets, which cut the list of files to card anywhere; the table of      *)
(* files, which only gives the run its card backlog and its list of files.  *)
(* The three SELECTs a run plans with are one step.                         *)
(***************************************************************************)
EXTENDS Integers, FiniteSets

CONSTANTS
    Workers,        \* pi processes, each with its own PROCESS_ID
    Nobody,         \* no holder (NULL)
    Files,          \* the indexed files that can get a card
    NumEvidence,    \* bound: evidence rows ever recorded
    BatchSize,      \* keeper.batchSize
    Duration,       \* keeper.leaseDurationMs, in ticks
    MaxFaults       \* bound: statements that throw and processes that die

ASSUME KeeperAssumption ==
    /\ Nobody \notin Workers
    /\ IsFiniteSet(Files)
    /\ NumEvidence \in Nat
    /\ BatchSize \in Nat \ {0}
    /\ Duration \in Nat \ {0}
    /\ MaxFaults \in Nat

VARIABLES
    lease,      \* the row of keeper_leases
    evidence,   \* the evidence rows, in the order of recorded_at
    worker,     \* each process: where its run is and what it remembers
    faults      \* the faults so far

vars == <<lease, evidence, worker, faults>>

-------------------------------------------------------------------------------
EvidenceIds == 1..NumEvidence

\* Time left until an expiry; -1 once it has passed.
TimeLeft == -1..Duration

Phases == {"idle", "leased", "planned", "claimed", "writing", "refreshing",
           "releasing", "dead"}

LeaseRows == [holder : Workers \cup {Nobody}, left : TimeLeft]

\* "unrecorded" is a row that is not there yet; a row with keeper_state NULL
\* is treated as "pending" everywhere.
EvidenceRows == [state : {"unrecorded", "pending", "processing", "processed"},
                 holder : Workers \cup {Nobody},
                 left : TimeLeft,
                 stale : BOOLEAN]

Runs == [at : Phases,
         leaseLeft : TimeLeft,      \* time left on the lease, as acquired
         limit : Nat,               \* effectiveBatchSize
         batch : SUBSET EvidenceIds,
         claimLeft : TimeLeft,      \* time left on the batch, as claimed
         todo : SUBSET Files]       \* cards generated and not yet written

NoRun(phase) == [at |-> phase, leaseLeft |-> -1, limit |-> 0, batch |-> {},
                 claimLeft |-> -1, todo |-> {}]

-------------------------------------------------------------------------------
(* What the statements of the run select. *)

Live(w) == worker[w].at /= "dead"
MidRun(w) == worker[w].at \notin {"idle", "dead"}

\* acquireLease: the upsert takes the row when it expired or has no holder.
LeaseIsFree == lease.left < 0 \/ lease.holder = Nobody

\* getPendingEvidenceCount counts a claim whose time is just up as pending.
PendingCount ==
    Cardinality({e \in EvidenceIds :
        /\ ~evidence[e].stale
        /\ \/ evidence[e].state = "pending"
           \/ evidence[e].state = "processing" /\ evidence[e].left <= 0})

ProcessingCount ==
    Cardinality({e \in EvidenceIds :
        evidence[e].state = "processing" /\ evidence[e].left > 0})

\* planKeeperRun: under pressure a run takes a double batch, of 50 at most.
EffectiveBatch(agents, cards) ==
    LET backlog == PendingCount + cards
        pressed == \/ agents >= 4
                   \/ backlog >= 4 * BatchSize
                   \/ ProcessingCount >= BatchSize
        double == IF 2 * BatchSize < 50 THEN 2 * BatchSize ELSE 50
    IN  CASE backlog <= 0 -> 0
          [] backlog > 0 /\ pressed -> double
          [] OTHER -> BatchSize

\* What a claim, its reclaim and its completion write into a row.
Claimed(row, w) == [row EXCEPT !.state = "processing", !.holder = w, !.left = Duration]
HandedBack(row) == [row EXCEPT !.state = "pending", !.holder = Nobody]
Completed(row) == [row EXCEPT !.state = "processed", !.holder = Nobody, !.left = -1]

\* Mutants of Reclaimed: the expiry is not looked at; nothing is handed back.
ReclaimedBeforeExpiry ==
    [e \in EvidenceIds |->
        IF evidence[e].state = "processing"
        THEN HandedBack(evidence[e]) ELSE evidence[e]]
ReclaimedNothing == evidence

\* claimEvidenceBatch first hands back what other runs failed to complete ...
Reclaimed ==
    [e \in EvidenceIds |->
        IF evidence[e].state = "processing" /\ evidence[e].left < 0
        THEN HandedBack(evidence[e]) ELSE evidence[e]]

\* ... and then claims the oldest rows that are pending and not stale.
Oldest(rows, limit) ==
    LET open == {e \in EvidenceIds : rows[e].state = "pending" /\ ~rows[e].stale}
    IN  {e \in open : Cardinality({f \in open : f < e}) < limit}

-------------------------------------------------------------------------------
Init ==
    /\ lease = [holder |-> Nobody, left |-> -1]
    /\ evidence = [e \in EvidenceIds |->
            [state |-> "unrecorded", holder |-> Nobody, left |-> -1,
             stale |-> FALSE]]
    /\ worker = [w \in Workers |-> NoRun("idle")]
    /\ faults = 0

\* The steps of a run, one per transaction it makes.

AcquireLease(w) ==
    /\ worker[w].at = "idle"
    /\ LeaseIsFree
    /\ lease' = [holder |-> w, left |-> Duration]
    /\ worker' = [worker EXCEPT ![w] = [NoRun("leased") EXCEPT !.leaseLeft = Duration]]
    /\ UNCHANGED <<evidence, faults>>

\* With nothing to do the run goes straight to its `finally`.
PlanRun(w) ==
    /\ worker[w].at = "leased"
    /\ \E agents \in {1, 4}, cards \in 0..Cardinality(Files) :
         LET size == EffectiveBatch(agents, cards)
         IN  worker' = [worker EXCEPT
                 ![w].at = IF size = 0 THEN "releasing" ELSE "planned",
                 ![w].limit = size]
    /\ UNCHANGED <<lease, evidence, faults>>

ClaimEvidenceBatch(w) ==
    /\ worker[w].at = "planned"
    /\ LET claimed == Oldest(Reclaimed, worker[w].limit)
       IN  /\ evidence' = [e \in EvidenceIds |->
                 IF e \in claimed THEN Claimed(Reclaimed[e], w) ELSE Reclaimed[e]]
           /\ worker' = [worker EXCEPT ![w].at = "claimed",
                                       ![w].batch = claimed,
                                       ![w].claimLeft = Duration]
    /\ UNCHANGED <<lease, faults>>

\* selectFilesToCard and the generation loop, whose budgets may end it early.
SelectFilesToCard(w) ==
    /\ worker[w].at = "claimed"
    /\ \E files \in SUBSET Files :
         worker' = [worker EXCEPT ![w].at = "writing", ![w].todo = files]
    /\ UNCHANGED <<lease, evidence, faults>>

WriteCard(w, f) ==
    /\ worker[w].at = "writing"
    /\ f \in worker[w].todo
    /\ worker' = [worker EXCEPT ![w].todo = @ \ {f}]
    /\ UNCHANGED <<lease, evidence, faults>>

\* Mutant of MayComplete: a batch is completed by id alone.
MayCompleteAny(w, e) == TRUE

\* Rows that another run has claimed since are left to it.
MayComplete(w, e) == evidence[e].holder = w

CompleteEvidenceBatch(w) ==
    /\ worker[w].at = "writing"
    /\ worker[w].todo = {}
    /\ evidence' = [e \in EvidenceIds |->
            IF e \in worker[w].batch /\ MayComplete(w, e)
            THEN Completed(evidence[e]) ELSE evidence[e]]
    /\ worker' = [worker EXCEPT ![w].at = "refreshing", ![w].batch = {},
                                ![w].claimLeft = -1]
    /\ UNCHANGED <<lease, faults>>

\* The new expiry is not handed to the caller, who goes on with the old one.
RefreshLease(w) ==
    /\ worker[w].at = "refreshing"
    /\ lease' = IF lease.holder = w THEN [lease EXCEPT !.left = Duration] ELSE lease
    /\ worker' = [worker EXCEPT ![w].at = "releasing"]
    /\ UNCHANGED <<evidence, faults>>

ReleaseLease(w) ==
    /\ worker[w].at = "releasing"
    /\ lease' = IF lease.holder = w THEN [holder |-> Nobody, left |-> -1] ELSE lease
    /\ worker' = [worker EXCEPT ![w] = NoRun("idle")]
    /\ UNCHANGED <<evidence, faults>>

-------------------------------------------------------------------------------
(* Faults, time, and what the other parts of the system do to the queue. *)

\* A statement throws.  Inside the `try` the run goes to its `finally`; the
\* openDb before the `try` and the release itself leave the lease behind.
StatementFails(w) ==
    /\ MidRun(w)
    /\ faults < MaxFaults
    /\ faults' = faults + 1
    /\ \/ /\ worker[w].at /= "releasing"
          /\ worker' = [worker EXCEPT ![w] =
                [NoRun("releasing") EXCEPT !.leaseLeft = worker[w].leaseLeft]]
       \/ /\ worker[w].at \in {"leased", "releasing"}
          /\ worker' = [worker EXCEPT ![w] = NoRun("idle")]
    /\ UNCHANGED <<lease, evidence>>

ProcessDies(w) ==
    /\ Live(w)
    /\ faults < MaxFaults
    /\ faults' = faults + 1
    /\ worker' = [worker EXCEPT ![w] = NoRun("dead")]
    /\ UNCHANGED <<lease, evidence>>

Later(left) == IF left > -1 THEN left - 1 ELSE -1

Tick ==
    /\ lease' = [lease EXCEPT !.left = Later(@)]
    /\ evidence' = [e \in EvidenceIds |->
            [evidence[e] EXCEPT !.left = Later(evidence[e].left)]]
    /\ worker' = [w \in Workers |->
            [worker[w] EXCEPT !.leaseLeft = Later(worker[w].leaseLeft),
                              !.claimLeft = Later(worker[w].claimLeft)]]
    /\ UNCHANGED faults

\* appendEvidence; a record made against another context is stale from the start.
AppendEvidence(e, stale) ==
    /\ evidence[e].state = "unrecorded"
    /\ \A f \in EvidenceIds : f < e => evidence[f].state /= "unrecorded"
    /\ evidence' = [evidence EXCEPT ![e].state = "pending", ![e].stale = stale]
    /\ UNCHANGED <<lease, worker, faults>>

\* markPossiblyStaleEvidence, at the end of any sync: whatever the row's state.
MarkPossiblyStale(e) ==
    /\ evidence[e].state /= "unrecorded"
    /\ evidence' = [evidence EXCEPT ![e].stale = TRUE]
    /\ UNCHANGED <<lease, worker, faults>>

RunStep(w) ==
    \/ AcquireLease(w) \/ PlanRun(w) \/ ClaimEvidenceBatch(w)
    \/ SelectFilesToCard(w) \/ (\E f \in Files : WriteCard(w, f))
    \/ CompleteEvidenceBatch(w) \/ RefreshLease(w) \/ ReleaseLease(w)

Environment ==
    \E e \in EvidenceIds :
        (\E stale \in BOOLEAN : AppendEvidence(e, stale)) \/ MarkPossiblyStale(e)

Next ==
    \/ \E w \in Workers : RunStep(w) \/ StatementFails(w) \/ ProcessDies(w)
    \/ Tick
    \/ Environment

Spec == Init /\ [][Next]_vars

-------------------------------------------------------------------------------
(* Timing and fairness.  A run is bounded by maxRunTimeMs (30 s by default),  *)
(* a lease lasts leaseDurationMs (5 min): when the run keeps to its bound,    *)
(* neither its lease nor its claims expire under it.  Every process that is   *)
(* alive ends agent turns and so starts runs, and a run never waits.          *)

\* Time passes without a live run losing its lease or its claims.
TimelyTick ==
    /\ \A w \in Workers : MidRun(w) =>
         /\ worker[w].leaseLeft > 0
         /\ worker[w].at \in {"claimed", "writing"} => worker[w].claimLeft > 0
    /\ Tick

TimelyNext ==
    \/ \E w \in Workers : RunStep(w) \/ StatementFails(w) \/ ProcessDies(w)
    \/ TimelyTick
    \/ Environment

TimelySpec ==
    /\ Init /\ [][TimelyNext]_vars
    /\ \A w \in Workers : WF_vars(RunStep(w))
    /\ WF_vars(TimelyTick)

-------------------------------------------------------------------------------
(* Properties. *)

\* The rows and the runs stay what the schema and runKeeperUnit make them.
TypeOK ==
    /\ lease \in LeaseRows
    /\ evidence \in [EvidenceIds -> EvidenceRows]
    /\ worker \in [Workers -> Runs]
    /\ faults \in Nat

\* The run of w believes it still has the keeper lease.
TrustsLease(w) == MidRun(w) /\ worker[w].leaseLeft >= 0

\* Two processes never both run a keeper unit under a lease that has not
\* expired: acquireLease, refreshLease and releaseLease respect each other.
LeaseIsExclusive ==
    \A v, w \in Workers : TrustsLease(v) /\ TrustsLease(w) => v = w

\* A batch whose time is not up belongs to its run alone: no other run can
\* have reclaimed (claimEvidenceBatch) or completed its rows.
ClaimsAreExclusive ==
    \A w \in Workers, e \in EvidenceIds :
        worker[w].claimLeft >= 0 /\ e \in worker[w].batch =>
            evidence[e].state = "processing" /\ evidence[e].holder = w

\* Evidence becomes processed only by a step of the process that holds its
\* claim, and is never claimed, reclaimed or processed again after that.
CompletedOnceByClaimant ==
    [][\A e \in EvidenceIds :
        /\ evidence[e].state = "processed" => evidence'[e].state = "processed"
        /\ evidence[e].state /= "processed" /\ evidence'[e].state = "processed" =>
             \E w \in Workers : evidence[e].holder = w /\ worker'[w] /= worker[w]]_vars

\* Whatever a crashed or failed run had claimed comes back: every recorded
\* piece of evidence is in the end processed, or found stale.
EvidenceIsSettled ==
    \A e \in EvidenceIds :
        evidence[e].state /= "unrecorded" ~>
            evidence[e].state = "processed" \/ evidence[e].stale

===============================================================================
