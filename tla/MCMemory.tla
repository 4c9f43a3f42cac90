------------------------------ MODULE MCMemory -------------------------------
(***************************************************************************)
(* The liveness of three parts of the repository memory, the keeper's queue *)
(* of evidence, the index of files and the health report, on small          *)
(* instances side by side: a behaviour runs one of them and leaves the      *)
(* others in their first states.  What the parts share, the cards,          *)
(* RepoIndex has on its side.                                               *)
(***************************************************************************)
EXTENDS Keeper, RepoIndex, HealthReport

CONSTANTS b, c1     \* a file that is there at the start, with a content no other has then

VARIABLE part

memoryVars == <<vars, indexVars, healthVars, part>>

MemoryInit ==
    /\ part \in {"queue", "index", "report"}
    /\ Init
    /\ IndexInit
    /\ HealthInit
    /\ IF part = "index"
       THEN \A f \in Paths : IF f = b THEN tree[f] = File(c1, 0, FALSE)
                                      ELSE tree[f] # File(c1, 0, FALSE)
       ELSE tree = [f \in Paths |-> Nothing]

OnQueue(A) == part = "queue" /\ A /\ UNCHANGED <<indexVars, healthVars, part>>
OnIndex(A) == part = "index" /\ A /\ UNCHANGED <<vars, healthVars, part>>
OnReport(A) == part = "report" /\ A /\ UNCHANGED <<vars, indexVars, part>>

MemoryNext == OnQueue(TimelyNext) \/ OnIndex(IndexNext) \/ OnReport(HealthNext)

\* The fairness of TimelySpec, of IndexSpec and of HealthSpec, each for its part.
MemorySpec ==
    /\ MemoryInit /\ [][MemoryNext]_memoryVars
    /\ \A w \in Workers : WF_memoryVars(OnQueue(RunStep(w)))
    /\ WF_memoryVars(OnQueue(TimelyTick))
    /\ \A p \in Processes :
          WF_memoryVars(OnIndex(SyncStep(p))) /\ WF_memoryVars(OnIndex(WriteFileCard(p)))
    /\ WF_memoryVars(OnReport(Age))

===============================================================================
