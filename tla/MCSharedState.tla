---------------------------- MODULE MCSharedState -----------------------------
(***************************************************************************)
(* What several pi processes read, change and write again, on small         *)
(* instances side by side: the rows of the keeper, the planning states and  *)
(* an architecture plan.  A behaviour runs one of them and leaves the       *)
(* others in their first states: they have no state in common.              *)
(***************************************************************************)
EXTENDS Keeper, MCPlanningGate, MCArchitecturePlan

VARIABLE shared     \* what the behaviour runs

sharedVars == <<vars, planningVars, planVars, shared>>

SharedInit ==
    /\ shared \in {"keeper", "planning", "plan"}
    /\ Init /\ PlanningInit /\ PlanInit
    /\ shared # "plan" => file = NoPlan

OnKeeper(A) == shared = "keeper" /\ A /\ UNCHANGED <<planningVars, planVars, shared>>
OnPlanning(A) == shared = "planning" /\ A /\ UNCHANGED <<vars, planVars, shared>>
OnPlan(A) == shared = "plan" /\ A /\ UNCHANGED <<vars, planningVars, shared>>

SharedNext == OnKeeper(Next) \/ OnPlanning(PlanningNext) \/ OnPlan(PlanNext)

SharedSpec == SharedInit /\ [][SharedNext]_sharedVars

InUse == PlanningInUse /\ PlanInUse

\* The processes are the same on every side.
Symmetry == Permutations(Processes) \cup Permutations(Rooms)

===============================================================================
