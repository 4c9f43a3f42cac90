------------------------------ MODULE MCDelegate ------------------------------
(***************************************************************************)
(* Delegate and DeepPlanning for TLC, side by side: a behaviour runs one      *)
(* delegate on either transport, which is finite as it is, or one deep        *)
(* planning call with up to three planners, three workers and two rounds.     *)
(***************************************************************************)
EXTENDS Delegate, DeepPlanning

VARIABLE side

MCPlannerLists == {<<>>, <<Id("a"), Id("a")>>}

\* Three planners run one round with three workers or two, two planners two rounds.
MCTunings ==
    {[plannerCount |-> t[1], rounds |-> t[2], maxConcurrency |-> t[3]] :
        t \in {<<0, 0, 0>>, <<3, 0, 0>>, <<3, 0, 2>>, <<0, 2, 0>>, <<0, 2, 1>>}}

MCConfigured ==
    {[enabled |-> e, planners |-> p, plannerCount |-> 2, rounds |-> 0, maxConcurrency |-> 3] :
        e \in BOOLEAN, p \in {<<>>, <<Id(Unnamed), Id("a"), Id(Unnamed)>>}}

sideVars == <<vars, deepVars, side>>

SideInit ==
    /\ Init /\ DeepInit /\ side \in {"delegate", "deep planning"}
    /\ side = "deep planning" => config = [display |-> "pane", autoClose |-> TRUE]

OnDelegate(A) == side = "delegate" /\ A /\ UNCHANGED <<deepVars, side>>
OnDeepPlan(A) == side = "deep planning" /\ A /\ UNCHANGED <<vars, side>>

SideNext == OnDelegate(Next) \/ OnDeepPlan(DeepNext)

SideFairness ==
    /\ WF_sideVars(OnDelegate(PollAborted)) /\ WF_sideVars(OnDelegate(PollTimedOut))
    /\ WF_sideVars(OnDelegate(CompletePane)) /\ WF_sideVars(OnDelegate(KillChild))
    /\ WF_sideVars(OnDelegate(ChildCloses)) /\ WF_sideVars(OnDelegate(DeadlinePasses))

SideSpec == SideInit /\ [][SideNext]_sideVars /\ SideFairness

===============================================================================
