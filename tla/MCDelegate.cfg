\* One delegate on either transport, or one deep planning call, in all their interleavings.
SPECIFICATION SideSpec
CONSTANTS
    Displays = {"pane", "headless"}
    Absent = Absent
    Torn = Torn
    Tunings <- MCTunings
    PlannerLists <- MCPlannerLists
    Configured <- MCConfigured
    MaxLockFailures = 1
INVARIANTS
    CompletionWasSignalled
    ExplicitStands
    NoWorkAfterReturn
    SuccessMeansEveryRound
PROPERTY CallReturns
CHECK_DEADLOCK FALSE
