\* One phase of a plan, three delegations.
SPECIFICATION Spec
CONSTANTS
    DefaultRoles = {"behavior", "maintainability"}
    RuntimeRoles = {"behavior"}
    Configs <- MCConfigs
    Targets <- MCTargets
    CoderResults <- MCCoderResults
    Answers <- MCAnswers
    MaxCalls = 3
INVARIANTS
    CompletionIsEvidenced
    MemoBacksApproval
PROPERTIES
    ApprovalIsUnanimous
    SwarmReturns
CHECK_DEADLOCK FALSE
