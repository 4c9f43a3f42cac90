\* Two processes.  The keeper: time runs freely, one fault.  The planning states: two rooms,
\* every kind of call.  The plan: two calls at a time, on a new plan or on one from before
\* the matrix.
SPECIFICATION SharedSpec
CONSTANTS
    Workers = {p1, p2}
    Nobody = Nobody
    Files = {f1}
    NumEvidence = 2
    BatchSize = 1
    Duration = 1
    MaxFaults = 1
    Processes = {p1, p2}
    Rooms = {r1, r2}
    Scopes = {"tiny_debug", "expanded_from_tiny"}
    FlagUpdates <- Updates
    Callers = {p1, p2}
    First = First
    Second = Second
    Criteria = {First, Second}
    Fit = Fit
    Unfit = Unfit
    Rows = {Fit, Unfit}
    UnfitRows = {Unfit}
    Recordings <- SomeRecordings
    Patches <- SomePatches
    Found <- LegacyPlans
    Keep = Keep
    NoPlan = NoPlan
    TornPlan = TornPlan
    NoCall = NoCall
    Missing = Missing
    Torn = Torn
    Idle = Idle
SYMMETRY Symmetry
CONSTRAINT InUse
INVARIANTS
    ClaimsAreExclusive
    GatesRestOnConfirmations
    ApprovalRestsOnReview
PROPERTIES
    CompletedOnceByClaimant
    FollowsProtocol
