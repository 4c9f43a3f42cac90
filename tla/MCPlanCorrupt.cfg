\* One call at a time on a plan found with a malformed row.
SPECIFICATION PlanSpec
CONSTANTS
    Callers = {c1}
    First = First
    Second = Second
    Criteria = {First, Second}
    Fit = Fit
    Unfit = Unfit
    Rows = {Fit, Unfit}
    UnfitRows = {Unfit}
    Recordings <- SomeRecordings
    Patches <- SomePatches
    Found <- MalformedPlans
    Keep = Keep
    NoPlan = NoPlan
    TornPlan = TornPlan
    NoCall = NoCall
INVARIANTS
    CorruptMatrixNeverPasses
