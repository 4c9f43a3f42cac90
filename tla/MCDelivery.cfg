SPECIFICATION DeliverySpec
CONSTANTS
    Plans = {"p1", "p10"}
    Tasks = {"t"}
    Forms <- MCForms
    Mentions <- MCMentions
    Packets <- MCPackets
    Notes <- MCNotes
    NoPlan = NoPlan
    MaxRuns = 2
    TaskNamed <- MCTaskNamed
    NoTask = "none"
    MaxAudited = 2
    Run = "run" OtherRun = "other"
    Kinds = {"coder_evidence", "gate_decision", "legacy_import"}
    AppendSources = {"summary", "freeFormOnly"}
    CustomIds <- MCCustomIds
    MaxEvents = 3
    Artifacts <- MCArtifacts
    Listings <- MCListings
    FileLimits = {1, 2}
    FindingLimits = {1, 2, 3}
    TokenLimits = {1, 3, 4}
    MinTokens = 2
CONSTRAINT FinalBounded
INVARIANTS FreeFormIsNoAuthority ScoutTrustsWhatItFound
PROPERTIES LastWordCounts ObjectionsStand TroubleIsAdmitted 
CHECK_DEADLOCK FALSE
