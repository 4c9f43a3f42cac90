\* Two sessions, two starting processes, one user who edits the bundle twice.
SPECIFICATION WorkspaceSpec
CONSTANTS
    CustomWorkflow <- MCCustomWorkflow
    CustomCatalogs <- MCCustomCatalogs
    s1 = s1
    s2 = s2
    Sessions = {s1, s2}
    Environments <- MCEnvironments
    GonkaConfigured = TRUE
    ModelChoices <- MCChoices
    EditedRoles = {"coder"}
    HandEdits <- MCHandEdits
    MaxStaged = 1
    MaxWrites = 2
    Processes = {p1, p2}
    MaxKills = 1
    MaxUserEdits = 2
INVARIANTS
    DelegatesAreAvailable
PROPERTIES
    
    AppliedIsEffective
    
    BundleHeals
CHECK_DEADLOCK FALSE
