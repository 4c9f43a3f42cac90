\* The queue: runs that keep to their time bound.  The index: one edit, two syncs at once.
\* The report: two at once, one change, one failure.
SPECIFICATION MemorySpec
CONSTANTS
    Workers = {w1, w2, w3}
    Nobody = Nobody
    Files = {f1}
    NumEvidence = 2
    BatchSize = 1
    Duration = 1
    MaxFaults = 2
    Paths = {a, b}
    Contents = {c1, c2}
    Processes = {p1, p2}
    Nothing = Nothing
    b = b
    c1 = c1
    MaxEdits = 1
    MaxFailures = 1
    Reporters = {p1, p2}
    NumTrees = 2
    MaxChanges = 1
    MaxTroubles = 1
PROPERTIES
    EvidenceIsSettled
    IndexCatchesUp
    ReportsRecover
CHECK_DEADLOCK FALSE
