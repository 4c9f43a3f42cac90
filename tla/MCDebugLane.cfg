SPECIFICATION LaneSpec
CONSTANTS
    Sprints = {s1, s2}
    Slugs = {x, y}
    Sessions = {p1, p2}
    None = None
    MaxTasks = 2
    Items = {1, 2}
    Areas = {cfg}
    RepeatAreaThreshold = 1
CONSTRAINT Bounded
SYMMETRY Symmetry
INVARIANTS
    BoundSessionsKeepTheirTask
    PromotedItemsHaveTheirTask
PROPERTIES
    SprintsAreConfirmed
    
