\* One process, one room: what reopens the sprint gate.
SPECIFICATION PlanningSpec
CONSTANTS
    Processes = {p1}
    Rooms = {r1}
    Scopes = {"non_trivial"}
    FlagUpdates <- Updates
    Missing = Missing
    Torn = Torn
    Idle = Idle
INVARIANT SprintGateAwaitsReissue
