\* Two processes that may act as either agent, one of them killed.
SPECIFICATION RoomSpec
CONSTANTS
    Procs = {p1, p2}
    Agents = {a, b}
    Everyone = Everyone
    NoProc = NoProc
    Limits = {2}
    MaxEvents = 3
    MaxDeaths = 1
SYMMETRY Symmetry
INVARIANTS
    CursorNeverSkips
    DoneIsInformed
