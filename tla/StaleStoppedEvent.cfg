SPECIFICATION Spec
CONSTANTS
    Tools = {t1, t2}
    NoOne = NoOne
    Offered = {"debug", "continue", "request", "detach", "pause", "stop"}
    Stoppers = {}
    MaxSessions = 2
    MaxStops = 2
INVARIANT
    ContinueReportsItsStop
SYMMETRY Symmetry
CHECK_DEADLOCK FALSE
