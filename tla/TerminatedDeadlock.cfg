SPECIFICATION Spec
CONSTANTS
    Tools = {t1, t2}
    NoOne = NoOne
    Offered = {"debug", "continue", "request", "detach", "pause", "stop"}
    Stoppers = {}
    MaxSessions = 2
    MaxStops = 1
INVARIANT
    HolderWakesForTerminated
SYMMETRY Symmetry
CHECK_DEADLOCK FALSE
