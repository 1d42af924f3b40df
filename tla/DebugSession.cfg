SPECIFICATION Spec
CONSTANTS
    Tools = {t1, t2}
    NoOne = NoOne
    Offered = {"debug", "continue", "request", "detach", "stop"}
    Stoppers = {}
    MaxSessions = 2
    MaxStops = 1
INVARIANTS
    TypeOK
    ToolsMatchSession
    AdaptersReaped
    EndCleansItsSession
PROPERTY
    OneDebuggerAtATime
SYMMETRY Symmetry
CHECK_DEADLOCK FALSE
