SPECIFICATION FairSpec
CONSTANTS
    MaxLines = 2
    PipeSize = 1
    MaxStops = 2
CHECK_DEADLOCK FALSE
INVARIANTS
    TypeOK
    FailedStartLeavesNothing
    BreakpointsBeforeRun
    ReportsItsStop
    NoStopLeftBehind
PROPERTIES
    DebugReturns
    ScannerEnds
    OutputDrained
