\* Two sessions after one another, one resume beside the ordinary tools.
SPECIFICATION Spec
CONSTANTS
    MaxSessions = 2
    MaxStops = 2
    MaxRequests = 2
    Resumers = {r1}
INVARIANTS
    TypeOK
    NoFalseRunning
    FeedCatchesUp
    ResumeKeepsItsSession
PROPERTIES
    FeedOrder
CHECK_DEADLOCK FALSE
