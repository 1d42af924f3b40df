SPECIFICATION FairSpec
CONSTANTS
    Tools = {t1, t2}
    NoOne = NoOne
    Offered = {"debug", "pause"}
    Stoppers = {t2}
    MaxSessions = 2
    MaxStops = 0
PROPERTIES
    StopReturns
    EndedSessionIsCleanedUp
CHECK_DEADLOCK FALSE
