\* Two tools share a client whose inbox holds two messages and whose transport
\* holds one request.
SPECIFICATION FairSpec
CONSTANTS
    Callers = {t1, t2}
    Executors = {t1}
    NoCaller = NoCaller
    Limit = 2
    PipeSize = 1
    MaxSeq = 2
    EventTypes = {"stopped", "terminated"}
    MaxEvents = 1
PROPERTIES
    KeepsPromise
    CallsEnd
CHECK_DEADLOCK FALSE
