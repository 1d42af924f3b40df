SPECIFICATION Spec
CONSTANTS
    MaxDepth = 2
    MaxNodes = 4
    MaxRequests = 3
    MaxOutput = 14
    MaxChildren = 2
    MaxStops = 2
    MaxInvalidations = 2
    Replies <- MCReplies
    ScopeReplies <- MCScopeReplies
    Headers <- MCHeaders
CHECK_DEADLOCK FALSE
INVARIANTS
    TypeOK
    WholeOrTruncated
    RequestsBounded
    StaleFrameIsAnnounced
    FrameFollowsTarget
