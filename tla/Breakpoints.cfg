\* One file and the function list, two places, five replacements.
SPECIFICATION Spec
CONSTANTS
    Files = {f1}
    Functions = Functions
    Places = {p1, p2}
    NoPlace = NoPlace
    MaxRequests = 5
INVARIANTS
    TypeOK
    ListsAgree
    KeepsBreakpoints
    NothingLeftOver
    NoSendWithoutSession
SYMMETRY Symmetry
CHECK_DEADLOCK FALSE
