SPECIFICATION Spec
CONSTANTS
    Files = {f1}
    Functions = Functions
    Places = {p1, p2}
    NoPlace = NoPlace
    MaxRequests = 5
INVARIANT
    RunToHasItsBreakpoint
SYMMETRY Symmetry
CHECK_DEADLOCK FALSE
