SPECIFICATION Spec
CONSTANTS
    r1 = r1
    r2 = r2
    r3 = r3
    Request <- MCRequests
    Default = Default
    Marker = Marker
    Unread = Unread
    MaxTurns = 2
SYMMETRY Symmetry
INVARIANTS
    NestedBlocksRestore
PROPERTIES
    ReadsOwnArguments
CHECK_DEADLOCK FALSE
