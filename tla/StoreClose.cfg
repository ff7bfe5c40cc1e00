SPECIFICATION RunSpec
CONSTANTS
    Requests = {r1}
    Roots = {x, y}
    MaxMoves = 2
INVARIANTS CloseIsAlone
CHECK_DEADLOCK FALSE
