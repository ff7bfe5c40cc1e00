SPECIFICATION Spec
CONSTANTS
    Dirs = {r, s, d}
    Files = {f, g}
    Contents <- MCContents
    Depth = 2
    MaxSize = 2
    MaxChanges = 3
    MaxClock = 1
SYMMETRY Symmetry
INVARIANTS SettledIsWhole DeliveredIsNamed
CHECK_DEADLOCK FALSE
