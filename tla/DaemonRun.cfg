SPECIFICATION FairSpec
CONSTANTS
    Requests = {r1}
    Roots = {x, y}
    MaxMoves = 1
    Paths = {1, 2, 3}
    Debounce = 1
    MaxPending = 2
    MaxTime = 3
    MaxEvents = 3
INVARIANTS ReadyHonest NothingLeftOpen
PROPERTIES StopsForGood EventsDispatched
CHECK_DEADLOCK FALSE
