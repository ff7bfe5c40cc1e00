SPECIFICATION Spec
CONSTANTS
    Ids = {a, b, c}
    Payloads = {p}
    Capacity = 2
    MaxTime = 1
    MaxAttempts = 1
    Sources = {s, t}
    MaxGeneration = 2
    MaxOffset = 0
    Faults = {"save", "crash", "power"}
    MaxUnconfirmed = 2
    NoSave = NoSave
    Secrets = {k1, k2, k3}
    AuthFaults = {"write", "sync", "crash"}
    None = None
    Holders = {h1, h2}
    Texts = {t1, t2}
    MaxWritten = 3
    Torn = Torn
SYMMETRY Symmetry
INVARIANTS WrittenStaysQueued Reopens CheckpointKept NeverLockedOut NeverTorn WriteLands RemovedForGood
