SPECIFICATION ObservedSpec
CONSTANTS
    NoSession = NoSession
    s1 = s1
    s2 = s2
    unknown = unknown
    o1 = o1
    o2 = o2
    o3 = o3
    r1 = r1
    r2 = r2
    Nothing = Nothing
    Sessions <- MCSessions
    Reliable <- MCReliable
    Paths <- MCPaths
    Objects <- MCObjects
    RootOf <- TwoRoots
    NRoots = 2
    NameSession <- NoNames
    RootIds = {r1, r2}
    Contents <- Mixture
    Faults = {"upsert", "write", "sync", "crash"}
    MaxFilesPerScan = 2
    MaxTime = 1
    MaxEdits = 2
    MaxFaults = 1
INVARIANTS BaselineComplete
PROPERTIES KeepsPromise SweepComplete CapturedEventually
