SPECIFICATION Spec
CONSTANTS
    NoSession = NoSession
    s1 = s1
    s2 = s2
    unknown = unknown
    o1 = o1
    o2 = o2
    o3 = o3
    r1 = r1
    r2 = r2
    Nothing = Nothing
    Sessions <- MCSessions
    Reliable <- MCReliable
    Paths <- MCPaths
    Objects <- MCObjects
    RootOf <- OneRoot
    NRoots = 1
    NameSession <- FirstNamed
    RootIds = {r1, r2}
    Contents <- Continued
    Faults = {"upsert", "write", "sync", "crash", "power", "io"}
    MaxFilesPerScan = 1
    MaxTime = 2
    MaxEdits = 2
    MaxFaults = 2
SYMMETRY Symmetry
INVARIANTS ForwardOnly UploadJustified
PROPERTIES ExclusionsPermanent
