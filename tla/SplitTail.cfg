SPECIFICATION Spec
CONSTANTS
    Formats = {}
    MaxEntries = 0
    Sessions = {"s", "t"}
    Projects = {"p", "q"}
    Parsers = {"claude", "codex"}
    MaxChunkContentLength = 5
    ChunkOverlap = 2
    SearchRegion = 3
    MaxLength = 7
    Contents <- MCContents
INVARIANTS SplitsInTwo
CHECK_DEADLOCK FALSE
