SPECIFICATION Spec
CONSTANTS
    Formats = {"claude", "chatgpt", "claudeapp", "codex", "gemini", "gemini log", "antigravity"}
    MaxEntries = 4
    Sessions = {"s", "t"}
    Projects = {"p", "q"}
    Parsers = {"claude", "codex"}
    MaxChunkContentLength = 5
    ChunkOverlap = 2
    SearchRegion = 3
    MaxLength = 8
    Contents <- MCContents
INVARIANTS TurnsExact FilesKept EverythingOnce TurnsWhole ChangesWithTheirText PartsCover
PROPERTIES OnlyOpenTurnChanges
CHECK_DEADLOCK FALSE
