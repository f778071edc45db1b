\* The handlers between the commits of the sync loop.
SPECIFICATION APISpec
CONSTANTS
    w2 = w2  w3 = w3  w1 = w1  f1 = f1
    Wagers = {w1, w2, w3}
    ForeignWagers = {}
    Tickets = {1, 2}
    SQLiteMax = 2
    LeadingDigit = 1
    ChunkSize = 1
    MaxBlocks = 2
    PageSize = 1
    Settings <- APISettings
INVARIANTS AnswerReadsForward WalkReceivesEachOnce PoolsExact
PROPERTIES CatchesUp
