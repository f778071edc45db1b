\* Crashes, refused calls, replays by the operator, and every event of a wager.
SPECIFICATION Spec
CONSTANTS
    w1 = w1  f1 = f1
    Wagers = {w1}
    ForeignWagers = {f1}
    Tickets = {1}
    SQLiteMax = 9
    LeadingDigit = 1
    ChunkSize = 2
    MaxBlocks = 3
    Settings <- SyncSettings
INVARIANTS TypeOK NoGap
PROPERTIES ImplementsHistory
