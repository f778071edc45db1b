\* Every request to the panel, on a wager that one bettor uses directly too; and
\* one person who visits faucets and records the drips, or is interrupted.
SPECIFICATION ToolsSpec
CONSTANTS
    b1 = b1
    Bettors = {b1}
    Operator = b1
    Authority = b1
    NoAddress = noAddress
    Treasury = treasury
    ProtocolFeeBps = 0
    ExtraFees <- OperatorFee
    minBettingWindow = 1
    minResolutionWindow = 1
    CloseTimes = {0, 2}
    Windows = {0, 1}
    Closers = {noAddress, b1}
    Supply = 2
    MaxTime = 2
    Options = {0, 1}
    Bits = {0, 1}
    SeedIndices = {0, 1, 3}
    Policies = {"SINGLE_WINNER", "AT_LEAST_K"}
    PolicyParams = {0, 1}
    StakeSizes = {0, 2}
    MaxBatch = 1
    MAX_DISTINCT_TICKETS = 3
    AllowExecute = TRUE
    Faucets = {"circle", "bridge"}
    Docks = {"dock_01"}
    Cooldown <- Rates
    People = {"operator"}
    Second = 2
    LastTick = 5
    MaxKills = 2
INVARIANTS PanelRefusesOnlyReverts RefusalsExplained
PROPERTIES CreatedAsAsked
CHECK_DEADLOCK FALSE
