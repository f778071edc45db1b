\* Every combination of clocks, authorities and their absence; two stakes; the
\* clock, expire and collecting are fair.
SPECIFICATION FairSpec
CONSTANTS
    b1 = b1  b2 = b2  o1 = o1  o2 = o2  treasury = treasury
    Bettors = {b1, b2}
    Authority = authority
    NoAddress = noAddress
    Treasury = treasury
    ProtocolFeeBps = 2000
    ExtraFees <- BettorFee
    minBettingWindow = 1
    minResolutionWindow = 1
    CloseTimes = {0, 2, 3}
    Windows = {0, 1, 2}
    Closers = {authority, noAddress}
    Supply = 4
    MaxTime = 6
    Options = {o1, o2}
    Bits = {o1, o2}
    Policies = {"SINGLE_WINNER"}
    PolicyParams = {0}
    StakeSizes = {2}
    MaxBatch = 1
    MAX_DISTINCT_TICKETS = 2
INVARIANTS LifecycleInv WindowsPartition
PROPERTIES AnchorNeverMoves PotFrozenOnceClosed DecidedInTime TimedWagerPaysOut ClosedWagerBecomesFinal
CHECK_DEADLOCK FALSE
