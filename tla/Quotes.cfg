\* Quotes of one or two bets, followed to the claim; of one bet around the clocks;
\* and the bet book under batches and seeds with malformed entries.
SPECIFICATION RunSpec
CONSTANTS
    o1 = o1  o2 = o2  x = x
    Bettors = {b1, b2}
    Client = b1
    Authority = authority
    NoAddress = noAddress
    Treasury = treasury
    ProtocolFeeBps = 0
    ExtraFees <- NoExtraFee
    minBettingWindow = 1
    minResolutionWindow = 1
    CloseTimes = {2}
    Windows = {1}
    Closers = {noAddress}
    Supply = 3
    MaxTime = 2
    Options = {o1, o2}
    Bits = {o1, o2, x}
    OptionSeq <- TwoOptions
    Policies = {"SINGLE_WINNER"}
    PolicyParams = {0}
    StakeSizes = {1, 2}
    MaxBatch = 1
    MAX_DISTINCT_TICKETS = 2
    MaxLegs = 2
INVARIANTS QuotedPayoutIsPaid PickIsSmallestPool RefusalsAreFinal BookConsistent
CHECK_DEADLOCK FALSE
