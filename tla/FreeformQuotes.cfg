\* Quotes of answers, two of which differ by a space, followed to the claim.
SPECIFICATION QuotesSpec
CONSTANTS
    a1 = a1  a2 = a2  a3 = a3
    Bettors = {b1, b2}
    Client = b1
    Authority = authority
    NoAddress = noAddress
    Treasury = treasury
    ProtocolFeeBps = 0
    ExtraFees <- NoExtraFee
    minBettingWindow = 1
    minResolutionWindow = 1
    CloseTimes = {2}
    Windows = {1}
    Closers = {noAddress}
    Supply = 3
    MaxTime = 2
    Answers = {a1, a2, a3}
    MalformedAnswers = {empty}
    StakeSizes = {1, 2}
    maxDistinctAnswers = 2
    IdRank <- HashOrder
    Stripped <- StripAnswer
INVARIANTS QuotedPayoutIsPaid PickIsSmallestPool
CHECK_DEADLOCK FALSE
