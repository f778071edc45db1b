\* Freeform betting with malformed answers, the cap on distinct answers, early
\* and timed closes, and a treasury that appears twice among the recipients.
SPECIFICATION Spec
CONSTANTS
    b1 = b1  b2 = b2  a1 = a1  a2 = a2  a3 = a3  treasury = treasury
    Bettors = {b1, b2}
    Authority = authority
    NoAddress = noAddress
    Treasury = treasury
    ProtocolFeeBps = 2000
    ExtraFees <- RepeatedFee
    minBettingWindow = 1
    minResolutionWindow = 1
    CloseTimes = {0, 2}
    Windows = {0, 1}
    Closers = {authority}
    Supply = 5
    MaxTime = 4
    Answers = {a1, a2, a3}
    MalformedAnswers = {empty, tooLong}
    StakeSizes = {0, 1, 3}
    maxDistinctAnswers = 2
SYMMETRY AnswerSymmetry
INVARIANTS TypeOK BookConsistent Solvent
PROPERTIES ImplementsEscrow
CHECK_DEADLOCK FALSE
