\* Payouts of every policy over two options; one deployment, betting closes at 2
\* and the resolver decides at 2.
SPECIFICATION Spec
CONSTANTS
    b1 = b1  b2 = b2  o1 = o1  o2 = o2  treasury = treasury
    Bettors = {b1, b2}
    Authority = authority
    NoAddress = noAddress
    Treasury = treasury
    ProtocolFeeBps = 2000
    ExtraFees <- BettorFee
    minBettingWindow = 1
    minResolutionWindow = 1
    CloseTimes = {2}
    Windows = {1}
    Closers = {noAddress}
    Supply = 5
    MaxTime = 2
    Options = {o1, o2}
    Bits = {o1, o2}
    Policies = {"SINGLE_WINNER", "ANY_OF", "EXACT_SET", "AT_LEAST_K", "WEIGHTED_OVERLAP"}
    PolicyParams = {0, 1, 2}
    StakeSizes = {1, 2, 3}
    MaxBatch = 1
    MAX_DISTINCT_TICKETS = 3
SYMMETRY OptionSymmetry
INVARIANTS TypeOK Solvent WinningTicketBeatsRefund
PROPERTIES ImplementsEscrow
CHECK_DEADLOCK FALSE
