--------------------------- MODULE EnumeratedWager ---------------------------
(***************************************************************************)
(* ParamutuelWagerV3 in enumerated mode, from its creation by              *)
(* ParamutuelFactoryV3 (with the proposer's seed bets, in one transaction) *)
(* through betting, resolution, retraction or expiry, to the last claim.   *)
(***************************************************************************)
EXTENDS WagerLifecycle, PayoffPolicy

CONSTANTS
    Policies,               \* the payoff policies a proposer may pick
    PolicyParams,           \* the policy parameters a proposer may pass
    StakeSizes,             \* the amounts a caller may pass, 0 included
    MaxBatch,               \* longest batch of bets or seeds (bound)
    MAX_DISTINCT_TICKETS    \* 1024 in the code

ASSUME BookAssumption ==
    /\ Policies \subseteq PayoffPolicies /\ PolicyParams \subseteq Nat
    /\ StakeSizes \subseteq Nat
    /\ MaxBatch \in Nat /\ MAX_DISTINCT_TICKETS \in Nat

VARIABLES
    payoffPolicy, policyParam,      \* immutable terms
    ticketPoolByMask, usedMasks,    \* the global book and its enumeration
    betsByMask, userMasks,          \* the book of each bettor and its enumeration
    winningMask

policyVars == <<payoffPolicy, policyParam>>
bookVars == <<ticketPoolByMask, usedMasks, betsByMask, userMasks>>
enumeratedVars == <<policyVars, bookVars, winningMask>>
vars == <<lifecycleVars, enumeratedVars>>

Entry == [mask : Tickets, amount : StakeSizes]
Batches == UNION {[1..n -> Entry] : n \in 1..MaxBatch}

BatchTotal(batch) == SumFunction([i \in DOMAIN batch |-> batch[i].amount])

\* Mutant: a bet of nothing is taken.
EntryAcceptedAnyAmount(entry) == TicketAccepted(payoffPolicy, entry.mask)

EntryAccepted(entry) ==
    TicketAccepted(payoffPolicy, entry.mask) /\ entry.amount > 0

-------------------------------------------------------------------------------
(* The bet book *)

CurrentBook(b) == [pool |-> ticketPoolByMask, used |-> usedMasks,
                   bets |-> betsByMask[b], masks |-> userMasks[b]]

\* Mutant: a mask is enumerated once for every bettor who picks it.
RecordedPerBettor(book, entry) ==
    LET m == entry.mask
    IN  [pool  |-> [book.pool EXCEPT ![m] = @ + entry.amount],
         used  |-> IF book.bets[m] = 0 THEN Append(book.used, m) ELSE book.used,
         bets  |-> [book.bets EXCEPT ![m] = @ + entry.amount],
         masks |-> IF book.bets[m] = 0 THEN Append(book.masks, m) ELSE book.masks]

\* One pass of _recordBetMask: a mask is pushed on an enumeration the first time
\* its entry is still zero.
Recorded(book, entry) ==
    LET m == entry.mask
    IN  [pool  |-> [book.pool EXCEPT ![m] = @ + entry.amount],
         used  |-> IF book.pool[m] = 0 THEN Append(book.used, m) ELSE book.used,
         bets  |-> [book.bets EXCEPT ![m] = @ + entry.amount],
         masks |-> IF book.bets[m] = 0 THEN Append(book.masks, m) ELSE book.masks]

\* The book after each prefix of the batch.
BooksAfter(b, batch) ==
    LET book[i \in 0..Len(batch)] ==
            IF i = 0 THEN CurrentBook(b) ELSE Recorded(book[i - 1], batch[i])
    IN  book

\* Every push has found room below the cap exactly when the last one has.
RecordBets(b, batch) ==
    LET book == BooksAfter(b, batch)[Len(batch)]
    IN  /\ Len(book.used) <= MAX_DISTINCT_TICKETS
        /\ ticketPoolByMask' = book.pool
        /\ usedMasks' = book.used
        /\ betsByMask' = [betsByMask EXCEPT ![b] = book.bets]
        /\ userMasks' = [userMasks EXCEPT ![b] = book.masks]
        /\ userTotalBet' = [userTotalBet EXCEPT ![b] = @ + BatchTotal(batch)]
        /\ totalPot' = totalPot + BatchTotal(batch)

\* transferFrom(b, wager, amount) of the collateral token.
PullCollateral(amount) ==
    /\ totalPot + amount <= Supply
    /\ custody' = custody + amount

-------------------------------------------------------------------------------
Init ==
    /\ LifecycleInit
    /\ payoffPolicy = "SINGLE_WINNER" /\ policyParam = 0
    /\ ticketPoolByMask = [m \in Tickets |-> 0] /\ usedMasks = <<>>
    /\ betsByMask = [b \in Bettors |-> [m \in Tickets |-> 0]]
    /\ userMasks = [b \in Bettors |-> <<>>]
    /\ winningMask = {}

\* createEnumeratedWager: policy, clocks, fees and seeds are checked, the wager
\* is deployed, the seed total is pulled from the proposer straight into the
\* wager, and the seeds are recorded under the proposer.
CreateEnumeratedWager(proposer, policy, k, closeTime, window, closer, resCloser, seeds) ==
    /\ PolicyParamAccepted(policy, k)
    /\ \A i \in DOMAIN seeds :
          TicketAccepted(policy, seeds[i].mask) /\ seeds[i].amount > 0
    /\ Deploy(closeTime, window, closer, resCloser)
    /\ payoffPolicy' = policy
    /\ policyParam' = k
    /\ PullCollateral(BatchTotal(seeds))
    /\ RecordBets(proposer, seeds)
    /\ UNCHANGED winningMask

\* placeBet(mask, amount)
PlaceBet(b, entry) ==
    /\ BettingAllowed
    /\ EntryAccepted(entry)
    /\ PullCollateral(entry.amount)
    /\ RecordBets(b, <<entry>>)
    /\ UNCHANGED <<now, state, termsVars, authorityVars, feeVars, claimVars,
                   policyVars, winningMask>>

\* placeBets(masks, amounts): all entries are checked, one transfer, then each
\* entry is recorded.
PlaceBets(b, batch) ==
    /\ BettingAllowed
    /\ batch # <<>>
    /\ \A i \in DOMAIN batch : EntryAccepted(batch[i])
    /\ PullCollateral(BatchTotal(batch))
    /\ RecordBets(b, batch)
    /\ UNCHANGED <<now, state, termsVars, authorityVars, feeVars, claimVars,
                   policyVars, winningMask>>

\* Mutant: the denominator forgets the weights that the claims use.
WinningUnitsUnweighted(W) ==
    SumFunction([i \in DOMAIN usedMasks |->
        IF TicketWins(payoffPolicy, policyParam, usedMasks[i], W)
        THEN ticketPoolByMask[usedMasks[i]] ELSE 0])

\* The pool of every used mask, as often as it counts against W.
WinningUnits(W) ==
    SumFunction([i \in DOMAIN usedMasks |->
        ticketPoolByMask[usedMasks[i]]
          * Weight(payoffPolicy, policyParam, usedMasks[i], W)])

Resolve(sender, W) ==
    /\ ResolverMayAct(sender)
    /\ WinningMaskAccepted(payoffPolicy, W)
    /\ WinningUnits(W) # 0
    /\ ChargeFeesOnce
    /\ state' = "Resolved"
    /\ winningMask' = W
    /\ payoutDenominator' = WinningUnits(W)
    /\ UNCHANGED <<now, termsVars, authorityVars, potVars, hasClaimed, custody,
                   policyVars, bookVars>>

\* What the tickets of b win: each ticket is floored on its own.
Winnings(b) ==
    SumFunction([i \in DOMAIN userMasks[b] |->
        LET m == userMasks[b][i]
        IN  (betsByMask[b][m] * Weight(payoffPolicy, policyParam, m, winningMask) * NetPot)
              \div payoutDenominator])

\* claim()
Claim(b) ==
    \/ state = "Retracted" /\ PayClaim(b, Refund(b)) /\ UNCHANGED enumeratedVars
    \/ /\ state = "Resolved"
       /\ Winnings(b) # 0
       /\ PayClaim(b, Winnings(b))
       /\ UNCHANGED enumeratedVars

-------------------------------------------------------------------------------
Create ==
    \E proposer \in Bettors, policy \in Policies, k \in PolicyParams,
       closeTime \in CloseTimes, window \in Windows,
       closer, resCloser \in Closers, seeds \in Batches \cup {<<>>} :
          CreateEnumeratedWager(proposer, policy, k, closeTime, window, closer, resCloser, seeds)

Next ==
    \/ Create
    \/ Tick /\ UNCHANGED enumeratedVars
    \/ \E a \in Accounts : CloseBetting(a) /\ UNCHANGED enumeratedVars
    \/ \E a \in Accounts : CloseResolutionWindow(a) /\ UNCHANGED enumeratedVars
    \/ \E b \in Bettors, entry \in Entry : PlaceBet(b, entry)
    \/ \E b \in Bettors, batch \in Batches : PlaceBets(b, batch)
    \/ \E a \in Accounts, W \in Tickets : Resolve(a, W)
    \/ \E a \in Accounts : Retract(a) /\ UNCHANGED enumeratedVars
    \/ Expire /\ UNCHANGED enumeratedVars
    \/ \E b \in Bettors : Claim(b)
    \/ \E r \in FeeRecipients : WithdrawFees(r) /\ UNCHANGED enumeratedVars

Spec == Init /\ [][Next]_vars

\* Blocks keep coming; anyone may expire (the sweeper service does, every few
\* minutes); a bettor and a fee recipient with money to collect collect it.
\* Nothing is assumed of the resolver and of the two closers.
Fairness ==
    /\ WF_vars(Tick /\ UNCHANGED enumeratedVars)
    /\ WF_vars(Expire /\ UNCHANGED enumeratedVars)
    /\ \A b \in Bettors : WF_vars(Claim(b))
    /\ \A r \in FeeRecipients : WF_vars(WithdrawFees(r) /\ UNCHANGED enumeratedVars)

FairSpec == Spec /\ Fairness
-------------------------------------------------------------------------------
(* Properties *)

TypeOK ==
    /\ LifecycleTypeOK
    /\ payoffPolicy \in PayoffPolicies /\ policyParam \in Nat
    /\ ticketPoolByMask \in [Tickets -> Nat] /\ usedMasks \in Seq(Tickets)
    /\ betsByMask \in [Bettors -> [Tickets -> Nat]]
    /\ userMasks \in [Bettors -> Seq(Tickets)]
    /\ winningMask \in Tickets

\* The five redundant views of the stakes agree after every batch: pools, totals
\* per bettor and the gross pot are sums of the same entries, and the two
\* enumeration arrays list each non-zero entry exactly once, never beyond the
\* cap.  A mask listed twice would be counted twice by resolve and by claim.
BookConsistent ==
    /\ \A m \in Tickets :
          ticketPoolByMask[m] = SumFunction([b \in Bettors |-> betsByMask[b][m]])
    /\ \A b \in Bettors : userTotalBet[b] = SumFunction(betsByMask[b])
    /\ totalPot = SumFunction(userTotalBet)
    /\ IsInjective(usedMasks)
    /\ Range(usedMasks) = {m \in Tickets : ticketPoolByMask[m] # 0}
    /\ Len(usedMasks) <= MAX_DISTINCT_TICKETS
    /\ \A b \in Bettors :
          /\ IsInjective(userMasks[b])
          /\ Range(userMasks[b]) = {m \in Tickets : betsByMask[b][m] # 0}

\* What claim pays b once the wager is final.
Due(b) ==
    IF ~Final \/ userTotalBet[b] = 0 THEN 0
    ELSE IF state = "Retracted" THEN Refund(b)
    ELSE Winnings(b)

Owed ==
    [c \in ({"bettor"} \X Bettors) \cup ({"fee"} \X FeeRecipients) |->
        IF c[1] = "fee" THEN feeBalances[c[2]]
        ELSE IF hasClaimed[c[2]] THEN 0
        ELSE Due(c[2])]

\* The tickets or refunds whose floor loses less than one unit each.
RoundedDown ==
    IF state = "Resolved"
    THEN {p \in Bettors \X Tickets :
             /\ betsByMask[p[1]][p[2]] # 0
             /\ TicketWins(payoffPolicy, policyParam, p[2], winningMask)}
    ELSE {b \in Bettors : userTotalBet[b] # 0}

\* While a wager is open it holds the gross pot; once final it always holds what
\* everybody is still owed, whoever collects first; and what nobody can ever
\* collect is rounding, less than one unit for each amount that was floored.
Solvent ==
    IF ~Final THEN custody = totalPot
    ELSE LET dust == custody - SumFunction(Owed)
         IN  dust = 0 \/ dust \in 1..(Cardinality(RoundedDown) - 1)

\* Unless the policy weights overlaps, a winning ticket never pays less than the
\* same stake would get back from a retraction: the denominator fixed at
\* resolution counts no stake twice.
WinningTicketBeatsRefund ==
    state = "Resolved" /\ payoffPolicy # "WEIGHTED_OVERLAP" =>
        \A b \in Bettors : \A m \in Range(userMasks[b]) :
            TicketWins(payoffPolicy, policyParam, m, winningMask) =>
                (betsByMask[b][m] * NetPot) \div payoutDenominator
                    >= (betsByMask[b][m] * NetPot) \div totalPot

\* The wager keeps the promise of an escrow.
EscrowView == INSTANCE Escrow WITH
    Claimants <- ({"bettor"} \X Bettors) \cup ({"fee"} \X FeeRecipients),
    phase <- IF Final THEN "settled"
             ELSE IF state = "Open" /\ BettingClosed THEN "locked"
             ELSE "collecting",
    held <- custody,
    owed <- Owed

ImplementsEscrow == EscrowView!EscrowSpec

\* With both clocks set nobody's money can be locked in by an absent resolver:
\* the wager becomes final and pays out everything it owes.
TimedWagerPaysOut ==
    (state = "Open" /\ bettingCloseTime # 0 /\ resolutionWindow # 0)
        ~> (Final /\ SumFunction(Owed) = 0)

\* Once betting has closed, on time or by the authority, a bounded or closed
\* resolution window is enough (if it ends within the time explored).
ClosedWagerBecomesFinal ==
    (/\ state = "Open" /\ BettingClosed
     /\ \/ resolutionWindowClosedByAuthority
        \/ resolutionWindow # 0 /\ BettingClosedAt + resolutionWindow < MaxTime) ~> Final
===============================================================================
