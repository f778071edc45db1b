---------------------------- MODULE WagerLifecycle ----------------------------
(***************************************************************************)
(* The part of ParamutuelWagerV3 that both wager modes share: the clock,   *)
(* the two authority overrides, the resolution window, the fee charge, and *)
(* the custody of the collateral.  EnumeratedWager and FreeformWager add   *)
(* the bet book, resolve and claim of their mode.                          *)
(*                                                                         *)
(* A transaction is atomic and reverts as a whole, so every action is one  *)
(* transaction that succeeds; a revert is an action that is not enabled.   *)
(* Several transactions may share one block timestamp.                     *)
(***************************************************************************)
EXTENDS Integers, Sequences, FiniteSets, Functions

CONSTANTS
    Bettors,              \* accounts that may bet (and seed, as proposer)
    Authority,            \* the account that holds every configured role
    NoAddress,            \* address(0)
    Treasury,             \* factory.treasury
    ProtocolFeeBps,       \* factory.protocolFeeBps
    ExtraFees,            \* the proposer's fees: sequence of [recipient, bps]
    minBettingWindow,     \* factory immutable
    minResolutionWindow,  \* factory immutable
    CloseTimes,           \* bettingCloseTime arguments a proposer may pass
    Windows,              \* resolutionWindow arguments a proposer may pass
    Closers,              \* bettingCloser and resolutionCloser arguments
    Supply,               \* collateral the bettors can stake altogether
    MaxTime               \* last block timestamp explored (bound)

BPS_DENOMINATOR == 10000
MAX_TOTAL_FEE_BPS == 10000
Payees == {Treasury, NoAddress, Authority} \cup Bettors
Fee == [recipient : Payees, bps : Nat]

ASSUME BettorsAssumption ==
    /\ IsFiniteSet(Bettors)
    /\ NoAddress \notin Bettors /\ NoAddress # Authority /\ NoAddress # Treasury
ASSUME FeesAssumption ==
    /\ ProtocolFeeBps \in 0..MAX_TOTAL_FEE_BPS
    /\ ExtraFees \in Seq(Fee)
ASSUME ClockAssumption ==
    /\ minBettingWindow \in Nat /\ minResolutionWindow \in Nat
    /\ CloseTimes \subseteq Nat /\ Windows \subseteq Nat
    /\ Closers \subseteq {Authority, NoAddress}
ASSUME BoundsAssumption == Supply \in Nat /\ MaxTime \in Nat

VARIABLES
    now,                                \* block.timestamp
    state,                              \* "Undeployed", then enum State
    bettingCloseTime, resolutionWindow, resolutionDeadline,
    bettingCloser, resolutionCloser,    \* the wager's immutable terms
    bettingClosedByAuthority, bettingClosedAtByAuthority,
    resolutionWindowClosedByAuthority,
    totalPot, userTotalBet,             \* gross stake, never decremented
    feesCharged, feeBalances,
    payoutDenominator, hasClaimed,
    custody                             \* collateralToken.balanceOf(wager)

termsVars == <<bettingCloseTime, resolutionWindow, resolutionDeadline,
               bettingCloser, resolutionCloser>>
bettingVars == <<bettingClosedByAuthority, bettingClosedAtByAuthority>>
authorityVars == <<bettingVars, resolutionWindowClosedByAuthority>>
potVars == <<totalPot, userTotalBet>>
feeVars == <<feesCharged, feeBalances>>
claimVars == <<payoutDenominator, hasClaimed>>
lifecycleVars == <<now, state, termsVars, authorityVars, potVars, feeVars,
                   claimVars, custody>>

-------------------------------------------------------------------------------
(* Fees *)

\* The protocol slot comes first and exists only when the protocol charges.
FeeConfig ==
    IF ProtocolFeeBps > 0
    THEN <<[recipient |-> Treasury, bps |-> ProtocolFeeBps]>> \o ExtraFees
    ELSE ExtraFees

FeeRecipients == {FeeConfig[i].recipient : i \in DOMAIN FeeConfig}

totalFeeBps == SumFunction([i \in DOMAIN FeeConfig |-> FeeConfig[i].bps])

FeeConfigAccepted ==
    /\ \A i \in DOMAIN ExtraFees :
          ExtraFees[i].recipient # NoAddress /\ ExtraFees[i].bps # 0
    /\ totalFeeBps <= MAX_TOTAL_FEE_BPS

TotalFeesAmount == (totalPot * totalFeeBps) \div BPS_DENOMINATOR
NetPot == totalPot - TotalFeesAmount

\* Mutant: each slice is taken from the pot and rounded up.
FeeSlicesRoundedUp ==
    LET last == Len(FeeConfig)
        cut == [i \in DOMAIN FeeConfig |->
                   (totalPot * FeeConfig[i].bps + BPS_DENOMINATOR - 1) \div BPS_DENOMINATOR]
    IN  [cut EXCEPT ![last] = TotalFeesAmount - SumFunctionOnSet(cut, 1..(last - 1))]

\* Every recipient gets its pro-rata floor, the last one what is left.
FeeSlices ==
    LET last == Len(FeeConfig)
        cut == [i \in DOMAIN FeeConfig |->
                   (TotalFeesAmount * FeeConfig[i].bps) \div totalFeeBps]
    IN  [cut EXCEPT ![last] = TotalFeesAmount - SumFunctionOnSet(cut, 1..(last - 1))]

FeesCredited ==
    [r \in FeeRecipients |->
        feeBalances[r] + SumFunctionOnSet(FeeSlices,
            {i \in DOMAIN FeeConfig : FeeConfig[i].recipient = r})]

ChargeFeesOnce ==
    /\ feesCharged' = TRUE
    /\ feeBalances' = IF feesCharged \/ totalFeeBps = 0 \/ totalPot = 0
                      THEN feeBalances ELSE FeesCredited

-------------------------------------------------------------------------------
(* Clocks *)

BettingClosed ==
    \/ bettingClosedByAuthority
    \/ bettingCloseTime # 0 /\ now >= bettingCloseTime

\* Mutants: the passing of bettingCloseTime overrides an earlier authority close;
\* only an authority close is an anchor.
BettingClosedAtTimedFirst ==
    IF bettingCloseTime # 0 /\ now >= bettingCloseTime THEN bettingCloseTime
    ELSE IF bettingClosedByAuthority THEN bettingClosedAtByAuthority
    ELSE 0
BettingClosedAtAuthorityOnly == bettingClosedAtByAuthority

\* The anchor of the resolution window; 0 while betting is open.
BettingClosedAt ==
    IF bettingClosedByAuthority THEN bettingClosedAtByAuthority
    ELSE IF BettingClosed THEN bettingCloseTime
    ELSE 0

ResolutionWindowOpen ==
    /\ ~resolutionWindowClosedByAuthority
    /\ \/ resolutionWindow = 0
       \/ BettingClosedAt # 0 /\ now <= BettingClosedAt + resolutionWindow

\* Mutants: the last second of the window belongs to both sides; the authority's
\* close of the window does not let anyone expire.
ResolutionWindowOverEarly ==
    \/ resolutionWindowClosedByAuthority
    \/ /\ resolutionWindow # 0
       /\ BettingClosedAt # 0
       /\ now >= BettingClosedAt + resolutionWindow
ResolutionWindowOverTimedOnly ==
    /\ resolutionWindow # 0
    /\ BettingClosedAt # 0
    /\ now > BettingClosedAt + resolutionWindow

ResolutionWindowOver ==
    \/ resolutionWindowClosedByAuthority
    \/ /\ resolutionWindow # 0
       /\ BettingClosedAt # 0
       /\ now > BettingClosedAt + resolutionWindow

Final == state \in {"Resolved", "Retracted"}

\* The checks every bet starts with; the mutant takes late bets.
BettingAllowedLate == state = "Open"
BettingAllowed == state = "Open" /\ ~BettingClosed

\* Any account, never address(0): the factory replaces that by the proposer.
resolver == Authority
Accounts == Bettors \cup {Authority}

-------------------------------------------------------------------------------
(* Creation, by the factory *)

LifecycleAccepted(closeTime, window, closer, resCloser) ==
    /\ closeTime # 0 => closeTime >= now + minBettingWindow
    /\ window # 0 => window >= minResolutionWindow
    /\ closeTime = 0 => closer # NoAddress
    /\ window = 0 => resCloser # NoAddress

LifecycleInit ==
    /\ now = 1
    /\ state = "Undeployed"
    /\ bettingCloseTime = 0 /\ resolutionWindow = 0 /\ resolutionDeadline = 0
    /\ bettingCloser = NoAddress /\ resolutionCloser = NoAddress
    /\ bettingClosedByAuthority = FALSE /\ bettingClosedAtByAuthority = 0
    /\ resolutionWindowClosedByAuthority = FALSE
    /\ totalPot = 0 /\ userTotalBet = [b \in Bettors |-> 0]
    /\ feesCharged = FALSE /\ feeBalances = [r \in FeeRecipients |-> 0]
    /\ payoutDenominator = 0 /\ hasClaimed = [b \in Bettors |-> FALSE]
    /\ custody = 0

\* The checks and assignments of the constructor and of the factory that do not
\* depend on the mode.
Deploy(closeTime, window, closer, resCloser) ==
    /\ state = "Undeployed"
    /\ LifecycleAccepted(closeTime, window, closer, resCloser)
    /\ FeeConfigAccepted
    /\ state' = "Open"
    /\ bettingCloseTime' = closeTime
    /\ resolutionWindow' = window
    /\ resolutionDeadline' = IF closeTime = 0 \/ window = 0 THEN 0 ELSE closeTime + window
    /\ bettingCloser' = closer
    /\ resolutionCloser' = resCloser
    /\ UNCHANGED <<now, authorityVars, feeVars, claimVars>>

-------------------------------------------------------------------------------
(* Transactions that do not depend on the mode *)

\* A block with a later timestamp.
Tick ==
    /\ now < MaxTime
    /\ now' = now + 1
    /\ UNCHANGED <<state, termsVars, authorityVars, potVars, feeVars, claimVars, custody>>

\* Mutant: a late call overwrites the time of the close.
CloseBettingAgain(sender) ==
    /\ state # "Undeployed"
    /\ sender = bettingCloser
    /\ bettingClosedByAuthority' = TRUE
    /\ bettingClosedAtByAuthority' = now
    /\ UNCHANGED <<now, state, termsVars, resolutionWindowClosedByAuthority,
                   potVars, feeVars, claimVars, custody>>

\* closeBetting: not gated on the state, a no-op once betting has closed.
CloseBetting(sender) ==
    /\ state # "Undeployed"
    /\ sender = bettingCloser
    /\ ~BettingClosed
    /\ bettingClosedByAuthority' = TRUE
    /\ bettingClosedAtByAuthority' = now
    /\ UNCHANGED <<now, state, termsVars, resolutionWindowClosedByAuthority,
                   potVars, feeVars, claimVars, custody>>

\* Mutant: the window can be closed before betting is.
CloseResolutionWindowAnyTime(sender) ==
    /\ state # "Undeployed"
    /\ sender = resolutionCloser
    /\ ~resolutionWindowClosedByAuthority
    /\ resolutionWindowClosedByAuthority' = TRUE
    /\ UNCHANGED <<now, state, termsVars, bettingVars, potVars, feeVars,
                   claimVars, custody>>

\* closeResolutionWindow: not gated on the state either; idempotent.
CloseResolutionWindow(sender) ==
    /\ state # "Undeployed"
    /\ sender = resolutionCloser
    /\ BettingClosed
    /\ ~resolutionWindowClosedByAuthority
    /\ resolutionWindowClosedByAuthority' = TRUE
    /\ UNCHANGED <<now, state, termsVars, bettingVars, potVars, feeVars,
                   claimVars, custody>>

\* The guards resolve and retract have in common.
ResolverMayAct(sender) ==
    /\ sender = resolver
    /\ state = "Open"
    /\ BettingClosed
    /\ ResolutionWindowOpen

\* Mutant: the copy of the guards in retract lacks the window.
RetractAnyTime(sender) ==
    /\ sender = resolver
    /\ state = "Open"
    /\ BettingClosed
    /\ ChargeFeesOnce
    /\ state' = "Retracted"
    /\ UNCHANGED <<now, termsVars, authorityVars, potVars, claimVars, custody>>

Retract(sender) ==
    /\ ResolverMayAct(sender)
    /\ ChargeFeesOnce
    /\ state' = "Retracted"
    /\ UNCHANGED <<now, termsVars, authorityVars, potVars, claimVars, custody>>

\* Anyone may call expire.
Expire ==
    /\ state = "Open"
    /\ BettingClosed
    /\ ResolutionWindowOver
    /\ ChargeFeesOnce
    /\ state' = "Retracted"
    /\ UNCHANGED <<now, termsVars, authorityVars, potVars, claimVars, custody>>

\* Mutant: the stake is returned in full although the fees left the pot.
RefundGross(b) == userTotalBet[b]

\* The refund of a retracted or expired wager, prorated against the gross pot.
Refund(b) == (userTotalBet[b] * NetPot) \div totalPot

\* What claim does once the mode has determined the amount; a zero refund is paid
\* and flags the bettor, a zero win reverts in the mode's own guard.
PayClaim(b, paid) ==
    /\ Final
    /\ ~hasClaimed[b]
    /\ userTotalBet[b] # 0
    /\ custody >= paid
    /\ hasClaimed' = [hasClaimed EXCEPT ![b] = TRUE]
    /\ custody' = custody - paid
    /\ UNCHANGED <<now, state, termsVars, authorityVars, potVars, feeVars,
                   payoutDenominator>>

WithdrawFees(r) ==
    /\ feeBalances[r] # 0
    /\ custody >= feeBalances[r]
    /\ feeBalances' = [feeBalances EXCEPT ![r] = 0]
    /\ custody' = custody - feeBalances[r]
    /\ UNCHANGED <<now, state, termsVars, authorityVars, potVars, feesCharged, claimVars>>

-------------------------------------------------------------------------------
(* Properties of the lifecycle, whatever the mode *)

LifecycleTypeOK ==
    /\ now \in Nat \ {0}
    /\ state \in {"Undeployed", "Open", "Resolved", "Retracted"}
    /\ bettingCloseTime \in Nat /\ resolutionWindow \in Nat /\ resolutionDeadline \in Nat
    /\ bettingCloser \in {Authority, NoAddress}
    /\ resolutionCloser \in {Authority, NoAddress}
    /\ bettingClosedByAuthority \in BOOLEAN
    /\ bettingClosedAtByAuthority \in Nat
    /\ resolutionWindowClosedByAuthority \in BOOLEAN
    /\ totalPot \in Nat /\ userTotalBet \in [Bettors -> Nat]
    /\ feesCharged \in BOOLEAN /\ feeBalances \in [FeeRecipients -> Nat]
    /\ payoutDenominator \in Nat /\ hasClaimed \in [Bettors -> BOOLEAN]
    /\ custody \in Nat

\* Once betting has closed, exactly one of "the resolver may decide" and "anyone
\* may expire" holds: the resolver and the expirer never race for one block, and
\* no block is left in which neither may finalise the wager.
WindowsPartition ==
    state # "Undeployed" /\ BettingClosed => (ResolutionWindowOpen <=> ~ResolutionWindowOver)

\* Once betting has closed, the anchor of the resolution window never moves: the
\* passing of bettingCloseTime after an early authority close, or a late call of
\* closeBetting, cannot extend or shorten the resolver's time.
AnchorNeverMoves ==
    [][BettingClosed => BettingClosedAt' = BettingClosedAt]_lifecycleVars

\* After betting has closed no stake enters the pot, on any path: a late bet
\* would be placed by someone who may already know the outcome.
PotFrozenOnceClosed ==
    [][BettingClosed /\ state # "Undeployed" => UNCHANGED potVars]_lifecycleVars

\* The resolver decides: a winner, or a retraction he sends himself.
ResolverDecides == state' = "Resolved" \/ \E a \in Accounts : Retract(a)

\* A wager leaves Open only after betting has closed, and no decision of the
\* resolver, whether resolve or retract, comes after the deadline the factory
\* published, not even after an early authority close.
DecidedInTime ==
    [][state = "Open" /\ state' # "Open" =>
         /\ BettingClosed
         /\ ResolverDecides /\ resolutionDeadline # 0 => now <= resolutionDeadline]_lifecycleVars

\* The invariant the four properties above rest on.  An authority close always
\* precedes the timed one and lies in the past; the resolution window is never
\* closed, and the wager never final, while bets are still taken; fees have been
\* charged, and a denominator fixed, exactly in the states that claim relies on;
\* nobody has more stake than there is in the pot a refund is prorated against.
LifecycleInv ==
    /\ state = "Undeployed" =>
          /\ bettingCloseTime = 0 /\ resolutionWindow = 0
          /\ ~bettingClosedByAuthority
    /\ state # "Undeployed" => FeeConfigAccepted
    /\ resolutionDeadline = IF bettingCloseTime = 0 \/ resolutionWindow = 0 THEN 0
                            ELSE bettingCloseTime + resolutionWindow
    /\ bettingClosedByAuthority =>
          /\ bettingClosedAtByAuthority \in 1..now
          /\ bettingCloseTime # 0 => bettingClosedAtByAuthority < bettingCloseTime
    /\ resolutionWindowClosedByAuthority \/ Final => BettingClosed
    /\ feesCharged <=> Final
    /\ payoutDenominator # 0 <=> state = "Resolved"
    /\ \A b \in Bettors : userTotalBet[b] <= totalPot
===============================================================================
