------------------------------ MODULE OpenWagers ------------------------------
(***************************************************************************)
(* Several wagers as the keepers see them: the clocks and the state of     *)
(* each contract, and the index's row of it, which shows the contract as   *)
(* some earlier moment left it (what WagerHistory promises). The clocks    *)
(* themselves are those of WagerLifecycle.                                 *)
(***************************************************************************)
EXTENDS Integers, FiniteSets

CONSTANTS
    Wagers,
    Threads,                \* names of threads that serve requests
    Settings,               \* which wagers and keepers there are (bounds)
    MaxTime                 \* last block timestamp (bound)

\* The wagers that get deployed, the terms a proposer may pick (0 for none), whether
\* the resolver is the resolution service; the sweeper's --execute flag, what the
\* operator may write in the decisions file, the threads that serve its /run-once, how
\* far a keeper's clock is ahead of the chain's, and how many sends the network loses.
IsSetting(s) ==
    /\ s.wagers \subseteq Wagers
    /\ s.closeTimes \subseteq Nat /\ s.windows \subseteq Nat
    /\ s.modes \subseteq {"enumerated", "freeform"} /\ s.resolvers \subseteq {"ours", "other"}
    /\ s.execute \in BOOLEAN /\ s.threads \subseteq Threads
    /\ s.skews \subseteq Int /\ s.failures \in Nat
    /\ \A d \in s.decisions : d.action \in {"resolve", "retract"}

ASSUME OpenWagersAssumption ==
    IsFiniteSet(Wagers) /\ MaxTime \in Nat /\ \A s \in Settings : IsSetting(s)

VARIABLES
    setting,    \* one of Settings, fixed
    now,        \* block.timestamp, and the time of day
    contract,   \* each wager's terms, overrides and state
    row         \* the index's row of each wager

wagerVars == <<setting, now, contract, row>>

NoWager == [state |-> "Undeployed"]
NoTime == -1        \* SQL NULL
NoWinner == [mask |-> 0, answer |-> "none"]

\* The clocks of wager w, its closers being configured.
Clock(w) == INSTANCE WagerLifecycle WITH
    CloseTimes <- UNION {s.closeTimes : s \in Settings},
    Windows <- UNION {s.windows : s \in Settings},
    Bettors <- {}, Authority <- "authority", NoAddress <- "nobody", Treasury <- "treasury",
    ProtocolFeeBps <- 0, ExtraFees <- <<>>, minBettingWindow <- 1, minResolutionWindow <- 1,
    Closers <- {"authority"}, Supply <- 0,
    state <- contract[w].state,
    bettingCloseTime <- contract[w].closeTime,
    resolutionWindow <- contract[w].window,
    resolutionDeadline <- contract[w].closeTime + contract[w].window,
    bettingCloser <- "authority", resolutionCloser <- "authority",
    bettingClosedByAuthority <- contract[w].closedAt # NoTime,
    bettingClosedAtByAuthority <- contract[w].closedAt,
    resolutionWindowClosedByAuthority <- contract[w].windowClosed,
    totalPot <- 0, userTotalBet <- <<>>, feesCharged <- FALSE, feeBalances <- <<>>,
    payoutDenominator <- 0, hasClaimed <- <<>>, custody <- 0

Deployed(w) == contract[w].state # "Undeployed"
IsFinal(w) == contract[w].state \in {"Resolved", "Retracted"}

-------------------------------------------------------------------------------
(* Transactions of others *)

Create(w) ==
    /\ w \in setting.wagers /\ ~Deployed(w)
    /\ \E c \in setting.closeTimes, d \in setting.windows,
          m \in setting.modes, r \in setting.resolvers :
        /\ Clock(w)!LifecycleAccepted(c, d, "authority", "authority")
        /\ contract' = [contract EXCEPT ![w] =
                [state |-> "Open", closeTime |-> c, window |-> d, mode |-> m, resolver |-> r,
                 closedAt |-> NoTime, windowClosed |-> FALSE, winner |-> NoWinner]]
    /\ UNCHANGED <<setting, now, row>>

CloseBetting(w) ==
    /\ Deployed(w) /\ ~Clock(w)!BettingClosed
    /\ contract' = [contract EXCEPT ![w].closedAt = now]
    /\ UNCHANGED <<setting, now, row>>

CloseResolutionWindow(w) ==
    /\ Deployed(w) /\ Clock(w)!BettingClosed /\ ~contract[w].windowClosed
    /\ contract' = [contract EXCEPT ![w].windowClosed = TRUE]
    /\ UNCHANGED <<setting, now, row>>

\* What a transaction of a keeper finds: resolve and retract, then expire.
ResolverAccepted(w) ==
    /\ contract[w].state = "Open" /\ contract[w].resolver = "ours"
    /\ Clock(w)!BettingClosed /\ Clock(w)!ResolutionWindowOpen

ExpireAccepted(w) ==
    contract[w].state = "Open" /\ Clock(w)!BettingClosed /\ Clock(w)!ResolutionWindowOver

Finalised(w, s, winner) ==
    contract' = [contract EXCEPT ![w].state = s, ![w].winner = winner]

\* expire() by another caller.
ExpireByAnyone(w) ==
    /\ Deployed(w) /\ ExpireAccepted(w)
    /\ Finalised(w, "Retracted", NoWinner)
    /\ UNCHANGED <<setting, now, row>>

Tick == now < MaxTime /\ now' = now + 1 /\ UNCHANGED <<setting, contract, row>>

-------------------------------------------------------------------------------
(* The index *)

RowState == [Open |-> "OPEN", Resolved |-> "RESOLVED", Retracted |-> "RETRACTED"]

NoRow == [state |-> "none"]

RowOf(c) ==
    [state |-> RowState[c.state],
     betting_close_time |-> c.closeTime, resolution_window |-> c.window,
     betting_closed_by_authority |-> c.closedAt # NoTime, betting_closed_at |-> c.closedAt,
     resolution_window_closed |-> c.windowClosed,
     resolver |-> c.resolver, protocol_version |-> c.mode]

Fresh(w) == row[w] = RowOf(contract[w])

Sync(w) ==
    /\ Deployed(w)
    /\ row' = [row EXCEPT ![w] = RowOf(contract[w])]
    /\ UNCHANGED <<setting, now, contract>>

WagersInit ==
    /\ setting \in Settings
    /\ now = 1
    /\ contract = [w \in Wagers |-> NoWager]
    /\ row = [w \in Wagers |-> NoRow]

WagersStep ==
    \/ Tick
    \/ \E w \in Wagers :
        \/ Create(w) \/ CloseBetting(w) \/ CloseResolutionWindow(w) \/ ExpireByAnyone(w)
        \/ Sync(w)
===============================================================================
