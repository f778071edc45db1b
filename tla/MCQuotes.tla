------------------------------- MODULE MCQuotes -------------------------------
(* The run of Quotes: three kinds of wager, each explored on its own, which one   *)
(* being fixed in the initial state.                                             *)
EXTENDS Quotes

CONSTANTS o1, o2, x

VARIABLE kind   \* "payout", "gate" or "batch"

runVars == <<kind, allVars>>

NoExtraFee == <<>>
TwoOptions == <<o1, o2>>

\* Quotes of one unit, on wagers with and without clocks, closed early or late.
Gate == INSTANCE Quotes WITH
    CloseTimes <- {0, 1, 2}, Closers <- {NoAddress, Authority}, Supply <- 2,
    StakeSizes <- {1}, MaxLegs <- 1

\* Batches and seeds of two entries, some of them of nothing, on no option or on a
\* foreign one, and no quotes.
Batched == INSTANCE EnumeratedWager WITH
    minBettingWindow <- 0, CloseTimes <- {0, 1}, Windows <- {0}, Closers <- {Authority},
    Supply <- 4, MaxTime <- 1, StakeSizes <- {0, 1}, MaxBatch <- 2

\* What the theorems assume of the client and its options.
ASSUME ClientHasOptions == ClientAssumption /\ Gate!ClientAssumption

\* QuotesInit depends on no constant that the kinds differ in.
RunInit == kind \in {"payout", "gate", "batch"} /\ QuotesInit

RunNext ==
    /\ UNCHANGED kind
    /\ \/ kind = "payout" /\ QuotesNext
       \/ kind = "gate" /\ Gate!QuotesNext
       \/ kind = "batch" /\ Batched!Next /\ UNCHANGED clientVars

RunSpec == RunInit /\ [][RunNext]_runVars
===============================================================================
