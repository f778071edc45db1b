-------------------------- MODULE MCEnumeratedWager --------------------------
(* Constant values for the runs of EnumeratedWager that a .cfg cannot write. *)
EXTENDS EnumeratedWager, TLC

CONSTANTS b1, b2, o1, o2, treasury

\* A protocol fee plus a proposer who also bets: 20% and 30%.
BettorFee == <<[recipient |-> b1, bps |-> 3000]>>

\* No constant of a run tells one option from another.
OptionSymmetry == Permutations({o1, o2})
===============================================================================
