--------------------------- MODULE MCFreeformWager ---------------------------
(* Constant values for the run of FreeformWager that a .cfg cannot write. *)
EXTENDS FreeformWager, TLC

CONSTANTS b1, b2, a1, a2, a3, treasury

\* Two extra recipients, one of them the treasury again: 12%, 21%.
RepeatedFee == <<[recipient |-> b1, bps |-> 1200], [recipient |-> treasury, bps |-> 2100]>>

AnswerSymmetry == Permutations({a1, a2, a3})
===============================================================================
