--------------------------- MODULE MCFreeformQuotes ---------------------------
(* Constant values for the run of FreeformQuotes that a .cfg cannot write. *)
EXTENDS FreeformQuotes

CONSTANTS a1, a2, a3

NoExtraFee == <<>>

\* The hashes order the answers against the order of their names; a3 is a2 with a
\* space after it.
HashOrder ==
    [id \in AnswerIds |-> CASE id[2] = a1 -> 3 [] id[2] = a2 -> 2 [] id[2] = a3 -> 1]
StripAnswer == [a \in Answers |-> IF a = a3 THEN a2 ELSE a]

\* What the theorems assume of the client and the ids.
ASSUME ClientHasIds == ClientAssumption
===============================================================================
