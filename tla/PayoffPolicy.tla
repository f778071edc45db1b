----------------------------- MODULE PayoffPolicy -----------------------------
(***************************************************************************)
(* Which tickets a policy admits, which ones win, and how many units a     *)
(* winning stake counts for.  A ticket mask and a winning mask are sets of *)
(* options: bit i of the mask is the membership of option i, popcount is   *)
(* the cardinality and T & W the intersection.                             *)
(***************************************************************************)
EXTENDS Integers, FiniteSets

CONSTANTS
    Options,    \* the outcomes of the wager: bits 0 .. numOptions-1
    Bits        \* the bits a caller may set, those above numOptions included

ASSUME OptionsAssumption == IsFiniteSet(Bits) /\ Options \subseteq Bits

PayoffPolicies ==
    {"SINGLE_WINNER", "ANY_OF", "EXACT_SET", "AT_LEAST_K", "WEIGHTED_OVERLAP"}

Tickets == SUBSET Bits

\* Only AT_LEAST_K takes a parameter, the k of a win.
PolicyParamAccepted(policy, k) ==
    IF policy = "AT_LEAST_K" THEN k \in 1..Cardinality(Options) ELSE k = 0

ValidMask(mask) == mask # {} /\ mask \subseteq Options

PolicyAllowsTicket(policy, mask) ==
    policy = "SINGLE_WINNER" => Cardinality(mask) = 1

TicketAccepted(policy, mask) == ValidMask(mask) /\ PolicyAllowsTicket(policy, mask)

WinningMaskAccepted(policy, W) ==
    /\ W # {}
    /\ W \subseteq Options
    /\ policy = "SINGLE_WINNER" => Cardinality(W) = 1

TicketWins(policy, k, T, W) ==
    /\ T \cap W # {}
    /\ CASE policy = "SINGLE_WINNER" -> T = W /\ Cardinality(W) = 1
         [] policy = "EXACT_SET" -> T = W
         [] policy \in {"ANY_OF", "WEIGHTED_OVERLAP"} -> TRUE
         [] policy = "AT_LEAST_K" -> Cardinality(T \cap W) >= k

\* How often a winning stake counts in the denominator and in a claim.
Weight(policy, k, T, W) ==
    IF ~TicketWins(policy, k, T, W) THEN 0
    ELSE IF policy = "WEIGHTED_OVERLAP" THEN Cardinality(T \cap W)
    ELSE 1
===============================================================================
