--------------------------------- MODULE Odds ---------------------------------
(***************************************************************************)
(* The odds of the off-chain clients: calculate_odds of the MCP server and *)
(* compute_odds of the bet scout, which are the same function twice.       *)
(***************************************************************************)
EXTENDS Integers

bps_denom == 10000

\* How the bet scout picks an outcome.
Strategies == {"best_post_multiple", "min_liquidity"}

NetOf(pot, feeBps) == pot - (pot * feeBps) \div bps_denom

\* Mutant: the pool is taken without the stake of the bet itself.
ExpectedPayoutBeforeBet(amount, pool, potAfter, feeBps) ==
    (amount * NetOf(potAfter, feeBps)) \div (IF pool = 0 THEN amount ELSE pool)

\* What a stake of amount on a pool gets of the net pot after the bets.
ExpectedPayout(amount, pool, potAfter, feeBps) ==
    (amount * NetOf(potAfter, feeBps)) \div (pool + amount)

\* round(n / d, 4) in units of 1/10000, half to even.
Round4(n, d) ==
    LET q == (10000 * n) \div d
        r == (10000 * n) % d
    IN  IF 2 * r > d \/ (2 * r = d /\ q % 2 = 1) THEN q + 1 ELSE q

\* Mutant: the multiple before the bet; an empty pool has none and ranks last.
CurrentMultiple(amount, pool, pot, feeBps) ==
    IF pool = 0 THEN -1 ELSE Round4(NetOf(pot, feeBps), pool)

PostBetMultiple(amount, pool, pot, feeBps) ==
    Round4(NetOf(pot + amount, feeBps), pool + amount)
===============================================================================
