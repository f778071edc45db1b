-------------------------------- MODULE Quotes --------------------------------
(***************************************************************************)
(* The clients of an enumerated wager that compute odds off chain: the MCP *)
(* server (mcp_server/server.py) and the bet scout                         *)
(* (agents/paramutuel_bettor).  They read one row of the index, which lags *)
(* behind the wager, quote what a bet would pay, and hand out the calldata *)
(* of that bet; a bettor signs it later, on the wager as it then is.       *)
(***************************************************************************)
EXTENDS EnumeratedWager, Odds

CONSTANTS
    Client,         \* the bettor who asks for quotes
    OptionSeq,      \* the options by index: the mask of index i is 1 << i
    MaxLegs         \* longest quoted batch (bound)

\* The masks name each option once.
ClientAssumption ==
    /\ Client \in Bettors /\ MaxLegs \in Nat
    /\ OptionSeq \in Seq(Options) /\ Range(OptionSeq) = Options /\ IsInjective(OptionSeq)

VARIABLES
    view,       \* the row of the index as the clients read it
    quote       \* the quote of the client; the clients keep nothing between two
                \* quotes, so one is followed (bound): another is another behaviour

clientVars == <<view, quote>>
allVars == <<vars, clientVars>>

NotIndexed == [state |-> "None"]
NoQuote == [status |-> "none"]

\* What the projections of the events so far hold.  No event carries the fees:
\* wager_totals.total_fee_bps stays at the '0' it is inserted with.
IndexedRow ==
    [state |-> state, closedByAuthority |-> bettingClosedByAuthority,
     closeTime |-> bettingCloseTime, pot |-> totalPot,
     pools |-> ticketPoolByMask, feeBps |-> 0]

-------------------------------------------------------------------------------
(* Odds *)

\* Mutant: a wager without a schedule is taken to be closed.
BettingOpenStatusZeroIsPast(row, clock) ==
    row.state = "Open" /\ ~row.closedByAuthority /\ clock < row.closeTime

\* The clock of the client is the time of the chain; close time 0 is no schedule.
BettingOpenStatus(row, clock) ==
    /\ row.state = "Open"
    /\ ~row.closedByAuthority
    /\ row.closeTime = 0 \/ clock < row.closeTime

LegsTotal(legs) == SumFunction([i \in DOMAIN legs |-> legs[i].amount])

\* Each leg is paid from the net pot after all legs, by its share of its own pool.
\* A quote of one bet is the quote of a batch of one.
ComputeOdds(row, legs) ==
    LET potAfter == row.pot + LegsTotal(legs)
    IN  [potAfter |-> potAfter,
         payouts  |-> [i \in DOMAIN legs |->
            ExpectedPayout(legs[i].amount, row.pools[{legs[i].option}], potAfter, row.feeBps)]]

\* The multiple of a bet once it is placed.
Score(row, option, amount) ==
    PostBetMultiple(amount, row.pools[{option}], row.pot, row.feeBps)

\* The first index of the best value.
FirstBest(better(_, _)) ==
    LET best == {i \in DOMAIN OptionSeq :
                    \A j \in DOMAIN OptionSeq : ~better(OptionSeq[j], OptionSeq[i])}
    IN  OptionSeq[CHOOSE i \in best : \A j \in best : i <= j]

PickOutcome(strategy, row, amount) ==
    IF strategy = "min_liquidity"
    THEN FirstBest(LAMBDA o, p : row.pools[{o}] < row.pools[{p}])
    ELSE FirstBest(LAMBDA o, p : Score(row, o, amount) > Score(row, p, amount))

-------------------------------------------------------------------------------
(* Actions *)

Leg == [option : Options, amount : StakeSizes \ {0}]

\* Batches that name no option twice.
Legs == {legs \in UNION {[1..n -> Leg] : n \in 1..MaxLegs} :
            IsInjective([i \in DOMAIN legs |-> legs[i].option])}

\* The sync loop commits what the chain holds.
Refresh ==
    /\ state # "Undeployed"
    /\ view' = IndexedRow
    /\ UNCHANGED <<vars, quote>>

Quoted(legs) ==
    LET odds == ComputeOdds(view, legs)
    IN  [status |-> "quoted", legs |-> legs, payouts |-> odds.payouts,
         potAfter |-> odds.potAfter, open |-> BettingOpenStatus(view, now)]

\* quote_place_bet, quote_place_bets and `quote` of the bet scout: the quote and
\* the calldata are handed out with the open flag, whatever it says.
RequestQuote(legs) ==
    /\ view # NotIndexed
    /\ quote = NoQuote
    /\ quote' = Quoted(legs)
    /\ UNCHANGED <<vars, view>>

\* `recommend`: the index is asked for OPEN wagers only; "no outcomes" without options.
Recommend(strategy, amount) ==
    /\ view.state = "Open" /\ Options # {}
    /\ quote = NoQuote
    /\ quote' = Quoted(<<[option |-> PickOutcome(strategy, view, amount), amount |-> amount]>>)
    /\ UNCHANGED <<vars, view>>

\* The client signs the approval and the calldata of its quote.
Submit ==
    /\ quote.status = "quoted"
    /\ LET batch == [i \in DOMAIN quote.legs |->
                        [mask |-> {quote.legs[i].option}, amount |-> quote.legs[i].amount]]
       IN  IF Len(batch) = 1 THEN PlaceBet(Client, batch[1]) ELSE PlaceBets(Client, batch)
    /\ quote' = [quote EXCEPT !.status = "placed"]
    /\ UNCHANGED view

QuotesInit == Init /\ view = NotIndexed /\ quote = NoQuote

QuotesNext ==
    \/ Next /\ UNCHANGED clientVars
    \/ Refresh
    \/ \E legs \in Legs : RequestQuote(legs)
    \/ \E strategy \in Strategies, amount \in StakeSizes \ {0} : Recommend(strategy, amount)
    \/ Submit

QuotesSpec == QuotesInit /\ [][QuotesNext]_allVars

-------------------------------------------------------------------------------
(* Properties *)

\* However far the index lags, a client that is told "betting is closed" is told
\* the truth: no bet it could sign would be taken.  And the flag is exact when
\* the index has caught up.
RefusalsAreFinal ==
    view # NotIndexed =>
        /\ ~BettingOpenStatus(view, now) => ~BettingAllowed
        /\ view = IndexedRow => (BettingOpenStatus(view, now) <=> BettingAllowed)

LegWins(leg) == TicketWins(payoffPolicy, policyParam, {leg.option}, winningMask)

\* On a wager with one winner and without fees (the index reports none, and the
\* clients know no policy): if nobody else has bet since the row of a quote was
\* read, and the client has placed that quote and nothing else, the expected
\* payouts of the winning legs are what claim() pays.
QuotedPayoutIsPaid ==
    (/\ quote.status = "placed" /\ state = "Resolved"
     /\ totalFeeBps = 0 /\ payoffPolicy = "SINGLE_WINNER"
     /\ totalPot = quote.potAfter
     /\ userTotalBet[Client] = LegsTotal(quote.legs)) =>
        Winnings(Client) =
            SumFunction([i \in DOMAIN quote.legs |->
                IF LegWins(quote.legs[i]) THEN quote.payouts[i] ELSE 0])

\* All outcomes share one net pot, so the outcome with the highest multiple after
\* the bet is one with the smallest pool: an outcome is passed over for one with more
\* stake only when the two multiples, rounded to four decimals, are the same.
PickIsSmallestPool ==
    view # NotIndexed =>
        \A strategy \in Strategies, amount \in StakeSizes \ {0}, o \in Options :
            LET picked == PickOutcome(strategy, view, amount)
            IN  \/ view.pools[{picked}] <= view.pools[{o}]
                \/ /\ strategy = "best_post_multiple"
                   /\ Score(view, picked, amount) = Score(view, o, amount)
===============================================================================
