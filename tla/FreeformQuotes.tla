---------------------------- MODULE FreeformQuotes ----------------------------
(***************************************************************************)
(* Quotes on a freeform wager.  The index knows answers by their ids only: *)
(* the MCP server is given the text of an answer and looks its pool up by  *)
(* the id; the bet scout recommends the row of a pool, by its index in the *)
(* rows sorted by id, and quotes a row index with a text beside it.        *)
(***************************************************************************)
EXTENDS FreeformWager, Odds

CONSTANTS
    Client,     \* the bettor who asks for quotes
    IdRank,     \* the order of the answer ids, i.e. of their hashes
    Stripped    \* str.strip of each answer

\* The ids are hashes, which their order tells apart.
ClientAssumption ==
    /\ Client \in Bettors
    /\ IdRank \in [AnswerIds -> Nat] /\ IsInjective(IdRank)

VARIABLES
    view,   \* the row of the index as the clients read it
    pick,   \* the last recommendation of the bet scout
    quote   \* the quote followed (bound: one, the clients keep nothing between two)

clientVars == <<view, pick, quote>>
allVars == <<vars, clientVars>>

NotIndexed == [state |-> "None"]
NoPick == [index |-> 0]
NoQuote == [status |-> "none"]

\* The fees are in no event: the index reports 0.
IndexedRow == [state |-> state, pot |-> totalPot, pools |-> ticketPoolByAnswerId, feeBps |-> 0]

-------------------------------------------------------------------------------
\* ticket_pools sorted by answer id; an answer has a row once it has a stake.
Rows(row) ==
    LET ids == {id \in AnswerIds : row.pools[id] # 0}
    IN  CHOOSE rows \in [1..Cardinality(ids) -> ids] :
            \A i, j \in DOMAIN rows : i < j => IdRank[rows[i]] < IdRank[rows[j]]

\* The multiple of a bet on a row once it is placed.
RowScore(row, i, amount) ==
    PostBetMultiple(amount, row.pools[Rows(row)[i]], row.pot, row.feeBps)

RowPool(row, i) == row.pools[Rows(row)[i]]

\* Mutant: the rows are scored in another order than they are numbered in.
PickOutcomeUnsorted(strategy, row, amount) ==
    LET rows == DOMAIN Rows(row)
        at(i) == Len(Rows(row)) + 1 - i
    IN  CHOOSE i \in rows : \A j \in rows : RowPool(row, at(i)) <= RowPool(row, at(j))

\* The first row with the smallest pool, or with the best multiple.
PickOutcome(strategy, row, amount) ==
    LET rows == DOMAIN Rows(row)
        best == {i \in rows : \A j \in rows :
                    IF strategy = "min_liquidity" THEN RowPool(row, i) <= RowPool(row, j)
                    ELSE RowScore(row, j, amount) <= RowScore(row, i, amount)}
    IN  CHOOSE i \in best : \A j \in best : i <= j

\* A quote of the pool of one id, with calldata that bets on answer.
QuoteFor(id, answer, asked, amount) ==
    [status |-> "quoted", id |-> id, answer |-> answer, asked |-> asked, amount |-> amount,
     potAfter |-> view.pot + amount,
     payout |-> ExpectedPayout(amount, view.pools[id], view.pot + amount, view.feeBps)]

-------------------------------------------------------------------------------
\* The sync loop commits what the chain holds.
Refresh ==
    /\ state # "Undeployed"
    /\ view' = IndexedRow
    /\ UNCHANGED <<vars, pick, quote>>

\* quote_place_bet of the MCP server: the answer is stripped before it is hashed
\* and encoded; one that is empty then is refused.
McpQuote(answer, amount) ==
    /\ view # NotIndexed /\ quote = NoQuote
    /\ ValidAnswer(Stripped[answer])
    /\ quote' = QuoteFor(AnswerId(Stripped[answer]), Stripped[answer], answer, amount)
    /\ UNCHANGED <<vars, view, pick>>

\* recommend: OPEN wagers only, and only those with a row ("no outcomes" else).
Recommend(strategy, amount) ==
    /\ view.state = "Open" /\ Rows(view) # <<>>
    /\ quote = NoQuote /\ pick = NoPick
    /\ LET i == PickOutcome(strategy, view, amount)
       IN  pick' = [index |-> i, id |-> Rows(view)[i], amount |-> amount]
    /\ UNCHANGED <<vars, view, quote>>

\* quote with the recommended row index, and the text the caller believes it to be;
\* without one there is no calldata.
ScoutQuote(answer) ==
    /\ pick # NoPick /\ quote = NoQuote
    /\ ValidAnswer(Stripped[answer])
    /\ pick.index <= Len(Rows(view))
    /\ quote' = QuoteFor(Rows(view)[pick.index], Stripped[answer], answer, pick.amount)
    /\ UNCHANGED <<vars, view, pick>>

\* The client signs the approval and placeBet(answer, amount).
Submit ==
    /\ quote.status = "quoted"
    /\ PlaceBet(Client, quote.answer, quote.amount)
    /\ quote' = [quote EXCEPT !.status = "placed"]
    /\ UNCHANGED <<view, pick>>

QuotesInit == Init /\ view = NotIndexed /\ pick = NoPick /\ quote = NoQuote

QuotesNext ==
    \/ Next /\ UNCHANGED clientVars
    \/ Refresh
    \/ \E answer \in Answers, amount \in StakeSizes \ {0} : McpQuote(answer, amount)
    \/ \E strategy \in Strategies, amount \in StakeSizes \ {0} : Recommend(strategy, amount)
    \/ \E answer \in Answers : ScoutQuote(answer)
    \/ Submit

QuotesSpec == QuotesInit /\ [][QuotesNext]_allVars

-------------------------------------------------------------------------------
(* Properties *)

\* On a wager without fees (the index reports none): if nobody else has bet since
\* the row of a quote was read, the client has placed that quote and nothing else,
\* and the answer it bets on is the answer of the odds, then claim() pays the
\* quoted payout when that answer wins.
QuotedPayoutIsPaid ==
    (/\ quote.status = "placed" /\ state = "Resolved" /\ totalFeeBps = 0
     /\ quote.id = AnswerId(quote.answer) /\ winningAnswerId = quote.id
     /\ totalPot = quote.potAfter
     /\ userTotalBet[Client] = quote.amount) => Winnings(Client) = quote.payout

\* A row is passed over for one with more stake only when the multiples of the two,
\* rounded to four decimals, are the same.
PickIsSmallestPool ==
    view # NotIndexed /\ Rows(view) # <<>> =>
        \A strategy \in Strategies, amount \in StakeSizes \ {0} : \A i \in DOMAIN Rows(view) :
            LET picked == PickOutcome(strategy, view, amount)
            IN  \/ RowPool(view, picked) <= RowPool(view, i)
                \/ /\ strategy = "best_post_multiple"
                   /\ RowScore(view, picked, amount) = RowScore(view, i, amount)
===============================================================================
