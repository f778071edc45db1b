---------------------------- MODULE FreeformWager ----------------------------
(***************************************************************************)
(* ParamutuelWagerV3 in freeform mode: bets on answers nobody listed       *)
(* beforehand, grouped by the hash of the answer.  There are no seeds, no  *)
(* batches and no policies; the resolver names one answer.                 *)
(***************************************************************************)
EXTENDS WagerLifecycle

CONSTANTS
    Answers,            \* well-formed answers, by their bytes
    MalformedAnswers,   \* the empty answer, answers over MAX_ANSWER_BYTES
    StakeSizes,         \* the amounts a caller may pass, 0 included
    maxDistinctAnswers  \* WAGER_MAX_DISTINCT_ANSWERS of the factory, 1024

ASSUME AnswersAssumption ==
    /\ IsFiniteSet(Answers) /\ Answers \cap MalformedAnswers = {}
    /\ StakeSizes \subseteq Nat
    /\ maxDistinctAnswers \in 1..1024

VARIABLES
    ticketPoolByAnswerId, usedAnswerIds,    \* the global book and its enumeration
    betsByAnswer, userAnswerIds,            \* the same of each bettor
    winningAnswerId

bookVars == <<ticketPoolByAnswerId, usedAnswerIds, betsByAnswer, userAnswerIds>>
freeformVars == <<bookVars, winningAnswerId>>
vars == <<lifecycleVars, freeformVars>>

ValidAnswer(answer) == answer \in Answers

\* keccak256 of the domain byte and the answer, taken to be injective.
AnswerId(answer) == <<"0x03", answer>>
AnswerIds == {AnswerId(a) : a \in Answers}
NoAnswerId == <<>>

\* An id is pushed on an enumeration the first time its stake is still zero; the
\* mutant pushes it with every bet.
PushedAlways(ids, stakes, id) == Append(ids, id)
Pushed(ids, stakes, id) == IF stakes[id] = 0 THEN Append(ids, id) ELSE ids

-------------------------------------------------------------------------------
Init ==
    /\ LifecycleInit
    /\ ticketPoolByAnswerId = [id \in AnswerIds |-> 0] /\ usedAnswerIds = <<>>
    /\ betsByAnswer = [b \in Bettors |-> [id \in AnswerIds |-> 0]]
    /\ userAnswerIds = [b \in Bettors |-> <<>>]
    /\ winningAnswerId = NoAnswerId

CreateFreeformWager(closeTime, window, closer, resCloser) ==
    /\ Deploy(closeTime, window, closer, resCloser)
    /\ UNCHANGED <<potVars, custody, freeformVars>>

\* placeBet(answer, amount): one transfer, then _recordBetAnswer.
PlaceBet(b, answer, amount) ==
    LET id == AnswerId(answer)
    IN  /\ BettingAllowed
        /\ ValidAnswer(answer)
        /\ amount > 0
        /\ totalPot + amount <= Supply
        /\ custody' = custody + amount
        /\ ticketPoolByAnswerId' = [ticketPoolByAnswerId EXCEPT ![id] = @ + amount]
        /\ usedAnswerIds' = Pushed(usedAnswerIds, ticketPoolByAnswerId, id)
        /\ Len(usedAnswerIds') <= maxDistinctAnswers
        /\ betsByAnswer' = [betsByAnswer EXCEPT ![b][id] = @ + amount]
        /\ userAnswerIds' = [userAnswerIds EXCEPT ![b] = Pushed(@, betsByAnswer[b], id)]
        /\ userTotalBet' = [userTotalBet EXCEPT ![b] = @ + amount]
        /\ totalPot' = totalPot + amount
        /\ UNCHANGED <<now, state, termsVars, authorityVars, feeVars, claimVars,
                       winningAnswerId>>

\* resolve(answer): an answer nobody staked on has pool 0 and reverts.
Resolve(sender, answer) ==
    /\ ResolverMayAct(sender)
    /\ ValidAnswer(answer)
    /\ ticketPoolByAnswerId[AnswerId(answer)] # 0
    /\ ChargeFeesOnce
    /\ state' = "Resolved"
    /\ winningAnswerId' = AnswerId(answer)
    /\ payoutDenominator' = ticketPoolByAnswerId[AnswerId(answer)]
    /\ UNCHANGED <<now, termsVars, authorityVars, potVars, hasClaimed, custody, bookVars>>

Winnings(b) == (betsByAnswer[b][winningAnswerId] * NetPot) \div payoutDenominator

\* claim(): a winning stake whose share floors to zero is paid zero and flagged.
Claim(b) ==
    \/ state = "Retracted" /\ PayClaim(b, Refund(b)) /\ UNCHANGED freeformVars
    \/ /\ state = "Resolved"
       /\ betsByAnswer[b][winningAnswerId] # 0
       /\ PayClaim(b, Winnings(b))
       /\ UNCHANGED freeformVars

-------------------------------------------------------------------------------
Next ==
    \/ \E closeTime \in CloseTimes, window \in Windows, closer, resCloser \in Closers :
          CreateFreeformWager(closeTime, window, closer, resCloser)
    \/ Tick /\ UNCHANGED freeformVars
    \/ \E a \in Accounts : CloseBetting(a) /\ UNCHANGED freeformVars
    \/ \E a \in Accounts : CloseResolutionWindow(a) /\ UNCHANGED freeformVars
    \/ \E b \in Bettors, answer \in Answers \cup MalformedAnswers, amount \in StakeSizes :
          PlaceBet(b, answer, amount)
    \/ \E a \in Accounts, answer \in Answers \cup MalformedAnswers : Resolve(a, answer)
    \/ \E a \in Accounts : Retract(a) /\ UNCHANGED freeformVars
    \/ Expire /\ UNCHANGED freeformVars
    \/ \E b \in Bettors : Claim(b)
    \/ \E r \in FeeRecipients : WithdrawFees(r) /\ UNCHANGED freeformVars

Spec == Init /\ [][Next]_vars

-------------------------------------------------------------------------------
(* Properties *)

TypeOK ==
    /\ LifecycleTypeOK
    /\ ticketPoolByAnswerId \in [AnswerIds -> Nat] /\ usedAnswerIds \in Seq(AnswerIds)
    /\ betsByAnswer \in [Bettors -> [AnswerIds -> Nat]]
    /\ userAnswerIds \in [Bettors -> Seq(AnswerIds)]
    /\ winningAnswerId \in AnswerIds \cup {NoAnswerId}

\* The pools, the bettors' totals and the gross pot are sums of the same stakes;
\* the enumerations list each answer with stake exactly once, up to the cap.
BookConsistent ==
    /\ \A id \in AnswerIds :
          ticketPoolByAnswerId[id] = SumFunction([b \in Bettors |-> betsByAnswer[b][id]])
    /\ \A b \in Bettors : userTotalBet[b] = SumFunction(betsByAnswer[b])
    /\ totalPot = SumFunction(userTotalBet)
    /\ IsInjective(usedAnswerIds)
    /\ Range(usedAnswerIds) = {id \in AnswerIds : ticketPoolByAnswerId[id] # 0}
    /\ Len(usedAnswerIds) <= maxDistinctAnswers
    /\ \A b \in Bettors :
          /\ IsInjective(userAnswerIds[b])
          /\ Range(userAnswerIds[b]) = {id \in AnswerIds : betsByAnswer[b][id] # 0}

\* What claim pays b once the wager is final.
Due(b) ==
    IF ~Final \/ userTotalBet[b] = 0 THEN 0
    ELSE IF state = "Retracted" THEN Refund(b)
    ELSE Winnings(b)

Owed ==
    [c \in ({"bettor"} \X Bettors) \cup ({"fee"} \X FeeRecipients) |->
        IF c[1] = "fee" THEN feeBalances[c[2]]
        ELSE IF hasClaimed[c[2]] THEN 0
        ELSE Due(c[2])]

\* The bettors whose floor loses less than one unit each.
RoundedDown ==
    {b \in Bettors : IF state = "Resolved" THEN betsByAnswer[b][winningAnswerId] # 0
                     ELSE userTotalBet[b] # 0}

\* While a wager is open it holds the gross pot; once final it always holds what
\* everybody is still owed, and nothing is lost to rounding beyond less than one
\* unit for each bettor paid.
Solvent ==
    IF ~Final THEN custody = totalPot
    ELSE LET dust == custody - SumFunction(Owed)
         IN  dust = 0 \/ dust \in 1..(Cardinality(RoundedDown) - 1)

\* The freeform wager keeps the promise of an escrow too: bets are locked in
\* before a verdict, and each claimant then gets a fixed amount, once.
EscrowView == INSTANCE Escrow WITH
    Claimants <- ({"bettor"} \X Bettors) \cup ({"fee"} \X FeeRecipients),
    phase <- IF Final THEN "settled"
             ELSE IF state = "Open" /\ BettingClosed THEN "locked"
             ELSE "collecting",
    held <- custody,
    owed <- Owed

ImplementsEscrow == EscrowView!EscrowSpec
===============================================================================
