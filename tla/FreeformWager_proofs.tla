------------------------- MODULE FreeformWager_proofs -------------------------
(***************************************************************************)
(* FreeformWager for any bettors, answers, fees and clocks: the types, the *)
(* book of answers, solvency, and the promise of an escrow.  Then the      *)
(* quotes on it (FreeformQuotes), for any rows and order of the ids.       *)
(***************************************************************************)
EXTENDS FreeformWager, FreeformQuotes, WagerLifecycle_proofs

-------------------------------------------------------------------------------
(* Bets *)

LEMMA AnswerIdsFinite == IsFiniteSet(AnswerIds)
<1> DEFINE idOf == [a \in Answers |-> AnswerId(a)]
<1>1. idOf \in Surjection(Answers, AnswerIds)
  BY DEF AnswerIds, Surjection
<1> HIDE DEF idOf
<1>2. QED
  BY <1>1, AnswersAssumption, FS_Surjection

\* What _recordBetAnswer does with n units of b on an answer.
BetOn(b, id, n) ==
    /\ custody' = custody + n
    /\ ticketPoolByAnswerId' = [ticketPoolByAnswerId EXCEPT ![id] = @ + n]
    /\ usedAnswerIds' = Pushed(usedAnswerIds, ticketPoolByAnswerId, id)
    /\ Len(usedAnswerIds') <= maxDistinctAnswers
    /\ betsByAnswer' = [betsByAnswer EXCEPT ![b][id] = @ + n]
    /\ userAnswerIds' = [userAnswerIds EXCEPT ![b] = Pushed(@, betsByAnswer[b], id)]
    /\ userTotalBet' = [userTotalBet EXCEPT ![b] = @ + n]
    /\ totalPot' = totalPot + n

\* A bet is on a well-formed answer, and is for something.
LEMMA PlaceBetIsBetOn ==
    ASSUME NEW b \in Bettors, NEW answer, NEW amount \in StakeSizes,
           PlaceBet(b, answer, amount)
    PROVE  /\ AnswerId(answer) \in AnswerIds /\ amount \in Nat \ {0}
           /\ BetOn(b, AnswerId(answer), amount)
           /\ BettingAllowed
           /\ UNCHANGED <<now, state, termsVars, authorityVars, feeVars, claimVars,
                          winningAnswerId>>
<1>1. AnswerId(answer) \in AnswerIds
  BY DEF PlaceBet, ValidAnswer, AnswerIds
<1>2. amount \in Nat \ {0}
  <2>1. amount \in Nat /\ amount > 0
    BY AnswersAssumption DEF PlaceBet
  <2>2. QED
    BY <2>1
<1>3. BetOn(b, AnswerId(answer), amount)
  BY DEF PlaceBet, BetOn
<1>4. QED
  BY <1>1, <1>2, <1>3 DEF PlaceBet

LEMMA PushedType ==
    ASSUME NEW S, NEW ids \in Seq(S), NEW stakes, NEW id \in S
    PROVE  Pushed(ids, stakes, id) \in Seq(S)
BY DEF Pushed

FreeformTypeOK ==
    /\ ticketPoolByAnswerId \in [AnswerIds -> Nat] /\ usedAnswerIds \in Seq(AnswerIds)
    /\ betsByAnswer \in [Bettors -> [AnswerIds -> Nat]]
    /\ userAnswerIds \in [Bettors -> Seq(AnswerIds)]
    /\ winningAnswerId \in AnswerIds \cup {NoAnswerId}

LEMMA TypeOKLayers == TypeOK <=> LifecycleTypeOK /\ FreeformTypeOK
BY DEF TypeOK, FreeformTypeOK

\* The inductive invariant of the types and the clocks.
IInv == TypeOK /\ LifecycleInv

LEMMA BetOnType ==
    ASSUME IInv, NEW b \in Bettors, NEW id \in AnswerIds, NEW n \in Nat \ {0}, BetOn(b, id, n),
           winningAnswerId' = winningAnswerId
    PROVE  StakesTyped /\ FreeformTypeOK'
<1>1. /\ totalPot \in Nat /\ userTotalBet \in [Bettors -> Nat] /\ custody \in Nat
      /\ \A c \in Bettors : userTotalBet[c] <= totalPot
  BY DEF IInv, TypeOK, LifecycleTypeOK, LifecycleInv
<1>2. /\ ticketPoolByAnswerId \in [AnswerIds -> Nat] /\ usedAnswerIds \in Seq(AnswerIds)
      /\ betsByAnswer \in [Bettors -> [AnswerIds -> Nat]]
      /\ userAnswerIds \in [Bettors -> Seq(AnswerIds)]
      /\ winningAnswerId \in AnswerIds \cup {NoAnswerId}
  BY DEF IInv, TypeOK
<1>3. StakesTyped
  BY <1>1 DEF StakesTyped, BetOn
<1>4. ticketPoolByAnswerId' \in [AnswerIds -> Nat]
  BY <1>2 DEF BetOn
<1>5. usedAnswerIds' \in Seq(AnswerIds)
  BY <1>2, PushedType DEF BetOn
<1>6. betsByAnswer' \in [Bettors -> [AnswerIds -> Nat]]
  BY <1>2 DEF BetOn
<1>7. userAnswerIds' \in [Bettors -> Seq(AnswerIds)]
  <2>1. Pushed(userAnswerIds[b], betsByAnswer[b], id) \in Seq(AnswerIds)
    BY <1>2, PushedType
  <2>2. userAnswerIds' = [userAnswerIds EXCEPT
                            ![b] = Pushed(userAnswerIds[b], betsByAnswer[b], id)]
    BY DEF BetOn
  <2>3. QED
    BY <1>2, <2>1, <2>2
<1>8. QED
  BY <1>2, <1>3, <1>4, <1>5, <1>6, <1>7 DEF FreeformTypeOK

-------------------------------------------------------------------------------
(* Every transaction, as the lifecycle sees it *)

LEMMA FreeformUnchanged ==
    ASSUME FreeformTypeOK, UNCHANGED freeformVars
    PROVE  FreeformTypeOK'
BY DEF FreeformTypeOK, freeformVars, bookVars

LEMMA PlaceBetStep ==
    ASSUME IInv, NEW b \in Bettors, NEW answer, NEW amount \in StakeSizes,
           PlaceBet(b, answer, amount)
    PROVE  LifecycleNext /\ FreeformTypeOK'
<1>1. /\ AnswerId(answer) \in AnswerIds /\ amount \in Nat \ {0}
      /\ BetOn(b, AnswerId(answer), amount)
      /\ BettingAllowed
      /\ UNCHANGED <<now, state, termsVars, authorityVars, feeVars, claimVars,
                     winningAnswerId>>
  BY PlaceBetIsBetOn
<1>2. StakesTyped /\ FreeformTypeOK'
  BY <1>1, BetOnType
<1>3. StakeStep
  BY <1>1, <1>2 DEF StakeStep, BettingAllowed
<1>4. QED
  BY <1>2, <1>3 DEF LifecycleNext

LEMMA CreateStep ==
    ASSUME IInv, NEW closeTime \in CloseTimes, NEW window \in Windows,
           NEW closer \in Closers, NEW resCloser \in Closers,
           CreateFreeformWager(closeTime, window, closer, resCloser)
    PROVE  LifecycleNext /\ FreeformTypeOK'
<1>1. StakesTyped
  BY DEF CreateFreeformWager, StakesTyped, potVars, IInv, TypeOK, LifecycleTypeOK, LifecycleInv
<1>2. LifecycleNext
  BY <1>1 DEF CreateFreeformWager, LifecycleNext
<1>3. FreeformTypeOK'
  BY TypeOKLayers, FreeformUnchanged DEF CreateFreeformWager, IInv
<1>4. QED
  BY <1>2, <1>3

LEMMA ResolveIsStep ==
    ASSUME IInv, NEW a \in Accounts, NEW answer, Resolve(a, answer)
    PROVE  LifecycleNext /\ FreeformTypeOK'
<1>1. AnswerId(answer) \in AnswerIds
  BY DEF Resolve, ValidAnswer, AnswerIds
<1>2. ticketPoolByAnswerId[AnswerId(answer)] \in Nat \ {0}
  BY <1>1 DEF Resolve, IInv, TypeOK
<1>3. ResolveStep
  BY <1>2 DEF Resolve, ResolveStep
<1>4. FreeformTypeOK'
  BY <1>1 DEF Resolve, FreeformTypeOK, IInv, TypeOK, bookVars
<1>5. QED
  BY <1>3, <1>4 DEF LifecycleNext

\* The stake, pot and verdict that a final wager pays from.
Denominated == state = "Resolved" => /\ winningAnswerId \in AnswerIds
                                     /\ payoutDenominator = ticketPoolByAnswerId[winningAnswerId]

LEMMA RefundType ==
    ASSUME IInv, state # "Undeployed", NEW b \in Bettors, userTotalBet[b] # 0
    PROVE  Refund(b) \in Nat
<1>1. NetPot \in Nat
  BY TotalFeesType DEF IInv, TypeOK, LifecycleTypeOK, LifecycleInv, FeeConfigAccepted
<1>2. userTotalBet[b] \in Nat /\ totalPot \in Nat \ {0}
  BY DEF IInv, TypeOK, LifecycleTypeOK, LifecycleInv
<1>3. userTotalBet[b] * NetPot \in Nat
  BY <1>1, <1>2
<1>4. QED
  BY <1>2, <1>3, FloorBound DEF Refund

LEMMA WinningsType ==
    ASSUME IInv, Denominated, state = "Resolved", NEW b \in Bettors
    PROVE  Winnings(b) \in Nat
<1>1. NetPot \in Nat /\ payoutDenominator \in Nat \ {0}
  BY TotalFeesType DEF IInv, TypeOK, LifecycleTypeOK, LifecycleInv, FeeConfigAccepted
<1>2. betsByAnswer[b][winningAnswerId] \in Nat
  BY DEF IInv, TypeOK, Denominated
<1>3. betsByAnswer[b][winningAnswerId] * NetPot \in Nat
  BY <1>1, <1>2
<1>4. QED
  BY <1>1, <1>3, FloorBound DEF Winnings

LEMMA ClaimStep ==
    ASSUME IInv, Denominated, NEW b \in Bettors, Claim(b)
    PROVE  LifecycleNext /\ FreeformTypeOK'
<1>1. PICK paid \in Nat : PayClaim(b, paid) /\ UNCHANGED freeformVars
  <2>1. CASE state = "Retracted" /\ PayClaim(b, Refund(b)) /\ UNCHANGED freeformVars
    <3>1. Refund(b) \in Nat
      BY <2>1, RefundType DEF PayClaim
    <3>2. QED
      BY <2>1, <3>1
  <2>2. CASE state = "Resolved" /\ PayClaim(b, Winnings(b)) /\ UNCHANGED freeformVars
    <3>1. Winnings(b) \in Nat
      BY <2>2, WinningsType
    <3>2. QED
      BY <2>2, <3>1
  <2>3. QED
    BY <2>1, <2>2 DEF Claim
<1>2. FreeformTypeOK'
  BY <1>1, TypeOKLayers, FreeformUnchanged DEF IInv
<1>3. QED
  BY <1>1, <1>2 DEF LifecycleNext

\* Every step of the wager is a step of the lifecycle.
LEMMA FreeformStep ==
    ASSUME IInv, Denominated, [Next]_vars
    PROVE  [LifecycleNext]_lifecycleVars /\ FreeformTypeOK'
<1>1. ASSUME NEW closeTime \in CloseTimes, NEW window \in Windows,
             NEW closer \in Closers, NEW resCloser \in Closers,
             CreateFreeformWager(closeTime, window, closer, resCloser)
      PROVE  LifecycleNext /\ FreeformTypeOK'
  BY <1>1, CreateStep
<1>2. ASSUME NEW b \in Bettors, NEW answer \in Answers \cup MalformedAnswers,
             NEW amount \in StakeSizes, PlaceBet(b, answer, amount)
      PROVE  LifecycleNext /\ FreeformTypeOK'
  BY <1>2, PlaceBetStep
<1>3. ASSUME NEW a \in Accounts, NEW answer \in Answers \cup MalformedAnswers,
             Resolve(a, answer)
      PROVE  LifecycleNext /\ FreeformTypeOK'
  BY <1>3, ResolveIsStep
<1>4. ASSUME NEW b \in Bettors, Claim(b)
      PROVE  LifecycleNext /\ FreeformTypeOK'
  BY <1>4, ClaimStep
<1>5. ASSUME UNCHANGED freeformVars,
             \/ Tick
             \/ \E a \in Accounts : CloseBetting(a)
             \/ \E a \in Accounts : CloseResolutionWindow(a)
             \/ \E a \in Accounts : Retract(a)
             \/ Expire
             \/ \E r \in FeeRecipients : WithdrawFees(r)
      PROVE  LifecycleNext /\ FreeformTypeOK'
  <2>1. FreeformTypeOK'
    BY <1>5, TypeOKLayers, FreeformUnchanged DEF IInv
  <2>2. LifecycleNext
    BY <1>5 DEF LifecycleNext
  <2>3. QED
    BY <2>1, <2>2
<1>6. CASE UNCHANGED vars
  BY <1>6, TypeOKLayers, FreeformUnchanged DEF IInv, vars
<1>7. QED
  BY <1>1, <1>2, <1>3, <1>4, <1>5, <1>6 DEF Next

LEMMA IInvInit == Init => IInv /\ Denominated
<1>1. ASSUME Init
      PROVE  LifecycleIInv /\ FreeformTypeOK /\ Denominated
  <2>1. LifecycleIInv
    BY <1>1, LifecycleInitInv DEF Init
  <2>2. FreeformTypeOK
    BY <1>1 DEF Init, FreeformTypeOK
  <2>3. Denominated
    BY <1>1 DEF Init, LifecycleInit, Denominated
  <2>4. QED
    BY <2>1, <2>2, <2>3
<1>2. QED
  BY <1>1, TypeOKLayers DEF IInv, LifecycleIInv

LEMMA DenominatedStep ==
    ASSUME IInv, Denominated, [Next]_vars
    PROVE  Denominated'
<1>1. CASE UNCHANGED <<state, ticketPoolByAnswerId, winningAnswerId, payoutDenominator>>
  BY <1>1 DEF Denominated
<1>2. ASSUME NEW a \in Accounts, NEW answer \in Answers \cup MalformedAnswers,
             Resolve(a, answer)
      PROVE  Denominated'
  BY <1>2 DEF Resolve, Denominated, ValidAnswer, AnswerIds, bookVars
<1>3. CASE state' # "Resolved"
  BY <1>3 DEF Denominated
<1>4. QED
  BY <1>1, <1>2, <1>3
  DEF Next, CreateFreeformWager, Deploy, Tick, CloseBetting, CloseResolutionWindow, PlaceBet,
      BettingAllowed, Retract, Expire, Claim, PayClaim, WithdrawFees, freeformVars, bookVars,
      claimVars, vars, lifecycleVars

LEMMA IInvStep ==
    ASSUME IInv, Denominated, [Next]_vars
    PROVE  IInv' /\ Denominated'
<1>1. LifecycleIInv' /\ FreeformTypeOK'
  BY FreeformStep, LifecycleStepInv DEF IInv, LifecycleIInv, TypeOK
<1>2. IInv'
  BY <1>1, TypeOKLayers DEF IInv, LifecycleIInv, TypeOK, FreeformTypeOK
<1>3. QED
  BY <1>2, DenominatedStep

-------------------------------------------------------------------------------
(* The book *)

\* Pushing an id the first time its stake is zero is what ListsStep is about.
LEMMA PushedLists ==
    ASSUME NEW ids \in Seq(AnswerIds), NEW stakes \in [AnswerIds -> Nat],
           Lists(ids, AnswerIds, stakes), NEW id \in AnswerIds, NEW n \in Nat \ {0}
    PROVE  Lists(Pushed(ids, stakes, id), AnswerIds, [stakes EXCEPT ![id] = @ + n])
BY ListsStep DEF Pushed

\* A bet keeps pools, totals, pot and enumerations in agreement.
LEMMA BetOnBook ==
    ASSUME IInv, BookConsistent, NEW b \in Bettors, NEW id \in AnswerIds,
           NEW n \in Nat \ {0}, BetOn(b, id, n)
    PROVE  BookConsistent'
<1>1. /\ ticketPoolByAnswerId \in [AnswerIds -> Nat] /\ usedAnswerIds \in Seq(AnswerIds)
      /\ betsByAnswer \in [Bettors -> [AnswerIds -> Nat]]
      /\ userAnswerIds \in [Bettors -> Seq(AnswerIds)]
      /\ userTotalBet \in [Bettors -> Nat] /\ totalPot \in Nat
  BY DEF IInv, TypeOK, LifecycleTypeOK
<1>2. /\ \A c \in Bettors \ {b} : /\ betsByAnswer'[c] = betsByAnswer[c]
                                  /\ userAnswerIds'[c] = userAnswerIds[c]
                                  /\ userTotalBet'[c] = userTotalBet[c]
      /\ userTotalBet'[b] = userTotalBet[b] + n
      /\ userAnswerIds'[b] = Pushed(userAnswerIds[b], betsByAnswer[b], id)
      /\ totalPot' = totalPot + n
      /\ DOMAIN userTotalBet' = Bettors
  BY <1>1 DEF BetOn
<1>3. betsByAnswer'[b] = [betsByAnswer[b] EXCEPT ![id] = @ + n]
  BY <1>1 DEF BetOn
<1>4. ticketPoolByAnswerId' = [ticketPoolByAnswerId EXCEPT ![id] = @ + n]
  BY DEF BetOn
<1>5. ASSUME NEW e \in AnswerIds
      PROVE  ticketPoolByAnswerId'[e] = SumFunction([c \in Bettors |-> betsByAnswer'[c][e]])
  <2> DEFINE before == [c \in Bettors |-> betsByAnswer[c][e]]
             after == [c \in Bettors |-> betsByAnswer'[c][e]]
  <2>1. /\ \A c \in Bettors : before[c] \in Int
        /\ \A c \in Bettors \ {b} : after[c] = before[c]
        /\ after[b] = IF e = id THEN before[b] + n ELSE before[b]
        /\ DOMAIN before = Bettors /\ DOMAIN after = Bettors
    BY <1>1, <1>2, <1>3
  <2>2. ticketPoolByAnswerId[e] = SumFunction(before)
    BY DEF BookConsistent
  <2> HIDE DEF before, after
  <2>3. \A c \in Bettors : before[c] \in Int /\ after[c] \in Int
    BY <2>1
  <2>4. SumFunctionOnSet(after, Bettors)
          = SumFunctionOnSet(before, Bettors) - before[b] + after[b]
    BY <2>1, <2>3, BettorsAssumption, SumExcept
  <2>5. SumFunction(before) = SumFunctionOnSet(before, Bettors)
        /\ SumFunction(after) = SumFunctionOnSet(after, Bettors)
    BY <2>1 DEF SumFunction
  <2>6. ticketPoolByAnswerId[e] \in Nat
        /\ ticketPoolByAnswerId'[e] = IF e = id THEN ticketPoolByAnswerId[e] + n
                                      ELSE ticketPoolByAnswerId[e]
    BY <1>1, <1>4
  <2>7. before[b] \in Int /\ after[b] \in Int
    BY <2>3
  <2>8. ticketPoolByAnswerId'[e] = SumFunction(after)
    BY <2>1, <2>2, <2>4, <2>5, <2>6, <2>7
  <2>9. QED
    BY <2>8 DEF after
<1>6. ASSUME NEW c \in Bettors
      PROVE  userTotalBet'[c] = SumFunction(betsByAnswer'[c])
  <2>1. userTotalBet[c] = SumFunction(betsByAnswer[c])
    BY DEF BookConsistent
  <2>2. CASE c # b
    BY <1>2, <2>1, <2>2
  <2>3. CASE c = b
    <3> DEFINE before == betsByAnswer[b]
               after == betsByAnswer'[b]
    <3>1. /\ DOMAIN before = AnswerIds /\ DOMAIN after = AnswerIds
          /\ \A e \in AnswerIds : before[e] \in Int /\ after[e] \in Int
          /\ \A e \in AnswerIds \ {id} : after[e] = before[e]
          /\ after[id] = before[id] + n
      BY <1>1, <1>3
    <3>2. userTotalBet[b] = SumFunction(before)
      BY <2>1, <2>3
    <3> HIDE DEF before, after
    <3>3. SumFunctionOnSet(after, AnswerIds)
            = SumFunctionOnSet(before, AnswerIds) - before[id] + after[id]
      BY <3>1, AnswerIdsFinite, SumExcept
    <3>4. SumFunctionOnSet(before, AnswerIds) \in Int
      BY <3>1, AnswerIdsFinite, SumInt
    <3>5. SumFunction(after) = SumFunction(before) + n
      BY <3>1, <3>3, <3>4 DEF SumFunction
    <3>6. userTotalBet'[b] = SumFunction(after)
      BY <1>2, <3>2, <3>5
    <3>7. QED
      BY <2>3, <3>6 DEF after
  <2>4. QED
    BY <2>2, <2>3
<1>7. totalPot' = SumFunction(userTotalBet')
  <2>1. /\ \A c \in Bettors : userTotalBet[c] \in Int /\ userTotalBet'[c] \in Int
        /\ \A c \in Bettors \ {b} : userTotalBet'[c] = userTotalBet[c]
        /\ DOMAIN userTotalBet = Bettors /\ DOMAIN userTotalBet' = Bettors
    BY <1>1, <1>2
  <2>2. SumFunctionOnSet(userTotalBet', Bettors)
          = SumFunctionOnSet(userTotalBet, Bettors) - userTotalBet[b] + userTotalBet'[b]
    BY <2>1, BettorsAssumption, SumExcept
  <2>3. totalPot = SumFunctionOnSet(userTotalBet, Bettors)
    BY <2>1 DEF BookConsistent, SumFunction
  <2>4. SumFunctionOnSet(userTotalBet', Bettors) = totalPot + n
    BY <1>1, <1>2, <2>1, <2>2, <2>3
  <2>5. QED
    BY <1>2, <2>1, <2>4 DEF SumFunction
<1>8. Lists(usedAnswerIds', AnswerIds, ticketPoolByAnswerId')
  <2>1. Lists(usedAnswerIds, AnswerIds, ticketPoolByAnswerId)
    BY DEF BookConsistent, Lists
  <2>2. Lists(Pushed(usedAnswerIds, ticketPoolByAnswerId, id), AnswerIds,
              [ticketPoolByAnswerId EXCEPT ![id] = @ + n])
    BY <1>1, <2>1, PushedLists
  <2>3. QED
    BY <1>4, <2>2, Zenon DEF BetOn
<1>9. ASSUME NEW c \in Bettors
      PROVE  Lists(userAnswerIds'[c], AnswerIds, betsByAnswer'[c])
  <2>1. Lists(userAnswerIds[c], AnswerIds, betsByAnswer[c])
    BY DEF BookConsistent, Lists
  <2>2. CASE c # b
    BY <1>2, <2>1, <2>2
  <2>3. CASE c = b
    <3>1. userAnswerIds[b] \in Seq(AnswerIds) /\ betsByAnswer[b] \in [AnswerIds -> Nat]
      BY <1>1
    <3>2. Lists(Pushed(userAnswerIds[b], betsByAnswer[b], id), AnswerIds,
                [betsByAnswer[b] EXCEPT ![id] = @ + n])
      BY <2>1, <2>3, <3>1, PushedLists
    <3>3. QED
      BY <1>2, <1>3, <2>3, <3>2, Zenon
  <2>4. QED
    BY <2>2, <2>3
<1>10. Len(usedAnswerIds') <= maxDistinctAnswers
  BY DEF BetOn
<1>11. QED
  BY <1>5, <1>6, <1>7, <1>8, <1>9, <1>10 DEF BookConsistent, Lists

LEMMA BookInit == Init => BookConsistent
<1> SUFFICES ASSUME Init PROVE BookConsistent
  OBVIOUS
<1>1. /\ ticketPoolByAnswerId = [id \in AnswerIds |-> 0] /\ usedAnswerIds = <<>>
      /\ betsByAnswer = [b \in Bettors |-> [id \in AnswerIds |-> 0]]
      /\ userAnswerIds = [b \in Bettors |-> <<>>]
      /\ totalPot = 0 /\ userTotalBet = [b \in Bettors |-> 0]
  BY DEF Init, LifecycleInit
<1>2. ASSUME NEW id \in AnswerIds
      PROVE  ticketPoolByAnswerId[id] = SumFunction([b \in Bettors |-> betsByAnswer[b][id]])
  <2> DEFINE column == [b \in Bettors |-> betsByAnswer[b][id]]
  <2>1. DOMAIN column = Bettors /\ \A b \in Bettors : column[b] = 0
    BY <1>1
  <2> HIDE DEF column
  <2>2. SumFunction(column) = 0
    BY <2>1, BettorsAssumption, SumZero DEF SumFunction
  <2>3. QED
    BY <1>1, <2>2 DEF column
<1>3. ASSUME NEW b \in Bettors
      PROVE  userTotalBet[b] = SumFunction(betsByAnswer[b])
  <2> DEFINE row == betsByAnswer[b]
  <2>1. DOMAIN row = AnswerIds /\ \A id \in AnswerIds : row[id] = 0
    BY <1>1
  <2> HIDE DEF row
  <2>2. SumFunction(row) = 0
    BY <2>1, AnswerIdsFinite, SumZero DEF SumFunction
  <2>3. QED
    BY <1>1, <2>2 DEF row
<1>4. totalPot = SumFunction(userTotalBet)
  <2>1. DOMAIN userTotalBet = Bettors /\ \A b \in Bettors : userTotalBet[b] = 0
    BY <1>1
  <2>2. QED
    BY <1>1, <2>1, BettorsAssumption, SumZero DEF SumFunction
<1>5. IsInjective(<<>>) /\ Range(<<>>) = {} /\ Len(<<>>) = 0
  BY DEF IsInjective, Range
<1>6. {id \in AnswerIds : ticketPoolByAnswerId[id] # 0} = {}
      /\ \A b \in Bettors : {id \in AnswerIds : betsByAnswer[b][id] # 0} = {}
  BY <1>1
<1>7. \A b \in Bettors : userAnswerIds[b] = <<>>
  BY <1>1
<1>8. Len(usedAnswerIds) <= maxDistinctAnswers
  BY <1>1, <1>5, AnswersAssumption
<1>9. QED
  BY <1>1, <1>2, <1>3, <1>4, <1>5, <1>6, <1>7, <1>8 DEF BookConsistent

\* Only a bet touches the book.
LEMMA BookNext ==
    ASSUME IInv, BookConsistent, [Next]_vars
    PROVE  BookConsistent'
<1>1. CASE UNCHANGED <<potVars, bookVars>>
  BY <1>1 DEF BookConsistent, potVars, bookVars
<1>2. ASSUME NEW b \in Bettors, NEW answer \in Answers \cup MalformedAnswers,
             NEW amount \in StakeSizes, PlaceBet(b, answer, amount)
      PROVE  BookConsistent'
  <2>1. AnswerId(answer) \in AnswerIds /\ amount \in Nat \ {0}
        /\ BetOn(b, AnswerId(answer), amount)
    BY <1>2, PlaceBetIsBetOn
  <2>2. QED
    BY <2>1, BetOnBook
<1>3. QED
  BY <1>1, <1>2
  DEF Next, CreateFreeformWager, Tick, CloseBetting, CloseResolutionWindow, Resolve, Retract,
      Expire, Claim, PayClaim, WithdrawFees, freeformVars, vars, lifecycleVars

-------------------------------------------------------------------------------
(* What everybody is owed, and what rounding loses *)

Dues == [b \in Bettors |-> Due(b)]

\* The inductive invariant of the states the money is reasoned about in.
BookInv == IInv /\ Denominated /\ BookConsistent

LEMMA DuesType ==
    ASSUME IInv, Denominated
    PROVE  /\ Dues \in [Bettors -> Nat]
           /\ feeBalances \in [FeeRecipients -> Nat] /\ hasClaimed \in [Bettors -> BOOLEAN]
<1>1. ASSUME NEW b \in Bettors PROVE Due(b) \in Nat
  <2>1. CASE state = "Retracted" /\ userTotalBet[b] # 0
    BY <2>1, RefundType DEF Due, Final
  <2>2. CASE state = "Resolved" /\ userTotalBet[b] # 0
    BY <2>2, WinningsType DEF Due, Final
  <2>3. QED
    BY <2>1, <2>2 DEF Due, Final
<1>2. QED
  BY <1>1 DEF Dues, IInv, TypeOK, LifecycleTypeOK

LEMMA OwedIsOwedBy == Owed = OwedBy(Dues, feeBalances, hasClaimed)
BY DEF Owed, OwedBy, Dues, Claimants, BettorClaims, FeeClaims

LEMMA OwedType ==
    IInv /\ Denominated => Owed \in [Claimants -> Nat] /\ SumFunction(Owed) \in Nat
<1> SUFFICES ASSUME IInv, Denominated
             PROVE  Owed \in [Claimants -> Nat] /\ SumFunction(Owed) \in Nat
  OBVIOUS
<1>1. Owed \in [Claimants -> Nat]
  BY DuesType, OwedIsOwedBy, OwedByType
<1>2. SumFunctionOnSet(Owed, Claimants) \in Nat
  BY <1>1, ClaimsFinite, SumNat DEF Claimants
<1>3. QED
  BY <1>1, <1>2 DEF SumFunction

\* All refunds of a retracted wager: the net pot, less than one unit lost for each.
LEMMA RefundsDust ==
    ASSUME BookInv, state = "Retracted", totalPot # 0
    PROVE  NetPot - SumFunctionOnSet(Dues, Bettors) \in 0..(Cardinality(RoundedDown) - 1)
<1>1. totalPot \in Nat \ {0} /\ NetPot \in Nat
  BY TotalFeesType DEF BookInv, IInv, TypeOK, LifecycleTypeOK, LifecycleInv, FeeConfigAccepted
<1>2. /\ \A b \in Bettors : userTotalBet[b] \in Nat
      /\ SumFunctionOnSet(userTotalBet, Bettors) = totalPot
  BY DEF BookInv, IInv, TypeOK, LifecycleTypeOK, BookConsistent, SumFunction
<1>3. \A b \in Bettors : Dues[b] = (userTotalBet[b] * NetPot) \div totalPot
  <2>1. \A n \in Nat, d \in Nat \ {0} : (0 * n) \div d = 0
    OBVIOUS
  <2>2. QED
    BY <1>1, <2>1 DEF Dues, Due, Final, Refund
<1>4. NetPot - SumFunctionOnSet(Dues, Bettors)
        \in 0..(Cardinality({b \in Bettors : userTotalBet[b] # 0}) - 1)
  BY <1>1, <1>2, <1>3, BettorsAssumption, SumFloors
<1>5. QED
  BY <1>4 DEF RoundedDown

\* A bettor without a stake has none on the winning answer either, so claim's
\* early return costs nobody.
LEMMA NoStakeNoBet ==
    ASSUME BookInv, NEW b \in Bettors, userTotalBet[b] = 0, NEW id \in AnswerIds
    PROVE  betsByAnswer[b][id] = 0
<1>1. betsByAnswer[b] \in [AnswerIds -> Nat]
  BY DEF BookInv, IInv, TypeOK
<1>2. SumFunctionOnSet(betsByAnswer[b], AnswerIds) = 0
  BY <1>1 DEF BookInv, BookConsistent, SumFunction
<1>3. betsByAnswer[b][id] <= 0 /\ betsByAnswer[b][id] \in Nat
  <2>1. \A e \in AnswerIds : betsByAnswer[b][e] \in Nat
    BY <1>1
  <2>2. QED
    BY <1>2, <2>1, AnswerIdsFinite, SumNat
<1>4. QED
  BY <1>3

\* All winnings of a resolved wager: the same, for each winning stake.
LEMMA WinningsDust ==
    ASSUME BookInv, state = "Resolved"
    PROVE  NetPot - SumFunctionOnSet(Dues, Bettors) \in 0..(Cardinality(RoundedDown) - 1)
<1> DEFINE stakes == [b \in Bettors |-> betsByAnswer[b][winningAnswerId]]
<1>1. NetPot \in Nat /\ payoutDenominator \in Nat \ {0}
  BY TotalFeesType DEF BookInv, IInv, TypeOK, LifecycleTypeOK, LifecycleInv, FeeConfigAccepted
<1>2. winningAnswerId \in AnswerIds
      /\ payoutDenominator = ticketPoolByAnswerId[winningAnswerId]
  BY DEF BookInv, Denominated
<1>3. DOMAIN stakes = Bettors /\ \A b \in Bettors : stakes[b] \in Nat
  BY <1>2 DEF BookInv, IInv, TypeOK
<1>4. payoutDenominator = SumFunction(stakes)
  BY <1>2 DEF BookInv, BookConsistent
<1>5. \A b \in Bettors : Dues[b] = (stakes[b] * NetPot) \div payoutDenominator
  <2>1. ASSUME NEW b \in Bettors, userTotalBet[b] = 0
        PROVE  stakes[b] = 0
    BY <1>2, <2>1, NoStakeNoBet
  <2>2. \A n \in Nat, d \in Nat \ {0} : (0 * n) \div d = 0
    OBVIOUS
  <2>3. \A b \in Bettors : Dues[b] = IF userTotalBet[b] = 0 THEN 0
                                     ELSE (stakes[b] * NetPot) \div payoutDenominator
    BY DEF Dues, Due, Final, Winnings
  <2> HIDE DEF stakes
  <2>4. QED
    BY <1>1, <2>1, <2>2, <2>3
<1>6. {b \in Bettors : stakes[b] # 0} = RoundedDown
  BY DEF RoundedDown
<1> HIDE DEF stakes
<1>7. payoutDenominator = SumFunctionOnSet(stakes, Bettors)
  BY <1>3, <1>4 DEF SumFunction
<1>8. NetPot - SumFunctionOnSet(Dues, Bettors)
        \in 0..(Cardinality({b \in Bettors : stakes[b] # 0}) - 1)
  BY <1>1, <1>3, <1>5, <1>7, BettorsAssumption, SumFloors
<1>9. QED
  BY <1>6, <1>8

-------------------------------------------------------------------------------
(* The moment of settlement *)

\* What resolve, retract and expire leave behind: the whole pot in custody, the
\* fees credited and nobody paid.
Settled ==
    /\ Final
    /\ custody = totalPot
    /\ \A b \in Bettors : ~hasClaimed[b]
    /\ SumFunctionOnSet(feeBalances, FeeRecipients) = TotalFeesAmount

LEMMA EmptyPotOwesNothing ==
    ASSUME IInv, totalPot = 0
    PROVE  SumFunctionOnSet(Dues, Bettors) = 0
<1>1. \A b \in Bettors : userTotalBet[b] = 0
  BY DEF IInv, TypeOK, LifecycleTypeOK, LifecycleInv
<1>2. \A b \in Bettors : Dues[b] = 0
  BY <1>1 DEF Dues, Due
<1>3. QED
  BY <1>2, BettorsAssumption, SumZero

LEMMA SettledSolvent == BookInv /\ Settled => Solvent
<1> SUFFICES ASSUME BookInv, Settled PROVE Solvent
  OBVIOUS
<1> DEFINE dues == SumFunctionOnSet(Dues, Bettors)
           fees == TotalFeesAmount
           k == Cardinality(RoundedDown)
<1>1. dues \in Nat /\ SumFunction(Owed) = dues + fees
  BY DuesType, OwedIsOwedBy, OwedByUnclaimed DEF Settled, BookInv
<1>2. fees \in Nat /\ totalPot \in Nat /\ NetPot = totalPot - fees
      /\ (totalPot = 0 => fees = 0)
  BY TotalFeesType DEF BookInv, IInv, TypeOK, LifecycleTypeOK, LifecycleInv,
                       FeeConfigAccepted, Settled, Final, NetPot
<1>3. NetPot - dues = 0 \/ NetPot - dues \in 1..(k - 1)
  <2>1. k \in Nat
    BY BettorsAssumption, FS_Subset, FS_CardinalityType DEF RoundedDown
  <2>2. CASE NetPot - dues \in 0..(k - 1)
    <3> HIDE DEF dues, k
    <3>1. \A x \in 0..(k - 1) : x = 0 \/ x \in 1..(k - 1)
      BY <2>1
    <3>2. QED
      BY <2>2, <3>1
  <2>3. CASE state = "Resolved"
    BY <2>2, <2>3, WinningsDust
  <2>4. CASE state = "Retracted" /\ totalPot # 0
    BY <2>2, <2>4, RefundsDust
  <2>5. CASE totalPot = 0
    <3>1. dues = 0
      BY <2>5, EmptyPotOwesNothing DEF BookInv
    <3>2. fees = 0
      BY <1>2, <2>5
    <3> HIDE DEF fees, dues, k
    <3>3. NetPot - dues = 0
      BY <1>2, <2>5, <3>1, <3>2
    <3>4. QED
      BY <3>3
  <2>6. QED
    BY <2>3, <2>4, <2>5 DEF Settled, Final
<1>4. custody - SumFunction(Owed) = NetPot - dues
  <2> HIDE DEF dues, fees
  <2>1. custody = totalPot
    BY DEF Settled
  <2>2. QED
    BY <1>1, <1>2, <2>1
<1>5. QED
  BY <1>3, <1>4 DEF Solvent, Settled

-------------------------------------------------------------------------------
(* What a transaction can do to the money *)

\* Nobody is paid and no fee is credited before the wager is final.
NothingPaidYet ==
    ~Final => /\ \A b \in Bettors : ~hasClaimed[b]
              /\ \A r \in FeeRecipients : feeBalances[r] = 0

termsOfPayment == <<state, potVars, bookVars, winningAnswerId, payoutDenominator>>

LEMMA DuesFixed ==
    ASSUME UNCHANGED termsOfPayment
    PROVE  /\ \A b \in Bettors : Due(b)' = Due(b)
           /\ RoundedDown' = RoundedDown /\ Final' = Final
BY DEF termsOfPayment, potVars, bookVars, Due, Refund, Winnings, NetPot,
       TotalFeesAmount, RoundedDown, Final

\* Claimant c is paid in full out of the custody, and nobody else is affected.
Pays(c) ==
    /\ Final
    /\ UNCHANGED termsOfPayment
    /\ custody >= Owed[c] /\ custody' = custody - Owed[c]
    /\ Owed' = [Owed EXCEPT ![c] = 0]

\* Resolve, retract and expire turn the pot into dues, fees and dust.
Settles ==
    /\ state = "Open" /\ BettingClosed /\ state' \in {"Resolved", "Retracted"}
    /\ ChargeFeesOnce
    /\ UNCHANGED <<potVars, hasClaimed, custody>>

\* Stakes enter the pot and the custody together, while betting is open.
StakesEnter ==
    /\ ~(state = "Open" /\ BettingClosed)
    /\ ~Final /\ ~Final'
    /\ UNCHANGED <<hasClaimed, feeBalances>>
    /\ \E n \in Nat : custody' = custody + n /\ totalPot' = totalPot + n

NoPayment == UNCHANGED <<termsOfPayment, hasClaimed, feeBalances, custody>>

LEMMA ClaimPays ==
    ASSUME IInv, Denominated, NEW b \in Bettors, Claim(b)
    PROVE  \E c \in Claimants : Pays(c)
<1> DEFINE c == <<"bettor", b>>
<1>1. /\ UNCHANGED <<termsOfPayment, feeBalances>> /\ Final /\ ~hasClaimed[b]
      /\ hasClaimed' = [hasClaimed EXCEPT ![b] = TRUE]
      /\ custody >= Due(b) /\ custody' = custody - Due(b)
  <2>1. CASE state = "Retracted" /\ PayClaim(b, Refund(b)) /\ UNCHANGED freeformVars
    BY <2>1 DEF PayClaim, termsOfPayment, freeformVars, feeVars, Due
  <2>2. CASE state = "Resolved" /\ PayClaim(b, Winnings(b)) /\ UNCHANGED freeformVars
    BY <2>2 DEF PayClaim, termsOfPayment, freeformVars, feeVars, Due
  <2>3. QED
    BY <2>1, <2>2 DEF Claim
<1>2. Dues \in [Bettors -> Nat] /\ feeBalances \in [FeeRecipients -> Nat]
  BY DuesType
<1>3. hasClaimed \in [Bettors -> BOOLEAN]
  BY DuesType
<1>4. c \in Claimants /\ Owed[c] = Due(b)
  BY <1>1, <1>2, <1>3, OwedIsOwedBy, OwedByType DEF Dues
<1>5. Dues' = Dues
  BY <1>1, DuesFixed DEF Dues
<1>6. Owed' = OwedBy(Dues', feeBalances', hasClaimed')
  BY DEF Owed, OwedBy, Dues, Claimants, BettorClaims, FeeClaims
<1>7. OwedBy(Dues, feeBalances, hasClaimed') = [Owed EXCEPT ![c] = 0]
  <2>1. /\ hasClaimed' \in [Bettors -> BOOLEAN] /\ hasClaimed'[b]
        /\ \A e \in Bettors \ {b} : hasClaimed'[e] = hasClaimed[e]
    BY <1>1, <1>3
  <2>2. QED
    BY <1>2, <1>3, <2>1, OwedIsOwedBy, OwedByClaim
<1>8. Pays(c)
  BY <1>1, <1>4, <1>5, <1>6, <1>7 DEF Pays
<1>9. QED
  BY <1>4, <1>8

LEMMA WithdrawPays ==
    ASSUME IInv, Denominated, NothingPaidYet, NEW r \in FeeRecipients,
           WithdrawFees(r), UNCHANGED freeformVars
    PROVE  \E c \in Claimants : Pays(c)
<1> DEFINE c == <<"fee", r>>
<1>1. /\ UNCHANGED <<termsOfPayment, hasClaimed>> /\ Final
      /\ feeBalances' = [feeBalances EXCEPT ![r] = 0]
      /\ custody >= feeBalances[r] /\ custody' = custody - feeBalances[r]
  BY DEF WithdrawFees, termsOfPayment, freeformVars, claimVars, NothingPaidYet
<1>2. Dues \in [Bettors -> Nat] /\ feeBalances \in [FeeRecipients -> Nat]
  BY DuesType
<1>3. hasClaimed \in [Bettors -> BOOLEAN]
  BY DuesType
<1>4. c \in Claimants /\ Owed[c] = feeBalances[r]
  BY <1>2, <1>3, OwedIsOwedBy, OwedByType
<1>5. Dues' = Dues
  BY <1>1, DuesFixed DEF Dues
<1>6. Owed' = OwedBy(Dues', feeBalances', hasClaimed')
  BY DEF Owed, OwedBy, Dues, Claimants, BettorClaims, FeeClaims
<1>7. OwedBy(Dues, feeBalances', hasClaimed) = [Owed EXCEPT ![c] = 0]
  <2>1. /\ feeBalances' \in [FeeRecipients -> Nat] /\ feeBalances'[r] = 0
        /\ \A s \in FeeRecipients \ {r} : feeBalances'[s] = feeBalances[s]
    BY <1>1, <1>2
  <2>2. QED
    BY <1>2, <1>3, <2>1, OwedIsOwedBy, OwedByWithdrawal
<1>8. Pays(c)
  BY <1>1, <1>4, <1>5, <1>6, <1>7 DEF Pays
<1>9. QED
  BY <1>4, <1>8

\* Every transaction is one of the four.
LEMMA MoneyStep ==
    ASSUME IInv, Denominated, NothingPaidYet, [Next]_vars
    PROVE  StakesEnter \/ Settles \/ NoPayment \/ \E c \in Claimants : Pays(c)
<1>1. ASSUME NEW closeTime \in CloseTimes, NEW window \in Windows,
             NEW closer \in Closers, NEW resCloser \in Closers,
             CreateFreeformWager(closeTime, window, closer, resCloser)
      PROVE  StakesEnter
  <2>1. custody' = custody + 0 /\ totalPot' = totalPot + 0
    BY <1>1 DEF CreateFreeformWager, potVars, IInv, TypeOK, LifecycleTypeOK
  <2>2. QED
    BY <1>1, <2>1 DEF CreateFreeformWager, Deploy, StakesEnter, Final, claimVars, feeVars
<1>2. ASSUME NEW b \in Bettors, NEW answer \in Answers \cup MalformedAnswers,
             NEW amount \in StakeSizes, PlaceBet(b, answer, amount)
      PROVE  StakesEnter
  <2>1. amount \in Nat
    BY AnswersAssumption
  <2>2. QED
    BY <1>2, <2>1 DEF PlaceBet, BettingAllowed, StakesEnter, Final, claimVars, feeVars
<1>3. ASSUME NEW a \in Accounts, NEW answer \in Answers \cup MalformedAnswers,
             Resolve(a, answer)
      PROVE  Settles
  BY <1>3 DEF Resolve, ResolverMayAct, Settles
<1>4. ASSUME NEW a \in Accounts, Retract(a)
      PROVE  Settles
  BY <1>4 DEF Retract, ResolverMayAct, Settles, claimVars
<1>5. CASE Expire
  BY <1>5 DEF Expire, Settles, claimVars
<1>6. ASSUME UNCHANGED freeformVars,
             \/ Tick
             \/ \E a \in Accounts : CloseBetting(a)
             \/ \E a \in Accounts : CloseResolutionWindow(a)
      PROVE  NoPayment
  BY <1>6 DEF Tick, CloseBetting, CloseResolutionWindow, NoPayment, termsOfPayment,
              freeformVars, claimVars, feeVars
<1>7. CASE UNCHANGED vars
  BY <1>7 DEF vars, lifecycleVars, freeformVars, NoPayment, termsOfPayment, claimVars, feeVars
<1>8. ASSUME NEW b \in Bettors, Claim(b)
      PROVE  \E c \in Claimants : Pays(c)
  BY <1>8, ClaimPays
<1>9. ASSUME NEW r \in FeeRecipients, WithdrawFees(r), UNCHANGED freeformVars
      PROVE  \E c \in Claimants : Pays(c)
  BY <1>9, WithdrawPays
<1>10. QED
  BY <1>1, <1>2, <1>3, <1>4, <1>5, <1>6, <1>7, <1>8, <1>9 DEF Next

LEMMA SettlesSolvent ==
    ASSUME BookInv, BookInv', NothingPaidYet, Solvent, Settles
    PROVE  Solvent' /\ NothingPaidYet'
<1>1. ~Final /\ Final'
  BY DEF Settles, Final
<1>2. custody' = totalPot' /\ \A b \in Bettors : ~hasClaimed'[b]
  BY <1>1 DEF Settles, potVars, Solvent, NothingPaidYet
<1>3. SumFunctionOnSet(feeBalances', FeeRecipients) = TotalFeesAmount'
  <2>1. ~feesCharged /\ totalPot \in Nat /\ totalFeeBps <= MAX_TOTAL_FEE_BPS
        /\ feeBalances \in [FeeRecipients -> Nat]
        /\ (\A r \in FeeRecipients : feeBalances[r] = 0) /\ ChargeFeesOnce
    BY <1>1 DEF BookInv, IInv, TypeOK, LifecycleTypeOK, LifecycleInv, FeeConfigAccepted,
                Settles, NothingPaidYet
  <2>2. SumFunctionOnSet(feeBalances', FeeRecipients) = TotalFeesAmount
    BY <2>1, ChargeFeesSum
  <2>3. TotalFeesAmount' = TotalFeesAmount
    BY DEF TotalFeesAmount, Settles, potVars
  <2>4. QED
    BY <2>2, <2>3
<1>4. Settled'
  BY <1>1, <1>2, <1>3 DEF Settled
<1>5. (BookInv /\ Settled => Solvent)'
  BY SettledSolvent, PTL
<1>6. QED
  BY <1>1, <1>4, <1>5 DEF NothingPaidYet

LEMMA PaysSolvent ==
    ASSUME IInv, Denominated, Solvent, NEW c \in Claimants, Pays(c)
    PROVE  Solvent' /\ NothingPaidYet'
<1>1. Owed \in [Claimants -> Nat]
  BY OwedType
<1>2. SumFunction(Owed) \in Nat /\ SumFunction(Owed') = SumFunction(Owed) - Owed[c]
  BY <1>1, SumAfterPayment DEF Pays
<1>3. custody \in Nat /\ Owed[c] \in Nat /\ custody' = custody - Owed[c]
  BY <1>1 DEF IInv, TypeOK, LifecycleTypeOK, Pays
<1>4. custody' - SumFunction(Owed') = custody - SumFunction(Owed)
  BY <1>2, <1>3
<1>5. RoundedDown' = RoundedDown /\ Final'
  BY DuesFixed DEF Pays
<1>6. QED
  BY <1>4, <1>5 DEF Solvent, Pays, NothingPaidYet

LEMMA SolvencyNext ==
    ASSUME BookInv, NothingPaidYet, Solvent, [Next]_vars
    PROVE  BookInv' /\ NothingPaidYet' /\ Solvent'
<1>1. BookInv'
  BY IInvStep, BookNext DEF BookInv
<1>2. CASE StakesEnter
  <2>1. ~Final /\ ~Final' /\ custody' = totalPot'
    BY <1>2 DEF StakesEnter, Solvent
  <2>2. QED
    BY <1>1, <1>2, <2>1 DEF StakesEnter, Solvent, NothingPaidYet
<1>3. CASE Settles
  BY <1>1, <1>3, SettlesSolvent
<1>4. CASE NoPayment
  <2>1. /\ Final' = Final /\ custody' = custody /\ RoundedDown' = RoundedDown
        /\ totalPot' = totalPot /\ hasClaimed' = hasClaimed /\ feeBalances' = feeBalances
        /\ \A b \in Bettors : Due(b)' = Due(b)
    BY <1>4, DuesFixed DEF NoPayment, termsOfPayment, potVars
  <2>2. Owed' = Owed
    BY <2>1 DEF Owed
  <2>3. QED
    BY <1>1, <2>1, <2>2 DEF Solvent, NothingPaidYet
<1>5. ASSUME NEW c \in Claimants, Pays(c)
      PROVE  NothingPaidYet' /\ Solvent'
  BY <1>5, PaysSolvent DEF BookInv
<1>6. QED
  BY <1>1, <1>2, <1>3, <1>4, <1>5, MoneyStep DEF BookInv

-------------------------------------------------------------------------------
(* The promise of an escrow *)

Phase == IF Final THEN "settled"
         ELSE IF state = "Open" /\ BettingClosed THEN "locked"
         ELSE "collecting"

\* The sum that the instantiated module sees is the one used here.
LEMMA EscrowSum ==
    ASSUME NEW f
    PROVE  EscrowView!SumFunction(f) = SumFunction(f)
BY DEF EscrowView!SumFunction, EscrowView!SumFunctionOnSet, EscrowView!FoldFunctionOnSet,
       EscrowView!MapThenFoldSet, SumFunction, SumFunctionOnSet, FoldFunctionOnSet,
       MapThenFoldSet

LEMMA EscrowInitially == Init => EscrowView!EscrowInit
<1> SUFFICES ASSUME Init PROVE EscrowView!EscrowInit
  OBVIOUS
<1>1. ~Final /\ state = "Undeployed" /\ custody = 0
      /\ \A r \in FeeRecipients : feeBalances[r] = 0
  BY DEF Init, LifecycleInit, Final
<1>2. Owed = [c \in ({"bettor"} \X Bettors) \cup ({"fee"} \X FeeRecipients) |-> 0]
  BY <1>1 DEF Owed, Due
<1>3. QED
  BY <1>1, <1>2 DEF EscrowView!EscrowInit

\* Nothing is owed before the wager is final.
LEMMA OwedBefore == NothingPaidYet /\ ~Final => Owed = [c \in Claimants |-> 0]
BY DEF NothingPaidYet, Owed, Due, Claimants, BettorClaims, FeeClaims

LEMMA DepositSimulated ==
    ASSUME IInv, NothingPaidYet, NothingPaidYet', StakesEnter
    PROVE  [EscrowView!EscrowNext]_(EscrowView!escrowVars)
<1>1. Phase = "collecting" /\ Phase' \in {"collecting", "locked"}
  BY DEF Phase, StakesEnter
<1>2. Owed' = Owed
  <2>1. (NothingPaidYet /\ ~Final => Owed = [c \in Claimants |-> 0])'
    BY OwedBefore, PTL
  <2>2. QED
    BY <2>1, OwedBefore DEF StakesEnter
<1>3. custody' > custody \/ custody' = custody
  <2>1. custody \in Nat
    BY DEF IInv, TypeOK, LifecycleTypeOK
  <2>2. QED
    BY <2>1 DEF StakesEnter
<1>4. QED
  BY <1>1, <1>2, <1>3 DEF Phase, EscrowView!EscrowNext, EscrowView!Deposit, EscrowView!Lock,
                          EscrowView!escrowVars

LEMMA LockSimulated ==
    ASSUME NoPayment, state = "Open" /\ BettingClosed => BettingClosed'
    PROVE  [EscrowView!EscrowNext]_(EscrowView!escrowVars)
<1>1. Owed' = Owed /\ custody' = custody /\ Final' = Final /\ state' = state
  <2>1. /\ Final' = Final /\ \A b \in Bettors : Due(b)' = Due(b)
        /\ hasClaimed' = hasClaimed /\ feeBalances' = feeBalances
        /\ custody' = custody /\ state' = state
    BY DuesFixed DEF NoPayment, termsOfPayment
  <2>2. QED
    BY <2>1 DEF Owed
<1>2. Phase' = Phase \/ (Phase = "collecting" /\ Phase' = "locked")
  BY <1>1 DEF Phase
<1>3. QED
  BY <1>1, <1>2 DEF Phase, EscrowView!EscrowNext, EscrowView!Lock, EscrowView!escrowVars

LEMMA SettleSimulated ==
    ASSUME BookInv', Solvent', Settles
    PROVE  EscrowView!EscrowNext
<1>1. Phase = "locked" /\ Phase' = "settled" /\ Final'
  BY DEF Phase, Settles, Final
<1>2. Owed' \in [Claimants -> Nat] /\ SumFunction(Owed') \in Nat
  <2>1. (IInv /\ Denominated =>
           Owed \in [Claimants -> Nat] /\ SumFunction(Owed) \in Nat)'
    BY OwedType, PTL
  <2>2. QED
    BY <2>1 DEF BookInv
<1>3. SumFunction(Owed') <= custody'
  <2>1. custody' \in Nat /\ SumFunction(Owed') \in Nat
    BY <1>2 DEF BookInv, IInv, TypeOK, LifecycleTypeOK
  <2>2. custody' - SumFunction(Owed') = 0
        \/ custody' - SumFunction(Owed') \in 1..(Cardinality(RoundedDown') - 1)
    BY <1>1 DEF Solvent
  <2>3. custody' - SumFunction(Owed') >= 0
    <3>1. \A k, x : x \in 1..k => x \in Int /\ x >= 1
      OBVIOUS
    <3>2. QED
      BY <2>1, <2>2, <3>1
  <2>4. QED
    BY <2>1, <2>3
<1>4. custody' = custody
  BY DEF Settles
<1>5. EscrowView!Settle
  BY <1>1, <1>2, <1>3, <1>4, EscrowSum
     DEF Phase, Claimants, BettorClaims, FeeClaims, EscrowView!Settle
<1>6. QED
  BY <1>5 DEF EscrowView!EscrowNext

\* A transfer out of the custody pays one claimant in full.
LEMMA PaymentSimulated ==
    ASSUME IInv, Denominated, NEW c \in Claimants, Pays(c)
    PROVE  [EscrowView!EscrowNext]_(EscrowView!escrowVars)
<1>1. Owed[c] \in Nat /\ custody \in Nat
  BY OwedType DEF IInv, TypeOK, LifecycleTypeOK
<1>2. Phase = "settled" /\ Phase' = "settled"
  BY DEF Phase, Final, Pays, termsOfPayment
<1>3. CASE Owed[c] = 0
  <2>1. Owed' = Owed
    <3>1. Owed = [d \in Claimants |-> Owed[d]]
      BY DEF Owed, Claimants, BettorClaims, FeeClaims
    <3>2. QED
      BY <1>3, <3>1 DEF Pays
  <2>2. custody' = custody
    BY <1>1, <1>3 DEF Pays
  <2>3. QED
    BY <1>2, <2>1, <2>2 DEF Phase, EscrowView!escrowVars
<1>4. CASE Owed[c] > 0
  <2>1. EscrowView!Pay(c)
    BY <1>2, <1>4 DEF Phase, Pays, EscrowView!Pay
  <2>2. QED
    BY <2>1 DEF EscrowView!EscrowNext, Claimants, BettorClaims, FeeClaims
<1>5. QED
  BY <1>1, <1>3, <1>4

\* Betting that has closed never opens again.
LEMMA ClosedForGood ==
    ASSUME IInv, Denominated, [Next]_vars, state = "Open", BettingClosed
    PROVE  BettingClosed'
<1>1. BettingClosedAt # 0
  BY ClosedHasAnchor DEF IInv, LifecycleIInv, TypeOK
<1>2. [BettingClosed => BettingClosedAt' = BettingClosedAt]_lifecycleVars
  BY FreeformStep, LifecycleAnchorNeverMoves DEF IInv, LifecycleIInv, TypeOK
<1>3. BettingClosedAt' = BettingClosedAt
  BY <1>2 DEF lifecycleVars, termsVars, authorityVars, bettingVars, BettingClosedAt, BettingClosed
<1>4. QED
  BY <1>1, <1>3 DEF BettingClosedAt, BettingClosed

LEMMA EscrowStep ==
    ASSUME BookInv, NothingPaidYet, Solvent, [Next]_vars
    PROVE  [EscrowView!EscrowNext]_(EscrowView!escrowVars)
<1>1. BookInv' /\ NothingPaidYet' /\ Solvent'
  BY SolvencyNext
<1>2. CASE StakesEnter
  BY <1>1, <1>2, DepositSimulated DEF BookInv
<1>3. CASE Settles
  BY <1>1, <1>3, SettleSimulated
<1>4. CASE NoPayment
  BY <1>4, ClosedForGood, LockSimulated DEF BookInv
<1>5. ASSUME NEW c \in Claimants, Pays(c)
      PROVE  [EscrowView!EscrowNext]_(EscrowView!escrowVars)
  BY <1>5, PaymentSimulated DEF BookInv
<1>6. QED
  BY <1>2, <1>3, <1>4, <1>5, MoneyStep DEF BookInv

-------------------------------------------------------------------------------
(* Theorems *)

\* The inductive invariant: types and clocks, the denominator of a resolved wager
\* is the pool of the winning answer, the book agrees, nothing is paid early, and
\* custody covers what is owed.
MoneyInv == BookInv /\ NothingPaidYet /\ Solvent

THEOREM FreeformInductiveInvariant == Spec => []MoneyInv
<1>1. Init => MoneyInv
  <2>1. Init => NothingPaidYet /\ Solvent
    BY DEF Init, LifecycleInit, NothingPaidYet, Solvent, Final
  <2>2. QED
    BY <2>1, IInvInit, BookInit DEF MoneyInv, BookInv
<1>2. MoneyInv /\ [Next]_vars => MoneyInv'
  BY SolvencyNext DEF MoneyInv
<1>3. QED
  BY <1>1, <1>2, PTL DEF Spec

\* Every reachable state is well typed; no payout, pool or custody is ever negative.
THEOREM FreeformTypeCorrect == Spec => []TypeOK
<1>1. MoneyInv => TypeOK
  BY DEF MoneyInv, BookInv, IInv
<1>2. QED
  BY <1>1, FreeformInductiveInvariant, PTL

\* Whoever bets what on which answer: pools, totals per bettor, the pot and the
\* enumerations agree, and no more answers are listed than the cap allows.
THEOREM FreeformBookCorrect == Spec => []BookConsistent
<1>1. MoneyInv => BookConsistent
  BY DEF MoneyInv, BookInv
<1>2. QED
  BY <1>1, FreeformInductiveInvariant, PTL

\* An open wager holds the pot, a final one everything it still owes, and rounding
\* strands less than one unit for each winner.
THEOREM FreeformSolvency == Spec => []Solvent
<1>1. MoneyInv => Solvent
  BY DEF MoneyInv
<1>2. QED
  BY <1>1, FreeformInductiveInvariant, PTL

\* Every behaviour of the freeform wager is one of the abstract escrow.
THEOREM FreeformEscrowImplemented == Spec => ImplementsEscrow
<1>1. MoneyInv /\ [Next]_vars => [EscrowView!EscrowNext]_(EscrowView!escrowVars)
  BY EscrowStep DEF MoneyInv
<1>2. QED
  BY <1>1, EscrowInitially, FreeformInductiveInvariant, PTL
     DEF Spec, ImplementsEscrow, EscrowView!EscrowSpec

\* The clocks of the shared lifecycle are right in this mode too.
THEOREM FreeformClocks ==
    Spec => []WindowsPartition /\ AnchorNeverMoves /\ PotFrozenOnceClosed /\ DecidedInTime
<1>1. MoneyInv => WindowsPartition
  BY LifecycleWindowsPartition DEF MoneyInv, BookInv, IInv, LifecycleIInv, TypeOK
<1>2. MoneyInv /\ [Next]_vars =>
        /\ [BettingClosed => BettingClosedAt' = BettingClosedAt]_lifecycleVars
        /\ [BettingClosed /\ state # "Undeployed" => UNCHANGED potVars]_lifecycleVars
        /\ [state = "Open" /\ state' # "Open" =>
              /\ BettingClosed
              /\ ResolverDecides /\ resolutionDeadline # 0
                   => now <= resolutionDeadline]_lifecycleVars
  BY FreeformStep, LifecycleAnchorNeverMoves, LifecyclePotFrozen, LifecycleDecidedInTime
     DEF MoneyInv, BookInv, IInv, LifecycleIInv, TypeOK
<1>3. QED
  BY <1>1, <1>2, FreeformInductiveInvariant, PTL
     DEF Spec, AnchorNeverMoves, PotFrozenOnceClosed, DecidedInTime

-------------------------------------------------------------------------------
(* Quotes *)

ClientTyped == Client \in Bettors

\* The stakes on an answer and those on all others only grow.
StakesGrow ==
    \A id \in AnswerIds :
        /\ ticketPoolByAnswerId[id] <= ticketPoolByAnswerId'[id]
        /\ totalPot - ticketPoolByAnswerId[id] <= totalPot' - ticketPoolByAnswerId'[id]
        /\ \A b \in Bettors : betsByAnswer[b][id] <= betsByAnswer'[b][id]

\* A row has the pool, and the stakes beside it, of some earlier time.
RowBefore(pool, pot, id) ==
    /\ pool \in Nat /\ pot \in Nat
    /\ pool <= ticketPoolByAnswerId[id]
    /\ pot - pool <= totalPot - ticketPoolByAnswerId[id]

RowKept ==
    view # NotIndexed =>
        /\ view.feeBps = 0
        /\ view.pools \in [AnswerIds -> Nat]
        /\ \A id \in AnswerIds : RowBefore(view.pools[id], view.pot, id)

QuoteFrom(pool, pot) ==
    /\ RowBefore(pool, pot, quote.id)
    /\ quote.potAfter = pot + quote.amount
    /\ quote.payout = ExpectedPayout(quote.amount, pool, quote.potAfter, 0)
    /\ quote.status = "placed" /\ quote.id = AnswerId(quote.answer) =>
           /\ RowBefore(pool + quote.amount, pot + quote.amount, quote.id)
           /\ quote.amount <= betsByAnswer[Client][quote.id]

QuoteKept ==
    quote # NoQuote =>
        /\ quote.status \in {"quoted", "placed"} /\ quote.amount \in StakeSizes \ {0}
        /\ quote.id \in AnswerIds => \E pool, pot : QuoteFrom(pool, pot)

PickTyped == pick # NoPick => view # NotIndexed /\ pick.amount \in StakeSizes \ {0}

QuotesInv == MoneyInv /\ RowKept /\ PickTyped /\ QuoteKept

LEMMA BetOnGrows ==
    ASSUME TypeOK, NEW b \in Bettors, NEW id \in AnswerIds, NEW n \in Nat, BetOn(b, id, n)
    PROVE  /\ StakesGrow
           /\ ticketPoolByAnswerId'[id] = ticketPoolByAnswerId[id] + n
           /\ totalPot' = totalPot + n
           /\ betsByAnswer'[b][id] = betsByAnswer[b][id] + n
<1>1. /\ ticketPoolByAnswerId \in [AnswerIds -> Nat] /\ totalPot \in Nat
      /\ betsByAnswer \in [Bettors -> [AnswerIds -> Nat]]
  BY DEF TypeOK, LifecycleTypeOK
<1>2. /\ ticketPoolByAnswerId' = [ticketPoolByAnswerId EXCEPT ![id] = @ + n]
      /\ betsByAnswer' = [betsByAnswer EXCEPT ![b][id] = @ + n]
      /\ totalPot' = totalPot + n
  BY DEF BetOn
<1>3. /\ ticketPoolByAnswerId'[id] = ticketPoolByAnswerId[id] + n
      /\ \A i \in AnswerIds : i # id => ticketPoolByAnswerId'[i] = ticketPoolByAnswerId[i]
      /\ betsByAnswer'[b][id] = betsByAnswer[b][id] + n
  BY <1>1, <1>2
<1>4. ASSUME NEW i \in AnswerIds
      PROVE  /\ ticketPoolByAnswerId[i] <= ticketPoolByAnswerId'[i]
             /\ totalPot - ticketPoolByAnswerId[i] <= totalPot' - ticketPoolByAnswerId'[i]
  <2>1. ticketPoolByAnswerId[i] \in Nat
    BY <1>1
  <2>2. CASE i = id
    BY <1>1, <1>2, <1>3, <2>1, <2>2
  <2>3. CASE i # id
    BY <1>1, <1>2, <1>3, <2>1, <2>3
  <2>4. QED
    BY <2>2, <2>3
<1>5. ASSUME NEW i \in AnswerIds, NEW c \in Bettors
      PROVE  betsByAnswer[c][i] <= betsByAnswer'[c][i]
  <2>1. betsByAnswer[c][i] \in Nat
    BY <1>1
  <2>2. CASE c = b /\ i = id
    BY <1>3, <2>1, <2>2
  <2>3. CASE c # b \/ i # id
    <3>1. betsByAnswer'[c][i] = betsByAnswer[c][i]
      BY <1>1, <1>2, <2>3
    <3>2. QED
      BY <2>1, <3>1
  <2>4. QED
    BY <2>2, <2>3
<1>6. QED
  BY <1>2, <1>3, <1>4, <1>5 DEF StakesGrow

LEMMA WagerGrows ==
    ASSUME TypeOK, [Next]_vars
    PROVE  StakesGrow
<1>1. CASE UNCHANGED <<potVars, bookVars>>
  <2>1. /\ ticketPoolByAnswerId \in [AnswerIds -> Nat] /\ totalPot \in Nat
        /\ betsByAnswer \in [Bettors -> [AnswerIds -> Nat]]
    BY DEF TypeOK, LifecycleTypeOK
  <2>2. /\ ticketPoolByAnswerId' = ticketPoolByAnswerId /\ totalPot' = totalPot
        /\ betsByAnswer' = betsByAnswer
    BY <1>1 DEF potVars, bookVars
  <2>3. \A id \in AnswerIds : ticketPoolByAnswerId[id] \in Nat
                              /\ \A b \in Bettors : betsByAnswer[b][id] \in Nat
    BY <2>1
  <2>4. QED
    BY <2>1, <2>2, <2>3 DEF StakesGrow
<1>2. ASSUME NEW b \in Bettors, NEW answer \in Answers \cup MalformedAnswers,
             NEW amount \in StakeSizes, PlaceBet(b, answer, amount)
      PROVE  StakesGrow
  <2>1. AnswerId(answer) \in AnswerIds /\ amount \in Nat
        /\ BetOn(b, AnswerId(answer), amount)
    BY <1>2, PlaceBetIsBetOn
  <2>2. QED
    BY <2>1, BetOnGrows
<1>3. QED
  BY <1>1, <1>2
  DEF Next, CreateFreeformWager, Tick, CloseBetting, CloseResolutionWindow, Resolve, Retract,
      Expire, Claim, PayClaim, WithdrawFees, freeformVars, vars, lifecycleVars

LEMMA RowStaysBefore ==
    ASSUME TypeOK, TypeOK', StakesGrow, NEW id \in AnswerIds, NEW pool, NEW pot,
           RowBefore(pool, pot, id)
    PROVE  RowBefore(pool, pot, id)'
<1>1. /\ ticketPoolByAnswerId[id] \in Nat /\ ticketPoolByAnswerId'[id] \in Nat
      /\ totalPot \in Nat /\ totalPot' \in Nat
  BY DEF TypeOK, LifecycleTypeOK
<1>2. QED
  BY <1>1 DEF RowBefore, StakesGrow

\* What a step of the wager does to the quotes.
LEMMA GrowthKeeps ==
    ASSUME ClientTyped, TypeOK, TypeOK', StakesGrow, RowKept, QuoteKept, UNCHANGED clientVars
    PROVE  RowKept' /\ QuoteKept'
<1>1. view' = view /\ quote' = quote
  BY DEF clientVars
<1>2. RowKept'
  BY <1>1, RowStaysBefore DEF RowKept
<1>3. ASSUME quote # NoQuote, quote.id \in AnswerIds
      PROVE  (\E pool, pot : QuoteFrom(pool, pot))'
  <2>1. PICK pool, pot : QuoteFrom(pool, pot)
    BY <1>3 DEF QuoteKept
  <2>2. RowBefore(pool, pot, quote.id)'
    <3>1. RowBefore(pool, pot, quote.id)
      BY <2>1 DEF QuoteFrom
    <3>2. RowBefore(pool, pot, quote.id)'
      BY <1>1, <1>3, <3>1, RowStaysBefore
    <3>3. QED
      BY <3>2
  <2>3. CASE quote.status = "placed" /\ quote.id = AnswerId(quote.answer)
    <3>1. /\ RowBefore(pool + quote.amount, pot + quote.amount, quote.id)
          /\ quote.amount <= betsByAnswer[Client][quote.id]
      BY <2>1, <2>3 DEF QuoteFrom
    <3>2. RowBefore(pool + quote.amount, pot + quote.amount, quote.id)'
      BY <1>1, <1>3, <3>1, RowStaysBefore
    <3>3. /\ betsByAnswer[Client][quote.id] \in Nat /\ betsByAnswer'[Client][quote.id] \in Nat
          /\ betsByAnswer[Client][quote.id] <= betsByAnswer'[Client][quote.id]
          /\ quote.amount \in Nat
      <4>1. /\ betsByAnswer \in [Bettors -> [AnswerIds -> Nat]]
            /\ betsByAnswer' \in [Bettors -> [AnswerIds -> Nat]]
        BY DEF TypeOK
      <4>2. Client \in Bettors
        BY DEF ClientTyped
      <4>3. betsByAnswer[Client][quote.id] \in Nat /\ betsByAnswer'[Client][quote.id] \in Nat
        BY <1>3, <4>1, <4>2
      <4>4. betsByAnswer[Client][quote.id] <= betsByAnswer'[Client][quote.id]
        BY <1>3, <4>2 DEF StakesGrow
      <4>5. quote.amount \in Nat
        BY <1>3, AnswersAssumption DEF QuoteKept
      <4>6. QED
        BY <4>3, <4>4, <4>5
    <3>4. quote.amount <= betsByAnswer'[Client][quote.id]
      BY <3>1, <3>3
    <3>5. QuoteFrom(pool, pot)'
      BY <1>1, <2>1, <2>2, <3>2, <3>4 DEF QuoteFrom
    <3>6. QED
      BY <3>5
  <2>4. CASE ~(quote.status = "placed" /\ quote.id = AnswerId(quote.answer))
    <3>1. QuoteFrom(pool, pot)'
      BY <1>1, <2>1, <2>2, <2>4 DEF QuoteFrom
    <3>2. QED
      BY <3>1
  <2>5. QED
    BY <2>3, <2>4
<1>4. QuoteKept'
  BY <1>1, <1>3 DEF QuoteKept
<1>5. QED
  BY <1>2, <1>4

\* The clients do to the wager what any bettor may.
LEMMA ClientStep ==
    ASSUME ClientTyped, QuoteKept, [QuotesNext]_allVars
    PROVE  [Next]_vars
<1>1. CASE Submit
  <2>1. quote # NoQuote /\ PlaceBet(Client, quote.answer, quote.amount)
    BY <1>1 DEF Submit, NoQuote
  <2>2. quote.amount \in StakeSizes /\ Client \in Bettors
    BY <2>1 DEF QuoteKept, ClientTyped
  <2>3. quote.answer \in Answers \cup MalformedAnswers
    BY <2>1 DEF PlaceBet, ValidAnswer
  <2>4. QED
    BY <2>1, <2>2, <2>3 DEF Next
<1>2. QED
  BY <1>1 DEF QuotesNext, Refresh, McpQuote, Recommend, ScoutQuote, allVars

LEMMA QuoteForKept ==
    ASSUME TypeOK, RowKept, view # NotIndexed, NEW id, NEW answer, NEW asked,
           NEW amount \in StakeSizes \ {0}, quote' = QuoteFor(id, answer, asked, amount),
           UNCHANGED <<ticketPoolByAnswerId, totalPot>>
    PROVE  QuoteKept'
<1>1. /\ quote'.status = "quoted" /\ quote'.id = id /\ quote'.amount = amount
      /\ quote'.potAfter = view.pot + amount
      /\ quote'.payout = ExpectedPayout(amount, view.pools[id], view.pot + amount, view.feeBps)
  BY DEF QuoteFor
<1>2. view.feeBps = 0
  BY DEF RowKept
<1>3. ASSUME id \in AnswerIds
      PROVE  (\E pool, pot : QuoteFrom(pool, pot))'
  <2>1. RowBefore(view.pools[id], view.pot, id)
    BY <1>3 DEF RowKept
  <2> DEFINE pool == view.pools[id]
             pot == view.pot
  <2>2. /\ quote'.payout = ExpectedPayout(quote'.amount, pool, quote'.potAfter, 0)
        /\ quote'.potAfter = pot + quote'.amount
    BY <1>1, <1>2
  <2>3. PICK p, q : p = pool /\ q = pot
    OBVIOUS
  <2>4. RowBefore(p, q, quote'.id)
    BY <1>1, <2>1, <2>3
  <2>5. RowBefore(p, q, quote.id)'
    BY <2>4 DEF RowBefore
  <2>6. QuoteFrom(p, q)'
    BY <1>1, <2>2, <2>3, <2>5 DEF QuoteFrom
  <2>7. QED
    BY <2>6
<1>4. QED
  BY <1>1, <1>3 DEF QuoteKept

LEMMA RefreshKept ==
    ASSUME TypeOK, BookConsistent, Refresh
    PROVE  RowKept'
<1>1. /\ view'.feeBps = 0 /\ view'.pools = ticketPoolByAnswerId /\ view'.pot = totalPot
      /\ ticketPoolByAnswerId' = ticketPoolByAnswerId /\ totalPot' = totalPot
  BY DEF Refresh, IndexedRow, vars, lifecycleVars, freeformVars, bookVars, potVars
<1>2. ticketPoolByAnswerId \in [AnswerIds -> Nat] /\ totalPot \in Nat
  BY DEF TypeOK, LifecycleTypeOK
<1>3. ASSUME NEW id \in AnswerIds
      PROVE  RowBefore(view.pools[id], view.pot, id)'
  <2>1. ticketPoolByAnswerId[id] \in Nat
    BY <1>2
  <2>2. QED
    BY <1>1, <1>2, <2>1 DEF RowBefore
<1>4. QED
  BY <1>1, <1>2, <1>3 DEF RowKept

\* What the client signs is in the pool of its answer, and among its bets.
LEMMA SubmitKept ==
    ASSUME ClientTyped, TypeOK, TypeOK', StakesGrow, QuoteKept, Submit
    PROVE  QuoteKept'
<1>1. /\ quote # NoQuote /\ PlaceBet(Client, quote.answer, quote.amount)
      /\ quote' = [quote EXCEPT !.status = "placed"] /\ quote.status = "quoted"
      /\ Client \in Bettors
  BY DEF Submit, NoQuote, ClientTyped
<1>2. quote.amount \in StakeSizes \ {0}
  BY <1>1 DEF QuoteKept
<1>3. /\ quote'.status = "placed" /\ quote'.amount = quote.amount /\ quote'.id = quote.id
      /\ quote'.answer = quote.answer /\ quote'.potAfter = quote.potAfter
      /\ quote'.payout = quote.payout
  BY <1>1
<1>4. /\ AnswerId(quote.answer) \in AnswerIds /\ quote.amount \in Nat
      /\ BetOn(Client, AnswerId(quote.answer), quote.amount)
  BY <1>1, <1>2, PlaceBetIsBetOn
<1>5. ASSUME quote.id \in AnswerIds
      PROVE  (\E pool, pot : QuoteFrom(pool, pot))'
  <2>1. PICK pool, pot : QuoteFrom(pool, pot)
    BY <1>1, <1>5 DEF QuoteKept
  <2>2. RowBefore(pool, pot, quote.id)
    BY <2>1 DEF QuoteFrom
  <2>3. RowBefore(pool, pot, quote.id)'
    BY <1>3, <1>5, <2>2, RowStaysBefore DEF RowBefore
  <2>4. ASSUME quote.id = AnswerId(quote.answer)
        PROVE  /\ RowBefore(pool + quote.amount, pot + quote.amount, quote.id)'
               /\ quote.amount <= betsByAnswer'[Client][quote.id]
    <3>1. /\ ticketPoolByAnswerId'[quote.id] = ticketPoolByAnswerId[quote.id] + quote.amount
          /\ totalPot' = totalPot + quote.amount
          /\ betsByAnswer'[Client][quote.id] = betsByAnswer[Client][quote.id] + quote.amount
      BY <1>1, <1>4, <1>5, <2>4, BetOnGrows
    <3>2. /\ ticketPoolByAnswerId[quote.id] \in Nat /\ totalPot \in Nat
          /\ betsByAnswer[Client][quote.id] \in Nat
      BY <1>1, <1>5 DEF TypeOK, LifecycleTypeOK
    <3>3. RowBefore(pool + quote.amount, pot + quote.amount, quote.id)'
      BY <1>3, <1>4, <2>2, <3>1, <3>2 DEF RowBefore
    <3>4. QED
      BY <1>4, <3>1, <3>2, <3>3
  <2>5. QuoteFrom(pool, pot)'
    BY <1>3, <2>1, <2>3, <2>4 DEF QuoteFrom
  <2>6. QED
    BY <2>5
<1>6. QED
  BY <1>2, <1>3, <1>5 DEF QuoteKept

LEMMA QuotesStep ==
    ASSUME ClientTyped, QuotesInv, [QuotesNext]_allVars
    PROVE  QuotesInv'
<1>1. MoneyInv /\ RowKept /\ PickTyped /\ QuoteKept
  BY DEF QuotesInv
<1>2. [Next]_vars
  BY <1>1, ClientStep
<1>3. MoneyInv'
  BY <1>1, <1>2, SolvencyNext DEF MoneyInv
<1>4. TypeOK /\ TypeOK' /\ BookConsistent
  BY <1>1, <1>3 DEF MoneyInv, BookInv, IInv
<1>5. StakesGrow
  BY <1>2, <1>4, WagerGrows
<1>6. ASSUME UNCHANGED view PROVE RowKept'
  BY <1>1, <1>4, <1>5, <1>6, RowStaysBefore DEF RowKept
<1>7. CASE UNCHANGED clientVars
  <2>1. RowKept' /\ QuoteKept'
    BY <1>1, <1>4, <1>5, <1>7, GrowthKeeps
  <2>2. PickTyped'
    BY <1>1, <1>7 DEF clientVars, PickTyped
  <2>3. QED
    BY <1>3, <2>1, <2>2 DEF QuotesInv
<1>8. CASE Refresh
  <2>1. RowKept'
    BY <1>4, <1>8, RefreshKept
  <2>2. PickTyped'
    <3>1. view'.state # "None"
      BY <1>4, <1>8 DEF Refresh, IndexedRow, TypeOK, LifecycleTypeOK
    <3>2. view' # NotIndexed
      BY <3>1 DEF NotIndexed
    <3>3. QED
      BY <1>1, <1>8, <3>2 DEF Refresh, PickTyped
  <2>3. UNCHANGED <<ticketPoolByAnswerId, totalPot, betsByAnswer, quote>>
    BY <1>8 DEF Refresh, vars, lifecycleVars, freeformVars, bookVars, potVars
  <2>4. QuoteKept'
    BY <1>1, <2>3 DEF QuoteKept, QuoteFrom, RowBefore
  <2>5. QED
    BY <1>3, <2>1, <2>2, <2>4 DEF QuotesInv
<1>9. ASSUME NEW id, NEW answer, NEW asked, NEW amount \in StakeSizes \ {0},
             view # NotIndexed, quote' = QuoteFor(id, answer, asked, amount),
             UNCHANGED <<vars, view, pick>>
      PROVE  QuotesInv'
  <2>1. UNCHANGED <<ticketPoolByAnswerId, totalPot>> /\ UNCHANGED view /\ UNCHANGED pick
    BY <1>9 DEF vars, lifecycleVars, freeformVars, bookVars, potVars
  <2>2. QuoteKept'
    BY <1>1, <1>4, <1>9, <2>1, QuoteForKept
  <2>3. RowKept' /\ PickTyped'
    BY <1>1, <1>6, <2>1 DEF PickTyped
  <2>4. QED
    BY <1>3, <2>2, <2>3 DEF QuotesInv
<1>10. ASSUME NEW answer \in Answers, NEW amount \in StakeSizes \ {0}, McpQuote(answer, amount)
       PROVE  QuotesInv'
  BY <1>9, <1>10 DEF McpQuote
<1>11. ASSUME NEW strategy, NEW amount \in StakeSizes \ {0}, Recommend(strategy, amount)
       PROVE  QuotesInv'
  <2>1. UNCHANGED <<ticketPoolByAnswerId, totalPot, betsByAnswer, quote>> /\ UNCHANGED view
    BY <1>11 DEF Recommend, vars, lifecycleVars, freeformVars, bookVars, potVars
  <2>2. QuoteKept'
    BY <1>1, <2>1 DEF QuoteKept, QuoteFrom, RowBefore
  <2>3. RowKept'
    BY <1>6, <2>1
  <2>4. PickTyped'
    BY <1>11 DEF Recommend, PickTyped, NotIndexed
  <2>5. QED
    BY <1>3, <2>2, <2>3, <2>4 DEF QuotesInv
<1>12. ASSUME NEW answer \in Answers, ScoutQuote(answer)
       PROVE  QuotesInv'
  <2>1. pick # NoPick /\ UNCHANGED <<vars, view, pick>>
        /\ quote' = QuoteFor(Rows(view)[pick.index], Stripped[answer], answer, pick.amount)
    BY <1>12 DEF ScoutQuote
  <2>2. pick.amount \in StakeSizes \ {0}
    BY <1>1, <2>1 DEF PickTyped
  <2>3. view # NotIndexed
    BY <1>1, <2>1 DEF PickTyped
  <2>4. QED
    BY <1>9, <2>1, <2>2, <2>3
<1>13. CASE Submit
  <2>1. QuoteKept'
    BY <1>1, <1>4, <1>5, <1>13, SubmitKept
  <2>2. UNCHANGED view /\ UNCHANGED pick
    BY <1>13 DEF Submit
  <2>3. RowKept' /\ PickTyped'
    BY <1>1, <1>6, <2>2 DEF PickTyped
  <2>4. QED
    BY <1>3, <2>1, <2>3 DEF QuotesInv
<1>14. QED
  BY <1>7, <1>8, <1>10, <1>11, <1>12, <1>13 DEF QuotesNext, allVars

LEMMA PaidAsQuoted ==
    ASSUME ClientTyped, QuotesInv
    PROVE  QuotedPayoutIsPaid
<1> DEFINE id == quote.id
           amount == quote.amount
<1>1. SUFFICES ASSUME quote.status = "placed", state = "Resolved", totalFeeBps = 0,
                      id = AnswerId(quote.answer), winningAnswerId = id,
                      totalPot = quote.potAfter, userTotalBet[Client] = amount
               PROVE  Winnings(Client) = quote.payout
  BY DEF QuotedPayoutIsPaid
<1>2. /\ TypeOK /\ LifecycleInv /\ Denominated /\ BookConsistent /\ Client \in Bettors
      /\ quote # NoQuote /\ QuoteKept
  BY <1>1 DEF QuotesInv, MoneyInv, BookInv, IInv, ClientTyped, NoQuote
<1>3. /\ id \in AnswerIds /\ payoutDenominator = ticketPoolByAnswerId[id]
  BY <1>1, <1>2 DEF Denominated
<1>4. amount \in Nat \ {0}
  BY <1>2, AnswersAssumption DEF QuoteKept
<1>5. PICK pool, pot : QuoteFrom(pool, pot)
  BY <1>2, <1>3 DEF QuoteKept
<1>6. /\ quote.potAfter = pot + amount
      /\ quote.payout = ExpectedPayout(amount, pool, quote.potAfter, 0)
      /\ RowBefore(pool + amount, pot + amount, id)
      /\ RowBefore(pool, pot, id)
      /\ amount <= betsByAnswer[Client][id]
  BY <1>1, <1>5 DEF QuoteFrom
<1>7. /\ ticketPoolByAnswerId[id] \in Nat /\ totalPot \in Nat
      /\ betsByAnswer[Client] \in [AnswerIds -> Nat]
  BY <1>2, <1>3 DEF TypeOK, LifecycleTypeOK
<1> HIDE DEF id, amount
<1>8. ticketPoolByAnswerId[id] = pool + amount
  BY <1>1, <1>4, <1>6, <1>7 DEF RowBefore
<1>9. betsByAnswer[Client][id] = amount
  <2>1. userTotalBet[Client] = SumFunctionOnSet(betsByAnswer[Client], AnswerIds)
    BY <1>2, <1>7 DEF BookConsistent, SumFunction
  <2>2. \A i \in AnswerIds : betsByAnswer[Client][i] \in Nat
    BY <1>7
  <2>3. betsByAnswer[Client][id] <= userTotalBet[Client]
    BY <1>3, <2>1, <2>2, AnswerIdsFinite, SumNat
  <2>4. QED
    BY <1>1, <1>3, <1>4, <1>6, <2>2, <2>3
<1>10. NetPot = quote.potAfter /\ NetOf(quote.potAfter, 0) = quote.potAfter
  BY <1>1, <1>7 DEF NetPot, TotalFeesAmount, BPS_DENOMINATOR, NetOf, bps_denom
<1>11. quote.payout = (amount * quote.potAfter) \div (pool + amount)
  BY <1>6, <1>10 DEF ExpectedPayout
<1>12. Winnings(Client) = (amount * quote.potAfter) \div (pool + amount)
  BY <1>1, <1>3, <1>8, <1>9, <1>10 DEF Winnings
<1>13. QED
  BY <1>11, <1>12

LEMMA QuotesInvInit == QuotesInit => QuotesInv
<1> SUFFICES ASSUME QuotesInit PROVE QuotesInv
  OBVIOUS
<1>1. NothingPaidYet /\ Solvent
  BY DEF QuotesInit, Init, LifecycleInit, NothingPaidYet, Solvent, Final
<1>2. MoneyInv
  BY <1>1, IInvInit, BookInit DEF QuotesInit, MoneyInv, BookInv
<1>3. QED
  BY <1>2 DEF QuotesInit, QuotesInv, RowKept, PickTyped, QuoteKept

\* If nobody else bets after the row was read, a placed quote of an answer is paid
\* to the unit when that answer wins, on a wager without fees.
THEOREM FreeformQuotesArePaid ==
    ASSUME Client \in Bettors
    PROVE  QuotesSpec => []QuotedPayoutIsPaid
<1>1. ClientTyped
  BY DEF ClientTyped
<1>2. QuotesInv /\ [QuotesNext]_allVars => QuotesInv'
  BY <1>1, QuotesStep
<1>3. QuotesInv => QuotedPayoutIsPaid
  BY <1>1, PaidAsQuoted
<1>4. QED
  BY <1>2, <1>3, QuotesInvInit, PTL DEF QuotesSpec

\* Every answer with a stake has one row, in the order of the ids.
LEMMA RowsTyped ==
    ASSUME ClientAssumption, NEW row
    PROVE  /\ DOMAIN Rows(row) \in SUBSET Nat
           /\ \A i \in DOMAIN Rows(row) : Rows(row)[i] \in AnswerIds
<1> DEFINE ids == {id \in AnswerIds : row.pools[id] # 0}
           n == Cardinality(ids)
<1>1. IsFiniteSet(ids)
  BY AnswerIdsFinite, FS_Subset
<1>2. \A x \in ids : IdRank[x] \in Int
  BY DEF ClientAssumption
<1>3. \A x, y \in ids : IdRank[x] = IdRank[y] => x = y
  BY DEF ClientAssumption, IsInjective
<1>4. Rows(row) = CHOOSE rows \in [1..n -> ids] :
            \A i, j \in DOMAIN rows : i < j => IdRank[rows[i]] < IdRank[rows[j]]
  BY DEF Rows
<1>5. n \in Nat
  BY <1>1, FS_CardinalityType
<1>6. \A id \in ids : id \in AnswerIds
  OBVIOUS
<1> HIDE DEF ids
<1>7. \E rows \in [1..n -> ids] : \A i, j \in 1..n : i < j => IdRank[rows[i]] < IdRank[rows[j]]
  BY <1>1, <1>2, <1>3, SortedEnumeration
<1> HIDE DEF n
<1>8. \E rows \in [1..n -> ids] :
          \A i, j \in DOMAIN rows : i < j => IdRank[rows[i]] < IdRank[rows[j]]
  BY <1>7
<1>9. Rows(row) \in [1..n -> ids]
  BY <1>4, <1>8
<1>10. DOMAIN Rows(row) = 1..n /\ \A i \in 1..n : Rows(row)[i] \in ids
  BY <1>9
<1>11. QED
  BY <1>5, <1>6, <1>10

LEMMA PicksTheSmallest ==
    ASSUME ClientAssumption, RowKept
    PROVE  PickIsSmallestPool
<1> DEFINE D == DOMAIN Rows(view)
           size(i) == RowPool(view, i)
<1> SUFFICES ASSUME view # NotIndexed, Rows(view) # <<>>, NEW strategy \in Strategies,
                    NEW amount \in StakeSizes \ {0}, NEW i \in D
             PROVE  LET picked == PickOutcome(strategy, view, amount)
                    IN  \/ size(picked) <= size(i)
                        \/ /\ strategy = "best_post_multiple"
                           /\ RowScore(view, picked, amount) = RowScore(view, i, amount)
  BY DEF PickIsSmallestPool
<1> DEFINE score(j) == RowScore(view, j, amount)
           best == {j \in D : \A k \in D : IF strategy = "min_liquidity" THEN size(j) <= size(k)
                                             ELSE score(k) <= score(j)}
           first == CHOOSE j \in best : \A k \in best : j <= k
<1>1. PickOutcome(strategy, view, amount) = first
  BY DEF PickOutcome
<1>2. D \in SUBSET Nat /\ \A j \in D : size(j) \in Nat
  <2>1. view.pools \in [AnswerIds -> Nat]
    BY DEF RowKept
  <2>2. QED
    BY <2>1, RowsTyped DEF RowPool
<1>3. view.pot \in Nat /\ view.feeBps = 0 /\ amount \in Nat \ {0}
  <2>1. PICK id \in AnswerIds : TRUE
    BY RowsTyped
  <2>2. QED
    BY <2>1, AnswersAssumption DEF RowKept, RowBefore
<1>4. ASSUME NEW j \in D, NEW k \in D, size(j) <= size(k)
      PROVE  score(j) >= score(k) /\ score(j) \in Nat
  <2>1. size(j) \in Nat /\ size(k) \in Nat
    BY <1>2
  <2>2. /\ score(j) = PostBetMultiple(amount, size(j), view.pot, 0)
        /\ score(k) = PostBetMultiple(amount, size(k), view.pot, 0)
    BY <1>3 DEF RowScore, RowPool
  <2>3. size(j) <= size(k)
    BY <1>4
  <2> HIDE DEF size, score
  <2>4. /\ PostBetMultiple(amount, size(j), view.pot, 0)
             >= PostBetMultiple(amount, size(k), view.pot, 0)
        /\ PostBetMultiple(amount, size(j), view.pot, 0) \in Nat
    BY <1>3, <2>1, <2>3, SmallerPoolScoresMore
  <2>5. QED
    BY <2>2, <2>4
<1>5. \A j \in D : score(j) \in Nat
  <2>1. \A j \in D : size(j) <= size(j)
    BY <1>2
  <2> HIDE DEF size, score
  <2>2. QED
    BY <1>4, <2>1
<1>6. PICK least \in D : \A j \in D : size(least) <= size(j)
  <2> DEFINE sizes == {size(j) : j \in D}
  <2>1. sizes \in SUBSET Nat /\ sizes # {}
    BY <1>2
  <2>2. PICK n \in sizes : \A m \in sizes : n <= m
    <3> HIDE DEF sizes
    <3>1. QED
      BY <2>1, LeastNatural
  <2>3. QED
    BY <2>2
<1>7. best \in SUBSET Nat /\ best # {}
  <2>1. least \in best
    <3> HIDE DEF size, score
    <3>1. QED
      BY <1>4, <1>5, <1>6
  <2>2. QED
    BY <1>2, <2>1
<1>8. first \in best
  <2> HIDE DEF best
  <2>1. QED
    BY <1>7, LeastNatural
<1>9. size(first) <= size(i) \/ (strategy = "best_post_multiple" /\ score(first) = score(i))
  <2> HIDE DEF size, score, first
  <2>1. CASE strategy = "min_liquidity"
    BY <1>8, <2>1
  <2>2. CASE strategy = "best_post_multiple"
    BY <1>2, <1>4, <1>5, <1>8, <2>2
  <2>3. QED
    BY <2>1, <2>2 DEF Strategies
<1>10. QED
  BY <1>1, <1>9

\* No answer with less stake is passed over, but for a tie after rounding.
THEOREM FreeformPicksSmallest ==
    ASSUME ClientAssumption
    PROVE  QuotesSpec => []PickIsSmallestPool
<1>1. ClientTyped
  BY DEF ClientTyped, ClientAssumption
<1>2. QuotesInv /\ [QuotesNext]_allVars => QuotesInv'
  BY <1>1, QuotesStep
<1>3. QuotesInv => PickIsSmallestPool
  BY PicksTheSmallest DEF QuotesInv
<1>4. QED
  BY <1>2, <1>3, QuotesInvInit, PTL DEF QuotesSpec
===============================================================================
