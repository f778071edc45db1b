------------------------- MODULE WagerLifecycle_proofs -------------------------
(***************************************************************************)
(* What every transaction of WagerLifecycle preserves, the properties of   *)
(* the clocks, and what the odds of the clients do: once for both wager    *)
(* modes.                                                                  *)
(***************************************************************************)
EXTENDS WagerLifecycle, FiniteSums, Odds

-------------------------------------------------------------------------------
(* Fees *)

LEMMA FeeConfigType ==
    /\ FeeConfig \in Seq(Fee)
    /\ Len(FeeConfig) \in Nat /\ DOMAIN FeeConfig = 1..Len(FeeConfig)
    /\ IsFiniteSet(DOMAIN FeeConfig)
    /\ \A i \in DOMAIN FeeConfig : FeeConfig[i].bps \in Nat
<1>1. <<[recipient |-> Treasury, bps |-> ProtocolFeeBps]>> \in Seq(Fee)
  <2>1. Treasury \in Payees /\ ProtocolFeeBps \in Nat
    BY FeesAssumption DEF Payees, MAX_TOTAL_FEE_BPS
  <2>2. [recipient |-> Treasury, bps |-> ProtocolFeeBps] \in Fee
    BY <2>1 DEF Fee
  <2>3. QED
    BY <2>2
<1>2. FeeConfig \in Seq(Fee)
  BY <1>1, FeesAssumption DEF FeeConfig
<1>3. Len(FeeConfig) \in Nat /\ DOMAIN FeeConfig = 1..Len(FeeConfig)
  BY <1>2
<1>4. \A i \in DOMAIN FeeConfig : FeeConfig[i] \in Fee
  BY <1>2
<1>5. \A i \in DOMAIN FeeConfig : FeeConfig[i].bps \in Nat
  <2>1. \A fee \in Fee : fee.bps \in Nat
    BY DEF Fee
  <2>2. QED
    BY <1>4, <2>1
<1>6. IsFiniteSet(DOMAIN FeeConfig)
  BY <1>3, FS_Interval
<1>7. QED
  BY <1>2, <1>3, <1>5, <1>6

LEMMA TotalFeeBpsType == totalFeeBps \in Nat
<1> DEFINE bps == [i \in DOMAIN FeeConfig |-> FeeConfig[i].bps]
<1>1. DOMAIN bps = DOMAIN FeeConfig /\ \A i \in DOMAIN FeeConfig : bps[i] \in Nat
  BY FeeConfigType
<1> HIDE DEF bps
<1>2. SumFunctionOnSet(bps, DOMAIN FeeConfig) \in Nat
  BY <1>1, FeeConfigType, SumNat
<1>3. QED
  BY <1>1, <1>2 DEF totalFeeBps, SumFunction, bps

\* The fees are a natural number not above the pot they are taken from.
LEMMA TotalFeesType ==
    ASSUME totalPot \in Nat, totalFeeBps <= MAX_TOTAL_FEE_BPS
    PROVE  TotalFeesAmount \in Nat /\ TotalFeesAmount <= totalPot /\ NetPot \in Nat
<1>1. totalPot * totalFeeBps \in Nat
  BY TotalFeeBpsType
<1>2. totalPot * totalFeeBps <= totalPot * 10000
  <2>1. \A p, f \in Nat : f <= 10000 => p * f <= p * 10000
    OBVIOUS
  <2>2. QED
    BY <2>1, TotalFeeBpsType DEF MAX_TOTAL_FEE_BPS
<1>3. \A x, p \in Nat : x <= p * 10000 => (x \div 10000) \in Nat /\ (x \div 10000) <= p
  OBVIOUS
<1>4. TotalFeesAmount \in Nat /\ TotalFeesAmount <= totalPot
  BY <1>1, <1>2, <1>3 DEF TotalFeesAmount, BPS_DENOMINATOR
<1>5. QED
  BY <1>4 DEF NetPot

\* Rounding a share down never exceeds the share.
LEMMA FloorBound ==
    ASSUME NEW x \in Nat, NEW d \in Nat \ {0}
    PROVE  (x \div d) \in Nat /\ (x \div d) * d <= x
OBVIOUS

\* The pro-rata cuts of all recipients but the last never exceed the fees, so
\* the last recipient's remainder is not negative.
LEMMA FeeSlicesType ==
    ASSUME totalPot \in Nat, totalFeeBps <= MAX_TOTAL_FEE_BPS, totalFeeBps # 0
    PROVE  \A i \in DOMAIN FeeConfig : FeeSlices[i] \in Nat
<1> DEFINE D == DOMAIN FeeConfig
           last == Len(FeeConfig)
           bps == [i \in D |-> FeeConfig[i].bps]
           cut == [i \in D |-> (TotalFeesAmount * FeeConfig[i].bps) \div totalFeeBps]
           sumCut == SumFunctionOnSet(cut, 1..(last - 1))
           sumBps == SumFunctionOnSet(bps, 1..(last - 1))
<1> USE FeeConfigType, TotalFeeBpsType
<1>1. TotalFeesAmount \in Nat
  BY TotalFeesType
<1>2. \A i \in D : cut[i] \in Nat /\ cut[i] * totalFeeBps <= bps[i] * TotalFeesAmount
  <2>1. ASSUME NEW i \in D
        PROVE  cut[i] \in Nat /\ cut[i] * totalFeeBps <= TotalFeesAmount * bps[i]
    <3>1. bps[i] \in Nat /\ TotalFeesAmount * bps[i] \in Nat
      BY <1>1
    <3>2. cut[i] = (TotalFeesAmount * bps[i]) \div totalFeeBps
      OBVIOUS
    <3> HIDE DEF cut, bps
    <3>3. QED
      BY <3>1, <3>2, FloorBound
  <2>2. ASSUME NEW i \in D
        PROVE  TotalFeesAmount * bps[i] = bps[i] * TotalFeesAmount
    BY <1>1
  <2> HIDE DEF cut, bps, D
  <2>3. QED
    BY <2>1, <2>2
<1>3. last \in Nat /\ (last # 0 => last \in D) /\ 1..(last - 1) \subseteq D
  OBVIOUS
<1>4. IsFiniteSet(1..(last - 1))
  BY <1>3, FS_Interval
<1>5. \A i \in D : bps[i] \in Nat
  OBVIOUS
<1>6. SumFunctionOnSet(bps, D) = totalFeeBps
  BY DEF totalFeeBps, SumFunction
<1>7. sumBps \in Nat /\ sumBps <= totalFeeBps
  <2>1. CASE last = 0
    <3>1. 1..(last - 1) = {}
      BY <2>1
    <3>2. QED
      BY <3>1, SumEmpty
  <2>2. CASE last # 0
    <3>1. D \ {last} = 1..(last - 1) /\ last \in D /\ IsFiniteSet(D)
      BY <2>2, <1>3
    <3> HIDE DEF D, bps, last
    <3>2. SumFunctionOnSet(bps, D) = bps[last] + SumFunctionOnSet(bps, D \ {last})
      BY <1>5, <3>1, SumRemove
    <3>3. sumBps \in Nat
      BY <1>3, <1>4, <1>5, SumNat
    <3>4. SumFunctionOnSet(bps, D \ {last}) = sumBps
      BY <3>1
    <3>5. bps[last] \in Nat /\ totalFeeBps = bps[last] + sumBps
      BY <1>5, <1>6, <3>1, <3>2, <3>4
    <3> HIDE DEF sumBps
    <3>6. QED
      BY <3>3, <3>5
  <2>3. QED
    BY <2>1, <2>2
<1>8. sumCut \in Nat
  <2> HIDE DEF D, cut, bps, last
  <2> QED BY <1>2, <1>3, <1>4, SumNat
<1>9. sumCut * totalFeeBps <= sumBps * TotalFeesAmount
  <2>1. \A i \in 1..(last - 1) :
           bps[i] \in Nat /\ cut[i] \in Nat /\ cut[i] * totalFeeBps <= bps[i] * TotalFeesAmount
    <3> HIDE DEF D, cut, bps, last
    <3> QED BY <1>2, <1>3, <1>5
  <2> HIDE DEF D, cut, bps, last
  <2> QED BY <1>1, <1>4, <2>1, SumScaledBound
<1>10. sumCut <= TotalFeesAmount
  <2> HIDE DEF sumCut, sumBps
  <2>1. \A c, b, f, t \in Nat : t # 0 /\ c * t <= b * f /\ b <= t => c <= f
    <3>1. SUFFICES ASSUME NEW c \in Nat, NEW b \in Nat, NEW f \in Nat, NEW t \in Nat,
                          t # 0, c * t <= b * f, b <= t, c > f
                   PROVE  FALSE
      OBVIOUS
    <3>2. b * f <= t * f
      BY <3>1
    <3>3. c * t >= (f + 1) * t
      BY <3>1
    <3>4. (f + 1) * t = t * f + t
      OBVIOUS
    <3>5. QED
      BY <3>1, <3>2, <3>3, <3>4
  <2>2. QED
    BY <1>1, <1>7, <1>8, <1>9, <2>1
<1>11. FeeSlices = [cut EXCEPT ![last] = TotalFeesAmount - sumCut]
  BY DEF FeeSlices
<1>12. QED
  <2> HIDE DEF sumCut, cut, last, D
  <2>1. \A i \in D : FeeSlices[i] = cut[i] \/ FeeSlices[i] = TotalFeesAmount - sumCut
    <3>1. DOMAIN cut = D
      BY DEF cut
    <3>2. QED
      BY <1>11, <3>1
  <2>2. TotalFeesAmount - sumCut \in Nat
    BY <1>1, <1>8, <1>10
  <2>3. QED
    BY <1>2, <2>1, <2>2 DEF D

LEMMA FeeRecipientsFinite == IsFiniteSet(FeeRecipients)
<1> DEFINE recipient == [i \in DOMAIN FeeConfig |-> FeeConfig[i].recipient]
<1>1. recipient \in Surjection(DOMAIN FeeConfig, FeeRecipients)
  BY DEF FeeRecipients, Surjection
<1> HIDE DEF recipient
<1>2. QED
  BY <1>1, FeeConfigType, FS_Surjection

\* The slices of all recipients add up to the fees: nothing is lost to rounding.
LEMMA FeeSlicesSum ==
    ASSUME totalPot \in Nat, totalFeeBps <= MAX_TOTAL_FEE_BPS, totalFeeBps # 0
    PROVE  SumFunctionOnSet(FeeSlices, DOMAIN FeeConfig) = TotalFeesAmount
<1> DEFINE D == DOMAIN FeeConfig
           last == Len(FeeConfig)
           cut == [i \in D |-> (TotalFeesAmount * FeeConfig[i].bps) \div totalFeeBps]
           sumCut == SumFunctionOnSet(cut, 1..(last - 1))
<1>1. TotalFeesAmount \in Nat /\ last \in Nat /\ D = 1..last /\ IsFiniteSet(D)
  BY TotalFeesType, FeeConfigType
<1>2. last # 0
  <2>1. CASE last = 0
    <3>1. D = {}
      BY <1>1, <2>1
    <3>2. totalFeeBps = SumFunctionOnSet([i \in D |-> FeeConfig[i].bps], D)
      BY DEF totalFeeBps, SumFunction
    <3>3. QED
      BY <3>1, <3>2, SumEmpty
  <2>2. QED
    BY <2>1
<1>3. FeeSlices = [cut EXCEPT ![last] = TotalFeesAmount - sumCut]
  BY DEF FeeSlices
<1>4. \A i \in D : FeeSlices[i] \in Nat
  BY FeeSlicesType
<1>5. DOMAIN cut = D
  OBVIOUS
<1> HIDE DEF cut, sumCut, D, last
<1>6. FeeSlices[last] = TotalFeesAmount - sumCut
      /\ \A i \in D \ {last} : FeeSlices[i] = cut[i]
  BY <1>1, <1>2, <1>3, <1>5
<1>7. last \in D /\ D \ {last} = 1..(last - 1)
  BY <1>1, <1>2
<1>8. \A i \in D : FeeSlices[i] \in Int
  BY <1>4
<1>81. IsFiniteSet(1..(last - 1))
  BY <1>1, FS_Interval
<1>82. \A i \in 1..(last - 1) : FeeSlices[i] = cut[i] /\ FeeSlices[i] \in Int
  BY <1>6, <1>7, <1>8
<1>9. SumFunctionOnSet(FeeSlices, 1..(last - 1)) = sumCut
      /\ SumFunctionOnSet(FeeSlices, 1..(last - 1)) \in Int
  BY <1>81, <1>82, SumEqual, SumInt DEF sumCut
<1>10. SumFunctionOnSet(FeeSlices, D)
         = FeeSlices[last] + SumFunctionOnSet(FeeSlices, D \ {last})
  BY <1>1, <1>7, <1>8, SumRemove
<1>11. SumFunctionOnSet(FeeSlices, D \ {last}) = sumCut /\ sumCut \in Int
  BY <1>7, <1>9
<1>12. SumFunctionOnSet(FeeSlices, D) = TotalFeesAmount
  BY <1>1, <1>6, <1>10, <1>11
<1>13. QED
  BY <1>12 DEF D

\* Charging credits the recipients with the fees, no more and no less, however
\* often one of them is listed.
LEMMA ChargeFeesSum ==
    ASSUME totalPot \in Nat, totalFeeBps <= MAX_TOTAL_FEE_BPS, ~feesCharged,
           feeBalances \in [FeeRecipients -> Nat], \A r \in FeeRecipients : feeBalances[r] = 0,
           ChargeFeesOnce
    PROVE  SumFunctionOnSet(feeBalances', FeeRecipients) = TotalFeesAmount
<1>1. CASE totalFeeBps = 0 \/ totalPot = 0
  <2>1. TotalFeesAmount = 0
    <3>1. totalPot * totalFeeBps = 0
      BY <1>1, TotalFeeBpsType
    <3>2. QED
      BY <3>1 DEF TotalFeesAmount, BPS_DENOMINATOR
  <2>2. feeBalances' = feeBalances
    BY <1>1 DEF ChargeFeesOnce
  <2>3. QED
    BY <2>1, <2>2, FeeRecipientsFinite, SumZero
<1>2. CASE ~(totalFeeBps = 0 \/ totalPot = 0)
  <2> DEFINE D == DOMAIN FeeConfig
             recipient == [i \in D |-> FeeConfig[i].recipient]
             total == [r \in FeeRecipients |->
                         SumFunctionOnSet(FeeSlices, {i \in D : recipient[i] = r})]
  <2>1. feeBalances' = FeesCredited
    BY <1>2 DEF ChargeFeesOnce
  <2>2. \A i \in D : FeeSlices[i] \in Int
    BY <1>2, FeeSlicesType
  <2>3. ASSUME NEW r \in FeeRecipients
        PROVE  FeesCredited[r] = total[r] /\ FeesCredited[r] \in Int
    <3> DEFINE mine == {i \in D : FeeConfig[i].recipient = r}
    <3>1. mine = {i \in D : recipient[i] = r}
      OBVIOUS
    <3>2. IsFiniteSet(mine) /\ \A i \in mine : FeeSlices[i] \in Int
      BY <2>2, FeeConfigType, FS_Subset
    <3>3. FeesCredited[r] = feeBalances[r] + SumFunctionOnSet(FeeSlices, mine)
      BY DEF FeesCredited
    <3>4. total[r] = SumFunctionOnSet(FeeSlices, mine)
      BY <3>1
    <3> HIDE DEF mine, total
    <3>5. SumFunctionOnSet(FeeSlices, mine) \in Int /\ feeBalances[r] = 0
      BY <3>2, SumInt
    <3>6. QED
      BY <3>3, <3>4, <3>5
  <2>4. \A i \in D : recipient[i] \in FeeRecipients
    BY DEF FeeRecipients
  <2>5. IsFiniteSet(D)
    BY FeeConfigType
  <2> HIDE DEF recipient, D
  <2>6. SumFunctionOnSet(FeeSlices, D) = SumFunctionOnSet(total, FeeRecipients)
    BY <2>2, <2>4, <2>5, FeeRecipientsFinite, SumFibres
  <2> HIDE DEF total
  <2>7. SumFunctionOnSet(FeesCredited, FeeRecipients) = SumFunctionOnSet(total, FeeRecipients)
    BY <2>3, FeeRecipientsFinite, SumEqual
  <2>8. SumFunctionOnSet(FeeSlices, D) = TotalFeesAmount
    BY <1>2, FeeSlicesSum DEF D
  <2>9. QED
    BY <2>1, <2>6, <2>7, <2>8
<1>3. QED
  BY <1>1, <1>2

\* Charging keeps the fee balances natural numbers.
LEMMA ChargeFeesType ==
    ASSUME totalPot \in Nat, totalFeeBps <= MAX_TOTAL_FEE_BPS,
           feeBalances \in [FeeRecipients -> Nat], ChargeFeesOnce
    PROVE  feesCharged' = TRUE /\ feeBalances' \in [FeeRecipients -> Nat]
<1>1. CASE feesCharged \/ totalFeeBps = 0 \/ totalPot = 0
  BY <1>1 DEF ChargeFeesOnce
<1>2. CASE ~(feesCharged \/ totalFeeBps = 0 \/ totalPot = 0)
  <2>1. \A i \in DOMAIN FeeConfig : FeeSlices[i] \in Nat
    BY <1>2, FeeSlicesType
  <2>2. ASSUME NEW r \in FeeRecipients
        PROVE  FeesCredited[r] \in Nat
    <3> DEFINE mine == {i \in DOMAIN FeeConfig : FeeConfig[i].recipient = r}
    <3>1. IsFiniteSet(mine)
      BY FeeConfigType, FS_Subset
    <3>2. \A i \in mine : FeeSlices[i] \in Nat
      BY <2>1
    <3> HIDE DEF mine
    <3>3. SumFunctionOnSet(FeeSlices, mine) \in Nat
      BY <3>1, <3>2, SumNat
    <3>4. FeesCredited[r] = feeBalances[r] + SumFunctionOnSet(FeeSlices, mine)
      BY DEF FeesCredited, mine
    <3>5. QED
      BY <3>3, <3>4
  <2>3. FeesCredited \in [FeeRecipients -> Nat]
    BY <2>2 DEF FeesCredited
  <2>4. QED
    BY <1>2, <2>3 DEF ChargeFeesOnce
<1>3. QED
  BY <1>1, <1>2

-------------------------------------------------------------------------------
(* What the transactions preserve *)

LifecycleIInv == LifecycleTypeOK /\ LifecycleInv

LEMMA LifecycleInitInv == LifecycleInit => LifecycleIInv
<1>1. ASSUME LifecycleInit PROVE LifecycleTypeOK
  <2>1. /\ userTotalBet \in [Bettors -> Nat] /\ hasClaimed \in [Bettors -> BOOLEAN]
        /\ feeBalances \in [FeeRecipients -> Nat]
    BY <1>1 DEF LifecycleInit
  <2>2. /\ now \in Nat \ {0} /\ state \in {"Undeployed", "Open", "Resolved", "Retracted"}
        /\ bettingCloseTime \in Nat /\ resolutionWindow \in Nat /\ resolutionDeadline \in Nat
        /\ bettingClosedAtByAuthority \in Nat /\ totalPot \in Nat
        /\ payoutDenominator \in Nat /\ custody \in Nat
    BY <1>1 DEF LifecycleInit
  <2>3. QED
    BY <1>1, <2>1, <2>2 DEF LifecycleInit, LifecycleTypeOK
<1>2. ASSUME LifecycleInit PROVE LifecycleInv
  BY <1>2 DEF LifecycleInit, LifecycleInv, Final, BettingClosed
<1>3. QED
  BY <1>1, <1>2 DEF LifecycleIInv

\* A step that leaves the clocks, the verdict and the fees alone.
LEMMA StakesOnlyInv ==
    ASSUME LifecycleIInv,
           UNCHANGED <<now, state, termsVars, authorityVars, feeVars, claimVars>>,
           totalPot' \in Nat, userTotalBet' \in [Bettors -> Nat], custody' \in Nat,
           \A b \in Bettors : userTotalBet'[b] <= totalPot'
    PROVE  LifecycleIInv'
<1>1. LifecycleTypeOK'
  BY DEF LifecycleIInv, LifecycleTypeOK, termsVars, authorityVars, bettingVars, feeVars, claimVars
<1>2. LifecycleInv'
  BY DEF LifecycleIInv, LifecycleInv, Final, BettingClosed, FeeConfigAccepted,
         termsVars, authorityVars, bettingVars, feeVars, claimVars
<1>3. QED
  BY <1>1, <1>2 DEF LifecycleIInv

\* Creation, with or without seeds.
LEMMA DeployInv ==
    ASSUME LifecycleIInv, NEW closeTime \in CloseTimes, NEW window \in Windows,
           NEW closer \in Closers, NEW resCloser \in Closers,
           Deploy(closeTime, window, closer, resCloser),
           totalPot' \in Nat, userTotalBet' \in [Bettors -> Nat], custody' \in Nat,
           \A b \in Bettors : userTotalBet'[b] <= totalPot'
    PROVE  LifecycleIInv'
<1>1. closeTime \in Nat /\ window \in Nat
      /\ closer \in {Authority, NoAddress} /\ resCloser \in {Authority, NoAddress}
  BY ClockAssumption
<1>2. LifecycleTypeOK'
  BY <1>1 DEF LifecycleIInv, LifecycleTypeOK, Deploy, authorityVars, bettingVars,
              feeVars, claimVars
<1>3. LifecycleInv'
  BY <1>1 DEF LifecycleIInv, LifecycleInv, LifecycleTypeOK, Deploy, Final, BettingClosed,
              FeeConfigAccepted, authorityVars, bettingVars, feeVars, claimVars
<1>4. QED
  BY <1>2, <1>3 DEF LifecycleIInv

LEMMA TickInv ==
    ASSUME LifecycleIInv, Tick
    PROVE  LifecycleIInv'
<1>1. LifecycleTypeOK'
  BY DEF LifecycleIInv, LifecycleTypeOK, Tick, termsVars, authorityVars, bettingVars,
         potVars, feeVars, claimVars
<1>2. LifecycleInv'
  BY DEF LifecycleIInv, LifecycleInv, LifecycleTypeOK, Tick, Final, BettingClosed,
         FeeConfigAccepted, termsVars, authorityVars, bettingVars, potVars, feeVars, claimVars
<1>3. QED
  BY <1>1, <1>2 DEF LifecycleIInv

LEMMA CloseBettingInv ==
    ASSUME LifecycleIInv, NEW a \in Accounts, CloseBetting(a)
    PROVE  LifecycleIInv'
<1>1. LifecycleTypeOK'
  BY DEF LifecycleIInv, LifecycleTypeOK, CloseBetting, termsVars, potVars, feeVars, claimVars
<1>2. LifecycleInv'
  BY DEF LifecycleIInv, LifecycleInv, LifecycleTypeOK, CloseBetting, Final, BettingClosed,
         FeeConfigAccepted, termsVars, potVars, feeVars, claimVars
<1>3. QED
  BY <1>1, <1>2 DEF LifecycleIInv

LEMMA CloseResolutionWindowInv ==
    ASSUME LifecycleIInv, NEW a \in Accounts, CloseResolutionWindow(a)
    PROVE  LifecycleIInv'
<1>1. LifecycleTypeOK'
  BY DEF LifecycleIInv, LifecycleTypeOK, CloseResolutionWindow, termsVars, bettingVars,
         potVars, feeVars, claimVars
<1>2. LifecycleInv'
  BY DEF LifecycleIInv, LifecycleInv, CloseResolutionWindow, Final, BettingClosed,
         FeeConfigAccepted, termsVars, bettingVars, potVars, feeVars, claimVars
<1>3. QED
  BY <1>1, <1>2 DEF LifecycleIInv

\* Resolve, Retract and Expire make the wager final in the same way.
LEMMA SettleInv ==
    ASSUME LifecycleIInv, state = "Open", BettingClosed, ChargeFeesOnce,
           state' \in {"Resolved", "Retracted"},
           payoutDenominator' \in Nat, payoutDenominator' # 0 <=> state' = "Resolved",
           UNCHANGED <<now, termsVars, authorityVars, potVars, hasClaimed, custody>>
    PROVE  LifecycleIInv'
<1>1. feesCharged' = TRUE /\ feeBalances' \in [FeeRecipients -> Nat]
  BY ChargeFeesType DEF LifecycleIInv, LifecycleTypeOK, LifecycleInv, FeeConfigAccepted
<1>2. LifecycleTypeOK'
  BY <1>1 DEF LifecycleIInv, LifecycleTypeOK, termsVars, authorityVars, bettingVars, potVars
<1>3. LifecycleInv'
  BY <1>1 DEF LifecycleIInv, LifecycleInv, Final, BettingClosed, FeeConfigAccepted,
              termsVars, authorityVars, bettingVars, potVars
<1>4. QED
  BY <1>2, <1>3 DEF LifecycleIInv

LEMMA RetractInv ==
    ASSUME LifecycleIInv, NEW a \in Accounts, Retract(a)
    PROVE  LifecycleIInv'
<1>1. payoutDenominator' \in Nat /\ (payoutDenominator' # 0 <=> state' = "Resolved")
  BY DEF Retract, ResolverMayAct, claimVars, LifecycleIInv, LifecycleTypeOK, LifecycleInv
<1>2. QED
  BY <1>1, SettleInv DEF Retract, ResolverMayAct, claimVars

LEMMA ExpireInv ==
    ASSUME LifecycleIInv, Expire
    PROVE  LifecycleIInv'
<1>1. payoutDenominator' \in Nat /\ (payoutDenominator' # 0 <=> state' = "Resolved")
  BY DEF Expire, claimVars, LifecycleIInv, LifecycleTypeOK, LifecycleInv
<1>2. QED
  BY <1>1, SettleInv DEF Expire, claimVars

LEMMA PayClaimInv ==
    ASSUME LifecycleIInv, NEW b \in Bettors, NEW paid \in Nat, PayClaim(b, paid)
    PROVE  LifecycleIInv'
<1>1. LifecycleTypeOK'
  BY DEF LifecycleIInv, LifecycleTypeOK, PayClaim, termsVars, authorityVars, bettingVars,
         potVars, feeVars
<1>2. LifecycleInv'
  BY DEF LifecycleIInv, LifecycleInv, PayClaim, Final, BettingClosed,
         FeeConfigAccepted, termsVars, authorityVars, bettingVars, potVars, feeVars
<1>3. QED
  BY <1>1, <1>2 DEF LifecycleIInv

LEMMA WithdrawFeesInv ==
    ASSUME LifecycleIInv, NEW r \in FeeRecipients, WithdrawFees(r)
    PROVE  LifecycleIInv'
<1>1. LifecycleTypeOK'
  BY DEF LifecycleIInv, LifecycleTypeOK, WithdrawFees, termsVars, authorityVars, bettingVars,
         potVars, claimVars
<1>2. LifecycleInv'
  BY DEF LifecycleIInv, LifecycleInv, WithdrawFees, Final, BettingClosed,
         FeeConfigAccepted, termsVars, authorityVars, bettingVars, potVars, claimVars
<1>3. QED
  BY <1>1, <1>2 DEF LifecycleIInv

-------------------------------------------------------------------------------
(* The two wager modes as seen by the lifecycle *)

\* What the mode's own parts of creation and of a bet may do to the stakes.
StakesTyped ==
    /\ totalPot' \in Nat /\ userTotalBet' \in [Bettors -> Nat] /\ custody' \in Nat
    /\ \A b \in Bettors : userTotalBet'[b] <= totalPot'

\* A bet, or a batch of them.
StakeStep ==
    /\ state = "Open"
    /\ ~BettingClosed
    /\ StakesTyped
    /\ UNCHANGED <<now, state, termsVars, authorityVars, feeVars, claimVars>>

\* A resolution, whatever the mode counts as the winning stake.
ResolveStep ==
    /\ \E a \in Accounts : ResolverMayAct(a)
    /\ ChargeFeesOnce
    /\ state' = "Resolved"
    /\ payoutDenominator' \in Nat \ {0}
    /\ UNCHANGED <<now, termsVars, authorityVars, potVars, hasClaimed, custody>>

LifecycleNext ==
    \/ \E closeTime \in CloseTimes, window \in Windows, closer, resCloser \in Closers :
          Deploy(closeTime, window, closer, resCloser) /\ StakesTyped
    \/ Tick
    \/ \E a \in Accounts : CloseBetting(a)
    \/ \E a \in Accounts : CloseResolutionWindow(a)
    \/ StakeStep
    \/ ResolveStep
    \/ \E a \in Accounts : Retract(a)
    \/ Expire
    \/ \E b \in Bettors, paid \in Nat : PayClaim(b, paid)
    \/ \E r \in FeeRecipients : WithdrawFees(r)

LEMMA LifecycleStepInv ==
    ASSUME LifecycleIInv, [LifecycleNext]_lifecycleVars
    PROVE  LifecycleIInv'
<1>1. ASSUME NEW closeTime \in CloseTimes, NEW window \in Windows,
             NEW closer \in Closers, NEW resCloser \in Closers,
             Deploy(closeTime, window, closer, resCloser), StakesTyped
      PROVE  LifecycleIInv'
  BY <1>1, DeployInv DEF StakesTyped
<1>2. CASE Tick
  BY <1>2, TickInv
<1>3. ASSUME NEW a \in Accounts, CloseBetting(a)
      PROVE  LifecycleIInv'
  BY <1>3, CloseBettingInv
<1>4. ASSUME NEW a \in Accounts, CloseResolutionWindow(a)
      PROVE  LifecycleIInv'
  BY <1>4, CloseResolutionWindowInv
<1>5. CASE StakeStep
  BY <1>5, StakesOnlyInv DEF StakeStep, StakesTyped
<1>6. CASE ResolveStep
  BY <1>6, SettleInv DEF ResolveStep, ResolverMayAct
<1>7. ASSUME NEW a \in Accounts, Retract(a)
      PROVE  LifecycleIInv'
  BY <1>7, RetractInv
<1>8. CASE Expire
  BY <1>8, ExpireInv
<1>9. ASSUME NEW b \in Bettors, NEW paid \in Nat, PayClaim(b, paid)
      PROVE  LifecycleIInv'
  BY <1>9, PayClaimInv
<1>10. ASSUME NEW r \in FeeRecipients, WithdrawFees(r)
       PROVE  LifecycleIInv'
  BY <1>10, WithdrawFeesInv
<1>11. CASE UNCHANGED lifecycleVars
  BY <1>11, StakesOnlyInv DEF lifecycleVars, potVars, LifecycleIInv, LifecycleTypeOK, LifecycleInv
<1>12. QED
  BY <1>1, <1>2, <1>3, <1>4, <1>5, <1>6, <1>7, <1>8, <1>9, <1>10, <1>11 DEF LifecycleNext

-------------------------------------------------------------------------------
(* The properties of the clocks *)

\* An anchor is never 0 once betting has closed: the clock starts at 1, so an
\* authority close is positive, and 0 is not a timed close.
LEMMA ClosedHasAnchor ==
    ASSUME LifecycleIInv, BettingClosed
    PROVE  BettingClosedAt \in Nat \ {0}
BY DEF LifecycleIInv, LifecycleTypeOK, LifecycleInv, BettingClosed, BettingClosedAt

\* The resolver's window and everybody's expiry are complementary once betting
\* has closed (_resolutionWindowOpen, _resolutionWindowOver).
LEMMA LifecycleWindowsPartition == LifecycleIInv => WindowsPartition
<1>1. SUFFICES ASSUME LifecycleIInv, BettingClosed
               PROVE  ResolutionWindowOpen <=> ~ResolutionWindowOver
  BY DEF WindowsPartition
<1>2. BettingClosedAt \in Nat \ {0} /\ now \in Nat /\ resolutionWindow \in Nat
      /\ resolutionWindowClosedByAuthority \in BOOLEAN
  BY <1>1, ClosedHasAnchor DEF LifecycleIInv, LifecycleTypeOK
<1>3. QED
  BY <1>2 DEF ResolutionWindowOpen, ResolutionWindowOver

\* Only Deploy, Tick and CloseBetting touch what the anchor is computed from.
LEMMA LifecycleAnchorNeverMoves ==
    ASSUME LifecycleIInv, LifecycleNext
    PROVE  BettingClosed => BettingClosedAt' = BettingClosedAt
<1>1. CASE UNCHANGED <<termsVars, bettingVars, now>>
  BY <1>1 DEF BettingClosed, BettingClosedAt, termsVars, bettingVars
<1>2. ASSUME NEW closeTime \in CloseTimes, NEW window \in Windows,
             NEW closer \in Closers, NEW resCloser \in Closers,
             Deploy(closeTime, window, closer, resCloser)
      PROVE  ~BettingClosed
  BY <1>2 DEF Deploy, LifecycleIInv, LifecycleInv, BettingClosed
<1>3. ASSUME Tick, BettingClosed
      PROVE  BettingClosedAt' = BettingClosedAt
  BY <1>3 DEF Tick, LifecycleIInv, LifecycleTypeOK, BettingClosed, BettingClosedAt,
              termsVars, authorityVars, bettingVars
<1>4. ASSUME NEW a \in Accounts, CloseBetting(a)
      PROVE  ~BettingClosed
  BY <1>4 DEF CloseBetting
<1>5. QED
  BY <1>1, <1>2, <1>3, <1>4
  DEF LifecycleNext, CloseResolutionWindow, StakeStep, ResolveStep, Retract, Expire,
      PayClaim, WithdrawFees, authorityVars

\* Creation and bets are the only steps that touch the pot, and both come before
\* the close of betting.
LEMMA LifecyclePotFrozen ==
    ASSUME LifecycleIInv, LifecycleNext
    PROVE  BettingClosed /\ state # "Undeployed" => UNCHANGED potVars
BY DEF LifecycleNext, Deploy, Tick, CloseBetting, CloseResolutionWindow, StakeStep,
       ResolveStep, Retract, Expire, PayClaim, WithdrawFees

\* A verdict needs an open resolution window, whose anchor is never later than
\* the timed close the published deadline counts from.
LEMMA LifecycleDecidedInTime ==
    ASSUME LifecycleIInv, LifecycleNext
    PROVE  state = "Open" /\ state' # "Open" =>
             /\ BettingClosed
             /\ ResolverDecides /\ resolutionDeadline # 0 => now <= resolutionDeadline
<1>1. ASSUME NEW a \in Accounts, ResolverMayAct(a), resolutionDeadline # 0
      PROVE  now <= resolutionDeadline
  BY <1>1 DEF ResolverMayAct, ResolutionWindowOpen, BettingClosed, BettingClosedAt,
              LifecycleIInv, LifecycleTypeOK, LifecycleInv
<1>2. (\E a \in Accounts : Retract(a)) /\ resolutionDeadline # 0 => now <= resolutionDeadline
  BY <1>1 DEF Retract
<1>3. state = "Open" /\ state' = "Resolved" /\ resolutionDeadline # 0 => now <= resolutionDeadline
  BY <1>1 DEF LifecycleNext, Deploy, Tick, CloseBetting, CloseResolutionWindow, StakeStep,
              ResolveStep, Retract, Expire, PayClaim, WithdrawFees, Final
<1>4. state = "Open" /\ state' # "Open" => BettingClosed
  BY DEF LifecycleNext, Deploy, Tick, CloseBetting, CloseResolutionWindow, StakeStep,
         ResolveStep, Retract, Expire, PayClaim, WithdrawFees, ResolverMayAct
<1>5. QED
  BY <1>2, <1>3, <1>4 DEF ResolverDecides
-------------------------------------------------------------------------------
(* The enumerations of the two books *)

\* s lists each key of K with a non-zero amount once.
Lists(s, K, amounts) ==
    IsInjective(s) /\ Range(s) = {m \in K : amounts[m] # 0}

\* Pushing something new keeps a list free of repetitions.
LEMMA AppendNew ==
    ASSUME NEW S, NEW s \in Seq(S), NEW e \in S, IsInjective(s), e \notin Range(s)
    PROVE  IsInjective(Append(s, e)) /\ Range(Append(s, e)) = Range(s) \cup {e}
<1> DEFINE t == Append(s, e)
<1>1. /\ Len(s) \in Nat /\ DOMAIN s = 1..Len(s) /\ DOMAIN t = 1..(Len(s) + 1)
      /\ \A i \in 1..Len(s) : t[i] = s[i]
      /\ t[Len(s) + 1] = e
  OBVIOUS
<1> HIDE DEF t
<1>2. \A i \in DOMAIN s : s[i] \in Range(s) /\ s[i] # e
  BY DEF Range
<1>3. ASSUME NEW i \in DOMAIN t, NEW j \in DOMAIN t, t[i] = t[j]
      PROVE  i = j
  <2>1. \A k \in DOMAIN t : k \in DOMAIN s \/ k = Len(s) + 1
    BY <1>1
  <2>2. QED
    BY <1>1, <1>2, <1>3, <2>1 DEF IsInjective
<1>4. IsInjective(t)
  BY <1>3 DEF IsInjective
<1>5. \A y : y \in Range(t) <=> y \in Range(s) \cup {e}
  <2>1. ASSUME NEW y \in Range(t) PROVE y \in Range(s) \cup {e}
    <3>1. PICK i \in DOMAIN t : t[i] = y
      BY DEF Range
    <3>2. QED
      BY <1>1, <3>1 DEF Range
  <2>2. ASSUME NEW y \in Range(s) PROVE y \in Range(t)
    <3>1. PICK i \in DOMAIN s : s[i] = y
      BY DEF Range
    <3>2. i \in DOMAIN t /\ t[i] = y
      BY <1>1, <3>1
    <3>3. QED
      BY <3>2 DEF Range
  <2>3. e \in Range(t)
    <3>1. Len(s) + 1 \in DOMAIN t
      BY <1>1
    <3>2. QED
      BY <1>1, <3>1 DEF Range
  <2>4. QED
    BY <2>1, <2>2, <2>3
<1>6. QED
  BY <1>4, <1>5 DEF t

\* Adding a positive amount to a key, and pushing it the first time, keeps a
\* list of the keys with an amount.
LEMMA ListsStep ==
    ASSUME NEW K, NEW s \in Seq(K), NEW amounts \in [K -> Nat], Lists(s, K, amounts),
           NEW m \in K, NEW n \in Nat \ {0}
    PROVE  Lists(IF amounts[m] = 0 THEN Append(s, m) ELSE s, K, [amounts EXCEPT ![m] = @ + n])
<1> DEFINE after == [amounts EXCEPT ![m] = @ + n]
<1>1. /\ after[m] = amounts[m] + n
      /\ \A k \in K \ {m} : after[k] = amounts[k]
      /\ amounts[m] \in Nat
  OBVIOUS
<1>2. after[m] # 0
  BY <1>1
<1> HIDE DEF after
<1>3. {k \in K : after[k] # 0} = {k \in K : amounts[k] # 0} \cup {m}
  BY <1>1, <1>2
<1>4. CASE amounts[m] = 0
  <2>1. m \notin Range(s)
    BY <1>4 DEF Lists
  <2>2. IsInjective(Append(s, m)) /\ Range(Append(s, m)) = Range(s) \cup {m}
    BY <2>1, AppendNew DEF Lists
  <2>3. QED
    BY <1>3, <1>4, <2>2 DEF Lists, after
<1>5. CASE amounts[m] # 0
  BY <1>3, <1>5 DEF Lists, after
<1>6. QED
  BY <1>4, <1>5

-------------------------------------------------------------------------------
(* What the claimants are owed, whatever the mode says they won *)

BettorClaims == {"bettor"} \X Bettors
FeeClaims == {"fee"} \X FeeRecipients
Claimants == BettorClaims \cup FeeClaims

LEMMA ClaimsFinite ==
    /\ IsFiniteSet(BettorClaims) /\ IsFiniteSet(FeeClaims)
    /\ IsFiniteSet(BettorClaims \cup FeeClaims)
    /\ BettorClaims \cap FeeClaims = {}
<1>1. IsFiniteSet({"bettor"}) /\ IsFiniteSet({"fee"})
  BY FS_Singleton
<1>2. IsFiniteSet(BettorClaims) /\ IsFiniteSet(FeeClaims)
  BY <1>1, BettorsAssumption, FeeRecipientsFinite, FS_Product DEF BettorClaims, FeeClaims
<1>3. QED
  BY <1>2, FS_Union DEF BettorClaims, FeeClaims

\* Fees are owed as they were credited, dues until they have been claimed.
OwedBy(dues, fees, claimed) ==
    [c \in Claimants |-> IF c[1] = "fee" THEN fees[c[2]]
                         ELSE IF claimed[c[2]] THEN 0 ELSE dues[c[2]]]

LEMMA OwedByType ==
    ASSUME NEW dues \in [Bettors -> Nat], NEW fees \in [FeeRecipients -> Nat],
           NEW claimed \in [Bettors -> BOOLEAN]
    PROVE  /\ OwedBy(dues, fees, claimed) \in [Claimants -> Nat]
           /\ \A b \in Bettors : /\ <<"bettor", b>> \in Claimants
                                 /\ OwedBy(dues, fees, claimed)[<<"bettor", b>>]
                                      = IF claimed[b] THEN 0 ELSE dues[b]
           /\ \A r \in FeeRecipients : /\ <<"fee", r>> \in Claimants
                                       /\ OwedBy(dues, fees, claimed)[<<"fee", r>>] = fees[r]
<1> DEFINE owed == OwedBy(dues, fees, claimed)
<1>1. owed = [c \in Claimants |-> owed[c]]
  BY DEF OwedBy
<1>2. \A b \in Bettors : /\ <<"bettor", b>> \in Claimants
                         /\ owed[<<"bettor", b>>] = IF claimed[b] THEN 0 ELSE dues[b]
  BY DEF OwedBy, Claimants, BettorClaims
<1>3. \A r \in FeeRecipients : <<"fee", r>> \in Claimants /\ owed[<<"fee", r>>] = fees[r]
  BY DEF OwedBy, Claimants, FeeClaims
<1>4. \A c \in Claimants : \/ \E b \in Bettors : c = <<"bettor", b>>
                           \/ \E r \in FeeRecipients : c = <<"fee", r>>
  BY DEF Claimants, BettorClaims, FeeClaims
<1> HIDE DEF owed
<1>5. \A c \in Claimants : owed[c] \in Nat
  BY <1>2, <1>3, <1>4
<1>6. owed \in [Claimants -> Nat]
  BY <1>1, <1>5
<1>7. QED
  BY <1>2, <1>3, <1>6 DEF owed

\* Before anybody has claimed: all dues and all fees.
LEMMA OwedByUnclaimed ==
    ASSUME NEW dues \in [Bettors -> Nat], NEW fees \in [FeeRecipients -> Nat],
           NEW claimed \in [Bettors -> BOOLEAN], \A b \in Bettors : ~claimed[b]
    PROVE  /\ SumFunctionOnSet(dues, Bettors) \in Nat
           /\ SumFunctionOnSet(fees, FeeRecipients) \in Nat
           /\ SumFunction(OwedBy(dues, fees, claimed))
                = SumFunctionOnSet(dues, Bettors) + SumFunctionOnSet(fees, FeeRecipients)
<1> DEFINE owed == OwedBy(dues, fees, claimed)
           ofBettor == [c \in BettorClaims |-> c[2]]
           ofFee == [c \in FeeClaims |-> c[2]]
<1>1. owed \in [Claimants -> Nat]
  BY OwedByType
<1>2. \A b \in Bettors : owed[<<"bettor", b>>] = dues[b]
  BY OwedByType
<1>3. \A r \in FeeRecipients : owed[<<"fee", r>>] = fees[r]
  BY OwedByType
<1> HIDE DEF owed
<1>4. SumFunctionOnSet(owed, BettorClaims) = SumFunctionOnSet(dues, Bettors)
  <2>1. \A c \in BettorClaims : ofBettor[c] \in Bettors /\ owed[c] = dues[ofBettor[c]]
    BY <1>2 DEF BettorClaims
  <2>2. \A c, d \in BettorClaims : ofBettor[c] = ofBettor[d] => c = d
    BY DEF BettorClaims
  <2>3. \A b \in Bettors : <<"bettor", b>> \in BettorClaims /\ ofBettor[<<"bettor", b>>] = b
    BY DEF BettorClaims
  <2> HIDE DEF ofBettor
  <2>4. \A b \in Bettors : (\A c \in BettorClaims : ofBettor[c] # b) => dues[b] = 0
    BY <2>3
  <2>5. \A b \in Bettors : dues[b] \in Int
    OBVIOUS
  <2>6. QED
    BY <2>1, <2>2, <2>4, <2>5, ClaimsFinite, BettorsAssumption, SumReindex
<1>5. SumFunctionOnSet(owed, FeeClaims) = SumFunctionOnSet(fees, FeeRecipients)
  <2>1. \A c \in FeeClaims : ofFee[c] \in FeeRecipients /\ owed[c] = fees[ofFee[c]]
    BY <1>3 DEF FeeClaims
  <2>2. \A c, d \in FeeClaims : ofFee[c] = ofFee[d] => c = d
    BY DEF FeeClaims
  <2>3. \A r \in FeeRecipients : <<"fee", r>> \in FeeClaims /\ ofFee[<<"fee", r>>] = r
    BY DEF FeeClaims
  <2> HIDE DEF ofFee
  <2>4. \A r \in FeeRecipients : (\A c \in FeeClaims : ofFee[c] # r) => fees[r] = 0
    BY <2>3
  <2>5. \A r \in FeeRecipients : fees[r] \in Int
    OBVIOUS
  <2>6. QED
    BY <2>1, <2>2, <2>4, <2>5, ClaimsFinite, FeeRecipientsFinite, SumReindex
<1>6. SumFunctionOnSet(owed, BettorClaims \cup FeeClaims)
        = SumFunctionOnSet(owed, BettorClaims) + SumFunctionOnSet(owed, FeeClaims)
  <2>1. \A c \in BettorClaims \cup FeeClaims : owed[c] \in Int
    BY <1>1 DEF Claimants
  <2>2. QED
    BY <2>1, ClaimsFinite, SumUnion
<1>7. SumFunctionOnSet(dues, Bettors) \in Nat
  BY BettorsAssumption, SumNat
<1>8. SumFunctionOnSet(fees, FeeRecipients) \in Nat
  BY FeeRecipientsFinite, SumNat
<1>9. SumFunction(owed) = SumFunctionOnSet(owed, BettorClaims \cup FeeClaims)
  BY <1>1 DEF SumFunction, Claimants
<1>10. QED
  BY <1>4, <1>5, <1>6, <1>7, <1>8, <1>9 DEF owed

\* A claim is taken off the list of what is owed, and so are withdrawn fees.
LEMMA OwedByClaim ==
    ASSUME NEW dues \in [Bettors -> Nat], NEW fees \in [FeeRecipients -> Nat],
           NEW claimed \in [Bettors -> BOOLEAN], NEW b \in Bettors,
           NEW claimedAfter \in [Bettors -> BOOLEAN]
    PROVE  /\ claimedAfter[b]
           /\ \A e \in Bettors \ {b} : claimedAfter[e] = claimed[e]
           => OwedBy(dues, fees, claimedAfter)
                = [OwedBy(dues, fees, claimed) EXCEPT ![<<"bettor", b>>] = 0]
<1> DEFINE c == <<"bettor", b>>
           before == OwedBy(dues, fees, claimed)
           after == OwedBy(dues, fees, claimedAfter)
<1>1. \A e \in Bettors : after[<<"bettor", e>>] = IF claimedAfter[e] THEN 0 ELSE dues[e]
  BY OwedByType
<1>2. \A e \in Bettors : before[<<"bettor", e>>] = IF claimed[e] THEN 0 ELSE dues[e]
  BY OwedByType
<1>3. \A r \in FeeRecipients : after[<<"fee", r>>] = before[<<"fee", r>>]
  <2>1. \A r \in FeeRecipients : after[<<"fee", r>>] = fees[r]
    BY OwedByType
  <2>2. \A r \in FeeRecipients : before[<<"fee", r>>] = fees[r]
    BY OwedByType
  <2>3. QED
    BY <2>1, <2>2
<1>4. c \in Claimants
      /\ \A d \in Claimants \ {c} : \/ \E e \in Bettors \ {b} : d = <<"bettor", e>>
                                    \/ \E r \in FeeRecipients : d = <<"fee", r>>
  BY DEF Claimants, BettorClaims, FeeClaims
<1>5. after = [d \in Claimants |-> after[d]] /\ before = [d \in Claimants |-> before[d]]
  BY DEF OwedBy
<1>6. SUFFICES ASSUME claimedAfter[b],
                      \A e \in Bettors \ {b} : claimedAfter[e] = claimed[e]
               PROVE  after = [before EXCEPT ![c] = 0]
  OBVIOUS
<1> HIDE DEF before, after
<1>7. after[c] = 0 /\ \A e \in Bettors \ {b} : after[<<"bettor", e>>] = before[<<"bettor", e>>]
  BY <1>1, <1>2, <1>6
<1> HIDE DEF c
<1>8. \A d \in Claimants \ {c} : after[d] = before[d]
  BY <1>3, <1>4, <1>7
<1>9. QED
  BY <1>4, <1>5, <1>7, <1>8

LEMMA OwedByWithdrawal ==
    ASSUME NEW dues \in [Bettors -> Nat], NEW fees \in [FeeRecipients -> Nat],
           NEW claimed \in [Bettors -> BOOLEAN], NEW r \in FeeRecipients,
           NEW feesAfter \in [FeeRecipients -> Nat]
    PROVE  /\ feesAfter[r] = 0
           /\ \A s \in FeeRecipients \ {r} : feesAfter[s] = fees[s]
           => OwedBy(dues, feesAfter, claimed)
                = [OwedBy(dues, fees, claimed) EXCEPT ![<<"fee", r>>] = 0]
<1> DEFINE c == <<"fee", r>>
           before == OwedBy(dues, fees, claimed)
           after == OwedBy(dues, feesAfter, claimed)
<1>1. \A s \in FeeRecipients : after[<<"fee", s>>] = feesAfter[s]
  BY OwedByType
<1>2. \A s \in FeeRecipients : before[<<"fee", s>>] = fees[s]
  BY OwedByType
<1>3. \A e \in Bettors : after[<<"bettor", e>>] = before[<<"bettor", e>>]
  <2>1. \A e \in Bettors : after[<<"bettor", e>>] = IF claimed[e] THEN 0 ELSE dues[e]
    BY OwedByType
  <2>2. \A e \in Bettors : before[<<"bettor", e>>] = IF claimed[e] THEN 0 ELSE dues[e]
    BY OwedByType
  <2>3. QED
    BY <2>1, <2>2
<1>4. c \in Claimants
      /\ \A d \in Claimants \ {c} : \/ \E e \in Bettors : d = <<"bettor", e>>
                                    \/ \E s \in FeeRecipients \ {r} : d = <<"fee", s>>
  BY DEF Claimants, BettorClaims, FeeClaims
<1>5. after = [d \in Claimants |-> after[d]] /\ before = [d \in Claimants |-> before[d]]
  BY DEF OwedBy
<1>6. SUFFICES ASSUME feesAfter[r] = 0,
                      \A s \in FeeRecipients \ {r} : feesAfter[s] = fees[s]
               PROVE  after = [before EXCEPT ![c] = 0]
  OBVIOUS
<1> HIDE DEF before, after
<1>7. after[c] = 0 /\ \A s \in FeeRecipients \ {r} : after[<<"fee", s>>] = before[<<"fee", s>>]
  BY <1>1, <1>2, <1>6
<1> HIDE DEF c
<1>8. \A d \in Claimants \ {c} : after[d] = before[d]
  BY <1>3, <1>4, <1>7
<1>9. QED
  BY <1>4, <1>5, <1>7, <1>8

\* Paying one claimant takes exactly its amount off the total.
LEMMA SumAfterPayment ==
    ASSUME NEW owed \in [Claimants -> Nat], NEW c \in Claimants
    PROVE  /\ SumFunction(owed) \in Nat
           /\ SumFunction([owed EXCEPT ![c] = 0]) = SumFunction(owed) - owed[c]
<1> DEFINE after == [owed EXCEPT ![c] = 0]
<1>1. /\ DOMAIN after = Claimants /\ after[c] = 0
      /\ \A d \in Claimants : owed[d] \in Int /\ after[d] \in Int
      /\ \A d \in Claimants \ {c} : after[d] = owed[d]
  OBVIOUS
<1>2. IsFiniteSet(Claimants)
  BY ClaimsFinite DEF Claimants
<1>3. SumFunctionOnSet(owed, Claimants) \in Nat
  BY <1>2, SumNat
<1> HIDE DEF after
<1>4. SumFunctionOnSet(after, Claimants)
        = SumFunctionOnSet(owed, Claimants) - owed[c] + after[c]
  BY <1>1, <1>2, SumExcept
<1>5. SumFunction(owed) = SumFunctionOnSet(owed, Claimants)
      /\ SumFunction(after) = SumFunctionOnSet(after, Claimants)
  BY <1>1 DEF SumFunction
<1>6. QED
  BY <1>1, <1>3, <1>4, <1>5 DEF after

-------------------------------------------------------------------------------
(* Odds *)

LEMMA QuotientRemainder ==
    ASSUME NEW x \in Nat, NEW d \in Nat \ {0}
    PROVE  /\ x \div d \in Nat /\ x % d \in 0..(d - 1)
           /\ x = (x \div d) * d + (x % d)
OBVIOUS

\* A share of the same sum is not rounded lower when the divisor is smaller.
LEMMA RoundMonotone ==
    ASSUME NEW n \in Nat, NEW d \in Nat \ {0}, NEW e \in Nat \ {0}, d <= e
    PROVE  Round4(n, d) >= Round4(n, e) /\ Round4(n, d) \in Nat
<1> DEFINE x == 10000 * n
           q == x \div d
           r == x % d
           p == x \div e
           s == x % e
<1>1. x \in Nat
  OBVIOUS
<1> HIDE DEF x
<1>2. q \in Nat /\ r \in 0..(d - 1) /\ x = q * d + r
  BY <1>1, QuotientRemainder
<1>3. p \in Nat /\ s \in 0..(e - 1) /\ x = p * e + s
  BY <1>1, QuotientRemainder
<1>4. /\ Round4(n, d) = IF 2 * r > d \/ (2 * r = d /\ q % 2 = 1) THEN q + 1 ELSE q
      /\ Round4(n, e) = IF 2 * s > e \/ (2 * s = e /\ p % 2 = 1) THEN p + 1 ELSE p
  BY DEF Round4, x
<1> HIDE DEF q, r, p, s
<1>5. p <= q
  <2>1. SUFFICES ASSUME q < p PROVE FALSE
    BY <1>2, <1>3
  <2>2. q + 1 <= p /\ q + 1 \in Nat
    BY <1>2, <1>3, <2>1
  <2>3. (q + 1) * d <= p * e
    <3>1. (q + 1) * d <= p * d
      BY <1>3, <2>2
    <3>2. p * d <= p * e
      BY <1>3
    <3>3. (q + 1) * d \in Nat /\ p * d \in Nat /\ p * e \in Nat
      BY <1>2, <1>3
    <3>4. QED
      BY <3>1, <3>2, <3>3
  <2>4. (q + 1) * d = q * d + d /\ q * d \in Nat /\ p * e \in Nat
    BY <1>2, <1>3
  <2>5. QED
    BY <1>2, <1>3, <2>3, <2>4
<1>6. p = q => s <= r
  <2>1. SUFFICES ASSUME p = q PROVE s <= r
    OBVIOUS
  <2>2. q * d <= q * e
    BY <1>2
  <2>3. q * d \in Nat /\ q * e \in Nat
    BY <1>2
  <2>4. QED
    BY <1>2, <1>3, <2>1, <2>2, <2>3
<1>7. QED
  BY <1>2, <1>3, <1>4, <1>5, <1>6

\* The smaller the pool, the higher the multiple, up to rounding.
LEMMA SmallerPoolScoresMore ==
    ASSUME NEW amount \in Nat \ {0}, NEW small \in Nat, NEW large \in Nat, small <= large,
           NEW pot \in Nat
    PROVE  /\ PostBetMultiple(amount, small, pot, 0) >= PostBetMultiple(amount, large, pot, 0)
           /\ PostBetMultiple(amount, small, pot, 0) \in Nat
<1>1. NetOf(pot + amount, 0) = pot + amount
  BY DEF NetOf, bps_denom
<1>2. pot + amount \in Nat /\ small + amount \in Nat \ {0} /\ large + amount \in Nat \ {0}
      /\ small + amount <= large + amount
  OBVIOUS
<1>3. QED
  BY <1>1, <1>2, RoundMonotone DEF PostBetMultiple
===============================================================================
