------------------------ MODULE EnumeratedWager_proofs ------------------------
(***************************************************************************)
(* EnumeratedWager for any bettors, options, policies, fees and clocks:    *)
(* the types, the inductive invariant of the lifecycle, the clock          *)
(* properties, the bet book; that it can always pay what it owes and loses *)
(* less than one unit for each amount it rounds down; and the escrow.      *)
(* Then its two clients: the quotes (Quotes), for any row, legs and        *)
(* options, and the control panel (ControlPanel), for any request.         *)
(***************************************************************************)
EXTENDS EnumeratedWager, Quotes, ControlPanel, WagerLifecycle_proofs

-------------------------------------------------------------------------------
(* The recursion over a batch *)

Book == [pool : [Tickets -> Nat], used : Seq(Tickets),
         bets : [Tickets -> Nat], masks : Seq(Tickets)]

\* The function BooksAfter is meant to be, as an equation.
IsBooks(book, first, batch, n) ==
    book = [i \in 0..n |-> IF i = 0 THEN first ELSE Recorded(book[i - 1], batch[i])]

LEMMA BooksExist ==
    ASSUME NEW first, NEW batch, NEW n \in Nat
    PROVE  \E book : IsBooks(book, first, batch, n)
<1> DEFINE Missing == {k \in Nat : ~\E book : IsBooks(book, first, batch, k)}
<1>1. SUFFICES ASSUME Missing # {} PROVE FALSE
  OBVIOUS
<1>2. PICK k \in Missing : \A j \in Missing : k <= j
  BY <1>1, LeastNatural
<1>3. k # 0
  <2> DEFINE book == [i \in 0..0 |-> first]
  <2>1. IsBooks(book, first, batch, 0)
    BY DEF IsBooks
  <2>2. QED
    BY <2>1
<1>4. PICK prev : IsBooks(prev, first, batch, k - 1)
  BY <1>2, <1>3
<1> DEFINE book == [i \in 0..k |-> IF i < k THEN prev[i] ELSE Recorded(prev[k - 1], batch[k])]
<1>5. \A i \in 0..(k - 1) : prev[i] = IF i = 0 THEN first ELSE Recorded(prev[i - 1], batch[i])
  BY <1>2, <1>4 DEF IsBooks
<1>6. ASSUME NEW i \in 0..k
      PROVE  book[i] = IF i = 0 THEN first ELSE Recorded(book[i - 1], batch[i])
  <2>1. CASE i = 0
    BY <1>2, <1>3, <1>5, <2>1
  <2>2. CASE i # 0 /\ i < k
    <3>1. i \in 0..(k - 1) /\ i - 1 \in 0..k /\ i - 1 < k
      BY <1>2, <2>2
    <3>2. QED
      BY <1>5, <2>2, <3>1
  <2>3. CASE i = k
    <3>1. k - 1 \in 0..k /\ k - 1 < k
      BY <1>2, <1>3
    <3>2. QED
      BY <1>3, <2>3, <3>1
  <2>4. QED
    BY <1>2, <2>1, <2>2, <2>3
<1>7. IsBooks(book, first, batch, k)
  <2>1. book = [i \in 0..k |-> book[i]]
    OBVIOUS
  <2> HIDE DEF book
  <2>2. QED
    BY <1>6, <2>1 DEF IsBooks
<1>8. QED
  BY <1>2, <1>7

\* The book before the batch, and each book from the one before it.
LEMMA BooksAfterUnfold ==
    ASSUME NEW b, NEW batch, Len(batch) \in Nat
    PROVE  /\ BooksAfter(b, batch)[0] = CurrentBook(b)
           /\ \A i \in 1..Len(batch) :
                 BooksAfter(b, batch)[i] = Recorded(BooksAfter(b, batch)[i - 1], batch[i])
<1> DEFINE book == CHOOSE it : IsBooks(it, CurrentBook(b), batch, Len(batch))
<1>1. IsBooks(book, CurrentBook(b), batch, Len(batch))
  BY BooksExist
<1>2. BooksAfter(b, batch) = book
  BY DEF BooksAfter, IsBooks
<1> HIDE DEF book
<1>3. \A i \in 0..Len(batch) :
         book[i] = IF i = 0 THEN CurrentBook(b) ELSE Recorded(book[i - 1], batch[i])
  BY <1>1 DEF IsBooks
<1>4. QED
  BY <1>2, <1>3

-------------------------------------------------------------------------------
(* Types *)

LEMMA RecordedType ==
    ASSUME NEW book \in Book, NEW entry \in Entry
    PROVE  Recorded(book, entry) \in Book
<1>1. entry.mask \in Tickets /\ entry.amount \in Nat
  BY BookAssumption DEF Entry
<1>2. /\ book.pool \in [Tickets -> Nat] /\ book.used \in Seq(Tickets)
      /\ book.bets \in [Tickets -> Nat] /\ book.masks \in Seq(Tickets)
  BY DEF Book
<1>3. /\ [book.pool EXCEPT ![entry.mask] = @ + entry.amount] \in [Tickets -> Nat]
      /\ [book.bets EXCEPT ![entry.mask] = @ + entry.amount] \in [Tickets -> Nat]
      /\ Append(book.used, entry.mask) \in Seq(Tickets)
      /\ Append(book.masks, entry.mask) \in Seq(Tickets)
  BY <1>1, <1>2
<1>4. QED
  BY <1>2, <1>3 DEF Recorded, Book

LEMMA BooksAfterType ==
    ASSUME TypeOK, NEW b \in Bettors, NEW batch \in Seq(Entry)
    PROVE  \A i \in 0..Len(batch) : BooksAfter(b, batch)[i] \in Book
<1> DEFINE Bad == {i \in 0..Len(batch) : BooksAfter(b, batch)[i] \notin Book}
<1>1. SUFFICES ASSUME Bad # {} PROVE FALSE
  OBVIOUS
<1>2. PICK i \in Bad : \A j \in Bad : i <= j
  <2>1. Bad \in SUBSET Nat
    OBVIOUS
  <2> HIDE DEF Bad
  <2>2. QED
    BY <1>1, <2>1, LeastNatural
<1>3. CurrentBook(b) \in Book
  BY DEF CurrentBook, Book, TypeOK
<1>4. i # 0
  BY <1>2, <1>3, BooksAfterUnfold
<1>5. i - 1 \in 0..Len(batch) /\ BooksAfter(b, batch)[i - 1] \in Book
  BY <1>2, <1>4
<1>6. i \in 1..Len(batch) /\ batch[i] \in Entry
  BY <1>2, <1>4
<1>7. QED
  BY <1>2, <1>5, <1>6, BooksAfterUnfold, RecordedType

LEMMA BatchTotalType ==
    ASSUME NEW batch \in Seq(Entry)
    PROVE  BatchTotal(batch) \in Nat
<1> DEFINE amounts == [i \in DOMAIN batch |-> batch[i].amount]
<1>1. DOMAIN amounts = DOMAIN batch /\ IsFiniteSet(DOMAIN batch)
  BY FS_Interval
<1>2. ASSUME NEW i \in DOMAIN batch
      PROVE  amounts[i] \in Nat
  <2>1. batch[i] \in Entry
    OBVIOUS
  <2>2. batch[i].amount \in Nat
    BY <2>1, BookAssumption DEF Entry
  <2>3. QED
    BY <2>2
<1> HIDE DEF amounts
<1>3. SumFunctionOnSet(amounts, DOMAIN batch) \in Nat
  BY <1>1, <1>2, SumNat
<1>4. QED
  BY <1>1, <1>3 DEF BatchTotal, SumFunction, amounts

LEMMA BatchesAreSequences == Batches \cup {<<>>} \subseteq Seq(Entry)
<1>1. ASSUME NEW n \in 1..MaxBatch, NEW batch \in [1..n -> Entry]
      PROVE  batch \in Seq(Entry)
  BY BookAssumption
<1>2. ASSUME NEW batch \in Batches
      PROVE  batch \in Seq(Entry)
  <2>1. \E n \in 1..MaxBatch : batch \in [1..n -> Entry]
    BY Zenon DEF Batches
  <2>2. QED
    BY <1>1, <2>1
<1>3. <<>> \in Seq(Entry)
  OBVIOUS
<1>4. QED
  BY <1>2, <1>3

\* A batch of bets or seeds leaves the stakes well typed, whoever places it.
LEMMA RecordBetsType ==
    ASSUME TypeOK, LifecycleInv, NEW b \in Bettors, NEW batch \in Seq(Entry),
           PullCollateral(BatchTotal(batch)), RecordBets(b, batch)
    PROVE  /\ StakesTyped
           /\ ticketPoolByMask' \in [Tickets -> Nat] /\ usedMasks' \in Seq(Tickets)
           /\ betsByMask' \in [Bettors -> [Tickets -> Nat]]
           /\ userMasks' \in [Bettors -> Seq(Tickets)]
<1> DEFINE book == BooksAfter(b, batch)[Len(batch)]
           total == BatchTotal(batch)
<1>1. book \in Book
  BY BooksAfterType
<1>2. total \in Nat
  BY BatchTotalType
<1>3. /\ ticketPoolByMask' = book.pool /\ usedMasks' = book.used
      /\ betsByMask' = [betsByMask EXCEPT ![b] = book.bets]
      /\ userMasks' = [userMasks EXCEPT ![b] = book.masks]
      /\ userTotalBet' = [userTotalBet EXCEPT ![b] = @ + total]
      /\ totalPot' = totalPot + total
      /\ custody' = custody + total
  BY DEF RecordBets, PullCollateral
<1> HIDE DEF book, total
<1>4. /\ totalPot \in Nat /\ userTotalBet \in [Bettors -> Nat] /\ custody \in Nat
      /\ betsByMask \in [Bettors -> [Tickets -> Nat]]
      /\ userMasks \in [Bettors -> Seq(Tickets)]
      /\ \A c \in Bettors : userTotalBet[c] <= totalPot
  BY DEF TypeOK, LifecycleTypeOK, LifecycleInv
<1>5. StakesTyped
  BY <1>2, <1>3, <1>4 DEF StakesTyped
<1>6. QED
  BY <1>1, <1>3, <1>4, <1>5 DEF Book

LEMMA WeightType ==
    ASSUME NEW policy, NEW k, NEW T \in Tickets, NEW W
    PROVE  Weight(policy, k, T, W) \in Nat
<1>1. IsFiniteSet(T \cap W)
  BY OptionsAssumption, FS_Subset DEF Tickets
<1>2. Cardinality(T \cap W) \in Nat
  BY <1>1, FS_CardinalityType
<1>3. QED
  BY <1>2 DEF Weight

LEMMA WinningUnitsType ==
    ASSUME TypeOK, NEW W
    PROVE  WinningUnits(W) \in Nat
<1> DEFINE units == [i \in DOMAIN usedMasks |->
                        ticketPoolByMask[usedMasks[i]]
                          * Weight(payoffPolicy, policyParam, usedMasks[i], W)]
<1>1. DOMAIN units = DOMAIN usedMasks /\ IsFiniteSet(DOMAIN usedMasks)
  BY FS_Interval DEF TypeOK
<1>2. ASSUME NEW i \in DOMAIN usedMasks
      PROVE  units[i] \in Nat
  <2>1. usedMasks[i] \in Tickets
    BY DEF TypeOK
  <2>2. ticketPoolByMask[usedMasks[i]] \in Nat
    BY <2>1 DEF TypeOK
  <2>3. QED
    BY <2>1, <2>2, WeightType
<1> HIDE DEF units
<1>3. SumFunctionOnSet(units, DOMAIN usedMasks) \in Nat
  BY <1>1, <1>2, SumNat
<1>4. QED
  BY <1>1, <1>3 DEF WinningUnits, SumFunction, units

LEMMA WinningsType ==
    ASSUME TypeOK, LifecycleInv, state = "Resolved", NEW b \in Bettors
    PROVE  Winnings(b) \in Nat
<1> DEFINE win == [i \in DOMAIN userMasks[b] |->
                      LET m == userMasks[b][i]
                      IN  (betsByMask[b][m]
                             * Weight(payoffPolicy, policyParam, m, winningMask) * NetPot)
                            \div payoutDenominator]
<1>1. NetPot \in Nat /\ payoutDenominator \in Nat \ {0}
  BY TotalFeesType DEF TypeOK, LifecycleTypeOK, LifecycleInv, FeeConfigAccepted
<1>2. userMasks[b] \in Seq(Tickets) /\ DOMAIN win = DOMAIN userMasks[b]
      /\ IsFiniteSet(DOMAIN userMasks[b])
  BY FS_Interval DEF TypeOK
<1>3. ASSUME NEW i \in DOMAIN userMasks[b]
      PROVE  win[i] \in Nat
  <2> DEFINE m == userMasks[b][i]
             weight == Weight(payoffPolicy, policyParam, m, winningMask)
  <2>1. m \in Tickets
    BY <1>2
  <2>2. betsByMask[b][m] \in Nat /\ weight \in Nat
    BY <2>1, WeightType DEF TypeOK
  <2>3. win[i] = (betsByMask[b][m] * weight * NetPot) \div payoutDenominator
    OBVIOUS
  <2> HIDE DEF m, weight, win
  <2>4. betsByMask[b][m] * weight * NetPot \in Nat
    BY <1>1, <2>2
  <2>5. QED
    BY <1>1, <2>3, <2>4, FloorBound
<1> HIDE DEF win
<1>4. SumFunctionOnSet(win, DOMAIN userMasks[b]) \in Nat
  BY <1>2, <1>3, SumNat
<1>5. QED
  BY <1>2, <1>4 DEF Winnings, SumFunction, win

-------------------------------------------------------------------------------
(* Every transaction *)

\* The inductive invariant: the types of both layers and the facts about the
\* clocks, the verdict and the fees that the properties rest on.
IInv == TypeOK /\ LifecycleInv

EnumeratedTypeOK ==
    /\ payoffPolicy \in PayoffPolicies /\ policyParam \in Nat
    /\ ticketPoolByMask \in [Tickets -> Nat] /\ usedMasks \in Seq(Tickets)
    /\ betsByMask \in [Bettors -> [Tickets -> Nat]]
    /\ userMasks \in [Bettors -> Seq(Tickets)]
    /\ winningMask \in Tickets

LEMMA TypeOKLayers == TypeOK <=> LifecycleTypeOK /\ EnumeratedTypeOK
BY DEF TypeOK, EnumeratedTypeOK

LEMMA EnumeratedUnchanged ==
    ASSUME EnumeratedTypeOK, UNCHANGED enumeratedVars
    PROVE  EnumeratedTypeOK'
BY DEF EnumeratedTypeOK, enumeratedVars, policyVars, bookVars

LEMMA CreateStep ==
    ASSUME IInv, Create
    PROVE  LifecycleNext /\ EnumeratedTypeOK'
<1>1. PICK proposer \in Bettors, policy \in Policies, k \in PolicyParams,
           closeTime \in CloseTimes, window \in Windows,
           closer \in Closers, resCloser \in Closers, seeds \in Batches \cup {<<>>} :
           CreateEnumeratedWager(proposer, policy, k, closeTime, window, closer,
                                 resCloser, seeds)
  BY DEF Create
<1>2. seeds \in Seq(Entry)
  BY BatchesAreSequences
<1>3. /\ PullCollateral(BatchTotal(seeds)) /\ RecordBets(proposer, seeds)
      /\ Deploy(closeTime, window, closer, resCloser)
      /\ payoffPolicy' = policy /\ policyParam' = k /\ winningMask' = winningMask
  BY <1>1 DEF CreateEnumeratedWager
<1>4. /\ StakesTyped
      /\ ticketPoolByMask' \in [Tickets -> Nat] /\ usedMasks' \in Seq(Tickets)
      /\ betsByMask' \in [Bettors -> [Tickets -> Nat]]
      /\ userMasks' \in [Bettors -> Seq(Tickets)]
  BY <1>2, <1>3, RecordBetsType DEF IInv
<1>5. LifecycleNext
  BY <1>3, <1>4 DEF LifecycleNext
<1>6. EnumeratedTypeOK'
  BY <1>3, <1>4, BookAssumption DEF EnumeratedTypeOK, IInv, TypeOK
<1>7. QED
  BY <1>5, <1>6

LEMMA StakingStep ==
    ASSUME IInv, BettingAllowed, NEW b \in Bettors, NEW batch \in Seq(Entry),
           PullCollateral(BatchTotal(batch)), RecordBets(b, batch),
           UNCHANGED <<now, state, termsVars, authorityVars, feeVars, claimVars,
                       policyVars, winningMask>>
    PROVE  LifecycleNext /\ EnumeratedTypeOK'
<1>1. /\ StakesTyped
      /\ ticketPoolByMask' \in [Tickets -> Nat] /\ usedMasks' \in Seq(Tickets)
      /\ betsByMask' \in [Bettors -> [Tickets -> Nat]]
      /\ userMasks' \in [Bettors -> Seq(Tickets)]
  BY RecordBetsType DEF IInv
<1>2. LifecycleNext
  BY <1>1 DEF LifecycleNext, StakeStep, BettingAllowed
<1>3. EnumeratedTypeOK'
  BY <1>1 DEF EnumeratedTypeOK, IInv, TypeOK, policyVars
<1>4. QED
  BY <1>2, <1>3

LEMMA SingleBetTotal ==
    ASSUME NEW entry \in Entry
    PROVE  BatchTotal(<<entry>>) = entry.amount
<1> DEFINE amounts == [i \in DOMAIN <<entry>> |-> <<entry>>[i].amount]
<1>1. DOMAIN amounts = {1} /\ amounts[1] = entry.amount
  OBVIOUS
<1>2. entry.amount \in Nat
  BY BookAssumption DEF Entry
<1>3. BatchTotal(<<entry>>) = SumFunctionOnSet(amounts, {1})
  BY <1>1 DEF BatchTotal, SumFunction
<1> HIDE DEF amounts
<1>4. QED
  BY <1>1, <1>2, <1>3, SumSingleton

LEMMA PlaceBetStep ==
    ASSUME IInv, NEW b \in Bettors, NEW entry \in Entry, PlaceBet(b, entry)
    PROVE  LifecycleNext /\ EnumeratedTypeOK'
<1>1. <<entry>> \in Seq(Entry)
  OBVIOUS
<1>2. BatchTotal(<<entry>>) = entry.amount
  BY SingleBetTotal
<1>3. PullCollateral(BatchTotal(<<entry>>)) /\ RecordBets(b, <<entry>>) /\ BettingAllowed
      /\ UNCHANGED <<now, state, termsVars, authorityVars, feeVars, claimVars,
                     policyVars, winningMask>>
  BY <1>2 DEF PlaceBet
<1>4. QED
  BY <1>1, <1>3, StakingStep

LEMMA PlaceBetsStep ==
    ASSUME IInv, NEW b \in Bettors, NEW batch \in Batches, PlaceBets(b, batch)
    PROVE  LifecycleNext /\ EnumeratedTypeOK'
<1>1. batch \in Seq(Entry)
  BY BatchesAreSequences
<1>2. QED
  BY <1>1, StakingStep DEF PlaceBets

LEMMA ResolveIsStep ==
    ASSUME IInv, NEW a \in Accounts, NEW W \in Tickets, Resolve(a, W)
    PROVE  LifecycleNext /\ EnumeratedTypeOK'
<1>1. WinningUnits(W) \in Nat \ {0}
  BY WinningUnitsType DEF IInv, Resolve
<1>2. ResolveStep
  BY <1>1 DEF Resolve, ResolveStep
<1>3. EnumeratedTypeOK'
  BY DEF Resolve, EnumeratedTypeOK, IInv, TypeOK, policyVars, bookVars
<1>4. QED
  BY <1>2, <1>3 DEF LifecycleNext

LEMMA ClaimStep ==
    ASSUME IInv, NEW b \in Bettors, Claim(b)
    PROVE  LifecycleNext /\ EnumeratedTypeOK'
<1>1. CASE state = "Retracted" /\ PayClaim(b, Refund(b)) /\ UNCHANGED enumeratedVars
  <2>1. NetPot \in Nat
    BY <1>1, TotalFeesType DEF IInv, TypeOK, LifecycleTypeOK, LifecycleInv, FeeConfigAccepted
  <2>2. totalPot \in Nat /\ userTotalBet[b] \in Nat /\ userTotalBet[b] <= totalPot
        /\ userTotalBet[b] # 0
    BY <1>1 DEF PayClaim, IInv, TypeOK, LifecycleTypeOK, LifecycleInv
  <2>3. userTotalBet[b] * NetPot \in Nat /\ totalPot \in Nat \ {0}
    BY <2>1, <2>2
  <2>4. Refund(b) \in Nat
    BY <2>3, FloorBound DEF Refund
  <2>5. EnumeratedTypeOK'
    BY <1>1, TypeOKLayers, EnumeratedUnchanged DEF IInv
  <2>6. QED
    BY <1>1, <2>4, <2>5 DEF LifecycleNext
<1>2. CASE /\ state = "Resolved" /\ PayClaim(b, Winnings(b)) /\ UNCHANGED enumeratedVars
  <2>1. Winnings(b) \in Nat
    BY <1>2, WinningsType DEF IInv
  <2>2. EnumeratedTypeOK'
    BY <1>2, TypeOKLayers, EnumeratedUnchanged DEF IInv
  <2>3. QED
    BY <1>2, <2>1, <2>2 DEF LifecycleNext
<1>3. QED
  BY <1>1, <1>2 DEF Claim

\* Every step of the wager is a step of the lifecycle.
LEMMA EnumeratedStep ==
    ASSUME IInv, [Next]_vars
    PROVE  [LifecycleNext]_lifecycleVars /\ EnumeratedTypeOK'
<1>1. CASE Create
  BY <1>1, CreateStep
<1>2. ASSUME NEW b \in Bettors, NEW entry \in Entry, PlaceBet(b, entry)
      PROVE  LifecycleNext /\ EnumeratedTypeOK'
  BY <1>2, PlaceBetStep
<1>3. ASSUME NEW b \in Bettors, NEW batch \in Batches, PlaceBets(b, batch)
      PROVE  LifecycleNext /\ EnumeratedTypeOK'
  BY <1>3, PlaceBetsStep
<1>4. ASSUME NEW a \in Accounts, NEW W \in Tickets, Resolve(a, W)
      PROVE  LifecycleNext /\ EnumeratedTypeOK'
  BY <1>4, ResolveIsStep
<1>5. ASSUME NEW b \in Bettors, Claim(b)
      PROVE  LifecycleNext /\ EnumeratedTypeOK'
  BY <1>5, ClaimStep
<1>6. ASSUME UNCHANGED enumeratedVars,
             \/ Tick
             \/ \E a \in Accounts : CloseBetting(a)
             \/ \E a \in Accounts : CloseResolutionWindow(a)
             \/ \E a \in Accounts : Retract(a)
             \/ Expire
             \/ \E r \in FeeRecipients : WithdrawFees(r)
      PROVE  LifecycleNext /\ EnumeratedTypeOK'
  <2>1. EnumeratedTypeOK'
    BY <1>6, TypeOKLayers, EnumeratedUnchanged DEF IInv
  <2>2. LifecycleNext
    BY <1>6 DEF LifecycleNext
  <2>3. QED
    BY <2>1, <2>2
<1>7. CASE UNCHANGED vars
  BY <1>7, TypeOKLayers, EnumeratedUnchanged DEF IInv, vars
<1>8. QED
  BY <1>1, <1>2, <1>3, <1>4, <1>5, <1>6, <1>7 DEF Next

-------------------------------------------------------------------------------
(* Theorems *)

LEMMA IInvInit == Init => IInv
<1>1. ASSUME Init
      PROVE  LifecycleIInv /\ EnumeratedTypeOK
  <2>1. LifecycleIInv
    BY <1>1, LifecycleInitInv DEF Init
  <2>2. EnumeratedTypeOK
    BY <1>1 DEF Init, EnumeratedTypeOK, Tickets, PayoffPolicies
  <2>3. QED
    BY <2>1, <2>2
<1>2. QED
  BY <1>1, TypeOKLayers DEF IInv, LifecycleIInv

LEMMA IInvStep == IInv /\ [Next]_vars => IInv'
<1>1. SUFFICES ASSUME IInv, [Next]_vars
               PROVE  IInv'
  OBVIOUS
<1>2. LifecycleIInv' /\ EnumeratedTypeOK'
  BY <1>1, EnumeratedStep, LifecycleStepInv DEF IInv, LifecycleIInv, TypeOK
<1>3. QED
  BY <1>2, TypeOKLayers DEF IInv, LifecycleIInv, TypeOK, EnumeratedTypeOK

\* The inductive invariant holds of every reachable state.
THEOREM InductiveInvariant == Spec => []IInv
BY IInvInit, IInvStep, PTL DEF Spec

\* Every reachable state is well typed; in particular no payout, fee slice or
\* custody is ever negative.
THEOREM TypeCorrect == Spec => []TypeOK
<1>1. IInv => TypeOK
  BY DEF IInv
<1>2. QED
  BY <1>1, InductiveInvariant, PTL

\* LifecycleInv, the facts that relate clocks, verdict, fees and stakes.
THEOREM LifecycleCorrect == Spec => []LifecycleInv
<1>1. IInv => LifecycleInv
  BY DEF IInv
<1>2. QED
  BY <1>1, InductiveInvariant, PTL

\* In no reachable state can both the resolver decide and anyone expire, and
\* after the close of betting one of them always can.
THEOREM PartitionCorrect == Spec => []WindowsPartition
<1>1. IInv => WindowsPartition
  BY LifecycleWindowsPartition DEF IInv, LifecycleIInv, TypeOK
<1>2. QED
  BY <1>1, InductiveInvariant, PTL

\* The anchor of the resolution window is fixed by the close of betting.
THEOREM AnchorCorrect == Spec => AnchorNeverMoves
<1>1. IInv /\ [Next]_vars => [BettingClosed => BettingClosedAt' = BettingClosedAt]_lifecycleVars
  BY EnumeratedStep, LifecycleAnchorNeverMoves DEF IInv, LifecycleIInv, TypeOK
<1>2. QED
  BY <1>1, InductiveInvariant, PTL DEF Spec, AnchorNeverMoves

\* No stake enters the pot once betting has closed.
THEOREM PotCorrect == Spec => PotFrozenOnceClosed
<1>1. IInv /\ [Next]_vars =>
         [BettingClosed /\ state # "Undeployed" => UNCHANGED potVars]_lifecycleVars
  BY EnumeratedStep, LifecyclePotFrozen DEF IInv, LifecycleIInv, TypeOK
<1>2. QED
  BY <1>1, InductiveInvariant, PTL DEF Spec, PotFrozenOnceClosed

\* The resolver neither resolves nor retracts after the deadline the factory
\* published; past it a wager leaves Open through expire alone.
THEOREM DeadlineCorrect == Spec => DecidedInTime
<1>1. IInv /\ [Next]_vars =>
         [state = "Open" /\ state' # "Open" =>
            /\ BettingClosed
            /\ ResolverDecides /\ resolutionDeadline # 0
                 => now <= resolutionDeadline]_lifecycleVars
  BY EnumeratedStep, LifecycleDecidedInTime DEF IInv, LifecycleIInv, TypeOK
<1>2. QED
  BY <1>1, InductiveInvariant, PTL DEF Spec, DecidedInTime

-------------------------------------------------------------------------------
(* The book *)

LEMMA TicketsFinite == IsFiniteSet(Tickets)
BY OptionsAssumption, FS_SUBSET DEF Tickets

LEMMA RecordedBook ==
    ASSUME NEW book \in Book, NEW entry \in Entry, entry.amount > 0,
           Lists(book.used, Tickets, book.pool), Lists(book.masks, Tickets, book.bets)
    PROVE  LET next == Recorded(book, entry)
           IN  /\ Lists(next.used, Tickets, next.pool) /\ Lists(next.masks, Tickets, next.bets)
               /\ \A m \in Tickets : next.pool[m] - book.pool[m] = next.bets[m] - book.bets[m]
               /\ SumFunctionOnSet(next.bets, Tickets)
                    = SumFunctionOnSet(book.bets, Tickets) + entry.amount
<1> DEFINE m == entry.mask
           n == entry.amount
           next == Recorded(book, entry)
<1>1. m \in Tickets /\ n \in Nat \ {0}
  <2>1. entry.mask \in Tickets /\ entry.amount \in Nat
    BY BookAssumption DEF Entry
  <2>2. QED
    BY <2>1
<1>2. /\ book.pool \in [Tickets -> Nat] /\ book.used \in Seq(Tickets)
      /\ book.bets \in [Tickets -> Nat] /\ book.masks \in Seq(Tickets)
  BY DEF Book
<1>3. /\ next.pool = [book.pool EXCEPT ![m] = @ + n]
      /\ next.used = IF book.pool[m] = 0 THEN Append(book.used, m) ELSE book.used
      /\ next.bets = [book.bets EXCEPT ![m] = @ + n]
      /\ next.masks = IF book.bets[m] = 0 THEN Append(book.masks, m) ELSE book.masks
  BY DEF Recorded
<1> HIDE DEF m, n, next
<1>4. Lists(next.used, Tickets, next.pool)
  <2>1. Lists(IF book.pool[m] = 0 THEN Append(book.used, m) ELSE book.used, Tickets,
              [book.pool EXCEPT ![m] = @ + n])
    BY <1>1, <1>2, ListsStep
  <2>2. QED
    BY <1>3, <2>1, Zenon
<1>5. Lists(next.masks, Tickets, next.bets)
  <2>1. Lists(IF book.bets[m] = 0 THEN Append(book.masks, m) ELSE book.masks, Tickets,
              [book.bets EXCEPT ![m] = @ + n])
    BY <1>1, <1>2, ListsStep
  <2>2. QED
    BY <1>3, <2>1, Zenon
<1>6. \A k \in Tickets : next.pool[k] - book.pool[k] = next.bets[k] - book.bets[k]
  BY <1>1, <1>2, <1>3
<1>7. SumFunctionOnSet(next.bets, Tickets) = SumFunctionOnSet(book.bets, Tickets) + n
  <2>1. /\ \A k \in Tickets : book.bets[k] \in Int /\ next.bets[k] \in Int
        /\ \A k \in Tickets \ {m} : next.bets[k] = book.bets[k]
        /\ next.bets[m] = book.bets[m] + n /\ book.bets[m] \in Nat
    BY <1>1, <1>2, <1>3
  <2>2. SumFunctionOnSet(next.bets, Tickets)
          = SumFunctionOnSet(book.bets, Tickets) - book.bets[m] + next.bets[m]
    BY <1>1, <2>1, TicketsFinite, SumExcept
  <2>3. SumFunctionOnSet(book.bets, Tickets) \in Int
    BY <2>1, TicketsFinite, SumInt
  <2>4. QED
    BY <1>1, <2>1, <2>2, <2>3
<1>8. QED
  BY <1>4, <1>5, <1>6, <1>7 DEF m, n, next
-------------------------------------------------------------------------------
(* The book after a batch *)

\* Every entry carries a positive amount.
Positive(batch) == \A i \in DOMAIN batch : batch[i].amount > 0

\* What the first i entries of a batch of b add up to.
Placed(batch, i) == SumFunctionOnSet([j \in DOMAIN batch |-> batch[j].amount], 1..i)

\* The book after i entries: both enumerations list what has an amount, the pool
\* of a ticket grew by what b added to it, and b's tickets by what was placed.
BookAfterOK(b, batch, i) ==
    LET book == BooksAfter(b, batch)[i]
    IN  /\ Lists(book.used, Tickets, book.pool) /\ Lists(book.masks, Tickets, book.bets)
        /\ \A m \in Tickets :
              book.pool[m] - ticketPoolByMask[m] = book.bets[m] - betsByMask[b][m]
        /\ SumFunctionOnSet(book.bets, Tickets)
             = SumFunctionOnSet(betsByMask[b], Tickets) + Placed(batch, i)

LEMMA PlacedStep ==
    ASSUME NEW batch \in Seq(Entry)
    PROVE  /\ Placed(batch, 0) = 0
           /\ \A i \in 1..Len(batch) : /\ Placed(batch, i - 1) \in Nat
                                       /\ Placed(batch, i) = Placed(batch, i - 1) + batch[i].amount
           /\ Placed(batch, Len(batch)) = BatchTotal(batch)
<1> DEFINE amounts == [j \in DOMAIN batch |-> batch[j].amount]
<1>1. \A j \in 1..Len(batch) : amounts[j] = batch[j].amount /\ amounts[j] \in Nat
  <2>1. \A e \in Entry : e.amount \in Nat
    BY BookAssumption DEF Entry
  <2>2. \A j \in 1..Len(batch) : batch[j] \in Entry
    OBVIOUS
  <2>3. QED
    BY <2>1, <2>2
<1>2. Placed(batch, 0) = 0
  <2>1. 1..0 = {}
    OBVIOUS
  <2>2. QED
    BY <2>1, SumEmpty DEF Placed
<1>3. ASSUME NEW i \in 1..Len(batch)
      PROVE  /\ Placed(batch, i - 1) \in Nat
             /\ Placed(batch, i) = Placed(batch, i - 1) + batch[i].amount
  <2>1. /\ IsFiniteSet(1..(i - 1)) /\ i \notin 1..(i - 1)
        /\ (1..(i - 1)) \cup {i} = 1..i
    <3>1. IsFiniteSet(1..(i - 1))
      BY FS_Interval
    <3>2. QED
      BY <3>1
  <2>2. (\A j \in 1..(i - 1) : amounts[j] \in Nat)
        /\ (\A j \in (1..(i - 1)) \cup {i} : amounts[j] \in Int)
    <3>1. (1..(i - 1)) \cup {i} \subseteq 1..Len(batch)
      OBVIOUS
    <3> HIDE DEF amounts
    <3>2. QED
      BY <1>1, <3>1
  <2> HIDE DEF amounts
  <2>3. SumFunctionOnSet(amounts, (1..(i - 1)) \cup {i})
          = amounts[i] + SumFunctionOnSet(amounts, 1..(i - 1))
    BY <2>1, <2>2, SumAdd
  <2>4. SumFunctionOnSet(amounts, 1..(i - 1)) \in Nat
    BY <2>1, <2>2, SumNat
  <2>5. Placed(batch, i) = SumFunctionOnSet(amounts, 1..i)
        /\ Placed(batch, i - 1) = SumFunctionOnSet(amounts, 1..(i - 1))
    BY DEF Placed, amounts
  <2>6. amounts[i] = batch[i].amount /\ amounts[i] \in Nat
    BY <1>1
  <2>7. SumFunctionOnSet(amounts, 1..i) = amounts[i] + SumFunctionOnSet(amounts, 1..(i - 1))
    BY <2>1, <2>3
  <2>8. QED
    BY <2>4, <2>5, <2>6, <2>7
<1>4. Placed(batch, Len(batch)) = BatchTotal(batch)
  BY DEF Placed, BatchTotal, SumFunction
<1>5. QED
  BY <1>2, <1>3, <1>4

LEMMA BooksAfterOK ==
    ASSUME TypeOK, BookConsistent, NEW b \in Bettors, NEW batch \in Seq(Entry), Positive(batch)
    PROVE  BookAfterOK(b, batch, Len(batch))
<1> DEFINE Bad == {i \in 0..Len(batch) : ~BookAfterOK(b, batch, i)}
<1>1. SUFFICES ASSUME Bad # {} PROVE FALSE
  OBVIOUS
<1>2. PICK i \in Bad : \A j \in Bad : i <= j
  <2>1. Bad \in SUBSET Nat
    OBVIOUS
  <2> HIDE DEF Bad
  <2>2. QED
    BY <1>1, <2>1, LeastNatural
<1>3. /\ ticketPoolByMask \in [Tickets -> Nat] /\ betsByMask[b] \in [Tickets -> Nat]
  BY DEF TypeOK
<1>4. SumFunctionOnSet(betsByMask[b], Tickets) \in Int
  <2>1. \A m \in Tickets : betsByMask[b][m] \in Int
    BY <1>3
  <2>2. QED
    BY <2>1, TicketsFinite, SumInt
<1>5. i # 0
  <2>1. BooksAfter(b, batch)[0] = CurrentBook(b)
    BY BooksAfterUnfold
  <2>2. BookAfterOK(b, batch, 0)
    BY <1>3, <1>4, <2>1, PlacedStep DEF BookAfterOK, CurrentBook, BookConsistent, Lists
  <2>3. QED
    BY <1>2, <2>2
<1>6. i \in 1..Len(batch) /\ i - 1 \in 0..Len(batch) /\ BookAfterOK(b, batch, i - 1)
  BY <1>2, <1>5
<1> DEFINE prev == BooksAfter(b, batch)[i - 1]
           book == BooksAfter(b, batch)[i]
<1>7. prev \in Book /\ book \in Book /\ book = Recorded(prev, batch[i])
  BY <1>2, <1>6, BooksAfterType, BooksAfterUnfold
<1>8. batch[i] \in Entry /\ batch[i].amount > 0 /\ batch[i].amount \in Nat
  <2>1. batch[i] \in Entry /\ i \in DOMAIN batch
    BY <1>6
  <2>2. \A e \in Entry : e.amount \in Nat
    BY BookAssumption DEF Entry
  <2>3. QED
    BY <2>1, <2>2 DEF Positive
<1> HIDE DEF prev, book
<1>9. /\ Lists(prev.used, Tickets, prev.pool) /\ Lists(prev.masks, Tickets, prev.bets)
      /\ \A m \in Tickets :
            prev.pool[m] - ticketPoolByMask[m] = prev.bets[m] - betsByMask[b][m]
      /\ SumFunctionOnSet(prev.bets, Tickets)
           = SumFunctionOnSet(betsByMask[b], Tickets) + Placed(batch, i - 1)
  BY <1>6 DEF BookAfterOK, prev
<1>10. /\ Lists(book.used, Tickets, book.pool) /\ Lists(book.masks, Tickets, book.bets)
       /\ \A m \in Tickets : book.pool[m] - prev.pool[m] = book.bets[m] - prev.bets[m]
       /\ SumFunctionOnSet(book.bets, Tickets)
            = SumFunctionOnSet(prev.bets, Tickets) + batch[i].amount
  BY <1>7, <1>8, <1>9, RecordedBook
<1>11. \A m \in Tickets : book.pool[m] - ticketPoolByMask[m] = book.bets[m] - betsByMask[b][m]
  <2>1. ASSUME NEW m \in Tickets
        PROVE  /\ prev.pool[m] \in Nat /\ prev.bets[m] \in Nat
               /\ book.pool[m] \in Nat /\ book.bets[m] \in Nat
               /\ ticketPoolByMask[m] \in Nat /\ betsByMask[b][m] \in Nat
    BY <1>3, <1>7 DEF Book
  <2>2. ASSUME NEW m \in Tickets
        PROVE  book.pool[m] - ticketPoolByMask[m] = book.bets[m] - betsByMask[b][m]
    <3> DEFINE p == ticketPoolByMask[m]
               q == prev.pool[m]
               r == book.pool[m]
               x == betsByMask[b][m]
               y == prev.bets[m]
               z == book.bets[m]
    <3>1. q - p = y - x
      BY <1>9
    <3>2. r - q = z - y
      BY <1>10
    <3>3. p \in Int /\ q \in Int /\ r \in Int /\ x \in Int /\ y \in Int /\ z \in Int
      BY <2>1
    <3> HIDE DEF p, q, r, x, y, z
    <3>4. r - p = z - x
      BY <3>1, <3>2, <3>3
    <3>5. QED
      BY <3>4 DEF p, r, x, z
  <2>3. QED
    BY <2>2
<1>12. SumFunctionOnSet(book.bets, Tickets)
         = SumFunctionOnSet(betsByMask[b], Tickets) + Placed(batch, i)
  <2>1. Placed(batch, i - 1) \in Nat /\ Placed(batch, i) = Placed(batch, i - 1) + batch[i].amount
    BY <1>6, PlacedStep
  <2>2. QED
    BY <1>4, <1>8, <1>9, <1>10, <2>1
<1>13. BookAfterOK(b, batch, i)
  BY <1>10, <1>11, <1>12 DEF BookAfterOK, book
<1>14. QED
  BY <1>2, <1>13

\* A bet, a batch or the seeds of a wager keep the five views of the stakes in
\* agreement.
LEMMA RecordBetsBook ==
    ASSUME TypeOK, BookConsistent, NEW b \in Bettors, NEW batch \in Seq(Entry),
           Positive(batch), RecordBets(b, batch)
    PROVE  BookConsistent'
<1> DEFINE book == BooksAfter(b, batch)[Len(batch)]
           total == BatchTotal(batch)
<1>1. book \in Book /\ BookAfterOK(b, batch, Len(batch))
  BY BooksAfterType, BooksAfterOK
<1>2. /\ Len(book.used) <= MAX_DISTINCT_TICKETS
      /\ ticketPoolByMask' = book.pool /\ usedMasks' = book.used
      /\ betsByMask' = [betsByMask EXCEPT ![b] = book.bets]
      /\ userMasks' = [userMasks EXCEPT ![b] = book.masks]
      /\ userTotalBet' = [userTotalBet EXCEPT ![b] = @ + total]
      /\ totalPot' = totalPot + total
  BY DEF RecordBets
<1>3. /\ Lists(book.used, Tickets, book.pool) /\ Lists(book.masks, Tickets, book.bets)
      /\ \A m \in Tickets :
            book.pool[m] - ticketPoolByMask[m] = book.bets[m] - betsByMask[b][m]
      /\ SumFunctionOnSet(book.bets, Tickets)
           = SumFunctionOnSet(betsByMask[b], Tickets) + total
  BY <1>1, PlacedStep DEF BookAfterOK
<1>4. total \in Nat
  BY BatchTotalType
<1>5. /\ book.pool \in [Tickets -> Nat] /\ book.bets \in [Tickets -> Nat]
  BY <1>1 DEF Book
<1> HIDE DEF book, total
<1>6. /\ ticketPoolByMask \in [Tickets -> Nat]
      /\ betsByMask \in [Bettors -> [Tickets -> Nat]]
      /\ userMasks \in [Bettors -> Seq(Tickets)]
      /\ userTotalBet \in [Bettors -> Nat] /\ totalPot \in Nat
  BY DEF TypeOK, LifecycleTypeOK
<1>7. ASSUME NEW m \in Tickets
      PROVE  ticketPoolByMask'[m] = SumFunction([c \in Bettors |-> betsByMask'[c][m]])
  <2> DEFINE before == [c \in Bettors |-> betsByMask[c][m]]
             after == [c \in Bettors |-> betsByMask'[c][m]]
  <2>1. /\ \A c \in Bettors : before[c] \in Int /\ after[c] \in Int
        /\ \A c \in Bettors \ {b} : after[c] = before[c]
        /\ before[b] = betsByMask[b][m] /\ after[b] = book.bets[m]
        /\ DOMAIN before = Bettors /\ DOMAIN after = Bettors
    BY <1>2, <1>5, <1>6
  <2>2. ticketPoolByMask[m] = SumFunction(before)
    BY DEF BookConsistent
  <2> HIDE DEF before, after
  <2>3. SumFunctionOnSet(after, Bettors)
          = SumFunctionOnSet(before, Bettors) - before[b] + after[b]
    BY <2>1, BettorsAssumption, SumExcept
  <2>4. ticketPoolByMask[m] = SumFunctionOnSet(before, Bettors)
    BY <2>1, <2>2 DEF SumFunction
  <2>5. SumFunction(after) = ticketPoolByMask[m] - betsByMask[b][m] + book.bets[m]
    BY <2>1, <2>3, <2>4 DEF SumFunction
  <2>6. /\ book.pool[m] \in Nat /\ ticketPoolByMask[m] \in Nat
        /\ book.bets[m] \in Nat /\ betsByMask[b][m] \in Nat
        /\ book.pool[m] - ticketPoolByMask[m] = book.bets[m] - betsByMask[b][m]
    BY <1>3, <1>5, <1>6
  <2>7. book.pool[m] = SumFunction(after)
    BY <2>5, <2>6
  <2>8. QED
    BY <1>2, <2>7 DEF after
<1>8. ASSUME NEW c \in Bettors
      PROVE  userTotalBet'[c] = SumFunction(betsByMask'[c])
  <2>1. userTotalBet[c] = SumFunction(betsByMask[c])
    BY DEF BookConsistent
  <2>2. CASE c # b
    BY <1>2, <1>6, <2>1, <2>2
  <2>3. CASE c = b
    <3>1. userTotalBet'[c] = userTotalBet[b] + total /\ betsByMask'[c] = book.bets
      BY <1>2, <1>6, <2>3
    <3>2. DOMAIN book.bets = Tickets /\ DOMAIN betsByMask[b] = Tickets
      BY <1>5, <1>6
    <3>3. userTotalBet[b] = SumFunctionOnSet(betsByMask[b], Tickets)
          /\ SumFunction(book.bets) = SumFunctionOnSet(book.bets, Tickets)
      BY <2>1, <2>3, <3>2 DEF SumFunction
    <3>4. QED
      BY <1>3, <3>1, <3>3
  <2>4. QED
    BY <2>2, <2>3
<1>9. totalPot' = SumFunction(userTotalBet')
  <2>1. /\ \A c \in Bettors : userTotalBet[c] \in Int /\ userTotalBet'[c] \in Int
        /\ \A c \in Bettors \ {b} : userTotalBet'[c] = userTotalBet[c]
        /\ userTotalBet'[b] = userTotalBet[b] + total
        /\ DOMAIN userTotalBet = Bettors /\ DOMAIN userTotalBet' = Bettors
    BY <1>2, <1>4, <1>6
  <2>2. SumFunctionOnSet(userTotalBet', Bettors)
          = SumFunctionOnSet(userTotalBet, Bettors) - userTotalBet[b] + userTotalBet'[b]
    BY <2>1, BettorsAssumption, SumExcept
  <2>3. totalPot = SumFunctionOnSet(userTotalBet, Bettors)
    BY <2>1 DEF BookConsistent, SumFunction
  <2>4. SumFunctionOnSet(userTotalBet', Bettors) = totalPot + total
    BY <1>4, <1>6, <2>1, <2>2, <2>3
  <2>5. QED
    BY <1>2, <2>1, <2>4 DEF SumFunction
<1>10. /\ IsInjective(usedMasks') /\ Len(usedMasks') <= MAX_DISTINCT_TICKETS
       /\ Range(usedMasks') = {m \in Tickets : ticketPoolByMask'[m] # 0}
  BY <1>2, <1>3 DEF Lists
<1>11. ASSUME NEW c \in Bettors
       PROVE  /\ IsInjective(userMasks'[c])
              /\ Range(userMasks'[c]) = {m \in Tickets : betsByMask'[c][m] # 0}
  <2>1. CASE c # b
    <3>1. userMasks'[c] = userMasks[c] /\ betsByMask'[c] = betsByMask[c]
      BY <1>2, <1>6, <2>1
    <3>2. QED
      BY <3>1 DEF BookConsistent
  <2>2. CASE c = b
    <3>1. userMasks'[c] = book.masks /\ betsByMask'[c] = book.bets
      BY <1>2, <1>6, <2>2
    <3>2. QED
      BY <1>3, <3>1 DEF Lists
  <2>3. QED
    BY <2>1, <2>2
<1>12. QED
  BY <1>7, <1>8, <1>9, <1>10, <1>11 DEF BookConsistent

LEMMA BookInit == Init => BookConsistent
<1> SUFFICES ASSUME Init PROVE BookConsistent
  OBVIOUS
<1>1. /\ ticketPoolByMask = [m \in Tickets |-> 0] /\ usedMasks = <<>>
      /\ betsByMask = [b \in Bettors |-> [m \in Tickets |-> 0]]
      /\ userMasks = [b \in Bettors |-> <<>>]
      /\ totalPot = 0 /\ userTotalBet = [b \in Bettors |-> 0]
  BY DEF Init, LifecycleInit
<1>2. ASSUME NEW m \in Tickets
      PROVE  ticketPoolByMask[m] = SumFunction([b \in Bettors |-> betsByMask[b][m]])
  <2> DEFINE column == [b \in Bettors |-> betsByMask[b][m]]
  <2>1. DOMAIN column = Bettors /\ \A b \in Bettors : column[b] = 0
    BY <1>1
  <2> HIDE DEF column
  <2>2. SumFunction(column) = 0
    BY <2>1, BettorsAssumption, SumZero DEF SumFunction
  <2>3. QED
    BY <1>1, <2>2 DEF column
<1>3. ASSUME NEW b \in Bettors
      PROVE  userTotalBet[b] = SumFunction(betsByMask[b])
  <2> DEFINE row == betsByMask[b]
  <2>1. DOMAIN row = Tickets /\ \A m \in Tickets : row[m] = 0
    BY <1>1
  <2> HIDE DEF row
  <2>2. SumFunction(row) = 0
    BY <2>1, TicketsFinite, SumZero DEF SumFunction
  <2>3. QED
    BY <1>1, <2>2 DEF row
<1>4. totalPot = SumFunction(userTotalBet)
  <2>1. DOMAIN userTotalBet = Bettors /\ \A b \in Bettors : userTotalBet[b] = 0
    BY <1>1
  <2>2. QED
    BY <1>1, <2>1, BettorsAssumption, SumZero DEF SumFunction
<1>5. IsInjective(<<>>) /\ Range(<<>>) = {} /\ Len(<<>>) = 0
  BY DEF IsInjective, Range
<1>6. {m \in Tickets : ticketPoolByMask[m] # 0} = {}
      /\ \A b \in Bettors : {m \in Tickets : betsByMask[b][m] # 0} = {}
  BY <1>1
<1>7. \A b \in Bettors : userMasks[b] = <<>>
  BY <1>1
<1>8. Len(usedMasks) <= MAX_DISTINCT_TICKETS
  BY <1>1, <1>5, BookAssumption
<1>9. QED
  BY <1>1, <1>2, <1>3, <1>4, <1>5, <1>6, <1>7, <1>8 DEF BookConsistent

\* Creation and bets go through RecordBets; nothing else touches the book.
LEMMA BookStep ==
    ASSUME IInv, [Next]_vars
    PROVE  \/ UNCHANGED <<potVars, bookVars>>
           \/ \E b \in Bettors, batch \in Seq(Entry) : Positive(batch) /\ RecordBets(b, batch)
<1>1. CASE Create
  <2>1. PICK proposer \in Bettors, policy \in Policies, k \in PolicyParams,
             closeTime \in CloseTimes, window \in Windows,
             closer \in Closers, resCloser \in Closers, seeds \in Batches \cup {<<>>} :
             CreateEnumeratedWager(proposer, policy, k, closeTime, window, closer,
                                   resCloser, seeds)
    BY <1>1 DEF Create
  <2>2. seeds \in Seq(Entry) /\ Positive(seeds) /\ RecordBets(proposer, seeds)
    BY <2>1, BatchesAreSequences DEF CreateEnumeratedWager, Positive
  <2>3. QED
    BY <2>2
<1>2. ASSUME NEW b \in Bettors, NEW entry \in Entry, PlaceBet(b, entry)
      PROVE  \E c \in Bettors, batch \in Seq(Entry) : Positive(batch) /\ RecordBets(c, batch)
  <2>1. entry.amount > 0 /\ RecordBets(b, <<entry>>)
    BY <1>2 DEF PlaceBet, EntryAccepted
  <2>2. <<entry>> \in Seq(Entry) /\ DOMAIN <<entry>> = {1} /\ <<entry>>[1] = entry
    OBVIOUS
  <2>3. Positive(<<entry>>)
    BY <2>1, <2>2 DEF Positive
  <2>4. QED
    BY <2>1, <2>2, <2>3
<1>3. ASSUME NEW b \in Bettors, NEW batch \in Batches, PlaceBets(b, batch)
      PROVE  \E c \in Bettors, it \in Seq(Entry) : Positive(it) /\ RecordBets(c, it)
  <2>1. batch \in Seq(Entry) /\ Positive(batch) /\ RecordBets(b, batch)
    BY <1>3, BatchesAreSequences DEF PlaceBets, EntryAccepted, Positive
  <2>2. QED
    BY <2>1
<1>4. ASSUME NEW a \in Accounts, NEW W \in Tickets, Resolve(a, W)
      PROVE  UNCHANGED <<potVars, bookVars>>
  BY <1>4 DEF Resolve
<1>5. ASSUME NEW b \in Bettors, Claim(b)
      PROVE  UNCHANGED <<potVars, bookVars>>
  BY <1>5 DEF Claim, PayClaim, enumeratedVars
<1>6. ASSUME UNCHANGED enumeratedVars,
             \/ Tick
             \/ \E a \in Accounts : CloseBetting(a)
             \/ \E a \in Accounts : CloseResolutionWindow(a)
             \/ \E a \in Accounts : Retract(a)
             \/ Expire
             \/ \E r \in FeeRecipients : WithdrawFees(r)
      PROVE  UNCHANGED <<potVars, bookVars>>
  BY <1>6 DEF Tick, CloseBetting, CloseResolutionWindow, Retract, Expire, WithdrawFees,
              enumeratedVars
<1>7. CASE UNCHANGED vars
  BY <1>7 DEF vars, lifecycleVars, enumeratedVars
<1>8. QED
  BY <1>1, <1>2, <1>3, <1>4, <1>5, <1>6, <1>7 DEF Next

LEMMA BookNext ==
    ASSUME IInv, BookConsistent, [Next]_vars
    PROVE  BookConsistent'
<1>1. CASE UNCHANGED <<potVars, bookVars>>
  BY <1>1 DEF BookConsistent, potVars, bookVars
<1>2. ASSUME NEW b \in Bettors, NEW batch \in Seq(Entry), Positive(batch), RecordBets(b, batch)
      PROVE  BookConsistent'
  BY <1>2, RecordBetsBook DEF IInv
<1>3. QED
  BY <1>1, <1>2, BookStep

\* Pools, totals per bettor, the pot and the two enumerations always agree, and
\* the cap on distinct tickets holds.
THEOREM BookCorrect == Spec => []BookConsistent
<1>1. IInv /\ BookConsistent /\ [Next]_vars => BookConsistent'
  BY BookNext
<1>2. QED
  BY <1>1, BookInit, InductiveInvariant, PTL DEF Spec

-------------------------------------------------------------------------------
(* Weights *)

\* A ticket wins exactly when it counts at least once.
LEMMA WinningWeight ==
    ASSUME NEW policy, NEW k, NEW T \in Tickets, NEW W
    PROVE  Weight(policy, k, T, W) # 0 <=> TicketWins(policy, k, T, W)
<1>1. IsFiniteSet(T \cap W)
  BY OptionsAssumption, FS_Subset DEF Tickets
<1>2. T \cap W # {} => Cardinality(T \cap W) # 0
  BY <1>1, FS_EmptySet
<1>3. TicketWins(policy, k, T, W) => T \cap W # {}
  BY DEF TicketWins
<1> HIDE DEF TicketWins
<1>4. QED
  BY <1>2, <1>3 DEF Weight

\* The units of a winning mask, summed over all tickets instead of the enumeration.
LEMMA UnitsOverTickets ==
    ASSUME TypeOK, BookConsistent, NEW W
    PROVE  WinningUnits(W) = SumFunctionOnSet(
               [m \in Tickets |-> ticketPoolByMask[m] * Weight(payoffPolicy, policyParam, m, W)],
               Tickets)
<1> DEFINE h == [m \in Tickets |-> ticketPoolByMask[m] * Weight(payoffPolicy, policyParam, m, W)]
           f == [i \in DOMAIN usedMasks |->
                    ticketPoolByMask[usedMasks[i]]
                      * Weight(payoffPolicy, policyParam, usedMasks[i], W)]
<1>1. usedMasks \in Seq(Tickets) /\ IsFiniteSet(DOMAIN usedMasks) /\ IsFiniteSet(Tickets)
  BY FS_Interval, TicketsFinite DEF TypeOK
<1>2. \A i \in DOMAIN usedMasks : usedMasks[i] \in Tickets /\ f[i] = h[usedMasks[i]]
  BY <1>1
<1>3. \A m \in Tickets : h[m] \in Int
  <2>1. \A m \in Tickets : ticketPoolByMask[m] \in Nat
    BY DEF TypeOK
  <2>2. QED
    BY <2>1, WeightType
<1>4. ASSUME NEW m \in Tickets, \A i \in DOMAIN usedMasks : usedMasks[i] # m
      PROVE  h[m] = 0
  <2>1. m \notin Range(usedMasks)
    BY <1>4 DEF Range
  <2>2. ticketPoolByMask[m] = 0
    BY <2>1 DEF BookConsistent
  <2>3. Weight(payoffPolicy, policyParam, m, W) \in Nat
    BY WeightType
  <2>4. QED
    BY <2>2, <2>3
<1>5. \A i, j \in DOMAIN usedMasks : usedMasks[i] = usedMasks[j] => i = j
  BY DEF BookConsistent, IsInjective
<1>6. DOMAIN f = DOMAIN usedMasks /\ WinningUnits(W) = SumFunction(f)
  BY DEF WinningUnits
<1> HIDE DEF f, h
<1>7. SumFunctionOnSet(f, DOMAIN usedMasks) = SumFunctionOnSet(h, Tickets)
  BY <1>1, <1>2, <1>3, <1>4, <1>5, SumReindex
<1>8. QED
  BY <1>6, <1>7 DEF SumFunction, h

-------------------------------------------------------------------------------
(* Stakes, one per bettor and ticket *)

Stakes == Bettors \X Tickets

\* The units of a stake, and what they are paid.
StakeUnits ==
    [p \in Stakes |-> betsByMask[p[1]][p[2]]
                        * Weight(payoffPolicy, policyParam, p[2], winningMask)]

StakePaid == [p \in Stakes |-> (StakeUnits[p] * NetPot) \div payoutDenominator]

LEMMA StakesFinite == IsFiniteSet(Stakes)
BY BettorsAssumption, TicketsFinite, FS_Product DEF Stakes

LEMMA StakeUnitsType ==
    ASSUME TypeOK
    PROVE  \A p \in Stakes : StakeUnits[p] \in Nat
<1> SUFFICES ASSUME NEW p \in Stakes PROVE StakeUnits[p] \in Nat
  OBVIOUS
<1>1. p[1] \in Bettors /\ p[2] \in Tickets
  BY DEF Stakes
<1>2. betsByMask[p[1]][p[2]] \in Nat
  BY <1>1 DEF TypeOK
<1>3. Weight(payoffPolicy, policyParam, p[2], winningMask) \in Nat
  BY <1>1, WeightType
<1>4. QED
  BY <1>2, <1>3 DEF StakeUnits

\* The units of the stakes on one ticket are those of its pool.
LEMMA TicketUnits ==
    ASSUME TypeOK, BookConsistent, NEW m \in Tickets
    PROVE  SumFunctionOnSet(StakeUnits, {p \in Stakes : p[2] = m})
             = ticketPoolByMask[m] * Weight(payoffPolicy, policyParam, m, winningMask)
<1> DEFINE w == Weight(payoffPolicy, policyParam, m, winningMask)
           S == {p \in Stakes : p[2] = m}
           column == [b \in Bettors |-> betsByMask[b][m]]
           h == [b \in Bettors |-> betsByMask[b][m] * w]
           g == [p \in S |-> p[1]]
<1>1. w \in Int
  BY WeightType
<1>2. \A b \in Bettors : column[b] \in Int /\ h[b] \in Int /\ h[b] = column[b] * w
  <2>1. \A b \in Bettors : betsByMask[b][m] \in Nat
    BY DEF TypeOK
  <2> HIDE DEF w
  <2>2. QED
    BY <1>1, <2>1
<1>3. \A p \in S : g[p] \in Bettors /\ StakeUnits[p] = h[g[p]]
  BY DEF StakeUnits, Stakes
<1>4. \A p, q \in S : g[p] = g[q] => p = q
  BY DEF Stakes
<1>5. ASSUME NEW b \in Bettors PROVE \E p \in S : g[p] = b
  <2>1. <<b, m>> \in S /\ g[<<b, m>>] = b
    BY DEF Stakes
  <2>2. QED
    BY <2>1
<1>6. IsFiniteSet(S)
  BY StakesFinite, FS_Subset
<1>7. ticketPoolByMask[m] = SumFunctionOnSet(column, Bettors)
  BY DEF BookConsistent, SumFunction
<1> HIDE DEF w, S, column, h, g
<1>8. SumFunctionOnSet(StakeUnits, S) = SumFunctionOnSet(h, Bettors)
  BY <1>2, <1>3, <1>4, <1>5, <1>6, BettorsAssumption, SumReindex
<1>9. SumFunctionOnSet(h, Bettors) = SumFunctionOnSet(column, Bettors) * w
  BY <1>1, <1>2, BettorsAssumption, SumScale
<1>10. QED
  BY <1>7, <1>8, <1>9 DEF S, w

\* All stakes together have the units that resolve fixed as the denominator.
LEMMA AllUnits ==
    ASSUME TypeOK, BookConsistent
    PROVE  SumFunctionOnSet(StakeUnits, Stakes) = WinningUnits(winningMask)
<1> DEFINE g == [p \in Stakes |-> p[2]]
           fibre(m) == {p \in Stakes : g[p] = m}
           sums == [m \in Tickets |-> SumFunctionOnSet(StakeUnits, fibre(m))]
           units == [m \in Tickets |->
                        ticketPoolByMask[m] * Weight(payoffPolicy, policyParam, m, winningMask)]
<1>1. \A p \in Stakes : StakeUnits[p] \in Int /\ g[p] \in Tickets
  <2>1. \A p \in Stakes : g[p] \in Tickets
    BY DEF Stakes
  <2>2. QED
    BY <2>1, StakeUnitsType
<1>2. SumFunctionOnSet(StakeUnits, Stakes) = SumFunctionOnSet(sums, Tickets)
  <2> HIDE DEF g
  <2>1. QED
    BY <1>1, StakesFinite, TicketsFinite, SumFibres
<1>3. \A m \in Tickets : sums[m] = units[m]
  <2>1. \A m \in Tickets : fibre(m) = {p \in Stakes : p[2] = m}
    OBVIOUS
  <2>2. \A m \in Tickets : sums[m] = SumFunctionOnSet(StakeUnits, {p \in Stakes : p[2] = m})
    BY <2>1
  <2>3. \A m \in Tickets : units[m] =
            ticketPoolByMask[m] * Weight(payoffPolicy, policyParam, m, winningMask)
    OBVIOUS
  <2> HIDE DEF sums, units
  <2>4. QED
    BY <2>2, <2>3, TicketUnits
<1>4. sums = units
  <2>1. DOMAIN sums = Tickets /\ DOMAIN units = Tickets
        /\ sums = [m \in Tickets |-> sums[m]] /\ units = [m \in Tickets |-> units[m]]
    OBVIOUS
  <2> HIDE DEF sums, units
  <2>2. QED
    BY <1>3, <2>1
<1>5. WinningUnits(winningMask) = SumFunctionOnSet(units, Tickets)
  BY UnitsOverTickets
<1>6. QED
  BY <1>2, <1>4, <1>5

\* What b wins is what its stakes are paid, ticket by ticket.
LEMMA WinningsByStake ==
    ASSUME TypeOK, LifecycleInv, BookConsistent, state = "Resolved", NEW b \in Bettors
    PROVE  Winnings(b) = SumFunctionOnSet(StakePaid, {p \in Stakes : p[1] = b})
<1> DEFINE T == {p \in Stakes : p[1] = b}
           S == DOMAIN userMasks[b]
           g == [i \in S |-> <<b, userMasks[b][i]>>]
           f == [i \in S |->
                    LET m == userMasks[b][i]
                    IN  (betsByMask[b][m]
                           * Weight(payoffPolicy, policyParam, m, winningMask) * NetPot)
                          \div payoutDenominator]
<1>1. userMasks[b] \in Seq(Tickets) /\ IsFiniteSet(S) /\ IsFiniteSet(T)
  BY StakesFinite, FS_Interval, FS_Subset DEF TypeOK
<1>2. NetPot \in Nat /\ payoutDenominator \in Nat \ {0}
  BY TotalFeesType DEF TypeOK, LifecycleTypeOK, LifecycleInv, FeeConfigAccepted
<1>3. \A i \in S : g[i] \in T /\ f[i] = StakePaid[g[i]]
  <2>1. \A i \in S : userMasks[b][i] \in Tickets
    BY <1>1
  <2>2. QED
    BY <2>1 DEF Stakes, StakePaid, StakeUnits
<1>4. \A i, j \in S : g[i] = g[j] => i = j
  BY DEF BookConsistent, IsInjective
<1>5. \A p \in T : StakePaid[p] \in Int
  <2>1. ASSUME NEW p \in Stakes PROVE StakePaid[p] \in Int
    <3>1. StakeUnits[p] \in Nat
      BY StakeUnitsType
    <3>2. StakeUnits[p] * NetPot \in Nat
      BY <1>2, <3>1
    <3>3. QED
      BY <1>2, <3>2, FloorBound DEF StakePaid
  <2>2. QED
    BY <2>1
<1>6. ASSUME NEW p \in T, \A i \in S : g[i] # p
      PROVE  StakePaid[p] = 0
  <2>1. p[1] = b /\ p[2] \in Tickets /\ p = <<b, p[2]>>
    BY DEF Stakes
  <2>2. p[2] \notin Range(userMasks[b])
    BY <1>6, <2>1 DEF Range
  <2>3. betsByMask[b][p[2]] = 0
    BY <2>1, <2>2 DEF BookConsistent
  <2>4. Weight(payoffPolicy, policyParam, p[2], winningMask) \in Nat
    BY <2>1, WeightType
  <2>5. StakeUnits[p] = 0
    BY <2>1, <2>3, <2>4 DEF StakeUnits
  <2>6. \A n \in Nat, d \in Nat \ {0} : (0 * n) \div d = 0
    OBVIOUS
  <2>7. QED
    BY <1>2, <2>5, <2>6 DEF StakePaid
<1>7. Winnings(b) = SumFunctionOnSet(f, S)
  BY DEF Winnings, SumFunction
<1> HIDE DEF f, g, S, T
<1>8. SumFunctionOnSet(f, S) = SumFunctionOnSet(StakePaid, T)
  BY <1>1, <1>3, <1>4, <1>5, <1>6, SumReindex
<1>9. QED
  BY <1>7, <1>8 DEF T

\* A bettor without a stake wins nothing, so claim's early return costs nobody.
LEMMA NoStakeNoWinnings ==
    ASSUME TypeOK, BookConsistent, NEW b \in Bettors, userTotalBet[b] = 0
    PROVE  Winnings(b) = 0
<1>1. userMasks[b] \in Seq(Tickets) /\ betsByMask[b] \in [Tickets -> Nat]
  BY DEF TypeOK
<1>2. userTotalBet[b] = SumFunctionOnSet(betsByMask[b], Tickets)
  BY <1>1 DEF BookConsistent, SumFunction
<1>3. \A m \in Tickets : betsByMask[b][m] = 0
  <2>1. \A m \in Tickets : betsByMask[b][m] \in Nat
    BY <1>1
  <2>2. \A m \in Tickets : betsByMask[b][m] <= 0
    BY <1>2, <2>1, TicketsFinite, SumNat
  <2>3. QED
    BY <2>1, <2>2
<1>4. Range(userMasks[b]) = {}
  BY <1>3 DEF BookConsistent
<1>5. DOMAIN userMasks[b] = {}
  BY <1>4 DEF Range
<1>6. QED
  BY <1>5, SumEmpty DEF Winnings, SumFunction
-------------------------------------------------------------------------------
(* What everybody is owed, and what rounding loses *)

Dues == [b \in Bettors |-> Due(b)]

LEMMA DueType ==
    ASSUME TypeOK, LifecycleInv, NEW b \in Bettors
    PROVE  Due(b) \in Nat
<1>1. CASE Final /\ userTotalBet[b] # 0 /\ state = "Retracted"
  <2>1. /\ userTotalBet[b] \in Nat /\ totalPot \in Nat \ {0}
    BY <1>1 DEF TypeOK, LifecycleTypeOK, LifecycleInv
  <2>2. NetPot \in Nat
    BY <1>1, TotalFeesType DEF TypeOK, LifecycleTypeOK, LifecycleInv, FeeConfigAccepted
  <2>3. userTotalBet[b] * NetPot \in Nat
    BY <2>1, <2>2
  <2>4. Refund(b) \in Nat
    BY <2>1, <2>3, FloorBound DEF Refund
  <2>5. QED
    BY <1>1, <2>4 DEF Due
<1>2. CASE Final /\ userTotalBet[b] # 0 /\ state = "Resolved"
  BY <1>2, WinningsType DEF Due
<1>3. CASE ~Final \/ userTotalBet[b] = 0
  BY <1>3 DEF Due
<1>4. QED
  BY <1>1, <1>2, <1>3 DEF Final

\* All refunds of a retracted wager: the net pot, less than one unit lost for each.
LEMMA RefundsDust ==
    ASSUME TypeOK, LifecycleInv, BookConsistent, state = "Retracted", totalPot # 0
    PROVE  NetPot - SumFunctionOnSet(Dues, Bettors) \in 0..(Cardinality(RoundedDown) - 1)
<1>1. totalPot \in Nat \ {0} /\ NetPot \in Nat
  BY TotalFeesType DEF TypeOK, LifecycleTypeOK, LifecycleInv, FeeConfigAccepted
<1>2. /\ \A b \in Bettors : userTotalBet[b] \in Nat
      /\ SumFunctionOnSet(userTotalBet, Bettors) = totalPot
  BY DEF TypeOK, LifecycleTypeOK, BookConsistent, SumFunction
<1>3. \A b \in Bettors : Dues[b] = (userTotalBet[b] * NetPot) \div totalPot
  <2>1. \A n \in Nat, d \in Nat \ {0} : (0 * n) \div d = 0
    OBVIOUS
  <2>2. QED
    BY <1>1, <2>1 DEF Dues, Due, Final, Refund
<1>4. NetPot - SumFunctionOnSet(Dues, Bettors)
        \in 0..(Cardinality({b \in Bettors : userTotalBet[b] # 0}) - 1)
  BY <1>1, <1>2, <1>3, BettorsAssumption, SumFloors
<1>5. QED
  BY <1>4 DEF RoundedDown

\* All winnings of a resolved wager: the same, for each winning stake.
LEMMA WinningsDust ==
    ASSUME TypeOK, LifecycleInv, BookConsistent, state = "Resolved",
           payoutDenominator = WinningUnits(winningMask)
    PROVE  NetPot - SumFunctionOnSet(Dues, Bettors) \in 0..(Cardinality(RoundedDown) - 1)
<1>1. NetPot \in Nat /\ payoutDenominator \in Nat \ {0}
  BY TotalFeesType DEF TypeOK, LifecycleTypeOK, LifecycleInv, FeeConfigAccepted
<1>2. SumFunctionOnSet(StakeUnits, Stakes) = payoutDenominator
  BY AllUnits
<1>3. \A p \in Stakes : StakeUnits[p] \in Nat
                       /\ StakePaid[p] = (StakeUnits[p] * NetPot) \div payoutDenominator
  BY StakeUnitsType DEF StakePaid
<1>4. NetPot - SumFunctionOnSet(StakePaid, Stakes)
        \in 0..(Cardinality({p \in Stakes : StakeUnits[p] # 0}) - 1)
  BY <1>1, <1>2, <1>3, StakesFinite, SumFloors
<1>5. {p \in Stakes : StakeUnits[p] # 0} = RoundedDown
  <2>1. ASSUME NEW p \in Stakes
        PROVE  StakeUnits[p] # 0 <=>
                   /\ betsByMask[p[1]][p[2]] # 0
                   /\ TicketWins(payoffPolicy, policyParam, p[2], winningMask)
    <3>1. p[1] \in Bettors /\ p[2] \in Tickets
      BY DEF Stakes
    <3>2. betsByMask[p[1]][p[2]] \in Nat
      BY <3>1 DEF TypeOK
    <3> DEFINE w == Weight(payoffPolicy, policyParam, p[2], winningMask)
    <3>3. w \in Nat
      BY <3>1, WeightType
    <3>4. w # 0 <=> TicketWins(payoffPolicy, policyParam, p[2], winningMask)
      BY <3>1, WinningWeight
    <3>5. StakeUnits[p] = betsByMask[p[1]][p[2]] * w
      BY DEF StakeUnits
    <3> HIDE DEF w
    <3>6. \A x, y \in Nat : x * y # 0 <=> x # 0 /\ y # 0
      OBVIOUS
    <3>7. QED
      BY <3>2, <3>3, <3>4, <3>5, <3>6
  <2>2. RoundedDown = {p \in Stakes :
                          /\ betsByMask[p[1]][p[2]] # 0
                          /\ TicketWins(payoffPolicy, policyParam, p[2], winningMask)}
    BY DEF RoundedDown, Stakes
  <2>3. QED
    BY <2>1, <2>2
<1>6. SumFunctionOnSet(StakePaid, Stakes) = SumFunctionOnSet(Dues, Bettors)
  <2> DEFINE g == [p \in Stakes |-> p[1]]
             sums == [b \in Bettors |-> SumFunctionOnSet(StakePaid, {p \in Stakes : g[p] = b})]
  <2>1. \A p \in Stakes : StakePaid[p] \in Int /\ g[p] \in Bettors
    <3>1. ASSUME NEW p \in Stakes PROVE StakePaid[p] \in Int
      <4>1. StakeUnits[p] * NetPot \in Nat
        BY <1>1, <1>3
      <4>2. QED
        BY <1>1, <1>3, <4>1, FloorBound
    <3>2. \A p \in Stakes : g[p] \in Bettors
      BY DEF Stakes
    <3>3. QED
      BY <3>1, <3>2
  <2>2. \A b \in Bettors : {p \in Stakes : g[p] = b} = {p \in Stakes : p[1] = b}
    OBVIOUS
  <2>3. SumFunctionOnSet(StakePaid, Stakes) = SumFunctionOnSet(sums, Bettors)
    <3> HIDE DEF g
    <3>1. QED
      BY <2>1, StakesFinite, BettorsAssumption, SumFibres
  <2>4. \A b \in Bettors : sums[b] = Winnings(b)
    <3>1. \A b \in Bettors : sums[b] = SumFunctionOnSet(StakePaid, {p \in Stakes : p[1] = b})
      BY <2>2
    <3> HIDE DEF sums
    <3>2. QED
      BY <3>1, WinningsByStake
  <2>5. \A b \in Bettors : Dues[b] = Winnings(b)
    BY NoStakeNoWinnings DEF Dues, Due, Final
  <2>6. \A b \in Bettors : sums[b] \in Int /\ sums[b] = Dues[b]
    <3> HIDE DEF sums
    <3>1. QED
      BY <2>4, <2>5, WinningsType
  <2> HIDE DEF sums
  <2>7. QED
    BY <2>3, <2>6, BettorsAssumption, SumEqual
<1>7. QED
  BY <1>4, <1>5, <1>6

-------------------------------------------------------------------------------
(* The sum of everything owed *)

LEMMA DuesType ==
    ASSUME TypeOK, LifecycleInv
    PROVE  /\ Dues \in [Bettors -> Nat]
           /\ feeBalances \in [FeeRecipients -> Nat] /\ hasClaimed \in [Bettors -> BOOLEAN]
BY DueType DEF Dues, TypeOK, LifecycleTypeOK

LEMMA OwedIsOwedBy == Owed = OwedBy(Dues, feeBalances, hasClaimed)
BY DEF Owed, OwedBy, Dues, Claimants, BettorClaims, FeeClaims

LEMMA OwedType ==
    TypeOK /\ LifecycleInv => Owed \in [Claimants -> Nat] /\ SumFunction(Owed) \in Nat
<1> SUFFICES ASSUME TypeOK, LifecycleInv
             PROVE  Owed \in [Claimants -> Nat] /\ SumFunction(Owed) \in Nat
  OBVIOUS
<1>1. Owed \in [Claimants -> Nat]
  BY DuesType, OwedIsOwedBy, OwedByType
<1>2. SumFunctionOnSet(Owed, Claimants) \in Nat
  BY <1>1, ClaimsFinite, SumNat DEF Claimants
<1>3. QED
  BY <1>1, <1>2 DEF SumFunction

-------------------------------------------------------------------------------
(* The moment of settlement *)

\* What resolve, retract and expire leave behind: the whole pot in custody, the
\* fees credited, the denominator fixed and nobody paid.
Settled ==
    /\ Final
    /\ custody = totalPot
    /\ \A b \in Bettors : ~hasClaimed[b]
    /\ SumFunctionOnSet(feeBalances, FeeRecipients) = TotalFeesAmount
    /\ state = "Resolved" => payoutDenominator = WinningUnits(winningMask)

LEMMA EmptyPotOwesNothing ==
    ASSUME TypeOK, LifecycleInv, totalPot = 0
    PROVE  SumFunctionOnSet(Dues, Bettors) = 0
<1>1. \A b \in Bettors : userTotalBet[b] = 0
  BY DEF TypeOK, LifecycleTypeOK, LifecycleInv
<1>2. \A b \in Bettors : Dues[b] = 0
  BY <1>1 DEF Dues, Due
<1>3. QED
  BY <1>2, BettorsAssumption, SumZero

LEMMA SettledSolvent ==
    TypeOK /\ LifecycleInv /\ BookConsistent /\ Settled => Solvent
<1> SUFFICES ASSUME TypeOK, LifecycleInv, BookConsistent, Settled PROVE Solvent
  OBVIOUS
<1> DEFINE dues == SumFunctionOnSet(Dues, Bettors)
           fees == TotalFeesAmount
           k == Cardinality(RoundedDown)
<1>1. dues \in Nat /\ SumFunction(Owed) = dues + fees
  BY DuesType, OwedIsOwedBy, OwedByUnclaimed DEF Settled
<1>2. fees \in Nat /\ totalPot \in Nat /\ NetPot = totalPot - fees
  BY TotalFeesType DEF TypeOK, LifecycleTypeOK, LifecycleInv, FeeConfigAccepted, Settled,
                       Final, NetPot
<1>3. NetPot - dues = 0 \/ NetPot - dues \in 1..(k - 1)
  <2>1. k \in Nat
    <3>1. IsFiniteSet(RoundedDown)
      <4>1. state = "Resolved" => RoundedDown \in SUBSET Stakes
        BY DEF RoundedDown, Stakes
      <4>2. state # "Resolved" => RoundedDown \in SUBSET Bettors
        BY DEF RoundedDown
      <4>3. QED
        BY <4>1, <4>2, StakesFinite, BettorsAssumption, FS_Subset
    <3>2. QED
      BY <3>1, FS_CardinalityType
  <2>2. CASE NetPot - dues \in 0..(k - 1)
    <3> HIDE DEF dues, k
    <3>1. \A x \in 0..(k - 1) : x = 0 \/ x \in 1..(k - 1)
      BY <2>1
    <3>2. QED
      BY <2>2, <3>1
  <2>3. CASE state = "Resolved"
    BY <2>2, <2>3, WinningsDust DEF Settled
  <2>4. CASE state = "Retracted" /\ totalPot # 0
    BY <2>2, <2>4, RefundsDust
  <2>5. CASE state = "Retracted" /\ totalPot = 0
    <3>1. dues = 0
      BY <2>5, EmptyPotOwesNothing
    <3>2. fees = 0
      BY <2>5, TotalFeesType DEF TypeOK, LifecycleTypeOK, LifecycleInv, FeeConfigAccepted
    <3>3. QED
      BY <1>2, <2>5, <3>1, <3>2
  <2>6. QED
    BY <2>3, <2>4, <2>5 DEF Settled, Final
<1>4. custody - SumFunction(Owed) = NetPot - dues
  <2> HIDE DEF dues, fees
  <2>1. custody = totalPot
    BY DEF Settled
  <2>2. QED
    BY <1>1, <1>2, <2>1
<1>5. QED
  BY <1>3, <1>4 DEF Solvent, Settled

-------------------------------------------------------------------------------
(* Every transaction *)

\* Nobody is paid and no fee is credited before the wager is final.
NothingPaidYet ==
    ~Final => /\ \A b \in Bettors : ~hasClaimed[b]
              /\ \A r \in FeeRecipients : feeBalances[r] = 0

termsOfPayment == <<state, potVars, bookVars, policyVars, winningMask, payoutDenominator>>

LEMMA DuesFixed ==
    ASSUME UNCHANGED termsOfPayment
    PROVE  /\ \A b \in Bettors : Due(b)' = Due(b)
           /\ RoundedDown' = RoundedDown /\ Final' = Final
BY DEF termsOfPayment, potVars, bookVars, policyVars, Due, Refund, Winnings, NetPot,
       TotalFeesAmount, RoundedDown, Final

\* Claimant c is paid in full out of the custody, and nobody else is affected.
Pays(c) ==
    /\ Final
    /\ UNCHANGED termsOfPayment
    /\ custody >= Owed[c] /\ custody' = custody - Owed[c]
    /\ Owed' = [Owed EXCEPT ![c] = 0]

\* Then everybody else stays covered.
LEMMA PaysSolvent ==
    ASSUME IInv, Solvent, NEW c \in Claimants, Pays(c)
    PROVE  Solvent'
<1>1. Owed \in [Claimants -> Nat]
  BY OwedType DEF IInv
<1>2. SumFunction(Owed) \in Nat /\ SumFunction(Owed') = SumFunction(Owed) - Owed[c]
  BY <1>1, SumAfterPayment DEF Pays
<1>3. custody \in Nat /\ Owed[c] \in Nat /\ custody' = custody - Owed[c]
  BY <1>1 DEF IInv, TypeOK, LifecycleTypeOK, Pays
<1>4. custody' - SumFunction(Owed') = custody - SumFunction(Owed)
  BY <1>2, <1>3
<1>5. RoundedDown' = RoundedDown /\ Final'
  BY DuesFixed DEF Pays
<1>6. QED
  BY <1>4, <1>5 DEF Solvent, Pays

LEMMA ClaimPays ==
    ASSUME IInv, NEW b \in Bettors, Claim(b)
    PROVE  \E c \in Claimants : Pays(c)
<1> DEFINE c == <<"bettor", b>>
<1>1. /\ UNCHANGED <<termsOfPayment, feeBalances>> /\ Final /\ ~hasClaimed[b]
      /\ hasClaimed' = [hasClaimed EXCEPT ![b] = TRUE]
      /\ custody >= Due(b) /\ custody' = custody - Due(b)
  <2>1. CASE state = "Retracted" /\ PayClaim(b, Refund(b)) /\ UNCHANGED enumeratedVars
    BY <2>1 DEF PayClaim, termsOfPayment, enumeratedVars, feeVars, Due
  <2>2. CASE state = "Resolved" /\ PayClaim(b, Winnings(b)) /\ UNCHANGED enumeratedVars
    BY <2>2 DEF PayClaim, termsOfPayment, enumeratedVars, feeVars, Due
  <2>3. QED
    BY <2>1, <2>2 DEF Claim
<1>2. c \in Claimants /\ Owed[c] = Due(b)
  BY <1>1, DuesType, OwedIsOwedBy, OwedByType DEF IInv, Dues
<1>3. Dues' = Dues
  BY <1>1, DuesFixed DEF Dues
<1>4. Owed' = OwedBy(Dues', feeBalances', hasClaimed')
  BY DEF Owed, OwedBy, Dues, Claimants, BettorClaims, FeeClaims
<1>5. OwedBy(Dues, feeBalances, hasClaimed') = [Owed EXCEPT ![c] = 0]
  <2>1. Dues \in [Bettors -> Nat] /\ feeBalances \in [FeeRecipients -> Nat]
    BY DuesType DEF IInv
  <2>2. hasClaimed \in [Bettors -> BOOLEAN]
    BY DuesType DEF IInv
  <2>3. /\ hasClaimed' \in [Bettors -> BOOLEAN] /\ hasClaimed'[b]
        /\ \A e \in Bettors \ {b} : hasClaimed'[e] = hasClaimed[e]
    BY <1>1, <2>2
  <2>4. QED
    BY <2>1, <2>2, <2>3, OwedIsOwedBy, OwedByClaim
<1>6. Pays(c)
  BY <1>1, <1>2, <1>3, <1>4, <1>5 DEF Pays
<1>7. QED
  BY <1>2, <1>6

LEMMA WithdrawPays ==
    ASSUME IInv, NothingPaidYet, NEW r \in FeeRecipients,
           WithdrawFees(r), UNCHANGED enumeratedVars
    PROVE  \E c \in Claimants : Pays(c)
<1> DEFINE c == <<"fee", r>>
<1>1. /\ UNCHANGED <<termsOfPayment, hasClaimed>> /\ Final
      /\ feeBalances' = [feeBalances EXCEPT ![r] = 0]
      /\ custody >= feeBalances[r] /\ custody' = custody - feeBalances[r]
  BY DEF WithdrawFees, termsOfPayment, enumeratedVars, claimVars, NothingPaidYet
<1>2. c \in Claimants /\ Owed[c] = feeBalances[r]
  BY DuesType, OwedIsOwedBy, OwedByType DEF IInv
<1>3. Dues' = Dues
  BY <1>1, DuesFixed DEF Dues
<1>4. Owed' = OwedBy(Dues', feeBalances', hasClaimed')
  BY DEF Owed, OwedBy, Dues, Claimants, BettorClaims, FeeClaims
<1>5. OwedBy(Dues, feeBalances', hasClaimed) = [Owed EXCEPT ![c] = 0]
  <2>1. Dues \in [Bettors -> Nat] /\ feeBalances \in [FeeRecipients -> Nat]
    BY DuesType DEF IInv
  <2>2. hasClaimed \in [Bettors -> BOOLEAN]
    BY DuesType DEF IInv
  <2>3. /\ feeBalances' \in [FeeRecipients -> Nat] /\ feeBalances'[r] = 0
        /\ \A s \in FeeRecipients \ {r} : feeBalances'[s] = feeBalances[s]
    BY <1>1, <2>1
  <2>4. QED
    BY <2>1, <2>2, <2>3, OwedIsOwedBy, OwedByWithdrawal
<1>6. Pays(c)
  BY <1>1, <1>2, <1>3, <1>4, <1>5 DEF Pays
<1>7. QED
  BY <1>2, <1>6

\* Resolve, retract and expire turn the pot into dues, fees and dust.
Settles ==
    /\ state = "Open" /\ BettingClosed /\ state' \in {"Resolved", "Retracted"}
    /\ ChargeFeesOnce
    /\ UNCHANGED <<potVars, hasClaimed, custody>>
    /\ state' = "Resolved" => payoutDenominator' = WinningUnits(winningMask)'

LEMMA SettlesSolvent ==
    ASSUME IInv, IInv', BookConsistent', NothingPaidYet, Solvent, Settles
    PROVE  Solvent' /\ NothingPaidYet'
<1>1. ~Final /\ Final'
  BY DEF Settles, Final
<1>2. custody' = totalPot' /\ \A b \in Bettors : ~hasClaimed'[b]
  BY <1>1 DEF Settles, potVars, Solvent, NothingPaidYet
<1>3. SumFunctionOnSet(feeBalances', FeeRecipients) = TotalFeesAmount'
  <2>1. ~feesCharged /\ totalPot \in Nat /\ totalFeeBps <= MAX_TOTAL_FEE_BPS
        /\ feeBalances \in [FeeRecipients -> Nat]
        /\ (\A r \in FeeRecipients : feeBalances[r] = 0) /\ ChargeFeesOnce
    BY <1>1 DEF IInv, TypeOK, LifecycleTypeOK, LifecycleInv, FeeConfigAccepted, Settles,
                NothingPaidYet
  <2>2. SumFunctionOnSet(feeBalances', FeeRecipients) = TotalFeesAmount
    BY <2>1, ChargeFeesSum
  <2>3. TotalFeesAmount' = TotalFeesAmount
    BY DEF TotalFeesAmount, Settles, potVars
  <2>4. QED
    BY <2>2, <2>3
<1>4. Settled'
  BY <1>1, <1>2, <1>3 DEF Settled, Settles
<1>5. TypeOK' /\ LifecycleInv'
  BY DEF IInv
<1>6. (TypeOK /\ LifecycleInv /\ BookConsistent /\ Settled => Solvent)'
  BY SettledSolvent, PTL
<1>7. QED
  BY <1>1, <1>4, <1>5, <1>6 DEF NothingPaidYet

\* Stakes enter the pot and the custody together, while betting is open.
StakesEnter ==
    /\ ~(state = "Open" /\ BettingClosed)
    /\ ~Final /\ ~Final'
    /\ UNCHANGED <<hasClaimed, feeBalances>>
    /\ \E n \in Nat : custody' = custody + n /\ totalPot' = totalPot + n

LEMMA StakesEnterSolvent ==
    ASSUME IInv, NothingPaidYet, Solvent, StakesEnter
    PROVE  Solvent' /\ NothingPaidYet'
<1>1. ~Final /\ ~Final' /\ custody = totalPot
  BY DEF StakesEnter, Solvent
<1>2. custody' = totalPot'
  BY <1>1 DEF StakesEnter
<1>3. QED
  BY <1>1, <1>2 DEF StakesEnter, Solvent, NothingPaidYet

NoPayment == UNCHANGED <<termsOfPayment, hasClaimed, feeBalances, custody>>

LEMMA NoPaymentSolvent ==
    ASSUME NothingPaidYet, Solvent, NoPayment
    PROVE  Solvent' /\ NothingPaidYet'
<1>1. /\ Final' = Final /\ custody' = custody /\ RoundedDown' = RoundedDown
      /\ totalPot' = totalPot /\ hasClaimed' = hasClaimed /\ feeBalances' = feeBalances
      /\ \A b \in Bettors : Due(b)' = Due(b)
  BY DuesFixed DEF NoPayment, termsOfPayment, potVars
<1>2. Owed' = Owed
  BY <1>1 DEF Owed, BettorClaims, FeeClaims
<1>3. QED
  BY <1>1, <1>2 DEF Solvent, NothingPaidYet

\* What a transaction can do to the money.
LEMMA MoneyStep ==
    ASSUME IInv, NothingPaidYet, [Next]_vars
    PROVE  StakesEnter \/ Settles \/ NoPayment \/ \E c \in Claimants : Pays(c)
<1>1. CASE Create
  <2>1. PICK proposer \in Bettors, policy \in Policies, k \in PolicyParams,
             closeTime \in CloseTimes, window \in Windows,
             closer \in Closers, resCloser \in Closers, seeds \in Batches \cup {<<>>} :
             CreateEnumeratedWager(proposer, policy, k, closeTime, window, closer,
                                   resCloser, seeds)
    BY <1>1 DEF Create
  <2>2. BatchTotal(seeds) \in Nat
    BY BatchesAreSequences, BatchTotalType
  <2>3. QED
    BY <2>1, <2>2 DEF CreateEnumeratedWager, Deploy, PullCollateral, RecordBets,
                      StakesEnter, Final, claimVars, feeVars
<1>2. ASSUME NEW b \in Bettors, NEW entry \in Entry, PlaceBet(b, entry)
      PROVE  StakesEnter
  <2>1. BatchTotal(<<entry>>) = entry.amount /\ entry.amount \in Nat
    BY SingleBetTotal, BookAssumption DEF Entry
  <2>2. QED
    BY <1>2, <2>1 DEF PlaceBet, BettingAllowed, PullCollateral, RecordBets, StakesEnter,
                      Final, claimVars, feeVars
<1>3. ASSUME NEW b \in Bettors, NEW batch \in Batches, PlaceBets(b, batch)
      PROVE  StakesEnter
  <2>1. BatchTotal(batch) \in Nat
    BY BatchesAreSequences, BatchTotalType
  <2>2. QED
    BY <1>3, <2>1 DEF PlaceBets, BettingAllowed, PullCollateral, RecordBets, StakesEnter,
                      Final, claimVars, feeVars
<1>4. ASSUME NEW a \in Accounts, NEW W \in Tickets, Resolve(a, W)
      PROVE  Settles
  <2>1. WinningUnits(winningMask)' = WinningUnits(W)
    BY <1>4 DEF Resolve, WinningUnits, policyVars, bookVars
  <2>2. QED
    BY <1>4, <2>1 DEF Resolve, ResolverMayAct, Settles
<1>5. ASSUME NEW a \in Accounts, Retract(a)
      PROVE  Settles
  BY <1>5 DEF Retract, ResolverMayAct, Settles, claimVars
<1>6. CASE Expire
  BY <1>6 DEF Expire, Settles, claimVars
<1>7. ASSUME UNCHANGED enumeratedVars,
             \/ Tick
             \/ \E a \in Accounts : CloseBetting(a)
             \/ \E a \in Accounts : CloseResolutionWindow(a)
      PROVE  NoPayment
  BY <1>7 DEF Tick, CloseBetting, CloseResolutionWindow, NoPayment, termsOfPayment,
              enumeratedVars, claimVars, feeVars
<1>8. CASE UNCHANGED vars
  BY <1>8 DEF vars, lifecycleVars, enumeratedVars, NoPayment, termsOfPayment, claimVars, feeVars
<1>9. ASSUME NEW b \in Bettors, Claim(b)
      PROVE  \E c \in Claimants : Pays(c)
  BY <1>9, ClaimPays
<1>10. ASSUME NEW r \in FeeRecipients, WithdrawFees(r), UNCHANGED enumeratedVars
       PROVE  \E c \in Claimants : Pays(c)
  BY <1>10, WithdrawPays
<1>11. QED
  BY <1>1, <1>2, <1>3, <1>4, <1>5, <1>6, <1>7, <1>8, <1>9, <1>10 DEF Next

LEMMA SolvencyNext ==
    ASSUME IInv, BookConsistent, NothingPaidYet, Solvent, [Next]_vars
    PROVE  NothingPaidYet' /\ Solvent'
<1>1. IInv' /\ BookConsistent'
  BY IInvStep, BookNext
<1>2. CASE StakesEnter
  BY <1>2, StakesEnterSolvent
<1>3. CASE Settles
  BY <1>1, <1>3, SettlesSolvent
<1>4. CASE NoPayment
  BY <1>4, NoPaymentSolvent
<1>5. ASSUME NEW c \in Claimants, Pays(c)
      PROVE  NothingPaidYet' /\ Solvent'
  <2>1. Solvent'
    BY <1>5, PaysSolvent
  <2>2. Final'
    BY <1>5 DEF Pays, termsOfPayment, Final
  <2>3. QED
    BY <2>1, <2>2 DEF NothingPaidYet
<1>6. QED
  BY <1>2, <1>3, <1>4, <1>5, MoneyStep

LEMMA SolvencyInit == Init => NothingPaidYet /\ Solvent
BY DEF Init, LifecycleInit, NothingPaidYet, Solvent, Final

-------------------------------------------------------------------------------
(* A winning ticket beats its refund *)

StakeAmount == [p \in Stakes |-> betsByMask[p[1]][p[2]]]

\* All stakes together are the gross pot.
LEMMA AllStakes ==
    ASSUME TypeOK, BookConsistent
    PROVE  SumFunctionOnSet(StakeAmount, Stakes) = totalPot
<1> DEFINE fibre(b) == {p \in Stakes : p[1] = b}
           of == [p \in Stakes |-> p[1]]
           sums == [b \in Bettors |-> SumFunctionOnSet(StakeAmount, {p \in Stakes : of[p] = b})]
<1>1. \A p \in Stakes : StakeAmount[p] \in Int /\ of[p] \in Bettors
  BY DEF Stakes, StakeAmount, TypeOK
<1>2. ASSUME NEW b \in Bettors
      PROVE  SumFunctionOnSet(StakeAmount, fibre(b)) = userTotalBet[b]
  <2> DEFINE g == [p \in fibre(b) |-> p[2]]
             h == betsByMask[b]
  <2>1. \A p \in fibre(b) : g[p] \in Tickets /\ StakeAmount[p] = h[g[p]]
    BY DEF Stakes, StakeAmount
  <2>2. \A p, q \in fibre(b) : g[p] = g[q] => p = q
    BY DEF Stakes
  <2>3. \A m \in Tickets : <<b, m>> \in fibre(b) /\ g[<<b, m>>] = m
    BY DEF Stakes
  <2>4. \A m \in Tickets : h[m] \in Int
    BY DEF TypeOK
  <2>5. IsFiniteSet(fibre(b))
    BY StakesFinite, FS_Subset
  <2>6. userTotalBet[b] = SumFunctionOnSet(h, Tickets)
    BY DEF BookConsistent, SumFunction, TypeOK
  <2> HIDE DEF g, h, fibre
  <2>7. \A m \in Tickets : (\A p \in fibre(b) : g[p] # m) => h[m] = 0
    BY <2>3
  <2>8. QED
    BY <2>1, <2>2, <2>4, <2>5, <2>6, <2>7, TicketsFinite, SumReindex
<1>3. SumFunctionOnSet(StakeAmount, Stakes) = SumFunctionOnSet(sums, Bettors)
  <2> HIDE DEF of
  <2>1. QED
    BY <1>1, StakesFinite, BettorsAssumption, SumFibres
<1>4. \A b \in Bettors : sums[b] = userTotalBet[b]
  <2>1. \A b \in Bettors : {p \in Stakes : of[p] = b} = fibre(b)
    OBVIOUS
  <2>2. \A b \in Bettors : sums[b] = SumFunctionOnSet(StakeAmount, fibre(b))
    BY <2>1
  <2> HIDE DEF sums, fibre
  <2>3. QED
    BY <1>2, <2>2
<1>5. \A b \in Bettors : userTotalBet[b] \in Int
  BY DEF TypeOK, LifecycleTypeOK
<1>6. totalPot = SumFunctionOnSet(userTotalBet, Bettors)
  BY DEF BookConsistent, SumFunction, TypeOK, LifecycleTypeOK
<1> HIDE DEF sums
<1>7. \A b \in Bettors : sums[b] \in Int /\ sums[b] = userTotalBet[b]
  BY <1>4, <1>5
<1>8. SumFunctionOnSet(sums, Bettors) = SumFunctionOnSet(userTotalBet, Bettors)
  BY <1>7, BettorsAssumption, SumEqual
<1>9. QED
  BY <1>3, <1>6, <1>8

\* Without overlap weights the denominator never exceeds the gross pot.
LEMMA UnitsWithinPot ==
    ASSUME TypeOK, BookConsistent, payoffPolicy # "WEIGHTED_OVERLAP"
    PROVE  WinningUnits(winningMask) <= totalPot
<1>1. \A p \in Stakes : StakeAmount[p] \in Nat /\ StakeUnits[p] \in Nat
  BY StakeUnitsType DEF Stakes, StakeAmount, TypeOK
<1>2. ASSUME NEW p \in Stakes PROVE StakeUnits[p] * 1 <= StakeAmount[p] * 1
  <2> DEFINE w == Weight(payoffPolicy, policyParam, p[2], winningMask)
  <2>1. w \in {0, 1}
    BY DEF Weight
  <2>2. StakeUnits[p] = StakeAmount[p] * w
    BY DEF StakeUnits, StakeAmount
  <2> HIDE DEF w
  <2>3. \A a \in Nat, v \in {0, 1} : (a * v) * 1 <= a * 1
    OBVIOUS
  <2>4. QED
    BY <1>1, <2>1, <2>2, <2>3
<1>3. SumFunctionOnSet(StakeUnits, Stakes) * 1 <= SumFunctionOnSet(StakeAmount, Stakes) * 1
  BY <1>1, <1>2, StakesFinite, SumScaledBound
<1>4. WinningUnits(winningMask) * 1 <= totalPot * 1
  BY <1>3, AllUnits, AllStakes
<1>5. WinningUnits(winningMask) \in Nat /\ totalPot \in Nat
  BY WinningUnitsType DEF TypeOK, LifecycleTypeOK
<1>6. QED
  BY <1>4, <1>5

\* The denominator resolve fixed stays that of the winning mask: the book is
\* frozen by then.
DenominatorFixed == state = "Resolved" => payoutDenominator = WinningUnits(winningMask)

LEMMA DenominatorNext ==
    ASSUME IInv, NothingPaidYet, DenominatorFixed, [Next]_vars
    PROVE  DenominatorFixed'
<1>1. CASE UNCHANGED termsOfPayment
  BY <1>1 DEF DenominatorFixed, WinningUnits, termsOfPayment, bookVars, policyVars
<1>2. CASE StakesEnter
  BY <1>2 DEF StakesEnter, Final, DenominatorFixed
<1>3. CASE Settles
  BY <1>3 DEF Settles, DenominatorFixed
<1>4. QED
  BY <1>1, <1>2, <1>3, MoneyStep DEF NoPayment, Pays

LEMMA TicketBeatsRefund ==
    IInv /\ BookConsistent /\ DenominatorFixed => WinningTicketBeatsRefund
<1> SUFFICES ASSUME IInv, BookConsistent, DenominatorFixed,
                    state = "Resolved", payoffPolicy # "WEIGHTED_OVERLAP",
                    NEW b \in Bettors, NEW m \in Range(userMasks[b])
             PROVE  (betsByMask[b][m] * NetPot) \div payoutDenominator
                      >= (betsByMask[b][m] * NetPot) \div totalPot
  BY DEF WinningTicketBeatsRefund
<1>1. payoutDenominator <= totalPot
  BY UnitsWithinPot DEF DenominatorFixed, IInv
<1>2. payoutDenominator \in Nat \ {0} /\ totalPot \in Nat \ {0}
  <2>1. payoutDenominator \in Nat \ {0} /\ totalPot \in Nat
    BY DEF IInv, TypeOK, LifecycleTypeOK, LifecycleInv
  <2>2. QED
    BY <1>1, <2>1
<1>3. betsByMask[b][m] \in Nat
  <2>1. m \in Tickets
    BY DEF BookConsistent
  <2>2. QED
    BY <2>1 DEF IInv, TypeOK
<1>4. NetPot \in Nat
  BY TotalFeesType DEF IInv, TypeOK, LifecycleTypeOK, LifecycleInv, FeeConfigAccepted
<1>5. betsByMask[b][m] * NetPot \in Nat
  BY <1>3, <1>4
<1>6. ASSUME NEW x \in Nat, NEW d \in Nat \ {0}, NEW e \in Nat \ {0}, d <= e
      PROVE  x \div d >= x \div e
  <2> DEFINE q == x \div d
             r == x \div e
  <2>1. q \in Nat /\ r \in Nat /\ x < (q + 1) * d /\ r * e <= x
    OBVIOUS
  <2> HIDE DEF q, r
  <2>2. r * d <= r * e
    BY <2>1, <1>6
  <2>3. SUFFICES ASSUME q < r PROVE FALSE
    BY <2>1 DEF q, r
  <2>4. q + 1 <= r
    BY <2>1, <2>3
  <2>5. (q + 1) * d <= r * d
    BY <2>1, <2>4
  <2>6. QED
    BY <2>1, <2>2, <2>5
<1>7. QED
  BY <1>1, <1>2, <1>5, <1>6

-------------------------------------------------------------------------------
(* The promise of an escrow *)

Phase == IF Final THEN "settled"
         ELSE IF state = "Open" /\ BettingClosed THEN "locked"
         ELSE "collecting"

\* The sum that the instantiated module sees is the one used here.
LEMMA EscrowSum ==
    ASSUME NEW f
    PROVE  EscrowView!SumFunction(f) = SumFunction(f)
BY DEF EscrowView!SumFunction, EscrowView!SumFunctionOnSet, EscrowView!FoldFunctionOnSet,
       EscrowView!MapThenFoldSet, SumFunction, SumFunctionOnSet, FoldFunctionOnSet,
       MapThenFoldSet

LEMMA EscrowInitially == Init => EscrowView!EscrowInit
<1> SUFFICES ASSUME Init PROVE EscrowView!EscrowInit
  OBVIOUS
<1>1. ~Final /\ state = "Undeployed" /\ custody = 0
      /\ \A r \in FeeRecipients : feeBalances[r] = 0
  BY DEF Init, LifecycleInit, Final
<1>2. Owed = [c \in ({"bettor"} \X Bettors) \cup ({"fee"} \X FeeRecipients) |-> 0]
  BY <1>1 DEF Owed, Due
<1>3. QED
  BY <1>1, <1>2 DEF EscrowView!EscrowInit

\* Nothing is owed before the wager is final.
LEMMA OwedBefore == NothingPaidYet /\ ~Final => Owed = [c \in Claimants |-> 0]
BY DEF NothingPaidYet, Owed, Due, Claimants, BettorClaims, FeeClaims

LEMMA DepositSimulated ==
    ASSUME IInv, NothingPaidYet, NothingPaidYet', StakesEnter
    PROVE  [EscrowView!EscrowNext]_(EscrowView!escrowVars)
<1>1. Phase = "collecting" /\ Phase' \in {"collecting", "locked"}
  BY DEF Phase, StakesEnter
<1>2. Owed' = Owed
  <2>1. (NothingPaidYet /\ ~Final => Owed = [c \in Claimants |-> 0])'
    BY OwedBefore, PTL
  <2>2. QED
    BY <2>1, OwedBefore DEF StakesEnter
<1>3. custody' > custody \/ custody' = custody
  <2>1. custody \in Nat
    BY DEF IInv, TypeOK, LifecycleTypeOK
  <2>2. QED
    BY <2>1 DEF StakesEnter
<1>4. QED
  BY <1>1, <1>2, <1>3 DEF Phase, EscrowView!EscrowNext, EscrowView!Deposit, EscrowView!Lock,
                          EscrowView!escrowVars

LEMMA LockSimulated ==
    ASSUME IInv, NoPayment, state = "Open" /\ BettingClosed => BettingClosed'
    PROVE  [EscrowView!EscrowNext]_(EscrowView!escrowVars)
<1>1. Owed' = Owed /\ custody' = custody /\ Final' = Final /\ state' = state
  <2>1. /\ Final' = Final /\ \A b \in Bettors : Due(b)' = Due(b)
        /\ hasClaimed' = hasClaimed /\ feeBalances' = feeBalances
        /\ custody' = custody /\ state' = state
    BY DuesFixed DEF NoPayment, termsOfPayment
  <2>2. QED
    BY <2>1 DEF Owed
<1>2. Phase' = Phase \/ (Phase = "collecting" /\ Phase' = "locked")
  BY <1>1 DEF Phase
<1>3. QED
  BY <1>1, <1>2 DEF Phase, EscrowView!EscrowNext, EscrowView!Lock, EscrowView!escrowVars

LEMMA SettleSimulated ==
    ASSUME IInv, IInv', NothingPaidYet, Solvent, Solvent', Settles
    PROVE  EscrowView!EscrowNext
<1>1. Phase = "locked" /\ Phase' = "settled" /\ Final'
  BY DEF Phase, Settles, Final
<1>2. TypeOK' /\ LifecycleInv'
  BY DEF IInv
<1>3. Owed' \in [Claimants -> Nat] /\ SumFunction(Owed') \in Nat
  <2>1. (TypeOK /\ LifecycleInv =>
           Owed \in [Claimants -> Nat] /\ SumFunction(Owed) \in Nat)'
    BY OwedType, PTL
  <2>2. QED
    BY <1>2, <2>1
<1>4. SumFunction(Owed') <= custody'
  <2>1. custody' \in Nat /\ SumFunction(Owed') \in Nat
    BY <1>2, <1>3 DEF TypeOK, LifecycleTypeOK
  <2>2. custody' - SumFunction(Owed') = 0
        \/ custody' - SumFunction(Owed') \in 1..(Cardinality(RoundedDown') - 1)
    BY <1>1 DEF Solvent
  <2>3. custody' - SumFunction(Owed') >= 0
    <3>1. \A k, x : x \in 1..k => x \in Int /\ x >= 1
      OBVIOUS
    <3>2. QED
      BY <2>1, <2>2, <3>1
  <2>4. QED
    BY <2>1, <2>3
<1>5. custody' = custody
  BY DEF Settles
<1>6. EscrowView!Settle
  BY <1>1, <1>3, <1>4, <1>5, EscrowSum
     DEF Phase, Claimants, BettorClaims, FeeClaims, EscrowView!Settle
<1>7. QED
  BY <1>6 DEF EscrowView!EscrowNext

\* A transfer out of the custody pays one claimant in full.
LEMMA PaymentSimulated ==
    ASSUME IInv, NEW c \in Claimants, Pays(c)
    PROVE  [EscrowView!EscrowNext]_(EscrowView!escrowVars)
<1>1. Owed[c] \in Nat /\ custody \in Nat
  BY OwedType DEF IInv, TypeOK, LifecycleTypeOK, Claimants
<1>2. Phase = "settled" /\ Phase' = "settled"
  BY DEF Phase, Final, Pays, termsOfPayment
<1>3. CASE Owed[c] = 0
  <2>1. Owed' = Owed
    <3>1. Owed = [d \in Claimants |-> Owed[d]]
      BY DEF Owed, Claimants, BettorClaims, FeeClaims
    <3>2. QED
      BY <1>3, <3>1 DEF Pays
  <2>2. custody' = custody
    BY <1>1, <1>3 DEF Pays
  <2>3. QED
    BY <1>2, <2>1, <2>2 DEF Phase, EscrowView!escrowVars
<1>4. CASE Owed[c] > 0
  <2>1. EscrowView!Pay(c)
    BY <1>2, <1>4 DEF Phase, Pays, EscrowView!Pay
  <2>2. QED
    BY <2>1 DEF EscrowView!EscrowNext, Claimants, BettorClaims, FeeClaims
<1>5. QED
  BY <1>1, <1>3, <1>4

\* Betting that has closed never opens again.
LEMMA ClosedForGood ==
    ASSUME IInv, [Next]_vars, state = "Open", BettingClosed
    PROVE  BettingClosed'
<1>1. IInv'
  BY IInvStep
<1>2. BettingClosedAt # 0
  BY ClosedHasAnchor DEF IInv, LifecycleIInv, TypeOK
<1>3. [BettingClosed => BettingClosedAt' = BettingClosedAt]_lifecycleVars
  BY EnumeratedStep, LifecycleAnchorNeverMoves DEF IInv, LifecycleIInv, TypeOK
<1>4. BettingClosedAt' = BettingClosedAt
  BY <1>3 DEF lifecycleVars, termsVars, authorityVars, bettingVars, BettingClosedAt, BettingClosed
<1>5. QED
  BY <1>2, <1>4 DEF BettingClosedAt, BettingClosed

LEMMA EscrowStep ==
    ASSUME IInv, BookConsistent, NothingPaidYet, Solvent, [Next]_vars
    PROVE  [EscrowView!EscrowNext]_(EscrowView!escrowVars)
<1>1. IInv' /\ NothingPaidYet' /\ Solvent'
  BY IInvStep, SolvencyNext
<1>2. CASE StakesEnter
  BY <1>1, <1>2, DepositSimulated
<1>3. CASE Settles
  BY <1>1, <1>3, SettleSimulated
<1>4. CASE NoPayment
  BY <1>4, ClosedForGood, LockSimulated
<1>5. ASSUME NEW c \in Claimants, Pays(c)
      PROVE  [EscrowView!EscrowNext]_(EscrowView!escrowVars)
  BY <1>5, PaymentSimulated
<1>6. QED
  BY <1>2, <1>3, <1>4, <1>5, MoneyStep

-------------------------------------------------------------------------------
(* Theorems *)

\* The invariant of the money: custody covers what is owed, nothing is paid
\* early, and the denominator is that of the frozen book.
MoneyInv == IInv /\ BookConsistent /\ NothingPaidYet /\ Solvent /\ DenominatorFixed

LEMMA MoneyInvariant == Spec => []MoneyInv
<1>1. Init => MoneyInv
  BY IInvInit, BookInit, SolvencyInit DEF MoneyInv, Init, LifecycleInit, DenominatorFixed
<1>2. MoneyInv /\ [Next]_vars => MoneyInv'
  BY IInvStep, BookNext, SolvencyNext, DenominatorNext DEF MoneyInv
<1>3. QED
  BY <1>1, <1>2, PTL DEF Spec

\* Whatever bets, seeds, policies and fees, and whoever collects first: an open
\* wager holds the pot, a final one everything it still owes, and rounding
\* strands less than one unit for each amount floored.
THEOREM Solvency == Spec => []Solvent
<1>1. MoneyInv => Solvent
  BY DEF MoneyInv
<1>2. QED
  BY <1>1, MoneyInvariant, PTL

\* A winning ticket is never paid less than its refund, unless the policy weights
\* overlaps.
THEOREM WinnersBeatRefunds == Spec => []WinningTicketBeatsRefund
<1>1. MoneyInv => WinningTicketBeatsRefund
  BY TicketBeatsRefund DEF MoneyInv
<1>2. QED
  BY <1>1, MoneyInvariant, PTL

\* Every behaviour of the wager is one of the abstract escrow: bets are locked in
\* before the verdict, which fixes what each claimant gets, once and in full.
THEOREM EscrowImplemented == Spec => ImplementsEscrow
<1>1. MoneyInv /\ [Next]_vars => [EscrowView!EscrowNext]_(EscrowView!escrowVars)
  BY EscrowStep DEF MoneyInv
<1>2. QED
  BY <1>1, EscrowInitially, MoneyInvariant, PTL DEF Spec, ImplementsEscrow, EscrowView!EscrowSpec

-------------------------------------------------------------------------------
(* The quotes: what the clients do to the wager *)

BatchOf(legs) ==
    [i \in DOMAIN legs |-> [mask |-> {legs[i].option}, amount |-> legs[i].amount]]

\* What a quote is made of.
LegsTyped(legs) ==
    /\ legs \in Seq(Leg) /\ legs # <<>>
    /\ \A i, j \in DOMAIN legs : legs[i].option = legs[j].option => i = j

QuoteTyped == quote # NoQuote => quote.status \in {"quoted", "placed"} /\ LegsTyped(quote.legs)

LEMMA BatchTyped ==
    ASSUME NEW legs, LegsTyped(legs)
    PROVE  /\ BatchOf(legs) \in Seq(Entry) /\ BatchOf(legs) # <<>>
           /\ Len(BatchOf(legs)) = Len(legs) /\ Len(legs) \in Nat
           /\ \A i \in 1..Len(legs) : /\ legs[i].option \in Options /\ legs[i].amount \in Nat \ {0}
                                      /\ BatchOf(legs)[i].mask = {legs[i].option}
                                      /\ BatchOf(legs)[i].amount = legs[i].amount
                                      /\ {legs[i].option} \in Tickets
<1>1. legs \in Seq(Leg) /\ legs # <<>> /\ DOMAIN legs = 1..Len(legs) /\ Len(legs) \in Nat
  BY DEF LegsTyped
<1>2. ASSUME NEW i \in 1..Len(legs)
      PROVE  /\ legs[i].option \in Options /\ legs[i].amount \in StakeSizes \ {0}
             /\ legs[i].amount \in Nat \ {0} /\ {legs[i].option} \in Tickets
  <2>1. legs[i] \in Leg
    BY <1>1
  <2>2. legs[i].option \in Options /\ legs[i].amount \in StakeSizes \ {0}
    BY <2>1 DEF Leg
  <2>3. {legs[i].option} \in Tickets
    BY <2>2, OptionsAssumption DEF Tickets
  <2>4. QED
    BY <2>2, <2>3, BookAssumption
<1>3. \A i \in 1..Len(legs) :
          BatchOf(legs)[i] = [mask |-> {legs[i].option}, amount |-> legs[i].amount]
  BY <1>1 DEF BatchOf
<1>4. ASSUME NEW i \in 1..Len(legs) PROVE BatchOf(legs)[i] \in Entry
  <2>1. BatchOf(legs)[i] = [mask |-> {legs[i].option}, amount |-> legs[i].amount]
    BY <1>3
  <2>2. QED
    BY <1>2, <2>1 DEF Entry
<1>5. BatchOf(legs) \in [1..Len(legs) -> Entry]
  <2>1. BatchOf(legs) = [i \in 1..Len(legs) |-> BatchOf(legs)[i]]
    BY <1>1 DEF BatchOf
  <2>2. QED
    BY <1>4, <2>1
<1>6. BatchOf(legs) \in Seq(Entry) /\ Len(BatchOf(legs)) = Len(legs)
  BY <1>1, <1>5
<1>7. BatchOf(legs) # <<>>
  BY <1>1, <1>6
<1>8. ASSUME NEW i \in 1..Len(legs)
      PROVE  BatchOf(legs)[i].mask = {legs[i].option} /\ BatchOf(legs)[i].amount = legs[i].amount
  <2>1. BatchOf(legs)[i] = [mask |-> {legs[i].option}, amount |-> legs[i].amount]
    BY <1>3
  <2>2. QED
    BY <2>1
<1>9. QED
  BY <1>1, <1>2, <1>6, <1>7, <1>8

\* A batch of any length keeps what is proved of the wager.
LEMMA BatchKeeps ==
    ASSUME MoneyInv, NEW b \in Bettors, NEW batch \in Seq(Entry), PlaceBets(b, batch)
    PROVE  LifecycleNext /\ MoneyInv' /\ Positive(batch) /\ RecordBets(b, batch)
<1>1. /\ PullCollateral(BatchTotal(batch)) /\ RecordBets(b, batch) /\ BettingAllowed
      /\ Positive(batch)
      /\ UNCHANGED <<now, state, termsVars, authorityVars, feeVars, claimVars,
                     policyVars, winningMask>>
  BY DEF PlaceBets, EntryAccepted, Positive
<1>2. LifecycleNext /\ EnumeratedTypeOK'
  BY <1>1, StakingStep DEF MoneyInv
<1>3. IInv'
  <2>1. LifecycleIInv'
    BY <1>2, LifecycleStepInv DEF MoneyInv, IInv, LifecycleIInv, TypeOK
  <2>2. QED
    BY <1>2, <2>1, TypeOKLayers DEF IInv, LifecycleIInv, TypeOK, EnumeratedTypeOK
<1>4. BookConsistent'
  BY <1>1, RecordBetsBook DEF MoneyInv, IInv
<1>5. NothingPaidYet' /\ Solvent' /\ DenominatorFixed'
  <2>1. BatchTotal(batch) \in Nat
    BY BatchTotalType
  <2>2. StakesEnter
    BY <1>1, <2>1 DEF BettingAllowed, PullCollateral, RecordBets, StakesEnter, Final,
                      claimVars, feeVars
  <2>3. QED
    BY <2>2, StakesEnterSolvent DEF MoneyInv, StakesEnter, Final, DenominatorFixed
<1>6. QED
  BY <1>1, <1>2, <1>3, <1>4, <1>5 DEF MoneyInv

\* Signing the calldata of a quote is a batch of the client.
LEMMA SubmitIsBatch ==
    ASSUME ClientAssumption, QuoteTyped, Submit
    PROVE  /\ PlaceBets(Client, BatchOf(quote.legs)) /\ LegsTyped(quote.legs)
           /\ quote' = [quote EXCEPT !.status = "placed"] /\ quote.status = "quoted"
           /\ view' = view /\ Client \in Bettors
<1> DEFINE batch == BatchOf(quote.legs)
<1>1. quote.status = "quoted" /\ quote # NoQuote /\ Client \in Bettors
  BY DEF Submit, ClientAssumption, NoQuote
<1>2. LegsTyped(quote.legs)
  BY <1>1 DEF QuoteTyped
<1>3. /\ batch \in Seq(Entry) /\ batch # <<>>
  BY <1>2, BatchTyped
<1>4. IF Len(batch) = 1 THEN PlaceBet(Client, batch[1]) ELSE PlaceBets(Client, batch)
  BY DEF Submit, BatchOf
<1> HIDE DEF batch
<1>5. CASE Len(batch) = 1
  <2>1. batch[1] \in Entry /\ batch = <<batch[1]>>
    BY <1>3, <1>5
  <2>2. BatchTotal(batch) = batch[1].amount
    BY <2>1, SingleBetTotal
  <2>3. \A i \in DOMAIN batch : i = 1
    BY <1>3, <1>5
  <2>4. RecordBets(Client, <<batch[1]>>) => RecordBets(Client, batch)
    BY <2>1
  <2>5. PlaceBets(Client, batch)
    BY <1>3, <1>4, <1>5, <2>2, <2>3, <2>4 DEF PlaceBet, PlaceBets
  <2>6. QED
    BY <1>1, <1>2, <2>5 DEF Submit, batch
<1>6. CASE Len(batch) # 1
  BY <1>1, <1>2, <1>4, <1>6 DEF Submit, batch
<1>7. QED
  BY <1>5, <1>6

LEMMA WagerKeeps ==
    ASSUME MoneyInv, [Next]_vars
    PROVE  [LifecycleNext]_lifecycleVars /\ MoneyInv'
BY EnumeratedStep, IInvStep, BookNext, SolvencyNext, DenominatorNext DEF MoneyInv

\* A view never runs ahead of the wager.
ViewInv ==
    view # NotIndexed =>
        /\ state # "Undeployed"
        /\ view.closeTime = bettingCloseTime
        /\ view.closedByAuthority => bettingClosedByAuthority
        /\ view.state # "Open" => state # "Open"

LEMMA LifecycleKeepsView ==
    ASSUME ViewInv, [LifecycleNext]_lifecycleVars, UNCHANGED view
    PROVE  ViewInv'
<1>1. CASE UNCHANGED lifecycleVars
  BY <1>1 DEF ViewInv, lifecycleVars, termsVars, authorityVars, bettingVars
<1>2. CASE LifecycleNext
  BY <1>2 DEF ViewInv, LifecycleNext, Deploy, Tick, CloseBetting, CloseResolutionWindow, StakeStep,
              ResolveStep, ResolverMayAct, Retract, Expire, PayClaim, WithdrawFees,
              termsVars, authorityVars, bettingVars
<1>3. QED
  BY <1>1, <1>2

LEMMA ViewIsHonest ==
    IInv /\ ViewInv => RefusalsAreFinal
<1>1. SUFFICES ASSUME IInv, ViewInv, view # NotIndexed
               PROVE  /\ ~BettingOpenStatus(view, now) => ~BettingAllowed
                      /\ view = IndexedRow => (BettingOpenStatus(view, now) <=> BettingAllowed)
  BY DEF RefusalsAreFinal
<1>2. now \in Nat /\ bettingCloseTime \in Nat
  BY <1>1 DEF IInv, TypeOK, LifecycleTypeOK
<1>3. QED
  BY <1>1, <1>2 DEF ViewInv, BettingOpenStatus, BettingAllowed, BettingClosed, IndexedRow

-------------------------------------------------------------------------------
(* Picks *)

RowTyped(row) == row.pools \in [Tickets -> Nat] /\ row.pot \in Nat /\ row.feeBps = 0

\* Each option has an index.
LEMMA OptionsIndexed ==
    ASSUME ClientAssumption
    PROVE  /\ DOMAIN OptionSeq \subseteq Nat
           /\ \A i \in DOMAIN OptionSeq : OptionSeq[i] \in Options /\ {OptionSeq[i]} \in Tickets
           /\ \A o \in Options : \E i \in DOMAIN OptionSeq : OptionSeq[i] = o
BY OptionsAssumption DEF ClientAssumption, Range, Tickets

LEMMA SmallestPool ==
    ASSUME ClientAssumption, Options # {}, NEW row, RowTyped(row)
    PROVE  \E i \in DOMAIN OptionSeq : \A j \in DOMAIN OptionSeq :
               row.pools[{OptionSeq[i]}] <= row.pools[{OptionSeq[j]}]
<1> DEFINE sizes == {row.pools[{OptionSeq[i]}] : i \in DOMAIN OptionSeq}
<1>1. sizes \in SUBSET Nat /\ sizes # {}
  BY OptionsIndexed DEF RowTyped
<1>2. PICK n \in sizes : \A m \in sizes : n <= m
  <2> HIDE DEF sizes
  <2>1. QED
    BY <1>1, LeastNatural
<1>3. QED
  BY <1>2

LEMMA PickIsBest ==
    ASSUME ClientAssumption, Options # {}, NEW row, RowTyped(row),
           NEW strategy \in Strategies, NEW amount \in Nat \ {0}, NEW o \in Options
    PROVE  LET picked == PickOutcome(strategy, row, amount)
           IN  /\ picked \in Options
               /\ \/ row.pools[{picked}] <= row.pools[{o}]
                  \/ /\ strategy = "best_post_multiple"
                     /\ Score(row, picked, amount) = Score(row, o, amount)
<1> DEFINE D == DOMAIN OptionSeq
           size(i) == row.pools[{OptionSeq[i]}]
           score(i) == Score(row, OptionSeq[i], amount)
<1>1. \A i \in D : size(i) \in Nat
  BY OptionsIndexed DEF RowTyped
<1>2. PICK least \in D : \A j \in D : size(least) <= size(j)
  BY SmallestPool
<1>3. ASSUME NEW i \in D, NEW j \in D, size(i) <= size(j)
      PROVE  score(i) >= score(j) /\ score(i) \in Nat
  <2>1. size(i) \in Nat /\ size(j) \in Nat /\ row.pot \in Nat /\ row.feeBps = 0
    BY <1>1 DEF RowTyped
  <2>2. /\ score(i) = PostBetMultiple(amount, size(i), row.pot, 0)
        /\ score(j) = PostBetMultiple(amount, size(j), row.pot, 0)
    BY <2>1 DEF Score
  <2>3. size(i) <= size(j)
    BY <1>3
  <2> HIDE DEF size, score
  <2>4. /\ PostBetMultiple(amount, size(i), row.pot, 0)
             >= PostBetMultiple(amount, size(j), row.pot, 0)
        /\ PostBetMultiple(amount, size(i), row.pot, 0) \in Nat
    BY <2>1, <2>3, SmallerPoolScoresMore
  <2>5. QED
    BY <2>2, <2>4
<1>4. \A i \in D : score(i) \in Nat
  <2>1. \A i \in D : size(i) <= size(i)
    BY <1>1
  <2> HIDE DEF size, score
  <2>2. QED
    BY <1>3, <2>1
<1>5. PICK at \in D : OptionSeq[at] = o
  BY OptionsIndexed
<1>6. CASE strategy = "min_liquidity"
  <2> DEFINE best == {i \in D : \A j \in D : ~(size(j) < size(i))}
             first == CHOOSE i \in best : \A j \in best : i <= j
  <2>1. PickOutcome(strategy, row, amount) = OptionSeq[first]
    BY <1>6 DEF PickOutcome, FirstBest
  <2>2. best \in SUBSET Nat /\ best # {}
    <3>1. least \in best
      <4> HIDE DEF size
      <4>1. QED
        BY <1>1, <1>2
    <3>2. QED
      BY <3>1, OptionsIndexed
  <2>3. first \in best
    <3> HIDE DEF best
    <3>1. QED
      BY <2>2, LeastNatural
  <2>4. first \in D /\ size(first) <= size(at)
    <3> HIDE DEF size, first
    <3>1. QED
      BY <1>1, <1>5, <2>3
  <2>5. QED
    BY <1>5, <2>1, <2>4, OptionsIndexed
<1>7. CASE strategy # "min_liquidity"
  <2> DEFINE best == {i \in D : \A j \in D : ~(score(j) > score(i))}
             first == CHOOSE i \in best : \A j \in best : i <= j
  <2>1. PickOutcome(strategy, row, amount) = OptionSeq[first]
    BY <1>7 DEF PickOutcome, FirstBest
  <2>2. best \in SUBSET Nat /\ best # {}
    <3>1. least \in best
      <4> HIDE DEF size, score
      <4>1. QED
        BY <1>2, <1>3, <1>4
    <3>2. QED
      BY <3>1, OptionsIndexed
  <2>3. first \in best
    <3> HIDE DEF best
    <3>1. QED
      BY <2>2, LeastNatural
  <2>4. first \in D /\ (size(first) <= size(at) \/ score(first) = score(at))
    <3> HIDE DEF size, score, first
    <3>1. QED
      BY <1>1, <1>3, <1>4, <1>5, <2>3
  <2>5. QED
    BY <1>5, <1>7, <2>1, <2>4, OptionsIndexed DEF Strategies
<1>8. QED
  BY <1>6, <1>7

-------------------------------------------------------------------------------
(* Payouts *)

\* All pools together are the gross pot.
LEMMA PoolsArePot ==
    ASSUME TypeOK, BookConsistent
    PROVE  SumFunctionOnSet(ticketPoolByMask, Tickets) = totalPot
<1> DEFINE fibre(m) == {p \in Stakes : p[2] = m}
           on == [p \in Stakes |-> p[2]]
           sums == [m \in Tickets |-> SumFunctionOnSet(StakeAmount, {p \in Stakes : on[p] = m})]
<1>1. \A p \in Stakes : StakeAmount[p] \in Int /\ on[p] \in Tickets
  BY DEF Stakes, StakeAmount, TypeOK
<1>2. ASSUME NEW m \in Tickets
      PROVE  SumFunctionOnSet(StakeAmount, fibre(m)) = ticketPoolByMask[m]
  <2> DEFINE g == [p \in fibre(m) |-> p[1]]
             h == [b \in Bettors |-> betsByMask[b][m]]
  <2>1. \A p \in fibre(m) : g[p] \in Bettors /\ StakeAmount[p] = h[g[p]]
    BY DEF Stakes, StakeAmount
  <2>2. \A p, q \in fibre(m) : g[p] = g[q] => p = q
    BY DEF Stakes
  <2>3. \A b \in Bettors : <<b, m>> \in fibre(m) /\ g[<<b, m>>] = b
    BY DEF Stakes
  <2>4. \A b \in Bettors : h[b] \in Int
    BY DEF TypeOK
  <2>5. IsFiniteSet(fibre(m))
    BY StakesFinite, FS_Subset
  <2>6. ticketPoolByMask[m] = SumFunctionOnSet(h, Bettors)
    BY DEF BookConsistent, SumFunction, TypeOK
  <2> HIDE DEF g, h, fibre
  <2>7. \A b \in Bettors : (\A p \in fibre(m) : g[p] # b) => h[b] = 0
    BY <2>3
  <2>8. QED
    BY <2>1, <2>2, <2>4, <2>5, <2>6, <2>7, BettorsAssumption, SumReindex
<1>3. SumFunctionOnSet(StakeAmount, Stakes) = SumFunctionOnSet(sums, Tickets)
  <2> HIDE DEF on
  <2>1. QED
    BY <1>1, StakesFinite, TicketsFinite, SumFibres
<1>4. \A m \in Tickets : sums[m] = ticketPoolByMask[m]
  <2>1. \A m \in Tickets : {p \in Stakes : on[p] = m} = fibre(m)
    OBVIOUS
  <2>2. \A m \in Tickets : sums[m] = SumFunctionOnSet(StakeAmount, fibre(m))
    BY <2>1
  <2> HIDE DEF sums, fibre
  <2>3. QED
    BY <1>2, <2>2
<1> HIDE DEF sums
<1>5. \A m \in Tickets : sums[m] \in Int /\ sums[m] = ticketPoolByMask[m]
  BY <1>4 DEF TypeOK
<1>6. SumFunctionOnSet(sums, Tickets) = SumFunctionOnSet(ticketPoolByMask, Tickets)
  BY <1>5, TicketsFinite, SumEqual
<1>7. QED
  BY <1>3, <1>6, AllStakes

\* g holds what f does, and the first n entries of the batch besides.
GrownBy(f, g, batch, n) ==
    /\ g \in [Tickets -> Nat]
    /\ \A m \in Tickets : f[m] <= g[m]
    /\ \A i \in 1..n : f[batch[i].mask] + batch[i].amount <= g[batch[i].mask]

LEMMA GrownByNext ==
    ASSUME NEW f \in [Tickets -> Nat], NEW g, NEW batch \in Seq(Entry), NEW n \in 1..Len(batch),
           GrownBy(f, g, batch, n - 1),
           NEW h, h = [g EXCEPT ![batch[n].mask] = @ + batch[n].amount]
    PROVE  GrownBy(f, h, batch, n)
<1>1. ASSUME NEW i \in 1..Len(batch) PROVE batch[i].mask \in Tickets /\ batch[i].amount \in Nat
  <2>1. batch[i] \in Entry
    OBVIOUS
  <2>2. QED
    BY <2>1, BookAssumption DEF Entry
<1>2. g \in [Tickets -> Nat] /\ \A m \in Tickets : f[m] <= g[m]
  BY DEF GrownBy
<1> DEFINE m == batch[n].mask
           a == batch[n].amount
<1>3. m \in Tickets /\ a \in Nat /\ h = [g EXCEPT ![m] = @ + a]
  BY <1>1
<1> HIDE DEF m, a
<1>4. h \in [Tickets -> Nat] /\ h[m] = g[m] + a /\ \A t \in Tickets : g[t] <= h[t]
  <2>1. g[m] \in Nat /\ g[m] + a \in Nat
    BY <1>2, <1>3
  <2>2. h \in [Tickets -> Nat] /\ h[m] = g[m] + a
    BY <1>2, <1>3, <2>1
  <2>3. ASSUME NEW t \in Tickets PROVE g[t] <= h[t]
    <3>1. g[t] \in Nat
      BY <1>2
    <3>2. t # m => h[t] = g[t]
      BY <1>2, <1>3
    <3>3. t = m => g[t] <= h[t]
      BY <1>3, <2>1, <2>2
    <3>4. t # m => g[t] <= h[t]
      BY <3>1, <3>2
    <3>5. QED
      BY <3>3, <3>4
  <2>4. QED
    BY <2>2, <2>3
<1>5. \A t \in Tickets : f[t] \in Nat /\ g[t] \in Nat /\ h[t] \in Nat
  BY <1>2, <1>4
<1>6. \A t \in Tickets : f[t] <= h[t]
  BY <1>2, <1>4, <1>5
<1>7. f[m] + a <= h[m]
  BY <1>2, <1>3, <1>4, <1>5
<1>8. ASSUME NEW i \in 1..n PROVE f[batch[i].mask] + batch[i].amount <= h[batch[i].mask]
  <2>1. CASE i = n
    BY <1>7, <2>1 DEF m, a
  <2>2. CASE i # n
    <3> DEFINE t == batch[i].mask
               c == batch[i].amount
    <3>1. i \in 1..(n - 1) /\ i \in 1..Len(batch)
      BY <2>2
    <3>2. t \in Tickets /\ c \in Nat /\ f[t] + c <= g[t]
      BY <1>1, <3>1 DEF GrownBy
    <3> HIDE DEF t, c
    <3>3. f[t] + c <= h[t]
      BY <1>4, <1>5, <3>2
    <3>4. QED
      BY <3>3 DEF t, c
  <2>3. QED
    BY <2>1, <2>2
<1>9. QED
  BY <1>4, <1>6, <1>8 DEF GrownBy

LEMMA BooksGrow ==
    ASSUME TypeOK, NEW b \in Bettors, NEW batch \in Seq(Entry), NEW n \in 0..Len(batch)
    PROVE  /\ GrownBy(ticketPoolByMask, BooksAfter(b, batch)[n].pool, batch, n)
           /\ GrownBy(betsByMask[b], BooksAfter(b, batch)[n].bets, batch, n)
<1> DEFINE books == BooksAfter(b, batch)
           Grown(k) == /\ GrownBy(ticketPoolByMask, books[k].pool, batch, k)
                       /\ GrownBy(betsByMask[b], books[k].bets, batch, k)
           Bad == {k \in 0..Len(batch) : ~Grown(k)}
<1>1. SUFFICES ASSUME Bad # {} PROVE FALSE
  OBVIOUS
<1>2. PICK k \in Bad : \A j \in Bad : k <= j
  <2>1. Bad \in SUBSET Nat
    OBVIOUS
  <2> HIDE DEF Bad
  <2>2. QED
    BY <1>1, <2>1, LeastNatural
<1>3. /\ ticketPoolByMask \in [Tickets -> Nat] /\ betsByMask[b] \in [Tickets -> Nat]
  BY DEF TypeOK
<1>4. /\ books[0] = CurrentBook(b)
      /\ \A i \in 1..Len(batch) : books[i] = Recorded(books[i - 1], batch[i])
  BY BooksAfterUnfold
<1> HIDE DEF books
<1>5. CASE k = 0
  <2>1. books[0].pool = ticketPoolByMask /\ books[0].bets = betsByMask[b]
    BY <1>4 DEF CurrentBook
  <2>2. Grown(0)
    BY <1>3, <2>1 DEF GrownBy
  <2>3. QED
    BY <1>2, <1>5, <2>2
<1>6. CASE k # 0
  <2>1. k \in 1..Len(batch) /\ k - 1 \in 0..Len(batch) /\ k \in Nat
    BY <1>2, <1>6
  <2>2. Grown(k - 1)
    <3> HIDE DEF Grown
    <3>1. k - 1 \notin Bad
      BY <1>2, <2>1
    <3>2. QED
      BY <2>1, <3>1
  <2>3. /\ books[k].pool = [books[k - 1].pool EXCEPT ![batch[k].mask] = @ + batch[k].amount]
        /\ books[k].bets = [books[k - 1].bets EXCEPT ![batch[k].mask] = @ + batch[k].amount]
    <3>1. books[k] = Recorded(books[k - 1], batch[k])
      BY <1>4, <2>1
    <3>2. QED
      BY <3>1 DEF Recorded
  <2>4. GrownBy(ticketPoolByMask, books[k].pool, batch, k)
    BY <1>3, <2>1, <2>2, <2>3, GrownByNext
  <2>5. GrownBy(betsByMask[b], books[k].bets, batch, k)
    BY <1>3, <2>1, <2>2, <2>3, GrownByNext
  <2>6. QED
    BY <1>2, <2>4, <2>5
<1>7. QED
  BY <1>5, <1>6

\* Stakes are only ever added, and those of the batch are among them.
StakesGrow ==
    /\ \A m \in Tickets : ticketPoolByMask[m] <= ticketPoolByMask'[m]
    /\ \A b \in Bettors, m \in Tickets : betsByMask[b][m] <= betsByMask'[b][m]

LEMMA RecordBetsGrow ==
    ASSUME TypeOK, NEW b \in Bettors, NEW batch \in Seq(Entry), RecordBets(b, batch)
    PROVE  /\ StakesGrow
           /\ GrownBy(ticketPoolByMask, ticketPoolByMask', batch, Len(batch))
           /\ GrownBy(betsByMask[b], betsByMask'[b], batch, Len(batch))
<1> DEFINE book == BooksAfter(b, batch)[Len(batch)]
<1>1. ticketPoolByMask' = book.pool /\ betsByMask' = [betsByMask EXCEPT ![b] = book.bets]
  BY DEF RecordBets
<1>2. betsByMask'[b] = book.bets /\ \A c \in Bettors : c # b => betsByMask'[c] = betsByMask[c]
  BY <1>1 DEF TypeOK
<1>3. \A c \in Bettors, m \in Tickets : betsByMask[c][m] <= betsByMask[c][m]
  BY DEF TypeOK
<1>4. Len(batch) \in 0..Len(batch)
  OBVIOUS
<1>5. /\ GrownBy(ticketPoolByMask, book.pool, batch, Len(batch))
      /\ GrownBy(betsByMask[b], book.bets, batch, Len(batch))
  BY <1>4, BooksGrow
<1> HIDE DEF book
<1>6. StakesGrow
  BY <1>1, <1>2, <1>3, <1>5 DEF StakesGrow, GrownBy
<1>7. QED
  BY <1>1, <1>2, <1>5, <1>6

\* More on both sides is still more.
LEMMA GrownByWider ==
    ASSUME NEW e \in [Tickets -> Nat], NEW f \in [Tickets -> Nat], NEW g,
           NEW h \in [Tickets -> Nat], NEW batch \in Seq(Entry), NEW n \in Nat, n <= Len(batch),
           \A m \in Tickets : e[m] <= f[m], GrownBy(f, g, batch, n),
           \A m \in Tickets : g[m] <= h[m]
    PROVE  GrownBy(e, h, batch, n)
<1>1. g \in [Tickets -> Nat] /\ \A m \in Tickets : f[m] <= g[m]
  BY DEF GrownBy
<1>2. \A m \in Tickets : e[m] \in Nat /\ f[m] \in Nat /\ g[m] \in Nat /\ h[m] \in Nat
  BY <1>1
<1>3. \A m \in Tickets : e[m] <= h[m]
  BY <1>1, <1>2
<1>4. ASSUME NEW i \in 1..n PROVE e[batch[i].mask] + batch[i].amount <= h[batch[i].mask]
  <2> DEFINE t == batch[i].mask
             c == batch[i].amount
  <2>1. t \in Tickets /\ c \in Nat
    <3>1. batch[i] \in Entry
      OBVIOUS
    <3>2. QED
      BY <3>1, BookAssumption DEF Entry
  <2>2. f[t] + c <= g[t]
    BY DEF GrownBy
  <2> HIDE DEF t, c
  <2>3. e[t] + c <= h[t]
    BY <1>1, <1>2, <2>1, <2>2
  <2>4. QED
    BY <2>3 DEF t, c
<1>5. QED
  BY <1>3, <1>4 DEF GrownBy

\* The row a client reads holds pools of the past, and the pot is their sum.
RowKept ==
    view # NotIndexed =>
        /\ RowTyped(view)
        /\ view.pot = SumFunctionOnSet(view.pools, Tickets)
        /\ \A m \in Tickets : view.pools[m] <= ticketPoolByMask[m]

NoBets == [m \in Tickets |-> 0]

\* A quote q was computed from the pools row; once placed, its legs are in the
\* pools and among the bets.
QuoteFrom(q, row, pool, bets) ==
    /\ q.potAfter = SumFunctionOnSet(row, Tickets) + LegsTotal(q.legs)
    /\ \A i \in DOMAIN q.legs :
           q.payouts[i] = ExpectedPayout(q.legs[i].amount, row[{q.legs[i].option}], q.potAfter, 0)
    /\ \A m \in Tickets : row[m] <= pool[m]
    /\ q.status = "placed" =>
           /\ GrownBy(row, pool, BatchOf(q.legs), Len(q.legs))
           /\ GrownBy(NoBets, bets, BatchOf(q.legs), Len(q.legs))

QuoteKept ==
    quote # NoQuote =>
        \E row \in [Tickets -> Nat] :
            QuoteFrom(quote, row, ticketPoolByMask, betsByMask[Client])

\* The inductive invariant: the money of the wager, a row that is never ahead of it,
\* and a quote that comes from such a row.
QuotesInv == MoneyInv /\ ViewInv /\ RowKept /\ QuoteTyped /\ QuoteKept

LEMMA GrowthKeepsRow ==
    ASSUME TypeOK, TypeOK', StakesGrow, RowKept, UNCHANGED view
    PROVE  RowKept'
<1>1. \A m \in Tickets : /\ ticketPoolByMask[m] \in Nat /\ ticketPoolByMask'[m] \in Nat
                         /\ ticketPoolByMask[m] <= ticketPoolByMask'[m]
  BY DEF TypeOK, StakesGrow
<1>2. SUFFICES ASSUME view # NotIndexed
               PROVE  \A m \in Tickets : view.pools[m] <= ticketPoolByMask'[m]
  BY DEF RowKept, RowTyped
<1>3. \A m \in Tickets : view.pools[m] \in Nat /\ view.pools[m] <= ticketPoolByMask[m]
  BY <1>2 DEF RowKept, RowTyped
<1>4. QED
  BY <1>1, <1>3

LEMMA GrowthKeepsQuote ==
    ASSUME ClientAssumption, TypeOK, TypeOK', StakesGrow, QuoteTyped, QuoteKept, UNCHANGED quote
    PROVE  QuoteTyped' /\ QuoteKept'
<1>1. QuoteTyped'
  BY DEF QuoteTyped
<1>2. Client \in Bettors
  BY DEF ClientAssumption
<1> DEFINE pool == ticketPoolByMask
           bets == betsByMask[Client]
           poolAfter == ticketPoolByMask'
           betsAfter == betsByMask'[Client]
<1>3. /\ pool \in [Tickets -> Nat] /\ poolAfter \in [Tickets -> Nat]
      /\ bets \in [Tickets -> Nat] /\ betsAfter \in [Tickets -> Nat]
  BY <1>2 DEF TypeOK
<1>4. \A m \in Tickets : pool[m] <= poolAfter[m] /\ bets[m] <= betsAfter[m]
  BY <1>2 DEF StakesGrow
<1>5. ASSUME quote # NoQuote
      PROVE  \E row \in [Tickets -> Nat] : QuoteFrom(quote, row, poolAfter, betsAfter)
  <2>1. PICK row \in [Tickets -> Nat] : QuoteFrom(quote, row, pool, bets)
    BY <1>5 DEF QuoteKept
  <2>2. /\ BatchOf(quote.legs) \in Seq(Entry) /\ Len(quote.legs) \in Nat
        /\ Len(BatchOf(quote.legs)) = Len(quote.legs)
    BY <1>5, BatchTyped DEF QuoteTyped
  <2>3. \A m \in Tickets : row[m] <= row[m] /\ NoBets[m] <= NoBets[m]
    BY DEF NoBets
  <2>4. NoBets \in [Tickets -> Nat] /\ Len(quote.legs) <= Len(BatchOf(quote.legs))
    BY <2>2 DEF NoBets
  <2> HIDE DEF pool, bets, poolAfter, betsAfter
  <2>5. \A m \in Tickets : row[m] <= poolAfter[m]
    <3>1. \A m \in Tickets : row[m] <= pool[m]
      BY <2>1 DEF QuoteFrom
    <3>2. QED
      BY <1>3, <1>4, <3>1
  <2>6. GrownBy(row, pool, BatchOf(quote.legs), Len(quote.legs))
           => GrownBy(row, poolAfter, BatchOf(quote.legs), Len(quote.legs))
    BY <1>3, <1>4, <2>2, <2>3, <2>4, GrownByWider
  <2>7. GrownBy(NoBets, bets, BatchOf(quote.legs), Len(quote.legs))
           => GrownBy(NoBets, betsAfter, BatchOf(quote.legs), Len(quote.legs))
    BY <1>3, <1>4, <2>2, <2>3, <2>4, GrownByWider
  <2>8. QuoteFrom(quote, row, poolAfter, betsAfter)
    BY <2>1, <2>5, <2>6, <2>7 DEF QuoteFrom
  <2>9. QED
    BY <2>8
<1>6. QED
  BY <1>1, <1>5 DEF QuoteKept

LEMMA RefreshKeepsRow ==
    ASSUME TypeOK, BookConsistent, view' = IndexedRow,
           ticketPoolByMask' = ticketPoolByMask
    PROVE  RowKept'
<1>1. /\ view'.pools = ticketPoolByMask /\ view'.pot = totalPot /\ view'.feeBps = 0
  BY DEF IndexedRow
<1>2. ticketPoolByMask \in [Tickets -> Nat] /\ totalPot \in Nat
  BY DEF TypeOK, LifecycleTypeOK
<1>3. \A m \in Tickets : ticketPoolByMask[m] <= ticketPoolByMask[m]
  BY <1>2
<1>4. QED
  BY <1>1, <1>2, <1>3, PoolsArePot DEF RowKept, RowTyped

\* A quote starts from the row it was computed from.
LEMMA QuotedIsKept ==
    ASSUME RowKept, view # NotIndexed, NEW legs, LegsTyped(legs), quote' = Quoted(legs),
           UNCHANGED <<ticketPoolByMask, betsByMask>>
    PROVE  QuoteTyped' /\ QuoteKept'
<1>1. /\ quote'.status = "quoted" /\ quote'.legs = legs
      /\ quote'.potAfter = view.pot + LegsTotal(legs)
      /\ quote'.payouts = [i \in DOMAIN legs |->
             ExpectedPayout(legs[i].amount, view.pools[{legs[i].option}],
                            view.pot + LegsTotal(legs), view.feeBps)]
  BY DEF Quoted, ComputeOdds
<1>2. QuoteTyped'
  BY <1>1 DEF QuoteTyped
<1>3. /\ view.pools \in [Tickets -> Nat] /\ view.feeBps = 0
      /\ view.pot = SumFunctionOnSet(view.pools, Tickets)
      /\ \A m \in Tickets : view.pools[m] <= ticketPoolByMask[m]
  BY DEF RowKept, RowTyped
<1>4. QuoteFrom(quote', view.pools, ticketPoolByMask', betsByMask'[Client])
  BY <1>1, <1>3 DEF QuoteFrom
<1>5. QED
  BY <1>2, <1>3, <1>4 DEF QuoteKept

LEMMA LegsAreTyped == \A legs \in Legs : LegsTyped(legs)
<1> SUFFICES ASSUME NEW legs \in Legs PROVE LegsTyped(legs)
  OBVIOUS
<1>1. PICK n \in 1..MaxLegs : legs \in [1..n -> Leg]
  BY DEF Legs
<1>2. IsInjective([i \in DOMAIN legs |-> legs[i].option])
  BY DEF Legs
<1>3. legs \in Seq(Leg) /\ legs # <<>>
  BY <1>1
<1>4. \A i, j \in DOMAIN legs : legs[i].option = legs[j].option => i = j
  BY <1>2 DEF IsInjective
<1>5. QED
  BY <1>3, <1>4 DEF LegsTyped

LEMMA RecommendIsTyped ==
    ASSUME ClientAssumption, RowKept, NEW strategy \in Strategies,
           NEW amount \in StakeSizes \ {0}, Recommend(strategy, amount)
    PROVE  /\ view # NotIndexed
           /\ \E legs : LegsTyped(legs) /\ quote' = Quoted(legs)
<1>1. view # NotIndexed /\ Options # {}
  BY DEF Recommend, NotIndexed
<1>2. RowTyped(view) /\ amount \in Nat \ {0}
  BY <1>1, BookAssumption DEF RowKept
<1>3. PICK o \in Options : TRUE
  BY <1>1
<1> DEFINE picked == PickOutcome(strategy, view, amount)
           legs == <<[option |-> picked, amount |-> amount]>>
<1>4. picked \in Options
  BY <1>1, <1>2, <1>3, PickIsBest
<1>5. quote' = Quoted(legs)
  BY DEF Recommend
<1> HIDE DEF picked
<1>6. [option |-> picked, amount |-> amount] \in Leg
  BY <1>4 DEF Leg
<1>7. LegsTyped(legs)
  BY <1>6 DEF LegsTyped
<1>8. QED
  BY <1>1, <1>5, <1>7

\* The client's batch is in the pools and among its bets when it is placed.
LEMMA SubmitIsKept ==
    ASSUME ClientAssumption, TypeOK, TypeOK', QuoteTyped, QuoteKept, Submit
    PROVE  StakesGrow /\ QuoteTyped' /\ QuoteKept'
<1> DEFINE batch == BatchOf(quote.legs)
           n == Len(quote.legs)
<1>1. /\ PlaceBets(Client, batch) /\ LegsTyped(quote.legs) /\ Client \in Bettors
      /\ quote' = [quote EXCEPT !.status = "placed"] /\ quote.status = "quoted"
  BY SubmitIsBatch
<1>2. batch \in Seq(Entry) /\ n \in Nat /\ Len(batch) = n
  BY <1>1, BatchTyped
<1>3. quote # NoQuote
  BY <1>1 DEF NoQuote
<1>4. PICK row \in [Tickets -> Nat] : QuoteFrom(quote, row, ticketPoolByMask, betsByMask[Client])
  BY <1>3 DEF QuoteKept
<1>5. RecordBets(Client, batch)
  BY <1>1 DEF PlaceBets
<1> HIDE DEF batch
<1>6. /\ StakesGrow
      /\ GrownBy(ticketPoolByMask, ticketPoolByMask', batch, n)
      /\ GrownBy(betsByMask[Client], betsByMask'[Client], batch, n)
  BY <1>1, <1>2, <1>5, RecordBetsGrow
<1>7. /\ ticketPoolByMask \in [Tickets -> Nat] /\ ticketPoolByMask' \in [Tickets -> Nat]
      /\ betsByMask[Client] \in [Tickets -> Nat] /\ betsByMask'[Client] \in [Tickets -> Nat]
      /\ NoBets \in [Tickets -> Nat] /\ n <= Len(batch)
  <2>1. ticketPoolByMask \in [Tickets -> Nat] /\ betsByMask \in [Bettors -> [Tickets -> Nat]]
    BY DEF TypeOK
  <2>2. ticketPoolByMask' \in [Tickets -> Nat] /\ betsByMask' \in [Bettors -> [Tickets -> Nat]]
    BY DEF TypeOK
  <2>3. NoBets \in [Tickets -> Nat]
    BY DEF NoBets
  <2>4. n <= Len(batch)
    BY <1>2
  <2> HIDE DEF n, NoBets
  <2>5. QED
    BY <1>1, <2>1, <2>2, <2>3, <2>4
<1>8. \A m \in Tickets : /\ row[m] <= ticketPoolByMask[m]
                         /\ NoBets[m] <= betsByMask[Client][m]
                         /\ ticketPoolByMask'[m] <= ticketPoolByMask'[m]
                         /\ betsByMask'[Client][m] <= betsByMask'[Client][m]
  BY <1>4, <1>7 DEF QuoteFrom, NoBets
<1> HIDE DEF n
<1>9. /\ GrownBy(row, ticketPoolByMask', batch, n)
      /\ GrownBy(NoBets, betsByMask'[Client], batch, n)
  BY <1>2, <1>6, <1>7, <1>8, GrownByWider
<1>10. /\ quote'.status = "placed" /\ quote'.legs = quote.legs
       /\ quote'.potAfter = quote.potAfter /\ quote'.payouts = quote.payouts
  BY <1>1
<1>11. QuoteTyped'
  BY <1>1, <1>10 DEF QuoteTyped
<1>12. \A m \in Tickets : row[m] <= ticketPoolByMask'[m]
  BY <1>9 DEF GrownBy
<1>13. QuoteFrom(quote', row, ticketPoolByMask', betsByMask'[Client])
  BY <1>4, <1>9, <1>10, <1>12 DEF QuoteFrom, batch, n
<1>14. QED
  BY <1>6, <1>11, <1>13 DEF QuoteKept

LEMMA MoneyTyped ==
    ASSUME MoneyInv
    PROVE  TypeOK /\ BookConsistent /\ LifecycleInv /\ IInv
BY DEF MoneyInv, IInv

\* The wager moves while the clients keep what they have.
LEMMA WagerKeepsQuotes ==
    ASSUME ClientAssumption, QuotesInv, [Next]_vars, UNCHANGED clientVars
    PROVE  QuotesInv'
<1>1. /\ MoneyInv /\ ViewInv /\ RowKept /\ QuoteTyped /\ QuoteKept
      /\ UNCHANGED view /\ UNCHANGED quote
  BY DEF QuotesInv, clientVars
<1>2. [LifecycleNext]_lifecycleVars /\ MoneyInv'
  BY <1>1, WagerKeeps
<1>3. TypeOK /\ TypeOK' /\ IInv
  BY <1>1, <1>2 DEF MoneyInv, IInv
<1>4. ViewInv'
  BY <1>1, <1>2, LifecycleKeepsView
<1>5. StakesGrow
  <2>1. CASE UNCHANGED <<potVars, bookVars>>
    <3>1. ticketPoolByMask' = ticketPoolByMask /\ betsByMask' = betsByMask
      BY <2>1 DEF bookVars
    <3>2. \A m \in Tickets : ticketPoolByMask[m] <= ticketPoolByMask[m]
      BY <1>3 DEF TypeOK
    <3>3. \A b \in Bettors, m \in Tickets : betsByMask[b][m] <= betsByMask[b][m]
      BY <1>3 DEF TypeOK
    <3>4. QED
      BY <3>1, <3>2, <3>3 DEF StakesGrow
  <2>2. ASSUME NEW b \in Bettors, NEW batch \in Seq(Entry), RecordBets(b, batch)
        PROVE  StakesGrow
    BY <1>3, <2>2, RecordBetsGrow
  <2>3. QED
    BY <1>3, <2>1, <2>2, BookStep
<1>6. RowKept'
  BY <1>1, <1>3, <1>5, GrowthKeepsRow
<1>7. QuoteTyped' /\ QuoteKept'
  BY <1>1, <1>3, <1>5, GrowthKeepsQuote
<1>8. QED
  BY <1>2, <1>4, <1>6, <1>7 DEF QuotesInv

LEMMA RefreshKeepsQuotes ==
    ASSUME QuotesInv, Refresh
    PROVE  QuotesInv'
<1>1. UNCHANGED vars /\ UNCHANGED quote /\ view' = IndexedRow /\ state # "Undeployed"
  BY DEF Refresh
<1>2. ticketPoolByMask' = ticketPoolByMask /\ betsByMask' = betsByMask
  BY <1>1 DEF vars, enumeratedVars, bookVars
<1>3. MoneyInv /\ QuoteTyped /\ QuoteKept
  BY DEF QuotesInv
<1>4. MoneyInv'
  <2>1. [Next]_vars
    BY <1>1
  <2>2. QED
    BY <1>3, <2>1, WagerKeeps
<1>5. ViewInv'
  <2>1. /\ bettingCloseTime' = bettingCloseTime
        /\ bettingClosedByAuthority' = bettingClosedByAuthority /\ state' = state
    BY <1>1 DEF vars, lifecycleVars, termsVars, authorityVars, bettingVars
  <2>2. /\ view'.closeTime = bettingCloseTime /\ view'.state = state
        /\ view'.closedByAuthority = bettingClosedByAuthority
    BY <1>1 DEF IndexedRow
  <2>3. QED
    BY <1>1, <2>1, <2>2 DEF ViewInv
<1>6. RowKept'
  BY <1>1, <1>2, <1>3, MoneyTyped, RefreshKeepsRow
<1>7. QuoteTyped' /\ QuoteKept'
  BY <1>1, <1>2, <1>3 DEF QuoteTyped, QuoteKept
<1>8. QED
  BY <1>4, <1>5, <1>6, <1>7 DEF QuotesInv

\* A client reads the row and makes a quote of typed legs.
LEMMA QuoteKeepsQuotes ==
    ASSUME QuotesInv, view # NotIndexed, NEW legs, LegsTyped(legs), quote' = Quoted(legs),
           UNCHANGED <<vars, view>>
    PROVE  QuotesInv'
<1>1. MoneyInv /\ ViewInv /\ RowKept
  BY DEF QuotesInv
<1>2. UNCHANGED vars /\ UNCHANGED view
      /\ UNCHANGED <<ticketPoolByMask, betsByMask>>
  BY DEF vars, enumeratedVars, bookVars
<1>3. [Next]_vars
  BY <1>2
<1>4. [LifecycleNext]_lifecycleVars /\ MoneyInv'
  BY <1>1, <1>3, WagerKeeps
<1>5. ViewInv'
  BY <1>1, <1>2, <1>4, LifecycleKeepsView
<1>6. RowKept'
  BY <1>1, <1>2 DEF RowKept
<1>7. QuoteTyped' /\ QuoteKept'
  BY <1>1, <1>2, QuotedIsKept
<1>8. QED
  BY <1>4, <1>5, <1>6, <1>7 DEF QuotesInv

LEMMA SubmitKeepsQuotes ==
    ASSUME ClientAssumption, QuotesInv, Submit
    PROVE  QuotesInv'
<1>1. MoneyInv /\ ViewInv /\ RowKept /\ QuoteTyped /\ QuoteKept
  BY DEF QuotesInv
<1>2. /\ PlaceBets(Client, BatchOf(quote.legs)) /\ LegsTyped(quote.legs) /\ Client \in Bettors
      /\ UNCHANGED view
  BY <1>1, SubmitIsBatch
<1>3. BatchOf(quote.legs) \in Seq(Entry)
  BY <1>2, BatchTyped
<1>4. LifecycleNext /\ MoneyInv'
  BY <1>1, <1>2, <1>3, BatchKeeps
<1>5. TypeOK /\ TypeOK'
  BY <1>1, <1>4 DEF MoneyInv, IInv
<1>6. StakesGrow /\ QuoteTyped' /\ QuoteKept'
  BY <1>1, <1>5, SubmitIsKept
<1>7. ViewInv'
  BY <1>1, <1>2, <1>4, LifecycleKeepsView
<1>8. RowKept'
  BY <1>1, <1>2, <1>5, <1>6, GrowthKeepsRow
<1>9. QED
  BY <1>4, <1>6, <1>7, <1>8 DEF QuotesInv

LEMMA QuotesStep ==
    ASSUME ClientAssumption, QuotesInv, [QuotesNext]_allVars
    PROVE  QuotesInv'
<1>1. CASE [Next]_vars /\ UNCHANGED clientVars
  BY <1>1, WagerKeepsQuotes
<1>2. CASE Refresh
  BY <1>2, RefreshKeepsQuotes
<1>3. ASSUME NEW legs \in Legs, RequestQuote(legs)
      PROVE  QuotesInv'
  <2>1. view # NotIndexed /\ quote' = Quoted(legs) /\ UNCHANGED <<vars, view>>
    BY <1>3 DEF RequestQuote
  <2>2. LegsTyped(legs)
    BY LegsAreTyped
  <2>3. QED
    BY <2>1, <2>2, QuoteKeepsQuotes
<1>4. ASSUME NEW strategy \in Strategies, NEW amount \in StakeSizes \ {0},
             Recommend(strategy, amount)
      PROVE  QuotesInv'
  <2>1. RowKept
    BY DEF QuotesInv
  <2>2. view # NotIndexed /\ \E legs : LegsTyped(legs) /\ quote' = Quoted(legs)
    BY <1>4, <2>1, RecommendIsTyped
  <2>3. PICK legs : LegsTyped(legs) /\ quote' = Quoted(legs)
    BY <2>2
  <2>4. UNCHANGED <<vars, view>>
    BY <1>4 DEF Recommend
  <2>5. QED
    BY <2>2, <2>3, <2>4, QuoteKeepsQuotes
<1>5. CASE Submit
  BY <1>5, SubmitKeepsQuotes
<1>6. CASE UNCHANGED allVars
  BY <1>1, <1>6 DEF allVars
<1>7. QED
  BY <1>1, <1>2, <1>3, <1>4, <1>5, <1>6 DEF QuotesNext

-------------------------------------------------------------------------------
(* What a placed quote is paid *)

\* L is the legs as a book: what each ticket gets from them.
BookOf(legs, L) ==
    /\ L \in [Tickets -> Nat]
    /\ \A i \in 1..Len(legs) : L[{legs[i].option}] = legs[i].amount
    /\ \A m \in Tickets : (\A i \in 1..Len(legs) : {legs[i].option} # m) => L[m] = 0
    /\ SumFunctionOnSet(L, Tickets) = LegsTotal(legs)

LEMMA LegsBook ==
    ASSUME NEW legs, LegsTyped(legs)
    PROVE  \E L : BookOf(legs, L)
<1> DEFINE D == 1..Len(legs)
           mask == [i \in D |-> {legs[i].option}]
           amount == [i \in D |-> legs[i].amount]
           legOf(m) == CHOOSE i \in D : mask[i] = m
           L == [m \in Tickets |-> IF \E i \in D : mask[i] = m THEN amount[legOf(m)] ELSE 0]
<1>1. /\ Len(legs) \in Nat /\ DOMAIN legs = D
      /\ \A i \in D : amount[i] \in Nat /\ mask[i] \in Tickets
  BY BatchTyped DEF LegsTyped
<1>2. \A i, j \in D : mask[i] = mask[j] => i = j
  BY <1>1 DEF LegsTyped
<1>3. \A i \in D : legOf(mask[i]) = i
  <2> HIDE DEF mask, D
  <2>1. QED
    BY <1>2
<1>4. \A m \in Tickets : (\E i \in D : mask[i] = m) => legOf(m) \in D /\ mask[legOf(m)] = m
  <2> HIDE DEF mask, D
  <2>1. QED
    OBVIOUS
<1>5. LegsTotal(legs) = SumFunctionOnSet(amount, D)
  BY <1>1 DEF LegsTotal, SumFunction
<1>6. IsFiniteSet(D)
  BY <1>1, FS_Interval
<1> HIDE DEF mask, amount, legOf, D
<1>7. \A m \in Tickets : L[m] \in Nat
  BY <1>1, <1>4
<1>8. L \in [Tickets -> Nat]
  <2>1. L = [m \in Tickets |-> L[m]]
    OBVIOUS
  <2> HIDE DEF L
  <2>2. QED
    BY <1>7, <2>1
<1>9. \A i \in D : mask[i] \in Tickets /\ amount[i] = L[mask[i]]
  BY <1>1, <1>3
<1>10. \A m \in Tickets : (\A i \in D : mask[i] # m) => L[m] = 0
  OBVIOUS
<1> HIDE DEF L
<1>11. \A m \in Tickets : L[m] \in Int
  BY <1>7
<1>12. SumFunctionOnSet(amount, D) = SumFunctionOnSet(L, Tickets)
  BY <1>2, <1>6, <1>9, <1>10, <1>11, TicketsFinite, SumReindex
<1>13. \A i \in 1..Len(legs) : mask[i] = {legs[i].option} /\ amount[i] = legs[i].amount
  BY DEF mask, amount, D
<1>14. \A i \in 1..Len(legs) : L[{legs[i].option}] = legs[i].amount
  BY <1>9, <1>13 DEF D
<1>15. ASSUME NEW m \in Tickets, \A i \in 1..Len(legs) : {legs[i].option} # m
       PROVE  L[m] = 0
  BY <1>10, <1>13, <1>15 DEF D
<1>16. SumFunctionOnSet(L, Tickets) = LegsTotal(legs)
  BY <1>5, <1>12
<1>17. BookOf(legs, L)
  BY <1>8, <1>14, <1>15, <1>16 DEF BookOf
<1>18. QED
  BY <1>17

\* With a single winner only the stakes on the winning mask win.
LEMMA OneWinner ==
    ASSUME MoneyInv, state = "Resolved", payoffPolicy = "SINGLE_WINNER"
    PROVE  /\ TicketWins(payoffPolicy, policyParam, winningMask, winningMask)
           /\ \A m \in Tickets : TicketWins(payoffPolicy, policyParam, m, winningMask)
                                    <=> m = winningMask
           /\ payoutDenominator = ticketPoolByMask[winningMask]
           /\ winningMask \in Tickets /\ payoutDenominator \in Nat \ {0}
<1> DEFINE W == winningMask
           weight(m) == Weight(payoffPolicy, policyParam, m, winningMask)
           units == [m \in Tickets |-> ticketPoolByMask[m] * weight(m)]
<1>1. /\ TypeOK /\ BookConsistent /\ W \in Tickets
      /\ payoutDenominator \in Nat \ {0} /\ payoutDenominator = WinningUnits(W)
      /\ ticketPoolByMask \in [Tickets -> Nat]
  BY MoneyTyped DEF MoneyInv, DenominatorFixed, TypeOK, LifecycleTypeOK, LifecycleInv
<1>2. WinningUnits(W) = SumFunctionOnSet(units, Tickets)
  BY <1>1, UnitsOverTickets
<1>3. \A m \in Tickets : m # W => weight(m) = 0
  BY DEF Weight, TicketWins
<1>4. \A m \in Tickets : weight(m) \in Nat
  BY WeightType
<1> HIDE DEF weight
<1>5. \A m \in Tickets \ {W} : units[m] = 0
  BY <1>1, <1>3
<1>6. units[W] \in Int /\ units[W] = ticketPoolByMask[W] * weight(W)
  BY <1>1, <1>4
<1> HIDE DEF units
<1>7. WinningUnits(W) = units[W]
  BY <1>1, <1>2, <1>5, <1>6, TicketsFinite, SumOfOne
<1>8. weight(W) # 0
  BY <1>1, <1>6, <1>7
<1>9. weight(W) = 1 /\ TicketWins(payoffPolicy, policyParam, W, W)
  BY <1>8 DEF weight, Weight
<1>10. \A m \in Tickets : TicketWins(payoffPolicy, policyParam, m, W) <=> m = W
  BY <1>9 DEF TicketWins
<1>11. payoutDenominator = ticketPoolByMask[W]
  BY <1>1, <1>6, <1>7, <1>9
<1>12. QED
  BY <1>1, <1>9, <1>10, <1>11

LEMMA OneWinnerWinnings ==
    ASSUME MoneyInv, state = "Resolved", payoffPolicy = "SINGLE_WINNER", NEW b \in Bettors
    PROVE  Winnings(b) = (betsByMask[b][winningMask] * NetPot) \div payoutDenominator
<1> DEFINE W == winningMask
           T == {p \in Stakes : p[1] = b}
           won == <<b, W>>
<1>1. TypeOK /\ BookConsistent /\ LifecycleInv
  BY MoneyTyped
<1>2. /\ TicketWins(payoffPolicy, policyParam, W, W)
      /\ \A m \in Tickets : TicketWins(payoffPolicy, policyParam, m, W) <=> m = W
      /\ W \in Tickets /\ payoutDenominator \in Nat \ {0}
  BY OneWinner
<1>3. NetPot \in Nat
  BY <1>1, TotalFeesType DEF TypeOK, LifecycleTypeOK, LifecycleInv, FeeConfigAccepted
<1>4. won \in T /\ won \in Stakes /\ \A p \in T \ {won} : p \in Stakes /\ p[2] # W /\ p[2] \in Tickets
  BY <1>2 DEF Stakes
<1>5. Weight(payoffPolicy, policyParam, W, W) = 1
      /\ \A m \in Tickets : m # W => Weight(payoffPolicy, policyParam, m, W) = 0
  BY <1>2 DEF Weight
<1>6. betsByMask \in [Bettors -> [Tickets -> Nat]]
  BY <1>1 DEF TypeOK
<1>7. StakeUnits[won] = betsByMask[b][W]
  BY <1>4, <1>5, <1>6, <1>2 DEF StakeUnits
<1>8. ASSUME NEW p \in T \ {won} PROVE StakePaid[p] = 0
  <2>1. StakeUnits[p] = 0
    BY <1>4, <1>5, <1>6 DEF StakeUnits, Stakes
  <2>2. StakePaid[p] = (0 * NetPot) \div payoutDenominator
    BY <1>4, <2>1 DEF StakePaid
  <2>3. \A n \in Nat, d \in Nat \ {0} : (0 * n) \div d = 0
    OBVIOUS
  <2>4. QED
    BY <1>2, <1>3, <2>2, <2>3
<1>9. StakePaid[won] = (betsByMask[b][W] * NetPot) \div payoutDenominator
  BY <1>4, <1>7 DEF StakePaid
<1>10. StakePaid[won] \in Int
  <2>1. betsByMask[b][W] * NetPot \in Nat
    BY <1>2, <1>3, <1>6
  <2>2. QED
    BY <1>2, <1>9, <2>1, FloorBound
<1>11. IsFiniteSet(T)
  BY StakesFinite, FS_Subset
<1>12. Winnings(b) = SumFunctionOnSet(StakePaid, T)
  BY <1>1, WinningsByStake
<1> HIDE DEF T, won
<1>13. SumFunctionOnSet(StakePaid, T) = StakePaid[won]
  BY <1>4, <1>8, <1>10, <1>11, SumOfOne
<1>14. QED
  BY <1>9, <1>12, <1>13

\* When the pot is the one the quote expected and the client holds nothing else,
\* every pool is the quoted one plus the legs, and its bets are the legs.
LEMMA QuoteIsExact ==
    ASSUME ClientAssumption, TypeOK, BookConsistent, NEW legs, LegsTyped(legs),
           NEW row \in [Tickets -> Nat], NEW L, BookOf(legs, L),
           GrownBy(row, ticketPoolByMask, BatchOf(legs), Len(legs)),
           GrownBy(NoBets, betsByMask[Client], BatchOf(legs), Len(legs)),
           totalPot = SumFunctionOnSet(row, Tickets) + LegsTotal(legs),
           userTotalBet[Client] = LegsTotal(legs)
    PROVE  \A m \in Tickets : ticketPoolByMask[m] = row[m] + L[m]
                              /\ betsByMask[Client][m] = L[m]
<1> DEFINE pool == ticketPoolByMask
           bets == betsByMask[Client]
           sum == [m \in Tickets |-> row[m] + L[m]]
<1>1. Client \in Bettors /\ pool \in [Tickets -> Nat] /\ bets \in [Tickets -> Nat]
  BY DEF TypeOK, ClientAssumption
<1>0. /\ L \in [Tickets -> Nat] /\ SumFunctionOnSet(L, Tickets) = LegsTotal(legs)
      /\ \A m \in Tickets : (\A i \in 1..Len(legs) : {legs[i].option} # m) => L[m] = 0
      /\ \A i \in 1..Len(legs) : L[{legs[i].option}] = legs[i].amount
  BY DEF BookOf
<1>2. \A m \in Tickets : /\ row[m] \in Nat /\ L[m] \in Nat /\ pool[m] \in Nat /\ bets[m] \in Nat
                         /\ sum[m] = row[m] + L[m]
  BY <1>0, <1>1
<1>3. /\ \A i \in 1..Len(legs) : BatchOf(legs)[i].mask = {legs[i].option}
                                 /\ BatchOf(legs)[i].amount = legs[i].amount
                                 /\ {legs[i].option} \in Tickets
  BY BatchTyped
<1>4. ASSUME NEW m \in Tickets PROVE sum[m] <= pool[m] /\ L[m] <= bets[m]
  <2>1. CASE \A i \in 1..Len(legs) : {legs[i].option} # m
    <3>1. L[m] = 0 /\ row[m] <= pool[m]
      BY <1>0, <2>1 DEF GrownBy
    <3>2. QED
      BY <1>2, <3>1
  <2>2. CASE \E i \in 1..Len(legs) : {legs[i].option} = m
    <3>1. PICK i \in 1..Len(legs) : {legs[i].option} = m
      BY <2>2
    <3>2. BatchOf(legs)[i].mask = m /\ BatchOf(legs)[i].amount = L[m]
      BY <1>0, <1>3, <3>1
    <3>3. row[m] + L[m] <= pool[m] /\ NoBets[m] + L[m] <= bets[m]
      BY <3>2 DEF GrownBy
    <3>4. NoBets[m] = 0
      BY DEF NoBets
    <3> HIDE DEF pool, bets, sum
    <3>5. QED
      BY <1>2, <3>3, <3>4
  <2>3. QED
    BY <2>1, <2>2
<1>5. SumFunctionOnSet(pool, Tickets) = totalPot
  BY PoolsArePot
<1>6. SumFunctionOnSet(bets, Tickets) = userTotalBet[Client]
  BY <1>1 DEF BookConsistent, SumFunction
<1> HIDE DEF pool, bets, sum
<1>7. SumFunctionOnSet(sum, Tickets) = SumFunctionOnSet(row, Tickets) + SumFunctionOnSet(L, Tickets)
  <2>1. \A m \in Tickets : row[m] \in Int /\ L[m] \in Int /\ sum[m] = row[m] + L[m]
    BY <1>2
  <2>2. QED
    BY <2>1, TicketsFinite, SumPlus
<1>8. \A m \in Tickets : sum[m] = pool[m]
  <2>1. \A m \in Tickets : sum[m] \in Int /\ pool[m] \in Int /\ sum[m] <= pool[m]
    BY <1>2, <1>4
  <2>2. SumFunctionOnSet(sum, Tickets) = SumFunctionOnSet(pool, Tickets)
    BY <1>0, <1>5, <1>7
  <2>3. QED
    BY <2>1, <2>2, TicketsFinite, SumTight
<1>9. \A m \in Tickets : L[m] = bets[m]
  <2>1. \A m \in Tickets : L[m] \in Int /\ bets[m] \in Int /\ L[m] <= bets[m]
    BY <1>2, <1>4
  <2>2. SumFunctionOnSet(L, Tickets) = SumFunctionOnSet(bets, Tickets)
    BY <1>0, <1>6
  <2>3. QED
    BY <2>1, <2>2, TicketsFinite, SumTight
<1>10. QED
  BY <1>2, <1>8, <1>9 DEF pool, bets

LEMMA PaidAsQuoted ==
    ASSUME ClientAssumption, QuotesInv
    PROVE  QuotedPayoutIsPaid
<1> DEFINE legs == quote.legs
           W == winningMask
           win == [i \in DOMAIN legs |-> IF LegWins(legs[i]) THEN quote.payouts[i] ELSE 0]
<1>1. SUFFICES ASSUME quote.status = "placed", state = "Resolved", totalFeeBps = 0,
                      payoffPolicy = "SINGLE_WINNER", totalPot = quote.potAfter,
                      userTotalBet[Client] = LegsTotal(legs)
               PROVE  Winnings(Client) = SumFunction(win)
  BY DEF QuotedPayoutIsPaid
<1>2. /\ MoneyInv /\ TypeOK /\ BookConsistent /\ Client \in Bettors
      /\ quote # NoQuote /\ LegsTyped(legs)
  BY <1>1, MoneyTyped DEF QuotesInv, QuoteTyped, ClientAssumption, NoQuote
<1>3. PICK row \in [Tickets -> Nat] : QuoteFrom(quote, row, ticketPoolByMask, betsByMask[Client])
  BY <1>2 DEF QuotesInv, QuoteKept
<1>4. /\ quote.potAfter = SumFunctionOnSet(row, Tickets) + LegsTotal(legs)
      /\ \A i \in DOMAIN legs :
            quote.payouts[i] = ExpectedPayout(legs[i].amount, row[{legs[i].option}], quote.potAfter, 0)
      /\ GrownBy(row, ticketPoolByMask, BatchOf(legs), Len(legs))
      /\ GrownBy(NoBets, betsByMask[Client], BatchOf(legs), Len(legs))
  BY <1>1, <1>3 DEF QuoteFrom
<1>5. /\ DOMAIN legs = 1..Len(legs) /\ Len(legs) \in Nat
      /\ \A i \in 1..Len(legs) : {legs[i].option} \in Tickets /\ legs[i].amount \in Nat
      /\ \A i, j \in 1..Len(legs) : {legs[i].option} = {legs[j].option} => i = j
  <2>1. DOMAIN legs = 1..Len(legs) /\ \A i, j \in DOMAIN legs : legs[i].option = legs[j].option => i = j
    BY <1>2 DEF LegsTyped
  <2>2. QED
    BY <1>2, <2>1, BatchTyped
<1>6. /\ W \in Tickets /\ payoutDenominator = ticketPoolByMask[W]
      /\ \A m \in Tickets : TicketWins(payoffPolicy, policyParam, m, W) <=> m = W
      /\ payoutDenominator \in Nat \ {0}
  BY <1>1, <1>2, OneWinner
<1>7. Winnings(Client) = (betsByMask[Client][W] * NetPot) \div payoutDenominator
  BY <1>1, <1>2, OneWinnerWinnings
<1>8. NetPot = quote.potAfter /\ quote.potAfter \in Nat /\ NetOf(quote.potAfter, 0) = quote.potAfter
  <2>1. totalPot \in Nat
    BY <1>2 DEF TypeOK, LifecycleTypeOK
  <2>2. NetPot = totalPot
    BY <1>1, <2>1 DEF NetPot, TotalFeesAmount, BPS_DENOMINATOR
  <2>3. QED
    BY <1>1, <2>1, <2>2 DEF NetOf, bps_denom
<1>9. PICK L : BookOf(legs, L)
  BY <1>2, LegsBook
<1>10. totalPot = SumFunctionOnSet(row, Tickets) + LegsTotal(legs)
  BY <1>1, <1>4
<1> HIDE DEF legs
<1>11. \A m \in Tickets : ticketPoolByMask[m] = row[m] + L[m] /\ betsByMask[Client][m] = L[m]
  <2>4. GrownBy(row, ticketPoolByMask, BatchOf(legs), Len(legs))
    BY <1>4
  <2>5. GrownBy(NoBets, betsByMask[Client], BatchOf(legs), Len(legs))
    BY <1>4
  <2>6. TypeOK /\ BookConsistent /\ LegsTyped(legs) /\ userTotalBet[Client] = LegsTotal(legs)
    BY <1>1, <1>2
  <2>7. QED
    BY <1>3, <1>9, <1>10, <2>4, <2>5, <2>6, QuoteIsExact
<1>12. \A i \in 1..Len(legs) : LegWins(legs[i]) <=> {legs[i].option} = W
  BY <1>5, <1>6 DEF LegWins
<1>13. /\ \A i \in 1..Len(legs) : {legs[i].option} # W => win[i] = 0
       /\ \A i \in 1..Len(legs) : {legs[i].option} = W => win[i] = quote.payouts[i]
       /\ SumFunction(win) = SumFunctionOnSet(win, 1..Len(legs))
  BY <1>5, <1>12 DEF SumFunction
<1>14. IsFiniteSet(1..Len(legs))
  BY <1>5, FS_Interval
<1> HIDE DEF win, W
<1>15. CASE \A i \in 1..Len(legs) : {legs[i].option} # W
  <2>1. L[W] = 0
    BY <1>6, <1>9, <1>15 DEF BookOf
  <2>2. SumFunctionOnSet(win, 1..Len(legs)) = 0
    BY <1>13, <1>14, <1>15, SumZero
  <2>3. Winnings(Client) = (0 * quote.potAfter) \div payoutDenominator
    BY <1>6, <1>7, <1>8, <1>11, <2>1
  <2>4. \A n \in Nat, d \in Nat \ {0} : (0 * n) \div d = 0
    OBVIOUS
  <2>5. QED
    BY <1>6, <1>8, <1>13, <2>2, <2>3, <2>4
<1>16. CASE \E i \in 1..Len(legs) : {legs[i].option} = W
  <2>1. PICK k \in 1..Len(legs) : {legs[k].option} = W
    BY <1>16
  <2>2. \A i \in (1..Len(legs)) \ {k} : win[i] = 0
    BY <1>5, <1>13, <2>1
  <2>3. L[W] = legs[k].amount /\ legs[k].amount \in Nat
    BY <1>5, <1>9, <2>1 DEF BookOf
  <2>4. win[k] = (legs[k].amount * quote.potAfter) \div (row[W] + legs[k].amount)
    BY <1>4, <1>5, <1>8, <1>13, <2>1 DEF ExpectedPayout
  <2>5. win[k] = Winnings(Client)
    BY <1>6, <1>7, <1>8, <1>11, <2>3, <2>4
  <2>6. win[k] \in Int
    <3>1. legs[k].amount * quote.potAfter \in Nat
      BY <1>8, <2>3
    <3>2. row[W] + legs[k].amount \in Nat \ {0}
      BY <1>6, <1>11, <2>3
    <3>3. QED
      BY <2>4, <3>1, <3>2, FloorBound
  <2>7. SumFunctionOnSet(win, 1..Len(legs)) = win[k]
    BY <1>14, <2>2, <2>6, SumOfOne
  <2>8. QED
    BY <1>13, <2>5, <2>7
<1>17. QED
  BY <1>15, <1>16

LEMMA PicksTheSmallest ==
    ASSUME ClientAssumption, RowKept
    PROVE  PickIsSmallestPool
<1> SUFFICES ASSUME view # NotIndexed, NEW strategy \in Strategies,
                    NEW amount \in StakeSizes \ {0}, NEW o \in Options
             PROVE  LET picked == PickOutcome(strategy, view, amount)
                    IN  \/ view.pools[{picked}] <= view.pools[{o}]
                        \/ /\ strategy = "best_post_multiple"
                           /\ Score(view, picked, amount) = Score(view, o, amount)
  BY DEF PickIsSmallestPool
<1>1. RowTyped(view) /\ amount \in Nat \ {0}
  BY BookAssumption DEF RowKept
<1>2. QED
  BY <1>1, PickIsBest

LEMMA QuotesInvInit == QuotesInit => QuotesInv
<1> SUFFICES ASSUME QuotesInit PROVE QuotesInv
  OBVIOUS
<1>1. MoneyInv
  BY IInvInit, BookInit, SolvencyInit
     DEF QuotesInit, MoneyInv, Init, LifecycleInit, DenominatorFixed
<1>2. QED
  BY <1>1 DEF QuotesInit, QuotesInv, ViewInv, RowKept, QuoteTyped, QuoteKept

LEMMA QuotesInvariant ==
    ASSUME ClientAssumption
    PROVE  QuotesSpec => []QuotesInv
<1>1. QuotesInv /\ [QuotesNext]_allVars => QuotesInv'
  BY QuotesStep
<1>2. QED
  BY <1>1, QuotesInvInit, PTL DEF QuotesSpec

\* However far the index lags, "betting is closed" is final, and the flag is exact
\* when the index has caught up.
THEOREM RefusalsFinal ==
    ASSUME ClientAssumption
    PROVE  QuotesSpec => []RefusalsAreFinal
<1>1. QuotesInv => RefusalsAreFinal
  BY ViewIsHonest DEF QuotesInv, MoneyInv
<1>2. QED
  BY <1>1, QuotesInvariant, PTL

\* Whatever batches the clients sign, however long, the wager stays solvent.
THEOREM SolventWithClients ==
    ASSUME ClientAssumption
    PROVE  QuotesSpec => []Solvent
<1>1. QuotesInv => Solvent
  BY DEF QuotesInv, MoneyInv
<1>2. QED
  BY <1>1, QuotesInvariant, PTL

\* No outcome with less stake is passed over, but for a tie after rounding.
THEOREM PicksSmallest ==
    ASSUME ClientAssumption
    PROVE  QuotesSpec => []PickIsSmallestPool
<1>1. QuotesInv => PickIsSmallestPool
  BY PicksTheSmallest DEF QuotesInv
<1>2. QED
  BY <1>1, QuotesInvariant, PTL

\* If nobody else bets after the row was read, a placed quote of any number of
\* legs is paid to the unit, on a wager of one winner and no fees.
THEOREM QuotesArePaid ==
    ASSUME ClientAssumption
    PROVE  QuotesSpec => []QuotedPayoutIsPaid
<1>1. QuotesInv => QuotedPayoutIsPaid
  BY PaidAsQuoted
<1>2. QED
  BY <1>1, QuotesInvariant, PTL

-------------------------------------------------------------------------------
(* The control panel *)

\* What the factory accepts, the panel accepts.
LEMMA FactoryAcceptsLess ==
    ASSUME NEW req \in CreateRequests, FactoryAccepts(req, SeedBets(req))
    PROVE  PanelAcceptsCreate(req)
<1>1. LifecycleChecked(req)
  BY DEF FactoryAccepts, LifecycleAccepted, LifecycleChecked
<1>2. ASSUME req.kind = "enumerated", NEW i \in DOMAIN req.seeds
      PROVE  req.seeds[i].amount > 0 /\ SeedMask(req.seeds[i].index) \subseteq Options
  <2>1. /\ DOMAIN SeedBets(req) = DOMAIN req.seeds
        /\ SeedBets(req)[i] = [mask |-> SeedMask(req.seeds[i].index),
                               amount |-> req.seeds[i].amount]
    BY <1>2 DEF SeedBets
  <2>2. SeedBets(req)[i].amount > 0 /\ ValidMask(SeedBets(req)[i].mask)
    BY <1>2, <2>1 DEF FactoryAccepts, TicketAccepted
  <2>3. QED
    BY <2>1, <2>2 DEF ValidMask
<1>3. QED
  BY <1>1, <1>2 DEF PanelAcceptsCreate

\* The seeds of a request, as the factory gets them.
LEMMA SeedsSent ==
    ASSUME NEW req \in CreateRequests, req.kind = "enumerated", PanelAcceptsCreate(req)
    PROVE  SeedBets(req) \in Batches \cup {<<>>}
<1>1. req.seeds \in Seeds
  BY DEF CreateRequests
<1>2. CASE req.seeds = <<>>
  BY <1>2 DEF SeedBets
<1>3. CASE req.seeds # <<>>
  <2>1. PICK j \in SeedIndices, a \in StakeSizes : req.seeds = <<[index |-> j, amount |-> a]>>
    BY <1>1, <1>3 DEF Seeds
  <2>2. DOMAIN req.seeds = {1} /\ req.seeds[1].index = j /\ req.seeds[1].amount = a
    BY <2>1
  <2>3. SeedMask(j) \in Tickets
    BY <2>2, OptionsAssumption DEF PanelAcceptsCreate, Tickets
  <2>4. /\ DOMAIN SeedBets(req) = 1..1
        /\ SeedBets(req)[1] = [mask |-> SeedMask(j), amount |-> a]
    BY <2>2 DEF SeedBets
  <2>5. [mask |-> SeedMask(j), amount |-> a] \in Entry
    BY <2>3 DEF Entry
  <2>6. SeedBets(req) \in [1..1 -> Entry]
    BY <2>2, <2>4, <2>5 DEF SeedBets
  <2>7. QED
    BY <2>6, PanelAssumption DEF Batches
<1>4. QED
  BY <1>2, <1>3

LEMMA PanelCreates ==
    ASSUME NEW via \in {"web", "cli"}, NEW req \in CreateRequests, PanelAcceptsCreate(req),
           req.kind = "enumerated",
           CreateEnumeratedWager(Operator, PolicyPassed(via, req), ParamPassed(via, req),
               req.closeTime, req.window, req.closer, req.resCloser, SeedBets(req))
    PROVE  Create
<1>1. PolicyPassed(via, req) \in Policies /\ ParamPassed(via, req) \in PolicyParams
  BY PanelAssumption DEF PolicyPassed, ParamPassed, CreateRequests
<1>2. /\ req.closeTime \in CloseTimes /\ req.window \in Windows
      /\ req.closer \in Closers /\ req.resCloser \in Closers
  BY DEF CreateRequests
<1>3. SeedBets(req) \in Batches \cup {<<>>}
  BY SeedsSent
<1>4. Operator \in Bettors
  BY PanelAssumption
<1> DEFINE policy == PolicyPassed(via, req)
           k == ParamPassed(via, req)
           seeds == SeedBets(req)
<1>5. CreateEnumeratedWager(Operator, policy, k, req.closeTime, req.window, req.closer,
                            req.resCloser, seeds)
  OBVIOUS
<1>6. policy \in Policies /\ k \in PolicyParams /\ seeds \in Batches \cup {<<>>}
  BY <1>1, <1>3
<1> HIDE DEF policy, k, seeds
<1>7. QED
  BY <1>2, <1>4, <1>5, <1>6 DEF Create

LEMMA CallIsNext ==
    ASSUME NEW req \in ActionRequests, Call(req)
    PROVE  Next
<1>1. Operator \in Bettors /\ Operator \in Accounts
  BY PanelAssumption DEF Accounts
<1>2. ASSUME NEW n PROVE BitsOf(n) \in Tickets
  BY DEF BitsOf, Tickets
<1>3. CASE CloseBetting(Operator) /\ UNCHANGED enumeratedVars
  BY <1>1, <1>3 DEF Next
<1>4. CASE CloseResolutionWindow(Operator) /\ UNCHANGED enumeratedVars
  BY <1>1, <1>4 DEF Next
<1>5. CASE Resolve(Operator, BitsOf(req.index[1]))
  BY <1>1, <1>2, <1>5 DEF Next
<1>6. CASE Retract(Operator) /\ UNCHANGED enumeratedVars
  BY <1>1, <1>6 DEF Next
<1>7. CASE Expire /\ UNCHANGED enumeratedVars
  BY <1>7 DEF Next
<1>8. CASE Claim(Operator)
  BY <1>1, <1>8 DEF Next
<1>9. CASE Operator \in FeeRecipients /\ WithdrawFees(Operator) /\ UNCHANGED enumeratedVars
  BY <1>9 DEF Next
<1>10. QED
  BY <1>3, <1>4, <1>5, <1>6, <1>7, <1>8, <1>9 DEF Call

\* Every command of the panel is a transaction anybody could have sent.
LEMMA PanelStep == [PanelNext]_panelVars => [Next]_vars
<1>1. SUFFICES ASSUME PanelNext
               PROVE  [Next]_vars
  BY DEF panelVars, vars
<1>2. ASSUME NEW via \in {"web", "cli"}, NEW execute \in BOOLEAN, NEW authorized \in BOOLEAN,
             NEW req \in CreateRequests, PanelCreate(via, req, execute, authorized)
      PROVE  [Next]_vars
  <2>1. CASE UNCHANGED vars
    BY <2>1
  <2>2. CASE ~UNCHANGED vars
    BY <1>2, <2>2, PanelCreates DEF PanelCreate, Next
  <2>3. QED
    BY <2>1, <2>2
<1>3. ASSUME NEW via \in {"web", "cli"}, NEW execute \in BOOLEAN, NEW authorized \in BOOLEAN,
             NEW req \in ActionRequests, PanelAction(via, req, execute, authorized)
      PROVE  [Next]_vars
  BY <1>3, CallIsNext DEF PanelAction
<1>4. QED
  BY <1>1, <1>2, <1>3 DEF PanelNext

-------------------------------------------------------------------------------
\* What was refused is a request the panel's own checks fail, whenever they are asked.
RefusedByCheck ==
    IsCreate /\ last.reply = "refused" =>
        last.asked \in CreateRequests /\ ~PanelAcceptsCreate(last.asked)

LEMMA RefusedStep == RefusedByCheck /\ [PanelNext]_panelVars => RefusedByCheck'
<1>1. SUFFICES ASSUME RefusedByCheck, [PanelNext]_panelVars
               PROVE  RefusedByCheck'
  OBVIOUS
<1>2. CASE last' = NoRequest
  BY <1>2 DEF RefusedByCheck, IsCreate
<1>3. CASE UNCHANGED panelVars
  BY <1>1, <1>3 DEF RefusedByCheck, IsCreate, panelVars, PanelAcceptsCreate, LifecycleChecked
<1>4. ASSUME NEW via \in {"web", "cli"}, NEW execute \in BOOLEAN, NEW authorized \in BOOLEAN,
             NEW req \in CreateRequests, PanelCreate(via, req, execute, authorized)
      PROVE  RefusedByCheck'
  <2>1. Reply(via, execute, authorized) # "refused"
    BY DEF Reply
  <2>2. CASE ~PanelAcceptsCreate(req)
    <3>1. last' = [reply |-> "refused", via |-> via, asked |-> req]
      BY <1>4, <2>2 DEF PanelCreate, Answered
    <3>2. QED
      BY <2>2, <3>1 DEF RefusedByCheck, PanelAcceptsCreate, LifecycleChecked
  <2>3. CASE PanelAcceptsCreate(req)
    <3>1. last' = [reply |-> Reply(via, execute, authorized), via |-> via, asked |-> req]
      BY <1>4, <2>3 DEF PanelCreate, Answered
    <3>2. QED
      BY <2>1, <3>1 DEF RefusedByCheck
  <2>4. QED
    BY <2>2, <2>3
<1>5. ASSUME NEW via \in {"web", "cli"}, NEW execute \in BOOLEAN, NEW authorized \in BOOLEAN,
             NEW req \in ActionRequests, PanelAction(via, req, execute, authorized)
      PROVE  RefusedByCheck'
  <2>1. last'.asked = req
    BY <1>5 DEF PanelAction, Answered
  <2>2. req.kind \notin {"enumerated", "freeform"}
    BY DEF ActionRequests, Actions
  <2>3. QED
    BY <2>1, <2>2 DEF RefusedByCheck, IsCreate
<1>6. QED
  BY <1>1, <1>2, <1>3, <1>4, <1>5 DEF PanelNext

\* The panel refuses no request that the factory would have accepted.
THEOREM PanelRefusesRightly == PanelSpec => []PanelRefusesOnlyReverts
<1>1. PanelInit => RefusedByCheck
  BY DEF PanelInit, RefusedByCheck, IsCreate
<1>2. RefusedByCheck => PanelRefusesOnlyReverts
  BY FactoryAcceptsLess DEF RefusedByCheck, PanelRefusesOnlyReverts
<1>3. QED
  BY <1>1, <1>2, RefusedStep, PTL DEF PanelSpec

-------------------------------------------------------------------------------
\* Before the wager exists nobody has a stake.
NoStakeBefore ==
    state = "Undeployed" => betsByMask = [b \in Bettors |-> [m \in Tickets |-> 0]]

LEMMA NoStakeStep == NoStakeBefore /\ [Next]_vars => NoStakeBefore'
<1>1. SUFFICES ASSUME NoStakeBefore, [Next]_vars, state' = "Undeployed"
               PROVE  state = "Undeployed" /\ betsByMask' = betsByMask
  BY DEF NoStakeBefore
<1>2. CASE Create
  BY <1>1, <1>2 DEF Create, CreateEnumeratedWager, Deploy
<1>3. CASE UNCHANGED enumeratedVars /\ UNCHANGED state
  BY <1>1, <1>3 DEF enumeratedVars, bookVars
<1>4. CASE \E b \in Bettors, entry \in Entry : PlaceBet(b, entry)
  BY <1>1, <1>4 DEF PlaceBet, BettingAllowed
<1>5. CASE \E b \in Bettors, batch \in Batches : PlaceBets(b, batch)
  BY <1>1, <1>5 DEF PlaceBets, BettingAllowed
<1>6. CASE \E a \in Accounts, W \in Tickets : Resolve(a, W)
  BY <1>1, <1>6 DEF Resolve
<1>7. CASE \E b \in Bettors : Claim(b)
  BY <1>1, <1>7 DEF Claim, PayClaim, enumeratedVars, bookVars
<1>8. CASE UNCHANGED vars
  BY <1>1, <1>8 DEF vars, lifecycleVars, enumeratedVars, bookVars
<1>9. CASE /\ UNCHANGED enumeratedVars
           /\ Tick \/ Expire \/ \E a \in Accounts : \/ CloseBetting(a) \/ Retract(a)
                                                    \/ CloseResolutionWindow(a)
  BY <1>1, <1>9 DEF Tick, Expire, CloseBetting, Retract, CloseResolutionWindow,
                    enumeratedVars, bookVars
<1>10. CASE \E r \in FeeRecipients : WithdrawFees(r) /\ UNCHANGED enumeratedVars
  BY <1>1, <1>10 DEF WithdrawFees, enumeratedVars, bookVars
<1>11. QED
  BY <1>1, <1>2, <1>4, <1>5, <1>6, <1>7, <1>8, <1>9, <1>10 DEF Next

\* The seed of a fresh wager.
LEMMA SeedRecorded ==
    ASSUME IInv, NoStakeBefore, state = "Undeployed", NEW req \in CreateRequests,
           req.kind = "enumerated", PanelAcceptsCreate(req),
           RecordBets(Operator, SeedBets(req)), NEW i \in DOMAIN req.seeds
    PROVE  betsByMask'[Operator][{req.seeds[i].index}] = req.seeds[i].amount
<1> DEFINE batch == SeedBets(req)
           books == BooksAfter(Operator, batch)
           m == SeedMask(req.seeds[1].index)
<1>1. PICK j \in SeedIndices, a \in StakeSizes : req.seeds = <<[index |-> j, amount |-> a]>>
  BY DEF CreateRequests, Seeds
<1>2. i = 1 /\ req.seeds[1].index = j /\ req.seeds[1].amount = a
  BY <1>1
<1>3. batch \in Seq(Entry)
  BY SeedsSent, BatchesAreSequences
<1> HIDE DEF m, books
<1>4. DOMAIN batch = {1} /\ Len(batch) = 1 /\ batch[1] = [mask |-> m, amount |-> a]
  BY <1>1, <1>2, <1>3 DEF SeedBets, m
<1> HIDE DEF batch
<1>5. Operator \in Bettors /\ m \in Tickets /\ a \in Nat
  <2>1. batch[1] \in Entry
    BY <1>3, <1>4
  <2>2. batch[1].mask \in Tickets /\ batch[1].amount \in Nat
    BY <2>1, BookAssumption DEF Entry
  <2>3. QED
    BY <1>4, <2>2, PanelAssumption
<1>6. books[1] = Recorded(CurrentBook(Operator), batch[1])
  <2>1. /\ books[0] = CurrentBook(Operator)
        /\ \A n \in 1..Len(batch) : books[n] = Recorded(books[n - 1], batch[n])
    <3>1. Len(batch) \in Nat
      BY <1>4
    <3>2. QED
      BY <3>1, BooksAfterUnfold DEF books
  <2>2. 1 \in 1..Len(batch) /\ 1 - 1 = 0
    BY <1>4
  <2>3. QED
    BY <2>1, <2>2
<1>7. CurrentBook(Operator).bets[m] = 0 /\ CurrentBook(Operator).bets \in [Tickets -> Nat]
  BY <1>5 DEF CurrentBook, NoStakeBefore, IInv, TypeOK
<1>8. books[1].bets[m] = a
  BY <1>4, <1>5, <1>6, <1>7 DEF Recorded
<1>9. betsByMask'[Operator] = books[1].bets
  BY <1>4, <1>5 DEF RecordBets, IInv, TypeOK, books, batch
<1>10. QED
  BY <1>2, <1>8, <1>9 DEF SeedMask, m

\* A wager created through the panel has the clocks, the closers and the seeds of the
\* request, and by the CLI its payoff policy.
THEOREM PanelCreatesAsAsked == PanelSpec => CreatedAsAsked
<1> DEFINE AsAsked(req) ==
        /\ <<bettingCloseTime', resolutionWindow', bettingCloser', resolutionCloser'>>
             = <<req.closeTime, req.window, req.closer, req.resCloser>>
        /\ last'.via = "cli" => <<payoffPolicy', policyParam'>> = <<req.policy, req.k>>
        /\ \A i \in DOMAIN req.seeds :
              betsByMask'[Operator][{req.seeds[i].index}] = req.seeds[i].amount
<1>1. ASSUME IInv, NoStakeBefore, PanelNext, CreatedByPanel
      PROVE  AsAsked(last'.asked)
  <2>1. PICK via \in {"web", "cli"}, execute \in BOOLEAN, authorized \in BOOLEAN,
             req \in CreateRequests : PanelCreate(via, req, execute, authorized)
    BY <1>1 DEF PanelNext, CreatedByPanel
  <2>2. ~UNCHANGED vars /\ state = "Undeployed"
    BY <1>1 DEF CreatedByPanel, vars, lifecycleVars
  <2>3. /\ last'.asked = req /\ PanelAcceptsCreate(req) /\ req.kind = "enumerated"
        /\ CreateEnumeratedWager(Operator, PolicyPassed(via, req), ParamPassed(via, req),
               req.closeTime, req.window, req.closer, req.resCloser, SeedBets(req))
    BY <2>1, <2>2 DEF PanelCreate, Answered
  <2>4. RecordBets(Operator, SeedBets(req))
        /\ Deploy(req.closeTime, req.window, req.closer, req.resCloser)
    BY <2>3 DEF CreateEnumeratedWager
  <2>5. \A i \in DOMAIN req.seeds :
            betsByMask'[Operator][{req.seeds[i].index}] = req.seeds[i].amount
    BY <1>1, <2>2, <2>3, <2>4, SeedRecorded
  <2>6. last'.via = "cli" => <<payoffPolicy', policyParam'>> = <<req.policy, req.k>>
    <3>1. last'.via = via
      BY <2>1, <2>3 DEF PanelCreate, Answered
    <3>2. payoffPolicy' = PolicyPassed(via, req) /\ policyParam' = ParamPassed(via, req)
      BY <2>3 DEF CreateEnumeratedWager
    <3>3. QED
      BY <3>1, <3>2 DEF PolicyPassed, ParamPassed
  <2>7. QED
    BY <2>3, <2>4, <2>5, <2>6 DEF Deploy
<1>2. IInv /\ NoStakeBefore /\ [PanelNext]_panelVars
        => [CreatedByPanel => AsAsked(last'.asked)]_panelVars
  BY <1>1
<1>3. PanelInit => IInv /\ NoStakeBefore
  BY IInvInit DEF PanelInit, NoStakeBefore, Init
<1>4. IInv /\ NoStakeBefore /\ [PanelNext]_panelVars => IInv' /\ NoStakeBefore'
  BY PanelStep, IInvStep, NoStakeStep
<1>5. PanelSpec => [][CreatedByPanel => AsAsked(last'.asked)]_panelVars
  BY <1>2, <1>3, <1>4, PTL DEF PanelSpec
<1>6. QED
  BY <1>5 DEF CreatedAsAsked, AsAsked
===============================================================================
