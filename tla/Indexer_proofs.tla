---------------------------- MODULE Indexer_proofs ----------------------------
(***************************************************************************)
(* Indexer for any chain, chunk size and settings: the bisecting fetch     *)
(* loses nothing and the batch is in order; the file has no gap; the pools *)
(* are exact.  Then its API (IndexerAPI), for any page size: an answer     *)
(* reads forward, and a walk of the list receives each wager once.         *)
(***************************************************************************)
EXTENDS Indexer, IndexerAPI, FiniteSums

-------------------------------------------------------------------------------
(* The bisecting fetch *)

Mid(s, e) == s + ((e - s + 1) \div 2) - 1

LEMMA MidBetween ==
    ASSUME NEW s \in Nat, NEW e \in Nat, s < e
    PROVE  Mid(s, e) \in Nat /\ s <= Mid(s, e) /\ Mid(s, e) < e
<1>1. ASSUME NEW n \in Nat, n >= 2
      PROVE  n \div 2 \in Nat /\ 1 <= n \div 2 /\ n \div 2 < n
  BY <1>1
<1>2. e - s + 1 \in Nat /\ e - s + 1 >= 2
  OBVIOUS
<1> DEFINE half == (e - s + 1) \div 2
<1>3. half \in Nat /\ 1 <= half /\ half < e - s + 1
  BY <1>1, <1>2
<1> HIDE DEF half
<1>4. Mid(s, e) = s + half - 1
  BY DEF Mid, half
<1>5. QED
  BY <1>3, <1>4

\* What a caller of the bisection may rely on, for any function that satisfies its
\* equation.
IsBisect(fetch, refused) ==
    fetch = [span \in Spans |-> BisectReply(refused, fetch, span)]

\* A span that holds a block, and its halves.
LEMMA Halves ==
    ASSUME NEW s \in 1..MaxBlocks + 1, NEW e \in 0..MaxBlocks, s < e
    PROVE  /\ <<s, Mid(s, e)>> \in Spans /\ <<Mid(s, e) + 1, e>> \in Spans
           /\ Mid(s, e) \in Nat /\ s <= Mid(s, e) /\ Mid(s, e) < e
<1>1. MaxBlocks \in Nat
  BY IndexerAssumption
<1>2. Mid(s, e) \in Nat /\ s <= Mid(s, e) /\ Mid(s, e) < e
  BY <1>1, MidBetween
<1>3. /\ Mid(s, e) \in 0..MaxBlocks /\ Mid(s, e) + 1 \in 1..MaxBlocks + 1
      /\ s \in 1..MaxBlocks + 1 /\ e \in 0..MaxBlocks
  BY <1>1, <1>2
<1>4. QED
  BY <1>2, <1>3 DEF Spans

\* The equation, case by case.
LEMMA BisectCases ==
    ASSUME NEW fetch, NEW refused, NEW s, NEW e
    PROVE  BisectReply(refused, fetch, <<s, e>>) =
             IF s > e \/ <<s, e>> \notin refused THEN Logs(s, e)
             ELSE IF s = e \/ ~fetch[<<s, Mid(s, e)>>].ok \/ ~fetch[<<Mid(s, e) + 1, e>>].ok
             THEN Failed
             ELSE [ok |-> TRUE,
                   ids |-> fetch[<<s, Mid(s, e)>>].ids \cup fetch[<<Mid(s, e) + 1, e>>].ids]
BY DEF BisectReply, Mid

LEMMA IdsJoin ==
    ASSUME NEW s \in Nat, NEW e \in Nat, NEW m \in Nat, s <= m, m < e,
           \A id \in OnChain : id[1] \in Nat
    PROVE  IdsWithin(s, m) \cup IdsWithin(m + 1, e) = IdsWithin(s, e)
<1>1. \A id \in OnChain : id[1] \in s..e <=> id[1] \in s..m \/ id[1] \in m + 1..e
  OBVIOUS
<1>2. QED
  BY <1>1 DEF IdsWithin

\* Whatever the RPC refuses, a reply that comes back holds every log of the span.
LEMMA BisectSound ==
    ASSUME \A id \in OnChain : id[1] \in Nat,
           NEW refused, NEW fetch, IsBisect(fetch, refused),
           NEW s \in 1..MaxBlocks + 1, NEW e \in 0..MaxBlocks
    PROVE  fetch[<<s, e>>].ok => fetch[<<s, e>>].ids = IdsWithin(s, e)
<1> DEFINE good(a, b) == fetch[<<a, b>>].ok => fetch[<<a, b>>].ids = IdsWithin(a, b)
           Bad == {n \in Nat : \E a \in 1..MaxBlocks + 1, b \in 0..MaxBlocks :
                                  a <= b /\ n = b - a /\ ~good(a, b)}
<1>1. MaxBlocks \in Nat
  BY IndexerAssumption
<1>2. ASSUME NEW a \in 1..MaxBlocks + 1, NEW b \in 0..MaxBlocks
      PROVE  fetch[<<a, b>>] = BisectReply(refused, fetch, <<a, b>>)
  BY DEF IsBisect, Spans
<1>3. ASSUME NEW a \in 1..MaxBlocks + 1, NEW b \in 0..MaxBlocks,
             a > b \/ <<a, b>> \notin refused
      PROVE  good(a, b)
  <2>1. BisectReply(refused, fetch, <<a, b>>) = Logs(a, b)
    BY <1>3, BisectCases
  <2>2. fetch[<<a, b>>] = Logs(a, b)
    BY <1>2, <2>1
  <2>3. QED
    BY <2>2 DEF Logs
<1> HIDE DEF good
<1>4. Bad = {}
  <2>1. SUFFICES ASSUME Bad # {}
                 PROVE  FALSE
    OBVIOUS
  <2>2. PICK n \in Bad : \A m \in Bad : n <= m
    <3>1. Bad \in SUBSET Nat
      OBVIOUS
    <3> HIDE DEF Bad
    <3>2. QED
      BY <2>1, <3>1, LeastNatural
  <2>3. PICK a \in 1..MaxBlocks + 1, b \in 0..MaxBlocks : a <= b /\ n = b - a /\ ~good(a, b)
    BY <2>2
  <2>4. <<a, b>> \in refused
    BY <1>3, <2>3
  <2>5. fetch[<<a, b>>] =
          IF a = b \/ ~fetch[<<a, Mid(a, b)>>].ok \/ ~fetch[<<Mid(a, b) + 1, b>>].ok THEN Failed
          ELSE [ok |-> TRUE,
                ids |-> fetch[<<a, Mid(a, b)>>].ids \cup fetch[<<Mid(a, b) + 1, b>>].ids]
    <3>1. fetch[<<a, b>>] = BisectReply(refused, fetch, <<a, b>>)
      BY <1>2
    <3>2. ~(a > b)
      BY <1>1, <2>3
    <3>3. QED
      BY <2>4, <3>1, <3>2, BisectCases
  <2>6. /\ a # b /\ fetch[<<a, Mid(a, b)>>].ok /\ fetch[<<Mid(a, b) + 1, b>>].ok
        /\ fetch[<<a, b>>].ids = fetch[<<a, Mid(a, b)>>].ids \cup fetch[<<Mid(a, b) + 1, b>>].ids
    BY <2>3, <2>5 DEF Failed, good
  <2> DEFINE m == Mid(a, b)
  <2>7. a < b /\ a \in Nat /\ b \in Nat /\ m \in Nat /\ a <= m /\ m < b
    <3>1. a \in Nat /\ b \in Nat /\ a < b
      BY <1>1, <2>3, <2>6
    <3>2. QED
      BY <3>1, MidBetween
  <2> HIDE DEF m
  <2>8. good(a, m)
    <3>1. m \in 0..MaxBlocks /\ m - a \in Nat /\ m - a < n
      BY <1>1, <2>3, <2>7
    <3>2. m - a \notin Bad
      <4>1. m - a \in Bad => n <= m - a
        BY <2>2
      <4>2. QED
        BY <1>1, <2>3, <2>7, <3>1, <4>1
    <3>3. QED
      BY <2>7, <3>1, <3>2
  <2>9. good(m + 1, b)
    <3>1. m + 1 \in 1..MaxBlocks + 1 /\ b - (m + 1) \in Nat /\ b - (m + 1) < n
      BY <1>1, <2>3, <2>7
    <3>2. b - (m + 1) \notin Bad
      <4>1. b - (m + 1) \in Bad => n <= b - (m + 1)
        BY <2>2
      <4>2. QED
        BY <1>1, <2>3, <2>7, <3>1, <4>1
    <3>3. QED
      BY <2>7, <3>1, <3>2
  <2>10. fetch[<<a, b>>].ids = IdsWithin(a, m) \cup IdsWithin(m + 1, b)
    BY <2>6, <2>8, <2>9 DEF m, good
  <2>11. IdsWithin(a, m) \cup IdsWithin(m + 1, b) = IdsWithin(a, b)
    BY <2>7, IdsJoin
  <2>12. QED
    BY <2>3, <2>10, <2>11 DEF good
<1>5. CASE s <= e
  <2>1. e - s \in Nat
    BY <1>1, <1>5
  <2>2. e - s \notin Bad
    <3> HIDE DEF Bad
    <3> QED BY <1>4
  <2>3. QED
    BY <1>5, <2>1, <2>2 DEF good
<1>6. CASE s > e
  BY <1>3, <1>6 DEF good
<1>7. QED
  BY <1>1, <1>5, <1>6

\* The spans a bisection can answer: the largest set in which every span is empty, is
\* not refused, or has both its halves.
Answerable(refused) ==
    UNION {A \in SUBSET Spans :
             \A span \in A : \/ span[1] > span[2] \/ span \notin refused
                             \/ /\ span[1] # span[2]
                                /\ <<span[1], Mid(span[1], span[2])>> \in A
                                /\ <<Mid(span[1], span[2]) + 1, span[2]>> \in A}

LEMMA AnswerableEquation ==
    ASSUME NEW refused, NEW s \in 1..MaxBlocks + 1, NEW e \in 0..MaxBlocks
    PROVE  <<s, e>> \in Answerable(refused) <=>
             \/ s > e \/ <<s, e>> \notin refused
             \/ /\ s # e
                /\ <<s, Mid(s, e)>> \in Answerable(refused)
                /\ <<Mid(s, e) + 1, e>> \in Answerable(refused)
<1> DEFINE Holds(span, A) == \/ span[1] > span[2] \/ span \notin refused
                             \/ /\ span[1] # span[2]
                                /\ <<span[1], Mid(span[1], span[2])>> \in A
                                /\ <<Mid(span[1], span[2]) + 1, span[2]>> \in A
           Good == {A \in SUBSET Spans : \A span \in A : Holds(span, A)}
           All == UNION Good
<1>1. Answerable(refused) = All
  BY DEF Answerable
<1>2. <<s, e>> \in Spans
  BY DEF Spans
<1>3. ASSUME NEW span, NEW A, NEW B, A \subseteq B, Holds(span, A)
      PROVE  Holds(span, B)
  BY <1>3
<1> HIDE DEF Holds
<1>4. All \in Good
  <2>1. ASSUME NEW span \in All
        PROVE  Holds(span, All)
    <3>1. PICK A \in Good : span \in A
      OBVIOUS
    <3>2. A \subseteq All /\ Holds(span, A)
      BY <3>1
    <3> HIDE DEF All
    <3>3. QED
      BY <1>3, <3>2
  <2>2. All \in SUBSET Spans
    OBVIOUS
  <2>3. QED
    BY <2>1, <2>2
<1>5. ASSUME NEW span \in Spans, Holds(span, All)
      PROVE  span \in All
  <2> DEFINE More == All \cup {span}
  <2>1. \A x \in More : Holds(x, All)
    BY <1>4, <1>5
  <2>2. All \subseteq More
    OBVIOUS
  <2>3. \A x \in More : Holds(x, More)
    <3> HIDE DEF More, All
    <3> QED BY <1>3, <2>1, <2>2
  <2>4. More \in SUBSET Spans
    BY <1>4
  <2>5. More \in Good
    BY <2>3, <2>4
  <2>6. span \in More
    OBVIOUS
  <2> HIDE DEF More, Good
  <2>7. QED
    BY <2>5, <2>6
<1>6. <<s, e>> \in All <=> Holds(<<s, e>>, All)
  <2> HIDE DEF All
  <2>1. \A span \in All : Holds(span, All)
    BY <1>4
  <2>2. QED
    BY <1>2, <1>5, <2>1
<1> HIDE DEF All
<1>7. QED
  BY <1>1, <1>6 DEF Holds

LEMMA BisectExists ==
    ASSUME \A id \in OnChain : id[1] \in Nat, NEW refused
    PROVE  \E fetch : IsBisect(fetch, refused)
<1> DEFINE fetch == [span \in Spans |-> IF span \in Answerable(refused)
                                        THEN Logs(span[1], span[2]) ELSE Failed]
<1>1. ASSUME NEW s \in 1..MaxBlocks + 1, NEW e \in 0..MaxBlocks
      PROVE  fetch[<<s, e>>] = BisectReply(refused, fetch, <<s, e>>)
  <2>1. MaxBlocks \in Nat /\ s \in Nat /\ e \in Nat
    BY IndexerAssumption
  <2>2. ASSUME NEW a \in 1..MaxBlocks + 1, NEW b \in 0..MaxBlocks
        PROVE  /\ <<a, b>> \in Answerable(refused) => fetch[<<a, b>>] = Logs(a, b)
               /\ <<a, b>> \notin Answerable(refused) => fetch[<<a, b>>] = Failed
    BY DEF Spans
  <2> HIDE DEF fetch
  <2>3. CASE s > e \/ <<s, e>> \notin refused
    <3>1. <<s, e>> \in Answerable(refused)
      BY <2>3, AnswerableEquation
    <3>2. fetch[<<s, e>>] = Logs(s, e)
      BY <2>2, <3>1
    <3>3. BisectReply(refused, fetch, <<s, e>>) = Logs(s, e)
      BY <2>3, BisectCases
    <3>4. QED
      BY <3>2, <3>3
  <2> DEFINE halved ==
        IF s = e \/ ~fetch[<<s, Mid(s, e)>>].ok \/ ~fetch[<<Mid(s, e) + 1, e>>].ok
        THEN Failed
        ELSE [ok |-> TRUE,
              ids |-> fetch[<<s, Mid(s, e)>>].ids \cup fetch[<<Mid(s, e) + 1, e>>].ids]
  <2>halved. ~(s > e) /\ <<s, e>> \in refused => BisectReply(refused, fetch, <<s, e>>) = halved
    BY BisectCases
  <2>4. CASE ~(s > e) /\ <<s, e>> \in refused /\ s = e
    <3>1. <<s, e>> \notin Answerable(refused)
      BY <2>4, AnswerableEquation
    <3>2. fetch[<<s, e>>] = Failed
      BY <2>2, <3>1
    <3>3. BisectReply(refused, fetch, <<s, e>>) = Failed
      BY <2>halved, <2>4
    <3>4. QED
      BY <3>2, <3>3
  <2>5. CASE ~(s > e) /\ <<s, e>> \in refused /\ s # e
    <3> DEFINE m == Mid(s, e)
    <3>1. s < e
      BY <2>1, <2>5
    <3>2. /\ m \in Nat /\ s <= m /\ m < e
          /\ m \in 0..MaxBlocks /\ m + 1 \in 1..MaxBlocks + 1
      BY <2>1, <3>1, MidBetween
    <3>3. <<s, e>> \in Answerable(refused) <=>
            <<s, m>> \in Answerable(refused) /\ <<m + 1, e>> \in Answerable(refused)
      BY <2>5, AnswerableEquation
    <3>4. BisectReply(refused, fetch, <<s, e>>) =
            IF ~fetch[<<s, m>>].ok \/ ~fetch[<<m + 1, e>>].ok THEN Failed
            ELSE [ok |-> TRUE, ids |-> fetch[<<s, m>>].ids \cup fetch[<<m + 1, e>>].ids]
      BY <2>halved, <2>5
    <3> HIDE DEF m
    <3>5. /\ <<s, m>> \in Answerable(refused) => fetch[<<s, m>>] = Logs(s, m)
          /\ <<s, m>> \notin Answerable(refused) => fetch[<<s, m>>] = Failed
          /\ <<m + 1, e>> \in Answerable(refused) => fetch[<<m + 1, e>>] = Logs(m + 1, e)
          /\ <<m + 1, e>> \notin Answerable(refused) => fetch[<<m + 1, e>>] = Failed
          /\ <<s, e>> \in Answerable(refused) => fetch[<<s, e>>] = Logs(s, e)
          /\ <<s, e>> \notin Answerable(refused) => fetch[<<s, e>>] = Failed
      BY <2>2, <3>2
    <3>6. IdsWithin(s, m) \cup IdsWithin(m + 1, e) = IdsWithin(s, e)
      BY <2>1, <3>2, IdsJoin
    <3>7. \A a, b : Logs(a, b).ok /\ Logs(a, b).ids = IdsWithin(a, b)
      BY DEF Logs
    <3>8. ~Failed.ok
      BY DEF Failed
    <3>9. CASE <<s, m>> \in Answerable(refused) /\ <<m + 1, e>> \in Answerable(refused)
      <4>ok. fetch[<<s, m>>].ok /\ fetch[<<m + 1, e>>].ok
        BY <3>5, <3>7, <3>9
      <4>ids. /\ fetch[<<s, m>>].ids = IdsWithin(s, m)
            /\ fetch[<<m + 1, e>>].ids = IdsWithin(m + 1, e)
        BY <3>5, <3>7, <3>9
      <4>1. BisectReply(refused, fetch, <<s, e>>) =
              [ok |-> TRUE, ids |-> IdsWithin(s, m) \cup IdsWithin(m + 1, e)]
        BY <3>4, <4>ok, <4>ids
      <4>2. QED
        BY <3>3, <3>5, <3>6, <3>9, <4>1 DEF Logs
    <3>10. CASE ~(<<s, m>> \in Answerable(refused) /\ <<m + 1, e>> \in Answerable(refused))
      <4>1. ~fetch[<<s, m>>].ok \/ ~fetch[<<m + 1, e>>].ok
        BY <3>5, <3>8, <3>10
      <4>2. QED
        BY <3>3, <3>4, <3>5, <3>10, <4>1
    <3>11. QED
      BY <3>9, <3>10
  <2>6. QED
    BY <2>3, <2>4, <2>5
<1>2. \A span \in Spans : \E s \in 1..MaxBlocks + 1, e \in 0..MaxBlocks : span = <<s, e>>
  BY DEF Spans
<1>3. DOMAIN fetch = Spans /\ fetch = [span \in Spans |-> fetch[span]]
  OBVIOUS
<1> HIDE DEF fetch
<1>4. \A span \in Spans : fetch[span] = BisectReply(refused, fetch, span)
  BY <1>1, <1>2
<1>5. IsBisect(fetch, refused)
  BY <1>3, <1>4 DEF IsBisect
<1>6. QED
  BY <1>5

\* What sync_logs gets is every log of the chunk, or a failure.
LEMMA FetchComplete ==
    ASSUME \A id \in OnChain : id[1] \in Nat, NEW refused,
           NEW s \in 1..MaxBlocks + 1, NEW e \in 0..MaxBlocks,
           GetLogsBisect(refused)[<<s, e>>].ok
    PROVE  GetLogsBisect(refused)[<<s, e>>].ids = IdsWithin(s, e)
<1>1. GetLogsBisect(refused) = CHOOSE fetch : IsBisect(fetch, refused)
  BY DEF GetLogsBisect, IsBisect
<1>2. IsBisect(GetLogsBisect(refused), refused)
  BY <1>1, BisectExists
<1>3. QED
  BY <1>2, BisectSound

-------------------------------------------------------------------------------
(* The order of the logs of a chunk *)

Ids == (Nat \ {0}) \X (Nat \ {0})
Rank(ids, id) == Cardinality({p \in ids : Before(p, id)})

LEMMA BeforeIsTotal ==
    /\ \A p \in Ids : ~Before(p, p)
    /\ \A p, q \in Ids : p # q => Before(p, q) \/ Before(q, p)
    /\ \A p, q, r \in Ids : Before(p, q) /\ Before(q, r) => Before(p, r)
<1>1. \A p \in Ids : p[1] \in Nat /\ p[2] \in Nat /\ p = <<p[1], p[2]>>
  BY DEF Ids
<1>2. \A p, q \in Ids : p # q => p[1] # q[1] \/ p[2] # q[2]
  BY <1>1
<1>3. QED
  BY <1>1, <1>2 DEF Before

LEMMA RankRises ==
    ASSUME NEW ids \in SUBSET Ids, IsFiniteSet(ids), NEW p \in ids, NEW q \in ids, Before(p, q)
    PROVE  Rank(ids, p) < Rank(ids, q)
<1> DEFINE P == {x \in ids : Before(x, p)}
           Q == {x \in ids : Before(x, q)}
<1>1. P \subseteq Q /\ p \in Q /\ p \notin P
  BY BeforeIsTotal
<1>2. IsFiniteSet(P) /\ IsFiniteSet(Q)
  BY FS_Subset
<1>3. Cardinality(P) \in Nat /\ Cardinality(Q) \in Nat
  BY <1>2, FS_CardinalityType
<1>4. Cardinality(P) <= Cardinality(Q) /\ (Cardinality(P) = Cardinality(Q) => P = Q)
  <2> HIDE DEF P, Q
  <2> QED BY <1>1, <1>2, FS_Subset
<1>5. Cardinality(P) # Cardinality(Q)
  <2> HIDE DEF P, Q
  <2> QED BY <1>1, <1>4
<1>6. Rank(ids, p) = Cardinality(P) /\ Rank(ids, q) = Cardinality(Q)
  BY DEF Rank
<1> HIDE DEF P, Q
<1>7. QED
  BY <1>3, <1>4, <1>5, <1>6

LEMMA RankRange ==
    ASSUME NEW ids \in SUBSET Ids, IsFiniteSet(ids), NEW q \in ids
    PROVE  Rank(ids, q) \in 0..(Cardinality(ids) - 1)
<1> DEFINE Q == {x \in ids : Before(x, q)}
<1>1. Q \subseteq ids \ {q}
  BY BeforeIsTotal
<1>2. IsFiniteSet(ids \ {q}) /\ Cardinality(ids \ {q}) = Cardinality(ids) - 1
  BY FS_RemoveElement
<1>3. IsFiniteSet(Q) /\ Cardinality(Q) <= Cardinality(ids \ {q})
  <2> HIDE DEF Q
  <2> QED BY <1>1, <1>2, FS_Subset
<1>4. Cardinality(Q) \in Nat /\ Cardinality(ids) \in Nat
  BY <1>3, FS_CardinalityType
<1>5. Rank(ids, q) = Cardinality(Q)
  BY DEF Rank
<1> HIDE DEF Q
<1>6. QED
  BY <1>2, <1>3, <1>4, <1>5

\* Every rank is taken, by one log.
LEMMA RankOnto ==
    ASSUME NEW ids \in SUBSET Ids, IsFiniteSet(ids),
           NEW k \in 0..(Cardinality(ids) - 1)
    PROVE  \E id \in ids : Rank(ids, id) = k
<1> DEFINE n == Cardinality(ids)
           rank == [id \in ids |-> Rank(ids, id)]
<1>1. n \in Nat
  BY FS_CardinalityType
<1>2. rank \in [ids -> 0..(n - 1)]
  BY RankRange
<1>3. \A p, q \in ids : p # q => rank[p] # rank[q]
  <2>1. ASSUME NEW p \in ids, NEW q \in ids, Before(p, q)
        PROVE  Rank(ids, p) # Rank(ids, q)
    <3>1. Rank(ids, p) \in Nat /\ Rank(ids, q) \in Nat
      BY <1>1, RankRange
    <3>2. QED
      BY <2>1, <3>1, RankRises
  <2>2. QED
    BY <2>1, BeforeIsTotal
<1>4. IsFiniteSet(0..(n - 1)) /\ Cardinality(0..(n - 1)) = n
  BY <1>1, FS_Interval
<1> HIDE DEF rank
<1>5. rank \in Injection(ids, 0..(n - 1))
  BY <1>2, <1>3 DEF Injection, IsInjective
<1>6. rank \in Surjection(ids, 0..(n - 1))
  BY <1>4, <1>5, FS_Injection
<1>7. \E id \in ids : rank[id] = k
  BY <1>6 DEF Surjection
<1>8. QED
  BY <1>7 DEF rank

\* InLogOrder lists a finite set of logs, each once, in the order of the chain.
LEMMA LogOrder ==
    ASSUME NEW ids \in SUBSET Ids, IsFiniteSet(ids)
    PROVE  /\ InLogOrder(ids) \in Seq(ids) /\ Len(InLogOrder(ids)) = Cardinality(ids)
           /\ \A id \in ids : \E i \in DOMAIN InLogOrder(ids) : InLogOrder(ids)[i] = id
           /\ \A i, j \in DOMAIN InLogOrder(ids) :
                i < j => Before(InLogOrder(ids)[i], InLogOrder(ids)[j])
<1> DEFINE order == InLogOrder(ids)
           n == Cardinality(ids)
<1>1. n \in Nat
  BY FS_CardinalityType
<1>2. order = [k \in 1..n |-> CHOOSE id \in ids : Rank(ids, id) = k - 1]
  BY DEF InLogOrder, Sorted, Rank, Before
<1> HIDE DEF order
<1>3. ASSUME NEW k \in 1..n
      PROVE  order[k] \in ids /\ Rank(ids, order[k]) = k - 1
  <2>1. \E id \in ids : Rank(ids, id) = k - 1
    BY <1>1, RankOnto
  <2>2. order[k] = CHOOSE id \in ids : Rank(ids, id) = k - 1
    BY <1>2
  <2>3. QED
    BY <2>1, <2>2
<1>4. order \in Seq(ids) /\ DOMAIN order = 1..n /\ Len(order) = n
  <2>1. order \in [1..n -> ids]
    BY <1>2, <1>3
  <2>2. QED
    BY <1>1, <2>1
<1>5. ASSUME NEW i \in 1..n, NEW j \in 1..n, i < j
      PROVE  Before(order[i], order[j])
  <2>1. order[i] \in ids /\ order[j] \in ids
        /\ Rank(ids, order[i]) = i - 1 /\ Rank(ids, order[j]) = j - 1
    BY <1>3
  <2>2. order[i] # order[j]
    BY <1>1, <1>5, <2>1
  <2>3. ~Before(order[j], order[i])
    <3>1. Before(order[j], order[i]) => j - 1 < i - 1
      BY <2>1, RankRises
    <3>2. QED
      BY <1>1, <1>5, <3>1
  <2>4. QED
    BY <2>1, <2>2, <2>3, BeforeIsTotal
<1>6. ASSUME NEW id \in ids
      PROVE  \E i \in 1..n : order[i] = id
  <2> DEFINE r == Rank(ids, id)
  <2>1. r \in 0..(n - 1)
    BY RankRange
  <2>2. r + 1 \in 1..n
    BY <1>1, <2>1
  <2>3. order[r + 1] \in ids /\ Rank(ids, order[r + 1]) = r
    BY <1>1, <1>3, <2>1, <2>2
  <2>4. ~Before(order[r + 1], id) /\ ~Before(id, order[r + 1])
    <3>1. Before(order[r + 1], id) => r < r
      BY <2>3, RankRises
    <3>2. Before(id, order[r + 1]) => r < r
      BY <2>3, RankRises
    <3>3. QED
      BY <1>1, <2>1, <3>1, <3>2
  <2>5. order[r + 1] = id
    BY <2>3, <2>4, BeforeIsTotal
  <2>6. QED
    BY <2>2, <2>5
<1>7. QED
  BY <1>4, <1>5, <1>6 DEF order

LEMMA OrderByRank ==
    ASSUME NEW ids \in SUBSET Ids, IsFiniteSet(ids), NEW k \in 1..Cardinality(ids)
    PROVE  InLogOrder(ids)[k] \in ids /\ Rank(ids, InLogOrder(ids)[k]) = k - 1
<1>1. Cardinality(ids) \in Nat
  BY FS_CardinalityType
<1>2. InLogOrder(ids)[k] = CHOOSE id \in ids : Rank(ids, id) = k - 1
  BY DEF InLogOrder, Sorted, Rank, Before
<1>3. \E id \in ids : Rank(ids, id) = k - 1
  BY <1>1, RankOnto
<1>4. QED
  BY <1>2, <1>3

\* Logs that come after all others leave the beginning of the order as it is.
LEMMA OrderExtends ==
    ASSUME NEW ids \in SUBSET Ids, IsFiniteSet(ids), NEW more \in SUBSET Ids, IsFiniteSet(more),
           ids \subseteq more, \A p \in ids, q \in more \ ids : Before(p, q)
    PROVE  /\ Cardinality(ids) \in Nat /\ Cardinality(more) \in Nat
           /\ Cardinality(ids) <= Cardinality(more)
           /\ \A k \in 1..Cardinality(ids) : InLogOrder(more)[k] = InLogOrder(ids)[k]
<1>1. /\ Cardinality(ids) \in Nat /\ Cardinality(more) \in Nat
      /\ Cardinality(ids) <= Cardinality(more)
  BY FS_CardinalityType, FS_Subset
<1>2. ASSUME NEW k \in 1..Cardinality(ids)
      PROVE  InLogOrder(more)[k] = InLogOrder(ids)[k]
  <2>1. PICK x, y : x = InLogOrder(ids)[k] /\ y = InLogOrder(more)[k]
    OBVIOUS
  <2>2. x \in ids /\ Rank(ids, x) = k - 1
    BY <2>1, OrderByRank
  <2>3. y \in more /\ Rank(more, y) = k - 1
    <3>1. k \in 1..Cardinality(more)
      BY <1>1
    <3>2. QED
      BY <2>1, <3>1, OrderByRank
  <2>4. Rank(more, x) = k - 1
    <3>1. {p \in more : Before(p, x)} = {p \in ids : Before(p, x)}
      BY <2>2, BeforeIsTotal
    <3>2. QED
      BY <2>2, <3>1 DEF Rank
  <2>5. ~Before(x, y) /\ ~Before(y, x)
    <3>1. Before(x, y) => k - 1 < k - 1
      BY <2>2, <2>3, <2>4, RankRises
    <3>2. Before(y, x) => k - 1 < k - 1
      BY <2>2, <2>3, <2>4, RankRises
    <3>3. QED
      BY <3>1, <3>2
  <2>6. QED
    BY <2>1, <2>2, <2>3, <2>5, BeforeIsTotal
<1>3. QED
  BY <1>1, <1>2

-------------------------------------------------------------------------------
(* The inductive invariant *)

LogTypes == [event : {"Created", "BetPlaced", "BettingClosed", "WindowClosed", "FeeAccrued",
                      "Resolved", "Refunded", "Paid"},
             wager : AllWagers, ticket : Tickets \cup {0}, amount : Nat, value : Nat \cup Tickets]

\* Only bets carry an amount.
WellFormed(log) ==
    /\ log \in LogTypes
    /\ log.event = "BetPlaced" => log.ticket \in Tickets /\ log.amount \in setting.amounts
    /\ log.event # "BetPlaced" => log.amount = 0
    /\ log.event = "Created" => log.value \in setting.terms
    /\ log.event = "Resolved" => log.value \in Tickets
    /\ log.event # "Resolved" => log.value \in Nat

\* Two events of which a wager emits at most one.
Clash(e, f) ==
    \/ e = f /\ e \in {"Created", "BettingClosed", "WindowClosed", "Resolved", "Refunded"}
    \/ e \in {"Resolved", "Refunded"} /\ f \in {"Resolved", "Refunded"}

\* A wager's first log is its creation, and none of its logs clash.
ChainInv ==
    /\ setting \in Settings
    /\ chain \in Seq(Seq(LogTypes)) /\ Len(chain) \in 1..MaxBlocks + 1
    /\ IsFiniteSet(OnChain) /\ Cardinality(OnChain) <= setting.logs
    /\ \A id \in OnChain :
        /\ WellFormed(LogAt(id))
        /\ \E c \in OnChain : /\ LogAt(c).event = "Created" /\ LogAt(c).wager = LogAt(id).wager
                              /\ c = id \/ Before(c, id)
    /\ \A c, d \in OnChain :
        LogAt(c).wager = LogAt(d).wager /\ Clash(LogAt(c).event, LogAt(d).event) => c = d

Amount == [id \in OnChain |-> LogAt(id).amount]
EventsOf(db, w) == {id \in db.events : LogAt(id).wager = w}
BetsIn(db, w, t) == {id \in EventsOf(db, w) : LogAt(id).ticket = t}

\* The pot SQLite keeps is at most the pools; a resolved wager has its winner.
RowSound(row) ==
    /\ row.pot <= SumFunctionOnSet(row.pools, Tickets)
    /\ row.potRead <= SumFunctionOnSet(row.pools, Tickets)
    /\ row.state = "RESOLVED" => row.winner # 0

\* What holds of the file and of the open transaction alike: sealed blocks only, a
\* wager's logs without a gap, rows of the factory's own wagers, exact pools.
FileInv(db) ==
    /\ db \in Databases
    /\ db.cursor <= ChainHead /\ \A id \in db.events : id[1] <= ChainHead
    /\ \A q \in db.events, p \in OnChain :
        LogAt(p).wager = LogAt(q).wager /\ Before(p, q) => p \in db.events
    /\ \A w \in AllWagers : db.rows[w].known =>
        /\ w \in Wagers /\ RowSound(db.rows[w])
        /\ \E c \in EventsOf(db, w) : LogAt(c).event = "Created"
        /\ \A t \in Tickets :
             db.rows[w].pools[t] = SumFunctionOnSet(Amount, BetsIn(db, w, t))

\* A wager with a row has all its logs up to the cursor.
CursorInv ==
    \A w \in AllWagers : disk.rows[w].known =>
        /\ disk.cursor # NoBlock
        /\ \A id \in LogsOf(w) : id[1] <= disk.cursor => id \in disk.events

\* The batch is what is left of the chunk, in order; the rest of the chunk has been
\* applied for every wager that has a row by now.
BatchInv ==
    /\ start <= end /\ end <= ChainHead
    /\ \A i \in DOMAIN batch : start <= batch[i][1] /\ batch[i][1] <= end
    /\ \A i, j \in DOMAIN batch : i < j => Before(batch[i], batch[j])
    /\ \A id \in OnChain : start <= id[1] /\ id[1] <= end =>
         \/ \E i \in DOMAIN batch : batch[i] = id
         \/ \A i \in DOMAIN batch : Before(id, batch[i])
    /\ \A id \in OnChain :
         /\ work.rows[LogAt(id).wager].known /\ id[1] <= end
         /\ \A i \in DOMAIN batch : batch[i] # id
         => id \in work.events

PassInv ==
    /\ phase \in {"wait", "range", "fetch", "apply"}
    /\ start \in Nat /\ toBlock \in Nat /\ end \in Nat /\ batch \in Seq(OnChain)
    /\ phase # "apply" => work = disk /\ batch = <<>>
    /\ phase # "wait" => /\ start # 0 /\ toBlock <= ChainHead
                         /\ disk.cursor # NoBlock => start <= disk.cursor + 1
    /\ phase = "apply" => BatchInv

IInv == ChainInv /\ FileInv(disk) /\ FileInv(work) /\ CursorInv /\ PassInv

-------------------------------------------------------------------------------
(* The chain *)

LEMMA OnChainMembers ==
    /\ \A b, i : b \in DOMAIN chain /\ i \in DOMAIN chain[b] => <<b, i>> \in OnChain
    /\ \A id \in OnChain : /\ id = <<id[1], id[2]>>
                           /\ id[1] \in DOMAIN chain /\ id[2] \in DOMAIN chain[id[1]]
BY DEF OnChain

LEMMA ChainTypes ==
    ASSUME ChainInv
    PROVE  /\ OnChain \in SUBSET Ids /\ ChainHead \in Nat /\ ChainHead <= MaxBlocks
           /\ MaxBlocks \in Nat
           /\ \A id \in OnChain : /\ id[1] \in Nat \ {0} /\ id[1] <= ChainHead + 1
                                  /\ LogAt(id) \in LogTypes
<1>1. /\ chain \in Seq(Seq(LogTypes)) /\ Len(chain) \in 1..MaxBlocks + 1
      /\ MaxBlocks \in Nat
  BY IndexerAssumption DEF ChainInv
<1>2. DOMAIN chain = 1..Len(chain) /\ Len(chain) \in Nat
      /\ \A b \in DOMAIN chain : chain[b] \in Seq(LogTypes)
  BY <1>1
<1>3. ASSUME NEW id \in OnChain
      PROVE  id \in Ids /\ id[1] \in 1..Len(chain) /\ LogAt(id) \in LogTypes
  <2>1. id = <<id[1], id[2]>> /\ id[1] \in DOMAIN chain /\ id[2] \in DOMAIN chain[id[1]]
    BY OnChainMembers
  <2>2. chain[id[1]] \in Seq(LogTypes)
    BY <1>2, <2>1
  <2>3. id[1] \in Nat \ {0} /\ id[2] \in Nat \ {0} /\ chain[id[1]][id[2]] \in LogTypes
    BY <1>2, <2>1, <2>2
  <2>4. <<id[1], id[2]>> \in Ids
    BY <2>3 DEF Ids
  <2>5. QED
    BY <1>2, <2>1, <2>3, <2>4 DEF LogAt
<1>4. QED
  BY <1>1, <1>2, <1>3 DEF ChainHead

\* A wager is created once.
LEMMA OneCreation ==
    ASSUME ChainInv, NEW c \in OnChain, NEW d \in OnChain,
           LogAt(c).event = "Created", LogAt(d).event = "Created",
           LogAt(c).wager = LogAt(d).wager
    PROVE  c = d
BY DEF ChainInv, Clash

\* The chain only grows: what is on it stays, and what is new comes after it, in the
\* block being built.
ChainGrows ==
    /\ setting' = setting /\ OnChain \subseteq OnChain' /\ ChainHead <= ChainHead'
    /\ \A id \in OnChain : LogAt(id)' = LogAt(id)
    /\ \A id \in OnChain' \ OnChain :
        id[1] = ChainHead + 1 /\ \A p \in OnChain : p # id /\ ~Before(id, p)

\* What an emission may add.
MayEmit(log) ==
    /\ WellFormed(log)
    /\ log.event # "Created" => Emitted(log.wager, "Created")
    /\ \A id \in OnChain : LogAt(id).wager = log.wager => ~Clash(LogAt(id).event, log.event)

RowTypes == {NoRow} \cup
    [known : {TRUE}, state : {"OPEN", "RESOLVED", "RETRACTED"},
     bettingClosedAt : Nat, windowClosedAt : Nat, winner : Nat \cup Tickets,
     pools : [Tickets -> Nat], pot : Nat, potRead : Nat]

LEMMA DatabaseTypes ==
    /\ Databases = [events : SUBSET OnChain, rows : [AllWagers -> RowTypes],
                    cursor : {NoBlock} \cup Nat, head : {NoBlock} \cup Nat,
                    error : {"none", "ahead of chain head", "eth_getLogs"}]
    /\ \A db \in Databases :
         /\ db.events \subseteq OnChain /\ db.rows \in [AllWagers -> RowTypes]
         /\ db.cursor \in {NoBlock} \cup Nat /\ db.head \in {NoBlock} \cup Nat
         /\ db.cursor \in Int
<1>1. Databases = [events : SUBSET OnChain, rows : [AllWagers -> RowTypes],
                    cursor : {NoBlock} \cup Nat, head : {NoBlock} \cup Nat,
                    error : {"none", "ahead of chain head", "eth_getLogs"}]
  BY DEF Databases, RowTypes
<1>2. NoBlock \in Int
  BY DEF NoBlock
<1>3. ASSUME NEW db \in Databases
      PROVE  /\ db.events \in SUBSET OnChain /\ db.rows \in [AllWagers -> RowTypes]
             /\ db.cursor \in {NoBlock} \cup Nat /\ db.head \in {NoBlock} \cup Nat
  BY <1>1, Zenon
<1>4. \A db \in Databases :
         /\ db.events \subseteq OnChain /\ db.rows \in [AllWagers -> RowTypes]
         /\ db.cursor \in {NoBlock} \cup Nat /\ db.head \in {NoBlock} \cup Nat
         /\ db.cursor \in Int
  <2>1. {NoBlock} \cup Nat \subseteq Int
    BY <1>2
  <2>2. QED
    BY <1>3, <2>1, Zenon
<1>5. QED
  BY <1>1, <1>4, Zenon

LEMMA SettingTypes ==
    ASSUME ChainInv
    PROVE  setting \in Setting
BY IndexerAssumption DEF ChainInv

LEMMA EmitAppends ==
    ASSUME ChainInv, NEW log, Emit(log), log \in LogTypes
    PROVE  LET new == <<Len(chain), Len(chain[Len(chain)]) + 1>>
           IN  /\ new \in Ids /\ new \notin OnChain /\ OnChain' = OnChain \cup {new}
               /\ chain' \in Seq(Seq(LogTypes)) /\ Len(chain') = Len(chain)
               /\ chain'[new[1]][new[2]] = log
               /\ \A id \in OnChain : chain'[id[1]][id[2]] = chain[id[1]][id[2]]
               /\ \A p \in OnChain : Before(p, new)
<1> DEFINE n == Len(chain)
           k == Len(chain[n]) + 1
           new == <<n, k>>
<1>1. /\ chain \in Seq(Seq(LogTypes)) /\ n \in Nat \ {0} /\ DOMAIN chain = 1..n
      /\ chain' = [chain EXCEPT ![n] = Append(chain[n], log)]
  BY DEF ChainInv, Emit
<1> HIDE DEF n
<1>typed. chain \in [1..n -> Seq(LogTypes)]
  BY <1>1
<1>2. chain[n] \in Seq(LogTypes) /\ Append(chain[n], log) \in Seq(LogTypes)
  BY <1>1
<1>3. /\ k \in Nat \ {0} /\ DOMAIN chain[n] = 1..(k - 1)
      /\ DOMAIN Append(chain[n], log) = 1..k /\ Append(chain[n], log)[k] = log
      /\ \A i \in 1..(k - 1) : Append(chain[n], log)[i] = chain[n][i]
  BY <1>2
<1> HIDE DEF k
<1>4. /\ DOMAIN chain' = 1..n /\ chain'[n] = Append(chain[n], log)
      /\ \A b \in 1..n : b # n => chain'[b] = chain[b]
  BY <1>1, <1>typed
<1>5. chain' \in Seq(Seq(LogTypes)) /\ Len(chain') = n
  <2>1. chain' \in [1..n -> Seq(LogTypes)]
    BY <1>1, <1>2, <1>typed
  <2>2. QED
    BY <1>1, <2>1
<1>6. \A id \in OnChain : /\ id = <<id[1], id[2]>> /\ id[1] \in 1..n
                          /\ id[2] \in DOMAIN chain[id[1]]
                          /\ id[1] = n => id[2] \in 1..(k - 1)
  BY <1>1, <1>3, OnChainMembers
<1>7. new \notin OnChain
  <2>1. new \in OnChain => new[2] \in 1..(k - 1)
    BY <1>6
  <2>2. QED
    BY <1>3, <2>1
<1>8. \A id \in OnChain : chain'[id[1]][id[2]] = chain[id[1]][id[2]]
  BY <1>3, <1>4, <1>6
<1>9. OnChain' = OnChain \cup {new}
  <2>1. ASSUME NEW id \in OnChain'
        PROVE  id \in OnChain \cup {new}
    <3>1. PICK b, i : b \in DOMAIN chain' /\ i \in DOMAIN chain'[b] /\ id = <<b, i>>
      BY DEF OnChain
    <3>2. CASE b = n
      <4>1. i \in 1..k
        BY <1>3, <1>4, <3>1, <3>2
      <4>2. i \in 1..(k - 1) \/ i = k
        BY <1>3, <4>1
      <4>3. i \in 1..(k - 1) => <<n, i>> \in OnChain
        BY <1>1, <1>3, OnChainMembers
      <4>4. QED
        BY <3>1, <3>2, <4>2, <4>3
    <3>3. CASE b # n
      <4>1. b \in DOMAIN chain /\ i \in DOMAIN chain[b]
        BY <1>1, <1>4, <3>1, <3>3
      <4>2. QED
        BY <3>1, <4>1, OnChainMembers
    <3>4. QED
      BY <3>2, <3>3
  <2>2. ASSUME NEW id \in OnChain
        PROVE  id \in OnChain'
    <3>1. id = <<id[1], id[2]>> /\ id[1] \in DOMAIN chain' /\ id[2] \in DOMAIN chain'[id[1]]
      BY <1>3, <1>4, <1>6
    <3>2. QED
      BY <3>1 DEF OnChain
  <2>3. new \in OnChain'
    <3>1. n \in DOMAIN chain' /\ k \in DOMAIN chain'[n]
      BY <1>1, <1>3, <1>4
    <3>2. QED
      BY <3>1 DEF OnChain
  <2>4. QED
    BY <2>1, <2>2, <2>3
<1>10. new \in Ids
  BY <1>1, <1>3 DEF Ids
<1>11. chain'[new[1]][new[2]] = log
  BY <1>3, <1>4
<1>12. \A p \in OnChain : Before(p, new)
  BY <1>1, <1>3, <1>6 DEF Before
<1>13. QED
  BY <1>5, <1>7, <1>8, <1>9, <1>10, <1>11, <1>12 DEF n, k

LEMMA EmitGrows ==
    ASSUME ChainInv, NEW log, Emit(log), MayEmit(log), UNCHANGED setting
    PROVE  ChainGrows /\ ChainInv'
<1>1. PICK new :
         /\ new \in Ids /\ new \notin OnChain /\ OnChain' = OnChain \cup {new}
         /\ chain' \in Seq(Seq(LogTypes)) /\ Len(chain') = Len(chain)
         /\ chain'[new[1]][new[2]] = log
         /\ \A id \in OnChain : chain'[id[1]][id[2]] = chain[id[1]][id[2]]
         /\ \A p \in OnChain : Before(p, new)
         /\ new[1] = Len(chain)
  <2> DEFINE n == <<Len(chain), Len(chain[Len(chain)]) + 1>>
  <2>1. /\ n \in Ids /\ n \notin OnChain /\ OnChain' = OnChain \cup {n}
        /\ chain' \in Seq(Seq(LogTypes)) /\ Len(chain') = Len(chain)
        /\ chain'[n[1]][n[2]] = log
        /\ \A id \in OnChain : chain'[id[1]][id[2]] = chain[id[1]][id[2]]
        /\ \A p \in OnChain : Before(p, n)
    BY EmitAppends DEF MayEmit, WellFormed
  <2>2. n[1] = Len(chain)
    OBVIOUS
  <2> HIDE DEF n
  <2>3. QED
    BY <2>1, <2>2
<1>2. \A id \in OnChain : LogAt(id)' = LogAt(id)
  BY <1>1 DEF LogAt
<1>3. LogAt(new)' = log
  BY <1>1 DEF LogAt
<1>4. ChainHead' = ChainHead /\ ChainHead \in Nat /\ Len(chain) = ChainHead + 1
  BY <1>1, ChainTypes DEF ChainHead, ChainInv
<1>5. ChainGrows
  <2>1. \A p \in OnChain : p # new /\ ~Before(new, p)
    BY <1>1, ChainTypes, BeforeIsTotal
  <2>2. QED
    BY <1>1, <1>2, <1>4, <2>1 DEF ChainGrows
<1>6. IsFiniteSet(OnChain') /\ Cardinality(OnChain') <= setting.logs
  <2>1. Cardinality(OnChain) < setting.logs /\ setting.logs \in Nat
    BY SettingTypes DEF Emit, Setting
  <2>2. /\ IsFiniteSet(OnChain \cup {new})
        /\ Cardinality(OnChain \cup {new}) = Cardinality(OnChain) + 1
        /\ Cardinality(OnChain) \in Nat
    BY <1>1, FS_AddElement, FS_CardinalityType DEF ChainInv
  <2>3. QED
    BY <1>1, <2>1, <2>2
<1>7. ASSUME NEW id \in OnChain'
      PROVE  /\ WellFormed(LogAt(id)')
             /\ \E c \in OnChain' : /\ LogAt(c)'.event = "Created"
                                    /\ LogAt(c)'.wager = LogAt(id)'.wager
                                    /\ c = id \/ Before(c, id)
  <2>1. CASE id \in OnChain
    <3>1. WellFormed(LogAt(id))
      BY <2>1 DEF ChainInv
    <3>2. PICK c \in OnChain : /\ LogAt(c).event = "Created"
                               /\ LogAt(c).wager = LogAt(id).wager
                               /\ c = id \/ Before(c, id)
      BY <2>1 DEF ChainInv
    <3>3. c \in OnChain' /\ LogAt(c)' = LogAt(c) /\ LogAt(id)' = LogAt(id)
      BY <1>1, <1>2, <2>1
    <3>4. QED
      BY <3>1, <3>2, <3>3
  <2>2. CASE id = new
    <3>1. LogAt(id)' = log
      BY <1>3, <2>2
    <3>2. CASE log.event = "Created"
      BY <1>1, <2>2, <3>1, <3>2 DEF MayEmit
    <3>3. CASE log.event # "Created"
      <4>1. PICK c \in OnChain : LogAt(c).wager = log.wager /\ LogAt(c).event = "Created"
        BY <3>3 DEF MayEmit, Emitted
      <4>2. c \in OnChain' /\ LogAt(c)' = LogAt(c) /\ Before(c, id)
        BY <1>1, <1>2, <2>2
      <4>3. \E d \in OnChain' : /\ LogAt(d)'.event = "Created"
                                /\ LogAt(d)'.wager = LogAt(id)'.wager
                                /\ d = id \/ Before(d, id)
        BY <3>1, <4>1, <4>2
      <4>4. QED
        BY <3>1, <4>3 DEF MayEmit
    <3>4. QED
      BY <3>2, <3>3
  <2>3. QED
    BY <1>1, <2>1, <2>2
<1>8. ASSUME NEW c \in OnChain', NEW d \in OnChain',
             LogAt(c)'.wager = LogAt(d)'.wager, Clash(LogAt(c)'.event, LogAt(d)'.event)
      PROVE  c = d
  <2>1. ASSUME NEW p \in OnChain, LogAt(p).wager = log.wager
        PROVE  ~Clash(LogAt(p).event, log.event) /\ ~Clash(log.event, LogAt(p).event)
    BY <2>1 DEF MayEmit, Clash
  <2>2. CASE c \in OnChain /\ d \in OnChain
    BY <1>2, <1>8, <2>2 DEF ChainInv
  <2>3. CASE c \in OnChain /\ d = new
    BY <1>2, <1>3, <1>8, <2>1, <2>3
  <2>4. CASE c = new /\ d \in OnChain
    BY <1>2, <1>3, <1>8, <2>1, <2>4
  <2>5. QED
    BY <1>1, <2>2, <2>3, <2>4
<1>9. setting' = setting /\ setting \in Settings /\ \A l : WellFormed(l) => WellFormed(l)'
  BY DEF ChainInv, WellFormed
<1>10. Len(chain') \in 1..MaxBlocks + 1
  BY <1>1 DEF ChainInv
<1>11. ASSUME NEW id \in OnChain'
       PROVE  /\ WellFormed(LogAt(id))'
              /\ \E c \in OnChain' : /\ LogAt(c)'.event = "Created"
                                     /\ LogAt(c)'.wager = LogAt(id)'.wager
                                     /\ c = id \/ Before(c, id)
  BY <1>7, <1>9 DEF WellFormed
<1>12. ChainInv'
  BY <1>1, <1>6, <1>8, <1>9, <1>10, <1>11 DEF ChainInv
<1>13. QED
  BY <1>5, <1>12

LEMMA SealGrows ==
    ASSUME ChainInv, Seal, UNCHANGED setting
    PROVE  ChainGrows /\ ChainInv'
<1>1. /\ chain \in Seq(Seq(LogTypes)) /\ Len(chain) \in 1..MaxBlocks + 1
      /\ chain' = Append(chain, <<>>) /\ Len(chain) <= MaxBlocks /\ MaxBlocks \in Nat
  BY IndexerAssumption DEF ChainInv, Seal
<1>2. /\ DOMAIN chain = 1..Len(chain) /\ DOMAIN chain' = 1..(Len(chain) + 1)
      /\ \A b \in 1..Len(chain) : chain'[b] = chain[b]
      /\ chain'[Len(chain) + 1] = <<>>
      /\ chain' \in Seq(Seq(LogTypes)) /\ Len(chain') = Len(chain) + 1
  <2>1. <<>> \in Seq(LogTypes)
    OBVIOUS
  <2>2. QED
    BY <1>1, <2>1
<1>3. OnChain' = OnChain
  <2>1. ASSUME NEW b, NEW i
        PROVE  b \in DOMAIN chain' /\ i \in DOMAIN chain'[b] <=>
               b \in DOMAIN chain /\ i \in DOMAIN chain[b]
    <3>1. DOMAIN <<>> = {}
      OBVIOUS
    <3>2. CASE b = Len(chain) + 1
      BY <1>1, <1>2, <3>1, <3>2
    <3>3. CASE b # Len(chain) + 1
      <4>1. b \in 1..(Len(chain) + 1) <=> b \in 1..Len(chain)
        BY <1>1, <3>3
      <4>2. QED
        BY <1>2, <4>1
    <3>4. QED
      BY <3>2, <3>3
  <2>2. QED
    BY <2>1 DEF OnChain
<1>4. \A id \in OnChain : LogAt(id)' = LogAt(id)
  BY <1>2, OnChainMembers DEF LogAt
<1>5. ChainHead' = ChainHead + 1 /\ ChainHead \in Nat
  BY <1>1, <1>2 DEF ChainHead
<1>6. ChainGrows
  BY <1>3, <1>4, <1>5 DEF ChainGrows
<1>7. Len(chain') \in 1..MaxBlocks + 1
  BY <1>1, <1>2
<1>8. ASSUME NEW id \in OnChain'
      PROVE  /\ WellFormed(LogAt(id))'
             /\ \E c \in OnChain' : /\ LogAt(c)'.event = "Created"
                                    /\ LogAt(c)'.wager = LogAt(id)'.wager
                                    /\ c = id \/ Before(c, id)
  <2>1. id \in OnChain /\ LogAt(id)' = LogAt(id)
    BY <1>3, <1>4
  <2>2. WellFormed(LogAt(id))'
    BY <2>1 DEF ChainInv, WellFormed
  <2>3. PICK c \in OnChain : /\ LogAt(c).event = "Created"
                             /\ LogAt(c).wager = LogAt(id).wager
                             /\ c = id \/ Before(c, id)
    BY <2>1 DEF ChainInv
  <2>4. c \in OnChain' /\ LogAt(c)' = LogAt(c)
    BY <1>3, <1>4
  <2>5. QED
    BY <2>1, <2>2, <2>3, <2>4
<1>9. ASSUME NEW c \in OnChain', NEW d \in OnChain',
             LogAt(c)'.wager = LogAt(d)'.wager, Clash(LogAt(c)'.event, LogAt(d)'.event)
      PROVE  c = d
  <2>1. c \in OnChain /\ d \in OnChain /\ LogAt(c)' = LogAt(c) /\ LogAt(d)' = LogAt(d)
    BY <1>3, <1>4
  <2>2. QED
    BY <1>9, <2>1 DEF ChainInv
<1>10. /\ setting' \in Settings /\ IsFiniteSet(OnChain')
       /\ Cardinality(OnChain') <= setting'.logs
  BY <1>3 DEF ChainInv
<1>11. ChainInv'
  BY <1>2, <1>7, <1>8, <1>9, <1>10 DEF ChainInv
<1>12. QED
  BY <1>6, <1>11

\* Every event of a wager may be emitted: its creation first and once.
LEMMA ChainStepGrows ==
    ASSUME ChainInv, ChainStep, UNCHANGED setting
    PROVE  ChainGrows /\ ChainInv' /\ UNCHANGED <<disk, work, syncVars, boundVars>>
<1>1. CASE Seal
  BY <1>1, SealGrows DEF Seal
<1>2. ASSUME NEW log, Emit(log), MayEmit(log)
      PROVE  ChainGrows /\ ChainInv' /\ UNCHANGED <<disk, work, syncVars, boundVars>>
  BY <1>2, EmitGrows DEF Emit
<1>3. /\ setting.wagers \subseteq AllWagers /\ setting.amounts \subseteq Nat
      /\ setting.terms \subseteq Nat
  BY SettingTypes DEF Setting
<1>4. Len(chain) \in Nat
  BY DEF ChainInv
<1>5. ASSUME NEW w \in setting.wagers,
             \/ EmitCreated(w) \/ EmitBetPlaced(w) \/ EmitBettingClosed(w)
             \/ EmitWindowClosed(w) \/ EmitFeeAccrued(w) \/ EmitResolved(w)
             \/ EmitRefunded(w) \/ EmitPaid(w)
      PROVE  \E log : Emit(log) /\ MayEmit(log)
  <2>0. w \in AllWagers
    BY <1>3
  <2>final. Final(w) => Emitted(w, "Created")
    BY DEF Final, Emitted, ChainInv
  <2>1. CASE EmitCreated(w)
    <3>1. PICK size \in setting.terms : Emit(Log("Created", w, 0, 0, size))
      BY <2>1 DEF EmitCreated
    <3>2. WellFormed(Log("Created", w, 0, 0, size))
      BY <1>3, <1>4, <2>0 DEF WellFormed, Log, LogTypes
    <3>3. MayEmit(Log("Created", w, 0, 0, size))
      BY <2>1, <3>2 DEF EmitCreated, Emitted, MayEmit, Clash, Log
    <3>4. QED
      BY <3>1, <3>3
  <2>2. CASE EmitBetPlaced(w)
    <3>1. PICK t \in Tickets, a \in setting.amounts : Emit(Log("BetPlaced", w, t, a, 0))
      BY <2>2 DEF EmitBetPlaced
    <3>2. WellFormed(Log("BetPlaced", w, t, a, 0))
      BY <1>3, <1>4, <2>0 DEF WellFormed, Log, LogTypes
    <3>3. MayEmit(Log("BetPlaced", w, t, a, 0))
      BY <2>2, <3>2 DEF EmitBetPlaced, BettingOver, Final, Emitted, MayEmit, Clash, Log
    <3>4. QED
      BY <3>1, <3>3
  <2>3. CASE EmitBettingClosed(w)
    <3>1. Emit(Log("BettingClosed", w, 0, 0, Len(chain)))
      BY <2>3 DEF EmitBettingClosed
    <3>2. WellFormed(Log("BettingClosed", w, 0, 0, Len(chain)))
      BY <1>3, <1>4, <2>0 DEF WellFormed, Log, LogTypes
    <3>3. MayEmit(Log("BettingClosed", w, 0, 0, Len(chain)))
      BY <2>3, <3>2 DEF EmitBettingClosed, BettingOver, Final, Emitted, MayEmit, Clash, Log
    <3>4. QED
      BY <3>1, <3>3
  <2>4. CASE EmitWindowClosed(w)
    <3>1. Emit(Log("WindowClosed", w, 0, 0, Len(chain)))
      BY <2>4 DEF EmitWindowClosed
    <3>2. WellFormed(Log("WindowClosed", w, 0, 0, Len(chain)))
      BY <1>3, <1>4, <2>0 DEF WellFormed, Log, LogTypes
    <3>3. MayEmit(Log("WindowClosed", w, 0, 0, Len(chain)))
      BY <2>4, <3>2 DEF EmitWindowClosed, Emitted, MayEmit, Clash, Log
    <3>4. QED
      BY <3>1, <3>3
  <2>5. CASE EmitResolved(w)
    <3>1. PICK t \in Tickets : Emit(Log("Resolved", w, 0, 0, t))
      BY <2>5 DEF EmitResolved
    <3>2. WellFormed(Log("Resolved", w, 0, 0, t))
      BY <1>3, <1>4, <2>0 DEF WellFormed, Log, LogTypes
    <3>3. MayEmit(Log("Resolved", w, 0, 0, t))
      BY <2>5, <3>2 DEF EmitResolved, Live, Final, Emitted, MayEmit, Clash, Log
    <3>4. QED
      BY <3>1, <3>3
  <2>6. CASE EmitRefunded(w)
    <3>1. Emit(Log("Refunded", w, 0, 0, 0))
      BY <2>6 DEF EmitRefunded
    <3>2. WellFormed(Log("Refunded", w, 0, 0, 0))
      BY <1>3, <1>4, <2>0 DEF WellFormed, Log, LogTypes
    <3>3. MayEmit(Log("Refunded", w, 0, 0, 0))
      BY <2>6, <3>2 DEF EmitRefunded, Live, Final, Emitted, MayEmit, Clash, Log
    <3>4. QED
      BY <3>1, <3>3
  <2>7. CASE EmitPaid(w)
    <3>1. Emit(Log("Paid", w, 0, 0, 0))
      BY <2>7 DEF EmitPaid
    <3>2. WellFormed(Log("Paid", w, 0, 0, 0))
      BY <1>3, <1>4, <2>0 DEF WellFormed, Log, LogTypes
    <3>3. MayEmit(Log("Paid", w, 0, 0, 0))
      BY <2>7, <3>2, <2>final DEF EmitPaid, MayEmit, Clash, Log
    <3>4. QED
      BY <3>1, <3>3
  <2>8. CASE EmitFeeAccrued(w)
    <3>1. Emit(Log("FeeAccrued", w, 0, 0, 0))
      BY <2>8 DEF EmitFeeAccrued
    <3>2. WellFormed(Log("FeeAccrued", w, 0, 0, 0))
      BY <1>3, <1>4, <2>0 DEF WellFormed, Log, LogTypes
    <3>3. MayEmit(Log("FeeAccrued", w, 0, 0, 0))
      BY <2>8, <3>2 DEF EmitFeeAccrued, Live, Emitted, MayEmit, Clash, Log
    <3>4. QED
      BY <3>1, <3>3
  <2>9. QED
    BY <1>5, <2>1, <2>2, <2>3, <2>4, <2>5, <2>6, <2>7, <2>8
<1>6. QED
  BY <1>1, <1>2, <1>5 DEF ChainStep

-------------------------------------------------------------------------------
(* A chain that grows disturbs neither the file nor the pass *)

LEMMA ChainKeepsFile ==
    ASSUME ChainInv, ChainInv', ChainGrows, NEW db, FileInv(db)
    PROVE  FileInv(db)'
<1>1. /\ db \in Databases /\ db.events \subseteq OnChain /\ db.cursor \in Int
      /\ ChainHead \in Int /\ ChainHead' \in Int /\ ChainHead <= ChainHead'
      /\ \A id \in OnChain : id[1] \in Int
  <2>1. db.events \subseteq OnChain /\ db.cursor \in Int
    BY DatabaseTypes DEF FileInv
  <2>2. Len(chain') \in Nat
    BY DEF ChainInv
  <2>3. QED
    BY <2>1, <2>2, ChainTypes DEF FileInv, ChainHead, ChainGrows
<1>2. db \in Databases'
  <2>1. db.events \subseteq OnChain'
    BY <1>1 DEF ChainGrows
  <2>2. QED
    BY <1>1, <2>1 DEF Databases
<1>3. db.cursor <= ChainHead' /\ \A id \in db.events : id[1] <= ChainHead'
  BY <1>1 DEF FileInv
<1>4. ASSUME NEW q \in db.events, NEW p \in OnChain',
             LogAt(p)'.wager = LogAt(q)'.wager, Before(p, q)
      PROVE  p \in db.events
  <2>1. q \in OnChain /\ LogAt(q)' = LogAt(q)
    BY <1>1 DEF ChainGrows
  <2>2. p \in OnChain
    BY <1>4, <2>1 DEF ChainGrows
  <2>3. LogAt(p)' = LogAt(p)
    BY <2>2 DEF ChainGrows
  <2>4. QED
    BY <1>4, <2>1, <2>2, <2>3 DEF FileInv
<1>5. ASSUME NEW w \in AllWagers, db.rows[w].known, NEW t \in Tickets
      PROVE  db.rows[w].pools[t] = SumFunctionOnSet(Amount', BetsIn(db, w, t)')
  <2>1. BetsIn(db, w, t)' = BetsIn(db, w, t)
    <3>1. \A id \in db.events : LogAt(id)' = LogAt(id)
      BY <1>1 DEF ChainGrows
    <3>2. QED
      BY <3>1 DEF BetsIn, EventsOf
  <2>2. BetsIn(db, w, t) \subseteq OnChain /\ IsFiniteSet(BetsIn(db, w, t))
    <3>1. BetsIn(db, w, t) \subseteq OnChain
      BY <1>1 DEF BetsIn, EventsOf
    <3>2. QED
      BY <3>1, FS_Subset DEF ChainInv
  <2>3. \A x \in OnChain : Amount[x] \in Int /\ Amount[x] = Amount'[x]
    <3>1. ASSUME NEW x \in OnChain
          PROVE  Amount[x] \in Int /\ Amount[x] = Amount'[x]
      <4>1. LogAt(x)' = LogAt(x) /\ x \in OnChain'
        BY DEF ChainGrows
      <4>2. Amount[x] = LogAt(x).amount /\ Amount'[x] = LogAt(x)'.amount
        BY <4>1 DEF Amount
      <4>3. LogAt(x).amount \in Nat
        BY ChainTypes DEF LogTypes
      <4>4. QED
        BY <4>1, <4>2, <4>3
    <3>2. QED
      BY <3>1
  <2>4. PICK f, g, S : f = Amount /\ g = Amount' /\ S = BetsIn(db, w, t)
    OBVIOUS
  <2>5. SumFunctionOnSet(f, S) = SumFunctionOnSet(g, S)
    <3>1. IsFiniteSet(S) /\ \A x \in S : f[x] \in Int /\ f[x] = g[x]
      BY <2>2, <2>3, <2>4
    <3>2. QED
      BY <3>1, SumEqual
  <2>6. db.rows[w].pools[t] = SumFunctionOnSet(Amount, BetsIn(db, w, t))
    BY <1>5 DEF FileInv
  <2>7. QED
    BY <2>1, <2>4, <2>5, <2>6
<1>6. ASSUME NEW w \in AllWagers, db.rows[w].known
      PROVE  /\ w \in Wagers /\ RowSound(db.rows[w])
             /\ \E c \in EventsOf(db, w)' : LogAt(c)'.event = "Created"
  <2>1. PICK c \in EventsOf(db, w) : LogAt(c).event = "Created"
    BY <1>6 DEF FileInv
  <2>2. c \in db.events /\ LogAt(c)' = LogAt(c) /\ LogAt(c).wager = w
    BY <1>1, <2>1 DEF EventsOf, ChainGrows
  <2>3. QED
    BY <1>6, <2>1, <2>2 DEF FileInv, EventsOf
<1>7. QED
  BY <1>2, <1>3, <1>4, <1>5, <1>6 DEF FileInv, RowSound

LEMMA ChainKeepsPass ==
    ASSUME ChainInv, ChainInv', ChainGrows, FileInv(disk), CursorInv, PassInv,
           UNCHANGED <<disk, work, syncVars>>
    PROVE  CursorInv' /\ PassInv'
<1>1. /\ disk' = disk /\ work' = work /\ phase' = phase /\ start' = start
      /\ toBlock' = toBlock /\ end' = end /\ batch' = batch
  BY DEF syncVars
<1>2. /\ ChainHead \in Int /\ ChainHead' \in Int /\ ChainHead <= ChainHead'
      /\ disk.cursor \in Int /\ disk.cursor <= ChainHead
  <2>1. Len(chain') \in Nat
    BY DEF ChainInv
  <2>2. disk.cursor \in Int /\ disk.cursor <= ChainHead
    BY DatabaseTypes DEF FileInv
  <2>3. QED
    BY <2>1, <2>2, ChainTypes DEF ChainHead, ChainGrows
<1>3. ASSUME NEW id \in OnChain', id[1] <= ChainHead
      PROVE  id \in OnChain /\ LogAt(id)' = LogAt(id)
  BY <1>2, <1>3 DEF ChainGrows
<1>4. CursorInv'
  <2>1. ASSUME NEW w \in AllWagers, disk.rows[w].known
        PROVE  /\ disk.cursor # NoBlock
               /\ \A id \in OnChain' :
                    LogAt(id)'.wager = w /\ id[1] <= disk.cursor => id \in disk.events
    <3>1. /\ disk.cursor # NoBlock
          /\ \A id \in OnChain :
               LogAt(id).wager = w /\ id[1] <= disk.cursor => id \in disk.events
      BY <2>1 DEF CursorInv, LogsOf
    <3>2. ASSUME NEW id \in OnChain', LogAt(id)'.wager = w, id[1] <= disk.cursor
          PROVE  id \in disk.events
      <4>1. id[1] \in Int
        <5>1. ChainInv' => id[1] \in DOMAIN chain' /\ chain' \in Seq(Seq(LogTypes))
          BY DEF ChainInv, OnChain
        <5>2. QED
          BY <5>1
      <4>2. id[1] <= ChainHead
        BY <1>2, <3>2, <4>1
      <4>3. QED
        BY <1>3, <3>1, <3>2, <4>2
    <3>3. QED
      BY <3>1, <3>2
  <2>2. QED
    BY <1>1, <2>1 DEF CursorInv, LogsOf
<1>5. PassInv'
  <2>1. /\ phase \in {"wait", "range", "fetch", "apply"}
        /\ start \in Nat /\ toBlock \in Nat /\ end \in Nat /\ batch \in Seq(OnChain)
        /\ phase # "apply" => work = disk /\ batch = <<>>
        /\ phase # "wait" => /\ start # 0 /\ toBlock <= ChainHead
                             /\ disk.cursor # NoBlock => start <= disk.cursor + 1
    BY DEF PassInv
  <2>2. batch \in Seq(OnChain')
    <3>1. OnChain \subseteq OnChain'
      BY DEF ChainGrows
    <3>2. QED
      BY <2>1, <3>1
  <2>3. ASSUME phase = "apply"
        PROVE  BatchInv'
    <3>1. BatchInv
      BY <2>3 DEF PassInv
    <3>2. end \in Nat /\ end <= ChainHead
      BY <2>1, <3>1 DEF BatchInv
    <3>3. ASSUME NEW id \in OnChain', id[1] <= end
          PROVE  id \in OnChain /\ LogAt(id)' = LogAt(id)
      <4>1. id[1] \in Int
        BY DEF ChainInv, OnChain
      <4>2. id[1] <= ChainHead
        BY <1>2, <3>2, <3>3, <4>1
      <4>3. QED
        BY <1>3, <4>2
    <3>4. end' <= ChainHead'
      BY <1>1, <1>2, <3>2
    <3>5. \A id \in OnChain' : start <= id[1] /\ id[1] <= end =>
            \/ \E i \in DOMAIN batch : batch[i] = id
            \/ \A i \in DOMAIN batch : Before(id, batch[i])
      BY <3>1, <3>3 DEF BatchInv
    <3>6. \A id \in OnChain' :
            /\ work.rows[LogAt(id)'.wager].known /\ id[1] <= end
            /\ \A i \in DOMAIN batch : batch[i] # id
            => id \in work.events
      BY <3>1, <3>3 DEF BatchInv
    <3>7. QED
      BY <1>1, <3>1, <3>4, <3>5, <3>6 DEF BatchInv
  <2>4. QED
    BY <1>1, <1>2, <2>1, <2>2, <2>3 DEF PassInv
<1>6. QED
  BY <1>4, <1>5

LEMMA ChainStepKeeps ==
    ASSUME IInv, ChainStep, UNCHANGED setting
    PROVE  IInv'
<1>1. ChainGrows /\ ChainInv' /\ UNCHANGED <<disk, work, syncVars, boundVars>>
  BY ChainStepGrows DEF IInv
<1>2. FileInv(disk)'
  <2>1. PICK db : db = disk
    OBVIOUS
  <2>2. FileInv(db)
    BY <2>1 DEF IInv, FileInv
  <2>3. FileInv(db)'
    BY <1>1, <2>2, ChainKeepsFile DEF IInv
  <2>4. db = disk'
    BY <1>1, <2>1
  <2>5. QED
    BY <2>3, <2>4 DEF FileInv, RowSound, BetsIn, EventsOf
<1>3. FileInv(work)'
  <2>1. PICK db : db = work
    OBVIOUS
  <2>2. FileInv(db)
    BY <2>1 DEF IInv, FileInv
  <2>3. FileInv(db)'
    BY <1>1, <2>2, ChainKeepsFile DEF IInv
  <2>4. db = work'
    BY <1>1, <2>1
  <2>5. QED
    BY <2>3, <2>4 DEF FileInv, RowSound, BetsIn, EventsOf
<1>4. CursorInv' /\ PassInv'
  BY <1>1, ChainKeepsPass DEF IInv
<1>5. QED
  BY <1>1, <1>2, <1>3, <1>4 DEF IInv

-------------------------------------------------------------------------------
(* What applying a log does to the file *)

KnownRows == [known : {TRUE}, state : {"OPEN", "RESOLVED", "RETRACTED"},
              bettingClosedAt : Nat, windowClosedAt : Nat, winner : Nat \cup Tickets,
              pools : [Tickets -> Nat], pot : Nat, potRead : Nat]

LEMMA RowsKnown ==
    /\ RowTypes = {NoRow} \cup KnownRows /\ NewRow \in KnownRows
    /\ NoRow.known = FALSE
    /\ \A row \in KnownRows : row.known = TRUE /\ row.pools \in [Tickets -> Nat]
BY DEF RowTypes, KnownRows, NoRow, NewRow

LEMMA NewRowSound == RowSound(NewRow)
<1>1. PICK f : f = [t \in Tickets |-> 0]
  OBVIOUS
<1>2. NewRow.pools = f /\ NewRow.pot = 0 /\ NewRow.potRead = 0 /\ NewRow.state = "OPEN"
  BY <1>1 DEF NewRow
<1>3. SumFunctionOnSet(f, Tickets) = 0
  BY <1>1, IndexerAssumption, SumZero
<1>4. QED
  BY <1>2, <1>3 DEF RowSound

\* A bet goes to the pool of its ticket, exactly, whatever becomes of the pot.
LEMMA BetRow ==
    ASSUME NEW row \in KnownRows, NEW log, log.ticket \in Tickets, log.amount \in Nat
    PROVE  /\ WithBet(row, log) \in KnownRows
           /\ \A t \in Tickets : WithBet(row, log).pools[t] =
                row.pools[t] + IF log.ticket = t THEN log.amount ELSE 0
           /\ RowSound(row) => RowSound(WithBet(row, log))
           /\ WithBet(row, log).winner = row.winner
<1> DEFINE pools == [row.pools EXCEPT ![log.ticket] = @ + log.amount]
           pooled == [row EXCEPT !.pools = pools]
<1>1. row.pools \in [Tickets -> Nat] /\ row.potRead \in Nat
  BY DEF KnownRows
<1>2. pools \in [Tickets -> Nat]
  BY <1>1
<1>3. \A t \in Tickets : pools[t] = row.pools[t] + IF log.ticket = t THEN log.amount ELSE 0
  BY <1>1
<1>4. WithBet(row, log) =
        IF log.amount > SQLiteMax THEN pooled
        ELSE [pooled EXCEPT !.pot = row.potRead + log.amount,
                            !.potRead = IF row.potRead + log.amount > SQLiteMax
                                        THEN LeadingDigit ELSE row.potRead + log.amount]
  BY DEF WithBet
<1> HIDE DEF pools
<1>5. pooled \in KnownRows /\ pooled.pools = pools
  BY <1>2 DEF KnownRows
<1> HIDE DEF pooled
<1>winner. pooled.winner = row.winner /\ pooled.state = row.state
           /\ pooled.pot = row.pot /\ pooled.potRead = row.potRead
  BY DEF KnownRows, pooled
<1>6. ASSUME NEW p \in Nat, NEW r \in Nat
      PROVE  LET it == [pooled EXCEPT !.pot = p, !.potRead = r]
             IN  /\ it \in KnownRows /\ it.pools = pools /\ it.pot = p /\ it.potRead = r
                 /\ it.winner = row.winner /\ it.state = row.state
  BY <1>5, <1>winner DEF KnownRows
<1>7. row.potRead + log.amount \in Nat /\ LeadingDigit \in Nat
  BY <1>1, IndexerAssumption
<1> DEFINE total == SumFunctionOnSet(row.pools, Tickets)
<1>8. SumFunctionOnSet(pools, Tickets) = total + log.amount /\ total \in Nat
  <2>1. PICK f, g : f = row.pools /\ g = pools
    OBVIOUS
  <2>2. IsFiniteSet(Tickets) /\ \A t \in Tickets : f[t] \in Nat /\ g[t] \in Nat
    BY <1>1, <1>2, <2>1, IndexerAssumption
  <2>3. SumFunctionOnSet(f, Tickets) \in Nat
    BY <2>2, SumNat
  <2>4. \A t \in Tickets \ {log.ticket} : g[t] = f[t]
    BY <1>1, <1>3, <2>1
  <2>5. SumFunctionOnSet(g, Tickets)
          = SumFunctionOnSet(f, Tickets) - f[log.ticket] + g[log.ticket]
    <3>1. \A t \in Tickets : f[t] \in Int /\ g[t] \in Int
      BY <2>2
    <3>2. QED
      BY <2>2, <2>4, <3>1, SumExcept
  <2>6. g[log.ticket] = f[log.ticket] + log.amount /\ f[log.ticket] \in Nat
    BY <1>3, <2>1, <2>2
  <2>7. QED
    BY <2>1, <2>3, <2>5, <2>6
<1> HIDE DEF total
<1> DEFINE sum == row.potRead + log.amount
           read == IF sum > SQLiteMax THEN LeadingDigit ELSE sum
           new == WithBet(row, log)
<1>9. /\ SQLiteMax \in Nat /\ LeadingDigit \in Nat /\ LeadingDigit <= SQLiteMax
      /\ sum \in Nat /\ read \in Nat /\ read <= sum
  BY <1>1, IndexerAssumption
<1>10. /\ new \in KnownRows /\ new.pools = pools
       /\ new.winner = row.winner /\ new.state = row.state
       /\ \/ new.pot = row.pot /\ new.potRead = row.potRead
          \/ new.pot = sum /\ new.potRead = read
  <2>1. CASE log.amount > SQLiteMax
    BY <1>4, <1>5, <1>winner, <2>1
  <2>2. CASE ~(log.amount > SQLiteMax)
    <3>1. new = [pooled EXCEPT !.pot = sum, !.potRead = read]
      BY <1>4, <2>2
    <3> HIDE DEF sum, read, new
    <3>2. QED
      BY <1>6, <1>9, <3>1
  <2>3. QED
    BY <2>1, <2>2
<1>11. RowSound(row) => RowSound(new)
  <2>1. SUFFICES ASSUME RowSound(row) PROVE RowSound(new)
    OBVIOUS
  <2>2. row.pot <= total /\ row.potRead <= total /\ (row.state = "RESOLVED" => row.winner # 0)
    BY <2>1 DEF RowSound, total
  <2>3. row.pot \in Nat /\ row.potRead \in Nat /\ row.pot <= total + log.amount
        /\ row.potRead <= total + log.amount /\ sum <= total + log.amount
    <3>1. row.pot \in Nat /\ row.potRead \in Nat
      BY DEF KnownRows
    <3>2. QED
      BY <1>8, <2>2, <3>1
  <2>4. read <= total + log.amount
    BY <1>8, <1>9, <2>3
  <2> HIDE DEF sum, read, new
  <2>5. new.pot <= total + log.amount /\ new.potRead <= total + log.amount
    BY <1>10, <2>3, <2>4
  <2>6. QED
    BY <1>8, <1>10, <2>2, <2>5 DEF RowSound
<1> HIDE DEF sum, read
<1>12. QED
  BY <1>3, <1>10, <1>11

\* A well-formed log turns a row into a row; a row appears at its creation, empty.
LEMMA PayloadRow ==
    ASSUME NEW row \in RowTypes, NEW log, WellFormed(log),
           log.event # "Created" => row.known
    PROVE  /\ WithPayload(row, log) \in RowTypes
           /\ row.known => /\ WithPayload(row, log).known
                           /\ RowSound(row) => RowSound(WithPayload(row, log))
                           /\ row.winner # 0 => WithPayload(row, log).winner # 0
                           /\ \A t \in Tickets : WithPayload(row, log).pools[t] =
                                row.pools[t] + IF log.ticket = t THEN log.amount ELSE 0
           /\ ~row.known /\ WithPayload(row, log).known
              => log.event = "Created" /\ WithPayload(row, log) = NewRow
<1> DEFINE new == WithPayload(row, log)
<1>1. CASE log.event = "Created"
  <2>1. new = IF log.value > SQLiteMax \/ row.known THEN row ELSE NewRow
    BY <1>1 DEF WithPayload, WithCreated
  <2>2. log.amount = 0
    BY <1>1 DEF WellFormed
  <2>3. row.known => row.pools \in [Tickets -> Nat]
    BY RowsKnown
  <2>4. new \in RowTypes /\ (row.known => new = row)
    BY <2>1, RowsKnown
  <2>5. ~row.known /\ new.known => new = NewRow
    BY <2>1
  <2>6. row.known => \A t \in Tickets :
                       row.pools[t] = row.pools[t] + IF log.ticket = t THEN log.amount ELSE 0
    BY <2>2, <2>3
  <2> HIDE DEF new
  <2>7. QED
    BY <1>1, <2>4, <2>5, <2>6 DEF new
<1>2. CASE log.event # "Created"
  <2>1. row \in KnownRows /\ row.known
    BY <1>2, RowsKnown
  <2>2. row.pools \in [Tickets -> Nat]
    BY <2>1, RowsKnown
  <2>3. CASE log.event = "BetPlaced"
    <3>1. new = WithBet(row, log)
      BY <2>3 DEF WithPayload
    <3>2. log.ticket \in Tickets /\ log.amount \in Nat
      BY <2>3 DEF WellFormed, LogTypes
    <3>3. /\ new \in KnownRows /\ (RowSound(row) => RowSound(new))
          /\ new.winner = row.winner
          /\ \A t \in Tickets : new.pools[t] =
               row.pools[t] + IF log.ticket = t THEN log.amount ELSE 0
      BY <2>1, <3>1, <3>2, BetRow
    <3> HIDE DEF new
    <3>4. QED
      BY <2>1, <3>3, RowsKnown DEF new
  <2>4. CASE log.event # "BetPlaced"
    <3>1. /\ new \in KnownRows /\ new.pools = row.pools
          /\ new.pot = row.pot /\ new.potRead = row.potRead
          /\ new.state = "RESOLVED" =>
               new.winner # 0 \/ (row.state = "RESOLVED" /\ new.winner = row.winner)
          /\ row.winner # 0 => new.winner # 0
      <4>1. CASE log.event = "BettingClosed"
        <5>1. log.value \in Nat /\ new = [row EXCEPT !.bettingClosedAt = log.value]
          BY <4>1 DEF WellFormed, WithPayload
        <5>2. QED
          BY <2>1, <5>1 DEF KnownRows
      <4>2. CASE log.event = "WindowClosed"
        <5>1. log.value \in Nat /\ new = [row EXCEPT !.windowClosedAt = log.value]
          BY <4>2 DEF WellFormed, WithPayload
        <5>2. QED
          BY <2>1, <5>1 DEF KnownRows
      <4>3. CASE log.event = "Resolved"
        <5>1. log.value \in Nat \cup Tickets /\ log.value # 0
              /\ new = [row EXCEPT !.state = "RESOLVED", !.winner = log.value]
          BY <4>3, IndexerAssumption DEF WellFormed, LogTypes, WithPayload
        <5>2. QED
          BY <2>1, <5>1 DEF KnownRows
      <4>4. CASE log.event = "Refunded"
        <5>1. new = [row EXCEPT !.state = "RETRACTED"]
          BY <4>4 DEF WithPayload
        <5>2. QED
          BY <2>1, <5>1 DEF KnownRows
      <4>5. CASE log.event \in {"FeeAccrued", "Paid"}
        BY <2>1, <4>5 DEF WithPayload
      <4>6. log.event \in {"Created", "BetPlaced", "BettingClosed", "WindowClosed",
                           "FeeAccrued", "Resolved", "Refunded", "Paid"}
        BY DEF WellFormed, LogTypes
      <4>7. QED
        BY <1>2, <2>4, <4>1, <4>2, <4>3, <4>4, <4>5, <4>6
    <3>2. log.amount = 0
      BY <2>4 DEF WellFormed
    <3>3. \A t \in Tickets :
            new.pools[t] = row.pools[t] + IF log.ticket = t THEN log.amount ELSE 0
      BY <2>2, <3>1, <3>2
    <3>4. RowSound(row) => RowSound(new)
      BY <3>1 DEF RowSound
    <3> HIDE DEF new
    <3>5. QED
      BY <2>1, <3>1, <3>3, <3>4, RowsKnown DEF new
  <2>5. QED
    BY <2>3, <2>4
<1>3. QED
  BY <1>1, <1>2

\* Either the file stays as it is, or the event is in and its wager's row follows.
LEMMA ApplyCases ==
    ASSUME ChainInv, NEW db \in Databases, NEW id \in OnChain
    PROVE  LET log == LogAt(id)
               new == ApplyLog(db, id)
           IN  \/ new = db /\ (id \in db.events \/ Ignored(db, log))
               \/ /\ id \notin db.events /\ ~Ignored(db, log) /\ new \in Databases
                  /\ new.events = db.events \cup {id} /\ new.cursor = db.cursor
                  /\ new.head = db.head
                  /\ new.rows[log.wager] = WithPayload(db.rows[log.wager], log)
                  /\ \A w \in AllWagers \ {log.wager} : new.rows[w] = db.rows[w]
<1> DEFINE log == LogAt(id)
           w == log.wager
           row == WithPayload(db.rows[w], log)
           rows == [db.rows EXCEPT ![w] = row]
           new == [db EXCEPT !.events = db.events \cup {id}, !.rows = rows]
<1>1. WellFormed(log) /\ w \in AllWagers
  BY ChainTypes DEF ChainInv, WellFormed, LogTypes
<1>2. CASE Ignored(db, log) \/ id \in db.events
  BY <1>2 DEF ApplyLog, InsertEventLog
<1>3. CASE ~Ignored(db, log) /\ id \notin db.events
  <2>1. db.rows \in [AllWagers -> RowTypes] /\ db.events \subseteq OnChain
    BY DatabaseTypes
  <2>2. log.event # "Created" => db.rows[w].known
    BY <1>3 DEF Ignored
  <2>3. row \in RowTypes
    <3>1. db.rows[w] \in RowTypes
      BY <1>1, <2>1
    <3>2. QED
      BY <1>1, <2>2, <3>1, PayloadRow
  <2> HIDE DEF row
  <2>4. rows \in [AllWagers -> RowTypes] /\ rows[w] = row
        /\ \A x \in AllWagers \ {w} : rows[x] = db.rows[x]
    BY <1>1, <2>1, <2>3
  <2>5. ApplyLog(db, id) = new
    <3>1. ApplyLog(db, id) =
            [[db EXCEPT !.events = db.events \cup {id}] EXCEPT !.rows[w] = WithPayload(@, log)]
      BY <1>3 DEF ApplyLog, InsertEventLog
    <3>2. [db EXCEPT !.events = db.events \cup {id}].rows = db.rows
      <4>1. db = [db EXCEPT !.rows = db.rows]
        BY DatabaseTypes DEF Databases
      <4>2. QED
        BY <4>1
    <3>3. QED
      BY <3>1, <3>2 DEF row
  <2> HIDE DEF rows, log
  <2>6. /\ new \in Databases /\ new.events = db.events \cup {id} /\ new.rows = rows
        /\ new.cursor = db.cursor /\ new.head = db.head
    <3>1. db \in [events : SUBSET OnChain, rows : [AllWagers -> RowTypes],
                  cursor : {NoBlock} \cup Nat, head : {NoBlock} \cup Nat,
                  error : {"none", "ahead of chain head", "eth_getLogs"}]
      BY DatabaseTypes, Zenon
    <3>2. new \in [events : SUBSET OnChain, rows : [AllWagers -> RowTypes],
                   cursor : {NoBlock} \cup Nat, head : {NoBlock} \cup Nat,
                   error : {"none", "ahead of chain head", "eth_getLogs"}]
          /\ new.events = db.events \cup {id} /\ new.rows = rows /\ new.cursor = db.cursor
          /\ new.head = db.head
      <4>1. db.events \cup {id} \in SUBSET OnChain
        BY <2>1
      <4>2. QED
        BY <2>4, <3>1, <4>1
    <3>3. QED
      BY <3>2, DatabaseTypes, Zenon
  <2>7. QED
    BY <1>3, <2>4, <2>5, <2>6 DEF row, log
<1>4. QED
  BY <1>2, <1>3

\* Applying a log whose wager's earlier logs are in keeps the file without a gap and
\* its pools exact.
LEMMA ApplyKeepsFile ==
    ASSUME ChainInv, NEW db, FileInv(db), NEW id \in OnChain, id[1] <= ChainHead,
           \A p \in OnChain : /\ LogAt(p).wager = LogAt(id).wager /\ Before(p, id)
                              /\ db.rows[LogAt(id).wager].known
                              => p \in db.events
    PROVE  FileInv(ApplyLog(db, id))
<1>0. PICK log, w, new : log = LogAt(id) /\ w = log.wager /\ new = ApplyLog(db, id)
  OBVIOUS
<1>1. WellFormed(log) /\ w \in AllWagers /\ db \in Databases
  BY <1>0, ChainTypes DEF ChainInv, WellFormed, LogTypes, FileInv
<1>2. CASE new = db
  BY <1>0, <1>2
<1>3. CASE /\ id \notin db.events /\ ~Ignored(db, log) /\ new \in Databases
           /\ new.events = db.events \cup {id} /\ new.cursor = db.cursor
           /\ new.rows[w] = WithPayload(db.rows[w], log)
           /\ \A x \in AllWagers \ {w} : new.rows[x] = db.rows[x]
  <2>1. db.rows[w] \in RowTypes /\ db.events \subseteq OnChain /\ new.events \subseteq OnChain
    BY <1>1, <1>3, DatabaseTypes
  <2>2. /\ db.rows[w].known => /\ new.rows[w].known
                               /\ RowSound(db.rows[w]) => RowSound(new.rows[w])
                               /\ \A t \in Tickets : new.rows[w].pools[t] =
                                    db.rows[w].pools[t] + IF log.ticket = t THEN log.amount ELSE 0
        /\ ~db.rows[w].known /\ new.rows[w].known
           => log.event = "Created" /\ new.rows[w] = NewRow
    <3>1. log.event # "Created" => db.rows[w].known
      BY <1>0, <1>3 DEF Ignored
    <3>2. QED
      BY <1>1, <1>3, <2>1, <3>1, PayloadRow
  <2>3. \* The creation is the first of its wager.
        log.event = "Created" => \A p \in OnChain : LogAt(p).wager = w => ~Before(p, id)
    <3>1. ASSUME log.event = "Created", NEW p \in OnChain, LogAt(p).wager = w, Before(p, id)
          PROVE  FALSE
      <4>1. PICK c \in OnChain : /\ LogAt(c).event = "Created" /\ LogAt(c).wager = LogAt(p).wager
                                 /\ c = p \/ Before(c, p)
        BY DEF ChainInv
      <4>2. c = id
        BY <1>0, <3>1, <4>1, OneCreation
      <4>3. id = p \/ Before(id, p)
        BY <4>1, <4>2
      <4>4. id \in Ids /\ p \in Ids
        BY ChainTypes
      <4>5. QED
        BY <3>1, <4>3, <4>4, BeforeIsTotal
    <3>2. QED
      BY <3>1
  <2>4. \A q \in new.events, p \in OnChain :
          LogAt(p).wager = LogAt(q).wager /\ Before(p, q) => p \in new.events
    <3>1. ASSUME NEW q \in new.events, NEW p \in OnChain,
                 LogAt(p).wager = LogAt(q).wager, Before(p, q)
          PROVE  p \in new.events
      <4>1. CASE q \in db.events
        BY <1>3, <3>1, <4>1 DEF FileInv
      <4>2. CASE q = id
        <5>1. CASE db.rows[w].known
          BY <1>0, <1>3, <3>1, <4>2, <5>1
        <5>2. CASE ~db.rows[w].known
          <6>1. log.event = "Created"
            BY <1>0, <1>3, <5>2 DEF Ignored
          <6>2. QED
            BY <1>0, <2>3, <3>1, <4>2, <6>1
        <5>3. QED
          BY <5>1, <5>2
      <4>3. QED
        BY <1>3, <4>1, <4>2
    <3>2. QED
      BY <3>1
  <2>5. new.cursor <= ChainHead /\ \A x \in new.events : x[1] <= ChainHead
    BY <1>3 DEF FileInv
  <2>6. ASSUME NEW x \in AllWagers, new.rows[x].known
        PROVE  /\ x \in Wagers /\ RowSound(new.rows[x])
               /\ \E c \in EventsOf(new, x) : LogAt(c).event = "Created"
    <3>1. CASE db.rows[x].known
      <4>1. /\ x \in Wagers /\ RowSound(db.rows[x])
            /\ \E c \in EventsOf(db, x) : LogAt(c).event = "Created"
        BY <3>1 DEF FileInv
      <4>2. new.rows[x] = db.rows[x] \/ x = w
        BY <1>3
      <4>3. QED
        BY <1>3, <2>2, <3>1, <4>1, <4>2 DEF EventsOf
    <3>2. CASE ~db.rows[x].known
      <4>1. x = w
        BY <1>3, <2>6, <3>2
      <4>2. log.event = "Created" /\ new.rows[w] = NewRow
        BY <2>2, <2>6, <3>2, <4>1
      <4>3. id \in EventsOf(new, x)
        BY <1>0, <1>3, <4>1 DEF EventsOf
      <4>4. RowSound(NewRow)
        BY NewRowSound
      <4>5. QED
        BY <1>0, <1>3, <4>1, <4>2, <4>3, <4>4 DEF Ignored
    <3>3. QED
      BY <3>1, <3>2
  <2>7. ASSUME NEW x \in AllWagers, new.rows[x].known, NEW t \in Tickets
        PROVE  new.rows[x].pools[t] = SumFunctionOnSet(Amount, BetsIn(new, x, t))
    <3>1. CASE x # w
      <4>1. BetsIn(new, x, t) = BetsIn(db, x, t)
        BY <1>0, <1>3, <3>1 DEF BetsIn, EventsOf
      <4>2. new.rows[x] = db.rows[x]
        BY <1>3, <3>1
      <4>3. QED
        BY <2>7, <4>1, <4>2 DEF FileInv
    <3>2. CASE x = w
      <4> DEFINE old == BetsIn(db, w, t)
      <4>1. old \subseteq OnChain /\ IsFiniteSet(old) /\ id \notin old
        <5>1. old \subseteq OnChain /\ id \notin old
          BY <1>3, <2>1 DEF BetsIn, EventsOf
        <5>2. QED
          BY <5>1, FS_Subset DEF ChainInv
      <4>2. BetsIn(new, w, t) = old \cup (IF log.ticket = t THEN {id} ELSE {})
        BY <1>0, <1>3 DEF BetsIn, EventsOf
      <4>3. \A y \in OnChain : Amount[y] \in Int
        BY ChainTypes DEF Amount, LogTypes
      <4>4. Amount[id] = log.amount
        BY <1>0 DEF Amount
      <4>5. SumFunctionOnSet(Amount, BetsIn(new, w, t))
              = SumFunctionOnSet(Amount, old) + IF log.ticket = t THEN log.amount ELSE 0
        <5>1. PICK f : f = Amount
          OBVIOUS
        <5> HIDE DEF old
        <5>2. SumFunctionOnSet(f, old) \in Int
          BY <4>1, <4>3, <5>1, SumInt
        <5>3. CASE log.ticket = t
          <6>1. \A y \in old \cup {id} : f[y] \in Int
            BY <4>1, <4>3, <5>1
          <6>2. SumFunctionOnSet(f, old \cup {id}) = f[id] + SumFunctionOnSet(f, old)
            BY <4>1, <6>1, SumAdd
          <6>3. f[id] \in Int
            BY <4>3, <5>1
          <6>4. QED
            BY <4>2, <4>4, <5>1, <5>2, <5>3, <6>2, <6>3
        <5>4. CASE log.ticket # t
          <6>1. BetsIn(new, w, t) = old
            BY <4>2, <5>4
          <6>2. QED
            BY <5>1, <5>2, <5>4, <6>1
        <5>5. QED
          BY <5>3, <5>4
      <4>6. CASE db.rows[w].known
        <5>1. db.rows[w].pools[t] = SumFunctionOnSet(Amount, old)
          BY <1>1, <4>6 DEF FileInv
        <5>2. QED
          BY <2>2, <3>2, <4>5, <4>6, <5>1
      <4>7. CASE ~db.rows[w].known
        <5>1. log.event = "Created" /\ new.rows[w] = NewRow
          BY <2>2, <2>7, <3>2, <4>7
        <5>2. old = {}
          <6>1. ASSUME NEW q \in old PROVE FALSE
            <7>1. q \in db.events /\ q \in OnChain /\ LogAt(q).wager = w
              BY <2>1 DEF BetsIn, EventsOf
            <7>2. q # id /\ ~Before(q, id)
              BY <1>3, <2>3, <5>1, <7>1
            <7>3. Before(id, q)
              BY <7>1, <7>2, ChainTypes, BeforeIsTotal
            <7>4. id \in db.events
              BY <1>0, <7>1, <7>3 DEF FileInv
            <7>5. QED
              BY <1>3, <7>4
          <6>2. QED
            BY <6>1
        <5>3. log.amount = 0 /\ new.rows[w].pools[t] = 0
          BY <1>1, <5>1 DEF WellFormed, NewRow
        <5>4. SumFunctionOnSet(Amount, old) = 0
          BY <5>2, SumEmpty
        <5>5. QED
          BY <3>2, <4>5, <5>3, <5>4
      <4>8. QED
        BY <4>6, <4>7
    <3>3. QED
      BY <3>1, <3>2
  <2>8. FileInv(new)
    BY <1>3, <2>4, <2>5, <2>6, <2>7 DEF FileInv
  <2>9. QED
    BY <1>0, <2>8
<1>4. QED
  <2>1. \/ new = db
        \/ /\ id \notin db.events /\ ~Ignored(db, log) /\ new \in Databases
           /\ new.events = db.events \cup {id} /\ new.cursor = db.cursor
           /\ new.rows[w] = WithPayload(db.rows[w], log)
           /\ \A x \in AllWagers \ {w} : new.rows[x] = db.rows[x]
    BY <1>0, <1>1, ApplyCases
  <2>2. QED
    BY <1>2, <1>3, <2>1

-------------------------------------------------------------------------------
(* The steps of a pass *)

LEMMA ChainSame ==
    ASSUME chain' = chain
    PROVE  /\ OnChain' = OnChain /\ ChainHead' = ChainHead /\ Databases' = Databases
           /\ Amount' = Amount /\ \A id : LogAt(id)' = LogAt(id)
<1>1. OnChain' = OnChain /\ ChainHead' = ChainHead /\ \A id : LogAt(id)' = LogAt(id)
  BY DEF OnChain, ChainHead, LogAt
<1>2. Databases' = Databases /\ Amount' = Amount
  BY <1>1 DEF Databases, Amount
<1>3. QED
  BY <1>1, <1>2

LEMMA FileSame ==
    ASSUME chain' = chain, NEW db, FileInv(db)
    PROVE  FileInv(db)'
<1>1. \A w, t : BetsIn(db, w, t)' = BetsIn(db, w, t)
  BY ChainSame DEF BetsIn, EventsOf
<1>2. QED
  BY <1>1, ChainSame DEF FileInv, RowSound, EventsOf

\* The cursor, the head and the error do not matter to the rest of the file.
LEMMA FileMoves ==
    ASSUME NEW db, FileInv(db), NEW new \in Databases,
           new.events = db.events, new.rows = db.rows, new.cursor <= ChainHead
    PROVE  FileInv(new)
<1>1. \A w, t : BetsIn(new, w, t) = BetsIn(db, w, t)
  BY DEF BetsIn, EventsOf
<1>2. \A id \in new.events : id[1] <= ChainHead
  BY DEF FileInv
<1>3. \A q \in new.events, p \in OnChain :
        LogAt(p).wager = LogAt(q).wager /\ Before(p, q) => p \in new.events
  BY DEF FileInv
<1>4. ASSUME NEW w \in AllWagers, new.rows[w].known
      PROVE  /\ w \in Wagers /\ RowSound(new.rows[w])
             /\ \E c \in EventsOf(new, w) : LogAt(c).event = "Created"
             /\ \A t \in Tickets :
                  new.rows[w].pools[t] = SumFunctionOnSet(Amount, BetsIn(new, w, t))
  BY <1>1, <1>4 DEF FileInv, EventsOf
<1>5. QED
  BY <1>2, <1>3, <1>4 DEF FileInv

LEMMA FileSteps ==
    ASSUME ChainInv, NEW db, FileInv(db)
    PROVE  /\ \A e \in {"none", "ahead of chain head", "eth_getLogs"} :
                FileInv([db EXCEPT !.error = e])
           /\ FileInv([db EXCEPT !.head = ChainHead, !.error = "none"])
           /\ \A c \in Nat : c <= ChainHead => FileInv([db EXCEPT !.cursor = c, !.error = "none"])
<1> DEFINE DB == [events : SUBSET OnChain, rows : [AllWagers -> RowTypes],
                  cursor : {NoBlock} \cup Nat, head : {NoBlock} \cup Nat,
                  error : {"none", "ahead of chain head", "eth_getLogs"}]
<1>1. Databases = DB
  BY DatabaseTypes, Zenon
<1>2. db \in DB /\ db.cursor <= ChainHead /\ ChainHead \in Nat
  BY <1>1, ChainTypes DEF FileInv
<1>3. ASSUME NEW e \in {"none", "ahead of chain head", "eth_getLogs"}
      PROVE  FileInv([db EXCEPT !.error = e])
  <2> DEFINE new == [db EXCEPT !.error = e]
  <2>1. new \in DB /\ new.events = db.events /\ new.rows = db.rows /\ new.cursor = db.cursor
    BY <1>2
  <2> HIDE DEF new
  <2>2. FileInv(new)
    BY <1>1, <1>2, <2>1, FileMoves
  <2>3. QED
    BY <2>2 DEF new
<1>4. FileInv([db EXCEPT !.head = ChainHead, !.error = "none"])
  <2> DEFINE new == [db EXCEPT !.head = ChainHead, !.error = "none"]
  <2>1. new \in DB /\ new.events = db.events /\ new.rows = db.rows /\ new.cursor = db.cursor
    BY <1>2
  <2> HIDE DEF new
  <2>2. FileInv(new)
    BY <1>1, <1>2, <2>1, FileMoves
  <2>3. QED
    BY <2>2 DEF new
<1>5. ASSUME NEW c \in Nat, c <= ChainHead
      PROVE  FileInv([db EXCEPT !.cursor = c, !.error = "none"])
  <2> DEFINE new == [db EXCEPT !.cursor = c, !.error = "none"]
  <2>1. new \in DB /\ new.events = db.events /\ new.rows = db.rows /\ new.cursor = c
    BY <1>2
  <2> HIDE DEF new
  <2>2. FileInv(new)
    BY <1>1, <1>5, <2>1, FileMoves
  <2>3. QED
    BY <2>2 DEF new
<1>6. QED
  BY <1>3, <1>4, <1>5

\* What a step must leave to keep the invariant, the chain being as it was: the
\* primed variables by name.
LEMMA StepKeeps ==
    ASSUME IInv, UNCHANGED <<setting, chain>>,
           NEW d, NEW k, d = disk', k = work', FileInv(d), FileInv(k),
           \A w \in AllWagers : d.rows[w].known =>
               /\ d.cursor # NoBlock
               /\ \A id \in LogsOf(w) : id[1] <= d.cursor => id \in d.events,
           PassInv'
    PROVE  IInv'
<1>1. chain' = chain /\ setting' = setting
  OBVIOUS
<1>2. ChainInv'
  <2>1. ChainInv
    BY DEF IInv
  <2>2. QED
    BY <1>1, <2>1, ChainSame DEF ChainInv, WellFormed
<1>3. FileInv(d)' /\ FileInv(k)'
  BY <1>1, FileSame
<1>4. FileInv(disk)'
  BY <1>3 DEF FileInv, RowSound, BetsIn, EventsOf
<1>5. FileInv(work)'
  BY <1>3 DEF FileInv, RowSound, BetsIn, EventsOf
<1>6. CursorInv'
  BY <1>1, ChainSame DEF CursorInv, LogsOf
<1>7. QED
  BY <1>2, <1>4, <1>5, <1>6 DEF IInv

LEMMA Facts ==
    ASSUME IInv
    PROVE  /\ ChainInv /\ FileInv(disk) /\ FileInv(work) /\ CursorInv /\ PassInv
           /\ ChainHead \in Nat /\ ChainHead <= MaxBlocks /\ MaxBlocks \in Nat
           /\ disk.cursor \in {NoBlock} \cup Nat /\ disk.cursor <= ChainHead
           /\ DOMAIN disk = {"events", "rows", "cursor", "head", "error"}
           /\ DOMAIN work = {"events", "rows", "cursor", "head", "error"}
           /\ start \in Nat /\ toBlock \in Nat /\ end \in Nat
<1>1. ChainInv /\ FileInv(disk) /\ FileInv(work) /\ CursorInv /\ PassInv
  BY DEF IInv
<1>2. disk \in Databases /\ work \in Databases
  BY <1>1 DEF FileInv
<1>3. DOMAIN disk = {"events", "rows", "cursor", "head", "error"}
      /\ DOMAIN work = {"events", "rows", "cursor", "head", "error"}
  BY <1>2 DEF Databases
<1>4. disk.cursor \in {NoBlock} \cup Nat /\ disk.cursor <= ChainHead
  BY <1>1, <1>2, DatabaseTypes DEF FileInv
<1>5. QED
  BY <1>1, <1>3, <1>4, ChainTypes DEF PassInv

\* A pass starts no later than behind the cursor.
LEMMA BeginPassKeeps ==
    ASSUME IInv, phase = "wait", UNCHANGED setting, NEW to \in Nat, NEW next \in Nat \ {0},
           disk.cursor # NoBlock => next <= disk.cursor + 1, BeginPass(to, next)
    PROVE  IInv'
<1>1. work = disk /\ batch = <<>>
  BY DEF IInv, PassInv
<1>2. PICK new : new = [work EXCEPT !.head = ChainHead, !.error = "none"]
  OBVIOUS
<1>3. /\ disk' = new /\ work' = new /\ start' = next /\ phase' = "range" /\ chain' = chain
      /\ end' = end /\ batch' = batch
      /\ toBlock' = IF to > ChainHead THEN ChainHead ELSE to
  BY <1>2 DEF BeginPass, Commit
<1>4. /\ FileInv(new) /\ new.cursor = disk.cursor /\ new.rows = disk.rows
      /\ new.events = disk.events
  BY <1>1, <1>2, Facts, FileSteps
<1>5. \A w \in AllWagers : new.rows[w].known =>
        /\ new.cursor # NoBlock
        /\ \A id \in LogsOf(w) : id[1] <= new.cursor => id \in new.events
  BY <1>4, Facts DEF CursorInv
<1>6. PassInv'
  <2>1. toBlock' \in Nat /\ toBlock' <= ChainHead
    BY <1>3, Facts
  <2>2. OnChain' = OnChain /\ ChainHead' = ChainHead
    BY <1>3, ChainSame
  <2>3. end \in Nat /\ batch \in Seq(OnChain)
    BY Facts DEF PassInv
  <2>4. QED
    BY <1>1, <1>3, <1>4, <2>1, <2>2, <2>3 DEF PassInv
<1>7. QED
  BY <1>3, <1>4, <1>5, <1>6, StepKeeps

\* A pass that ends, or never got going, leaves the file's rows and cursor.
LEMMA BackToWait ==
    ASSUME IInv, UNCHANGED <<setting, chain>>, phase' = "wait", LocalsDropped,
           NEW new, disk' = new, work' = new, FileInv(new),
           new.cursor = disk.cursor, new.rows = disk.rows, new.events = disk.events
    PROVE  IInv'
<1>1. \A w \in AllWagers : new.rows[w].known =>
        /\ new.cursor # NoBlock
        /\ \A id \in LogsOf(w) : id[1] <= new.cursor => id \in new.events
  BY Facts DEF CursorInv
<1>2. PassInv'
  <2>1. <<>> \in Seq(OnChain')
    OBVIOUS
  <2>2. QED
    BY <2>1 DEF PassInv, LocalsDropped
<1>3. QED
  BY <1>1, <1>2, StepKeeps

LEMMA PollKeeps ==
    ASSUME IInv, Poll, UNCHANGED setting
    PROVE  IInv'
<1>1. PICK next : next = IF disk.cursor = NoBlock THEN setting.fromBlock ELSE disk.cursor + 1
  OBVIOUS
<1>2. setting.fromBlock \in Nat \ {0}
  BY Facts, SettingTypes DEF Setting
<1>3. next \in Nat \ {0} /\ (disk.cursor # NoBlock => next <= disk.cursor + 1)
  BY <1>1, <1>2, Facts
<1>4. phase = "wait" /\ BeginPass(ChainHead, next)
  BY <1>1 DEF Poll
<1>5. QED
  BY <1>3, <1>4, Facts, BeginPassKeeps

LEMMA ReplayKeeps ==
    ASSUME IInv, Replay, UNCHANGED setting
    PROVE  IInv'
<1>1. PICK from \in 1..MaxBlocks, to \in 1..MaxBlocks :
        (disk.cursor = NoBlock \/ from <= disk.cursor + 1) /\ BeginPass(to, from)
  BY DEF Replay
<1>2. phase = "wait" /\ from \in Nat \ {0} /\ to \in Nat
  BY Facts DEF Replay
<1>3. QED
  BY <1>1, <1>2, BeginPassKeeps

LEMMA NothingNewKeeps ==
    ASSUME IInv, NothingNew, UNCHANGED setting
    PROVE  IInv'
<1>1. PICK new : new = [work EXCEPT !.error = "ahead of chain head"]
  OBVIOUS
<1>2. /\ disk' = new /\ work' = new /\ phase' = "wait" /\ LocalsDropped /\ chain' = chain
      /\ work = disk
  BY <1>1 DEF NothingNew, Commit, IInv, PassInv
<1>3. /\ FileInv(new) /\ new.cursor = disk.cursor /\ new.rows = disk.rows
      /\ new.events = disk.events
  BY <1>1, <1>2, Facts, FileSteps
<1>4. QED
  BY <1>2, <1>3, BackToWait

LEMMA SomethingNewKeeps ==
    ASSUME IInv, SomethingNew, UNCHANGED setting
    PROVE  IInv'
<1>1. /\ disk' = disk /\ work' = work /\ chain' = chain /\ start' = start
      /\ toBlock' = toBlock /\ end' = end /\ batch' = batch
      /\ phase = "range" /\ phase' = "fetch"
  BY DEF SomethingNew
<1>2. PassInv'
  BY <1>1, Facts, ChainSame DEF PassInv
<1>3. QED
  BY <1>1, <1>2, Facts, StepKeeps DEF CursorInv

LEMMA EndOfPassKeeps ==
    ASSUME IInv, EndOfPass, UNCHANGED setting
    PROVE  IInv'
<1>1. PICK new : new = disk
  OBVIOUS
<1>2. /\ disk' = new /\ work' = new /\ phase' = "wait" /\ LocalsDropped /\ chain' = chain
  BY <1>1 DEF EndOfPass, IInv, PassInv
<1>3. QED
  BY <1>1, <1>2, Facts, BackToWait

\* What was not committed is lost: the file is as it was.
LEMMA CrashKeeps ==
    ASSUME IInv, Crash, UNCHANGED setting
    PROVE  IInv'
<1>1. PICK new : new = disk
  OBVIOUS
<1>2. /\ disk' = new /\ work' = new /\ phase' = "wait" /\ LocalsDropped /\ chain' = chain
  BY <1>1 DEF Crash
<1>3. QED
  BY <1>1, <1>2, Facts, BackToWait

LEMMA ChunkBounds ==
    ASSUME IInv, phase = "fetch", start <= toBlock
    PROVE  /\ start \in 1..MaxBlocks + 1 /\ ChunkEnd \in 0..MaxBlocks /\ ChunkEnd \in Nat
           /\ start <= ChunkEnd /\ ChunkEnd <= ChainHead
<1>1. start # 0 /\ toBlock <= ChainHead
  BY DEF IInv, PassInv
<1>2. ChunkSize \in Nat \ {0}
  BY IndexerAssumption
<1>3. QED
  BY <1>1, <1>2, Facts DEF ChunkEnd

\* All of the chunk, in order.
WholeChunk(b) ==
    /\ b \in Seq(OnChain)
    /\ \A i \in DOMAIN b : b[i] \in OnChain /\ start <= b[i][1] /\ b[i][1] <= ChunkEnd
    /\ \A i, j \in DOMAIN b : i < j => Before(b[i], b[j])
    /\ \A id \in OnChain : start <= id[1] /\ id[1] <= ChunkEnd
                           => \E i \in DOMAIN b : b[i] = id

\* The batch is every log of the chunk, whatever the RPC refused.
LEMMA FetchedBatch ==
    ASSUME IInv, phase = "fetch", start <= toBlock, NEW refused,
           GetLogsBisect(refused)[<<start, ChunkEnd>>].ok, NEW b,
           b = InLogOrder(GetLogsBisect(refused)[<<start, ChunkEnd>>].ids)
    PROVE  WholeChunk(b)
<1>1. PICK ids : ids = IdsWithin(start, ChunkEnd)
  OBVIOUS
<1>2. \A id \in OnChain : id[1] \in Nat
  BY Facts, ChainTypes
<1>3. GetLogsBisect(refused)[<<start, ChunkEnd>>].ids = ids
  <2>1. PICK s, e : s = start /\ e = ChunkEnd
    OBVIOUS
  <2>2. s \in 1..MaxBlocks + 1 /\ e \in 0..MaxBlocks
    BY <2>1, ChunkBounds
  <2>3. GetLogsBisect(refused)[<<s, e>>].ok
    BY <2>1
  <2>4. GetLogsBisect(refused)[<<s, e>>].ids = IdsWithin(s, e)
    BY <1>2, <2>2, <2>3, FetchComplete
  <2>5. QED
    BY <1>1, <2>1, <2>4
<1>4. /\ ids \subseteq OnChain /\ ids \in SUBSET Ids /\ IsFiniteSet(ids)
      /\ \A id \in OnChain : id \in ids <=> start <= id[1] /\ id[1] <= ChunkEnd
  <2>1. \A id \in OnChain : id \in ids <=> start <= id[1] /\ id[1] <= ChunkEnd
    BY <1>1, <1>2, ChunkBounds, Facts DEF IdsWithin
  <2>2. ids \subseteq OnChain
    BY <1>1 DEF IdsWithin
  <2>3. OnChain \in SUBSET Ids /\ IsFiniteSet(OnChain)
    BY Facts, ChainTypes DEF ChainInv
  <2>4. QED
    BY <2>1, <2>2, <2>3, FS_Subset
<1>5. /\ b \in Seq(ids)
      /\ \A id \in ids : \E i \in DOMAIN b : b[i] = id
      /\ \A i, j \in DOMAIN b : i < j => Before(b[i], b[j])
  BY <1>3, <1>4, LogOrder
<1>6. b \in Seq(OnChain) /\ \A i \in DOMAIN b : b[i] \in ids
  BY <1>4, <1>5
<1>7. QED
  BY <1>4, <1>5, <1>6 DEF WholeChunk

LEMMA FetchKeeps ==
    ASSUME IInv, Fetch, UNCHANGED setting
    PROVE  IInv'
<1>1. PICK refused : LET reply == GetLogsBisect(refused)[<<start, ChunkEnd>>]
                     IN  IF reply.ok THEN Fetched(reply.ids) ELSE FetchFailed
  BY DEF Fetch
<1>2. phase = "fetch" /\ start <= toBlock /\ chain' = chain /\ work = disk
  BY DEF Fetch, IInv, PassInv
<1>3. CASE ~GetLogsBisect(refused)[<<start, ChunkEnd>>].ok
  <2>1. PICK new : new = [work EXCEPT !.error = "eth_getLogs"]
    OBVIOUS
  <2>2. disk' = new /\ work' = new /\ phase' = "wait" /\ LocalsDropped
    BY <1>1, <1>3, <2>1 DEF FetchFailed, Commit
  <2>3. /\ FileInv(new) /\ new.cursor = disk.cursor /\ new.rows = disk.rows
        /\ new.events = disk.events
    BY <1>2, <2>1, Facts, FileSteps
  <2>4. QED
    BY <1>2, <2>2, <2>3, BackToWait
<1>4. CASE GetLogsBisect(refused)[<<start, ChunkEnd>>].ok
  <2>1. PICK b : b = InLogOrder(GetLogsBisect(refused)[<<start, ChunkEnd>>].ids)
    OBVIOUS
  <2>2. /\ disk' = disk /\ work' = disk /\ start' = start /\ toBlock' = toBlock
        /\ batch' = b /\ end' = ChunkEnd /\ phase' = "apply"
    BY <1>1, <1>2, <1>4, <2>1 DEF Fetched
  <2>3. /\ b \in Seq(OnChain)
        /\ \A i \in DOMAIN b : b[i] \in OnChain /\ start <= b[i][1] /\ b[i][1] <= ChunkEnd
        /\ \A i, j \in DOMAIN b : i < j => Before(b[i], b[j])
        /\ \A id \in OnChain : start <= id[1] /\ id[1] <= ChunkEnd
                               => \E i \in DOMAIN b : b[i] = id
    <3>1. WholeChunk(b)
      BY <1>2, <1>4, <2>1, FetchedBatch
    <3>2. QED
      BY <3>1 DEF WholeChunk
  <2>4. \* What precedes the chunk is in for every wager with a row.
        ASSUME NEW id \in OnChain, disk.rows[LogAt(id).wager].known, id[1] <= ChunkEnd,
               \A i \in DOMAIN b : b[i] # id
        PROVE  id \in disk.events
    <3>1. id[1] \in Nat /\ LogAt(id).wager \in AllWagers
      BY Facts, ChainTypes DEF LogTypes
    <3>2. id[1] < start
      BY <2>3, <2>4, <3>1, Facts
    <3>3. disk.cursor # NoBlock /\ (id[1] <= disk.cursor => id \in disk.events)
      BY <2>4, <3>1, Facts DEF CursorInv, LogsOf
    <3>4. start <= disk.cursor + 1
      BY <1>2, <3>3, Facts DEF PassInv
    <3>5. QED
      BY <3>1, <3>2, <3>3, <3>4, Facts
  <2>5. BatchInv'
    <3>1. start <= ChunkEnd /\ ChunkEnd <= ChainHead
      BY <1>2, ChunkBounds
    <3>2. QED
      BY <1>2, <2>2, <2>3, <2>4, <3>1, ChainSame DEF BatchInv
  <2>6. PassInv'
    <3>1. /\ start \in Nat /\ toBlock \in Nat /\ ChunkEnd \in Nat /\ start # 0
          /\ toBlock <= ChainHead /\ (disk.cursor # NoBlock => start <= disk.cursor + 1)
      BY <1>2, ChunkBounds, Facts DEF PassInv
    <3>2. OnChain' = OnChain /\ ChainHead' = ChainHead
      BY <1>2, ChainSame
    <3>3. QED
      BY <2>2, <2>3, <2>5, <3>1, <3>2 DEF PassInv
  <2>7. QED
    BY <1>2, <2>2, <2>6, Facts, StepKeeps DEF CursorInv
<1>5. QED
  BY <1>3, <1>4

\* The next log of the batch: what its wager emitted before is in.
LEMMA ApplyKeeps ==
    ASSUME IInv, Apply, UNCHANGED setting
    PROVE  IInv'
<1>1. /\ phase = "apply" /\ batch # <<>> /\ work' = ApplyLog(work, batch[1])
      /\ batch' = Tail(batch) /\ chain' = chain /\ disk' = disk /\ phase' = "apply"
      /\ start' = start /\ toBlock' = toBlock /\ end' = end
  BY DEF Apply
<1>2. PICK id, k, b : id = batch[1] /\ k = ApplyLog(work, id) /\ b = batch
  OBVIOUS
<1>3. b \in Seq(OnChain) /\ b # <<>> /\ BatchInv
  BY <1>1, <1>2, Facts DEF PassInv
<1>4. /\ 1 \in DOMAIN b /\ id = b[1] /\ id \in OnChain /\ Tail(b) \in Seq(OnChain)
      /\ DOMAIN b = 1..Len(b) /\ Len(b) \in Nat \ {0}
      /\ DOMAIN Tail(b) = 1..(Len(b) - 1)
      /\ \A i \in 1..(Len(b) - 1) : Tail(b)[i] = b[i + 1]
  BY <1>2, <1>3
<1>5. /\ \A i \in DOMAIN Tail(b) : i + 1 \in DOMAIN b /\ Tail(b)[i] = b[i + 1]
      /\ \A i \in DOMAIN b : i = 1 \/ (i - 1 \in DOMAIN Tail(b) /\ b[i] = Tail(b)[i - 1])
  BY <1>4
<1>6. /\ start <= id[1] /\ id[1] <= end /\ end <= ChainHead /\ start <= end
      /\ \A i \in DOMAIN b : start <= b[i][1] /\ b[i][1] <= end
      /\ \A i, j \in DOMAIN b : i < j => Before(b[i], b[j])
      /\ \A x \in OnChain : start <= x[1] /\ x[1] <= end =>
           \/ \E i \in DOMAIN b : b[i] = x
           \/ \A i \in DOMAIN b : Before(x, b[i])
      /\ \A x \in OnChain : /\ work.rows[LogAt(x).wager].known /\ x[1] <= end
                            /\ \A i \in DOMAIN b : b[i] # x
                            => x \in work.events
  BY <1>2, <1>3, <1>4 DEF BatchInv
<1>7. /\ \A x \in OnChain : x[1] \in Nat /\ x \in Ids /\ LogAt(x).wager \in AllWagers
      /\ \A i \in DOMAIN b : b[i] \in OnChain
  BY <1>3, Facts, ChainTypes DEF LogTypes
<1>8. \A i \in DOMAIN b : i # 1 => Before(id, b[i])
  BY <1>4, <1>6
<1>9. ASSUME NEW p \in OnChain, work.rows[LogAt(p).wager].known, Before(p, id)
      PROVE  p \in work.events
  <2>1. p[1] <= end
    BY <1>4, <1>6, <1>7, <1>9, Facts DEF Before
  <2>2. \A i \in DOMAIN b : b[i] # p
    BY <1>4, <1>7, <1>8, <1>9, BeforeIsTotal
  <2>3. QED
    BY <1>6, <1>9, <2>1, <2>2
<1>10. FileInv(k)
  <2>1. \A p \in OnChain : /\ LogAt(p).wager = LogAt(id).wager /\ Before(p, id)
                           /\ work.rows[LogAt(id).wager].known
                           => p \in work.events
    BY <1>9
  <2>2. id[1] <= ChainHead
    BY <1>4, <1>6, <1>7, Facts
  <2>3. QED
    BY <1>2, <1>4, <2>1, <2>2, Facts, ApplyKeepsFile
<1>11. \/ k = work /\ (id \in work.events \/ Ignored(work, LogAt(id)))
       \/ /\ id \notin work.events /\ ~Ignored(work, LogAt(id))
          /\ k.events = work.events \cup {id}
          /\ k.rows[LogAt(id).wager] = WithPayload(work.rows[LogAt(id).wager], LogAt(id))
          /\ \A w \in AllWagers \ {LogAt(id).wager} : k.rows[w] = work.rows[w]
  BY <1>2, <1>4, Facts, ApplyCases DEF FileInv
<1>12. \* The chunk so far is in for every wager with a row by now.
       ASSUME NEW x \in OnChain, k.rows[LogAt(x).wager].known, x[1] <= end,
              \A i \in DOMAIN Tail(b) : Tail(b)[i] # x
       PROVE  x \in k.events
  <2>1. work.events \subseteq k.events
    BY <1>11
  <2>2. CASE x = id
    <3>1. CASE k = work
      <4>1. id \in work.events \/ Ignored(work, LogAt(id))
        BY <1>11, <3>1
      <4>2. LogAt(id).wager \in Wagers
        BY <1>7, <1>10, <1>12, <2>2 DEF FileInv
      <4>3. ~Ignored(work, LogAt(id))
        BY <1>12, <2>2, <3>1, <4>2 DEF Ignored
      <4>4. QED
        BY <2>2, <3>1, <4>1, <4>3
    <3>2. CASE k # work
      BY <1>11, <2>2, <3>2
    <3>3. QED
      BY <3>1, <3>2
  <2>3. CASE x # id
    <3>1. \A i \in DOMAIN b : b[i] # x
      <4>1. ASSUME NEW i \in DOMAIN b, b[i] = x
            PROVE  FALSE
        <5>1. i # 1
          BY <1>4, <2>3, <4>1
        <5>2. i - 1 \in DOMAIN Tail(b) /\ Tail(b)[i - 1] = x
          BY <1>5, <4>1, <5>1
        <5>3. QED
          BY <1>12, <5>2
      <4>2. QED
        BY <4>1
    <3>2. CASE work.rows[LogAt(x).wager].known
      BY <1>6, <1>12, <2>1, <3>1, <3>2
    <3>3. CASE ~work.rows[LogAt(x).wager].known
      <4>1. /\ LogAt(x).wager = LogAt(id).wager /\ ~Ignored(work, LogAt(id))
            /\ k.rows[LogAt(id).wager] = WithPayload(work.rows[LogAt(id).wager], LogAt(id))
        BY <1>7, <1>11, <1>12, <3>3
      <4>2. LogAt(id).event = "Created"
        BY <3>3, <4>1 DEF Ignored
      <4>3. PICK c \in OnChain : /\ LogAt(c).event = "Created"
                                 /\ LogAt(c).wager = LogAt(x).wager
                                 /\ c = x \/ Before(c, x)
        BY Facts DEF ChainInv
      <4>4. c = id
        BY <1>4, <4>1, <4>2, <4>3, Facts, OneCreation
      <4>5. Before(id, x)
        BY <2>3, <4>3, <4>4
      <4>6. start <= x[1]
        BY <1>4, <1>6, <1>7, <4>5, Facts DEF Before
      <4>7. Before(x, id)
        BY <1>4, <1>6, <1>12, <3>1, <4>6
      <4>8. QED
        BY <1>4, <1>7, <4>5, <4>7, BeforeIsTotal
    <3>4. QED
      BY <3>2, <3>3
  <2>4. QED
    BY <2>2, <2>3
<1>13. BatchInv'
  <2>1. \A i \in DOMAIN Tail(b) : start <= Tail(b)[i][1] /\ Tail(b)[i][1] <= end
    BY <1>5, <1>6
  <2>2. \A i, j \in DOMAIN Tail(b) : i < j => Before(Tail(b)[i], Tail(b)[j])
    <3>1. ASSUME NEW i \in DOMAIN Tail(b), NEW j \in DOMAIN Tail(b), i < j
          PROVE  Before(Tail(b)[i], Tail(b)[j])
      <4>1. i + 1 < j + 1
        BY <1>4, <3>1
      <4>2. QED
        BY <1>5, <1>6, <4>1
    <3>2. QED
      BY <3>1
  <2>3. ASSUME NEW x \in OnChain, start <= x[1], x[1] <= end
        PROVE  \/ \E i \in DOMAIN Tail(b) : Tail(b)[i] = x
               \/ \A i \in DOMAIN Tail(b) : Before(x, Tail(b)[i])
    <3>1. CASE \A i \in DOMAIN b : Before(x, b[i])
      BY <1>5, <3>1
    <3>2. CASE \E i \in DOMAIN b : b[i] = x
      <4>1. PICK i \in DOMAIN b : b[i] = x
        BY <3>2
      <4>2. CASE i = 1
        <5>1. \A j \in DOMAIN Tail(b) : j + 1 # 1
          BY <1>4
        <5>2. QED
          BY <1>4, <1>5, <1>8, <4>1, <4>2, <5>1
      <4>3. CASE i # 1
        BY <1>5, <4>1, <4>3
      <4>4. QED
        BY <4>2, <4>3
    <3>3. QED
      BY <1>6, <2>3, <3>1, <3>2
  <2>4. batch' = Tail(b) /\ work' = k
    BY <1>1, <1>2
  <2>5. QED
    BY <1>1, <1>6, <1>12, <2>1, <2>2, <2>3, <2>4, ChainSame DEF BatchInv
<1>14. PassInv'
  <2>1. /\ start # 0 /\ toBlock <= ChainHead
        /\ disk.cursor # NoBlock => start <= disk.cursor + 1
    BY <1>1, Facts DEF PassInv
  <2>2. OnChain' = OnChain /\ ChainHead' = ChainHead
    BY <1>1, ChainSame
  <2>3. QED
    BY <1>1, <1>2, <1>4, <1>13, <2>1, <2>2, Facts DEF PassInv
<1>15. QED
  BY <1>1, <1>2, <1>10, <1>14, Facts, StepKeeps DEF CursorInv

\* The commit of a chunk: with the batch empty, every wager with a row is complete up to
\* the cursor.
LEMMA EndOfChunkKeeps ==
    ASSUME IInv, EndOfChunk, UNCHANGED setting
    PROVE  IInv'
<1>1. /\ phase = "apply" /\ batch = <<>> /\ BatchInv
      /\ end <= ChainHead /\ end \in Nat /\ toBlock <= ChainHead
  BY Facts DEF EndOfChunk, PassInv, BatchInv
<1>2. PICK new : new = [work EXCEPT !.cursor = end, !.error = "none"]
  OBVIOUS
<1>3. /\ disk' = new /\ work' = new /\ start' = end + 1 /\ phase' = "fetch" /\ chain' = chain
      /\ toBlock' = toBlock /\ end' = end /\ batch' = batch
  BY <1>2 DEF EndOfChunk, Commit
<1>4. /\ FileInv(new) /\ new.cursor = end /\ new.rows = work.rows
      /\ new.events = work.events
  BY <1>1, <1>2, Facts, FileSteps
<1>5. ASSUME NEW w \in AllWagers, new.rows[w].known
      PROVE  /\ new.cursor # NoBlock
             /\ \A id \in LogsOf(w) : id[1] <= new.cursor => id \in new.events
  <2>1. end # NoBlock
    BY <1>1 DEF NoBlock
  <2>2. DOMAIN batch = {}
    BY <1>1
  <2>3. \A id \in LogsOf(w) : id[1] <= end => id \in work.events
    BY <1>1, <1>4, <1>5, <2>2 DEF BatchInv, LogsOf
  <2>4. QED
    BY <1>4, <2>1, <2>3
<1>6. PassInv'
  <2>1. OnChain' = OnChain /\ ChainHead' = ChainHead
    BY <1>3, ChainSame
  <2>2. <<>> \in Seq(OnChain)
    OBVIOUS
  <2>3. end + 1 \in Nat /\ end + 1 # 0 /\ end + 1 <= new.cursor + 1
    BY <1>1, <1>4
  <2>4. QED
    BY <1>1, <1>3, <2>1, <2>2, <2>3, Facts DEF PassInv
<1>7. QED
  BY <1>3, <1>4, <1>5, <1>6, StepKeeps

-------------------------------------------------------------------------------
(* What the invariant gives *)

LEMMA InitHolds ==
    ASSUME Init
    PROVE  IInv
<1>1. /\ setting \in Settings /\ chain = <<<<>>>> /\ disk = Empty /\ work = Empty
      /\ phase = "wait" /\ start = 0 /\ toBlock = 0 /\ end = 0 /\ batch = <<>>
  BY DEF Init
<1>2. MaxBlocks \in Nat
  BY IndexerAssumption
<1>3. OnChain = {} /\ ChainHead = 0 /\ chain \in Seq(Seq(LogTypes)) /\ Len(chain) = 1
  BY <1>1 DEF OnChain, ChainHead
<1>4. ChainInv
  <2>1. 1 \in 1..MaxBlocks + 1
    BY <1>2
  <2>2. IsFiniteSet(OnChain) /\ Cardinality(OnChain) = 0 /\ setting.logs \in Nat
    BY <1>1, <1>3, FS_EmptySet, IndexerAssumption DEF Setting
  <2>3. QED
    BY <1>1, <1>3, <2>1, <2>2 DEF ChainInv
<1>5. \A w \in AllWagers : Empty.rows[w].known = FALSE
  BY DEF Empty, NoRow
<1>6. FileInv(Empty)
  <2>1. Empty \in Databases
    BY DEF Empty, Databases
  <2>2. Empty.cursor <= ChainHead /\ Empty.events = {}
    BY <1>3 DEF Empty, NoBlock
  <2>3. QED
    BY <1>5, <2>1, <2>2 DEF FileInv
<1>7. CursorInv /\ PassInv
  BY <1>1, <1>5 DEF CursorInv, PassInv
<1>8. QED
  BY <1>1, <1>4, <1>6, <1>7 DEF IInv

LEMMA NextKeeps ==
    ASSUME IInv, [Next]_vars
    PROVE  IInv'
<1>1. CASE UNCHANGED vars
  <2>1. /\ chain' = chain /\ setting' = setting /\ disk' = disk /\ work' = work
        /\ phase' = phase /\ start' = start /\ toBlock' = toBlock /\ end' = end
        /\ batch' = batch
    BY <1>1 DEF vars, syncVars
  <2>2. (phase = "apply" => BatchInv) /\ PassInv
    BY Facts DEF PassInv
  <2>3. phase = "apply" => BatchInv'
    BY <2>1, <2>2, ChainSame DEF BatchInv
  <2>4. PassInv'
    BY <2>1, <2>2, <2>3, ChainSame DEF PassInv
  <2>5. QED
    BY <2>1, <2>4, Facts, StepKeeps DEF CursorInv
<1>2. CASE Next
  <2>1. UNCHANGED setting
    BY <1>2 DEF Next
  <2>2. CASE ChainStep
    BY <2>1, <2>2, ChainStepKeeps
  <2>3. CASE Poll
    BY <2>1, <2>3, PollKeeps
  <2>4. CASE NothingNew
    BY <2>1, <2>4, NothingNewKeeps
  <2>5. CASE SomethingNew
    BY <2>1, <2>5, SomethingNewKeeps
  <2>6. CASE Fetch
    BY <2>1, <2>6, FetchKeeps
  <2>7. CASE Apply
    BY <2>1, <2>7, ApplyKeeps
  <2>8. CASE EndOfChunk
    BY <2>1, <2>8, EndOfChunkKeeps
  <2>9. CASE EndOfPass
    BY <2>1, <2>9, EndOfPassKeeps
  <2>10. CASE Replay
    BY <2>1, <2>10, ReplayKeeps
  <2>11. CASE Crash
    BY <2>1, <2>11, CrashKeeps
  <2>12. QED
    BY <1>2, <2>2, <2>3, <2>4, <2>5, <2>6, <2>7, <2>8, <2>9, <2>10, <2>11
       DEF Next, SyncStep
<1>3. QED
  BY <1>1, <1>2

\* The invariant of the sync loop: what the chain emits, what the file and the open
\* transaction hold of it, and where the pass stands, through every crash, every refusal
\* and every replay that starts no later than the block after the cursor (sync_logs,
\* apply_log, _eth_get_logs_bisect).
THEOREM IndexerInductiveInvariant == Spec => []IInv
<1>1. Init => IInv
  BY InitHolds
<1>2. IInv /\ [Next]_vars => IInv'
  BY NextKeeps
<1>3. QED
  BY <1>1, <1>2, PTL DEF Spec

\* Types of every variable of the sync process and its file.
THEOREM IndexerTypeCorrect == Spec => []TypeOK
<1>1. IInv => TypeOK
  BY DEF IInv, FileInv, PassInv, TypeOK
<1>2. QED
  BY <1>1, IndexerInductiveInvariant, PTL

\* The file holds a wager's logs without a gap, and all of them up to the cursor once
\* it has the wager's row (sync_logs: events, projections and cursor in one commit).
THEOREM IndexerNoGap == Spec => []NoGap
<1>1. IInv => NoGap
  <2>1. SUFFICES ASSUME IInv, NEW w \in AllWagers
                 PROVE  /\ \A q \in Indexed(w) : \A p \in LogsOf(w) :
                             Before(p, q) => p \in Indexed(w)
                        /\ disk.rows[w].known =>
                             {id \in LogsOf(w) : id[1] <= disk.cursor} \subseteq Indexed(w)
    BY DEF NoGap
  <2>2. FileInv(disk) /\ CursorInv
    BY <2>1 DEF IInv
  <2>3. QED
    BY <2>1, <2>2 DEF FileInv, CursorInv, Indexed, LogsOf
<1>2. QED
  BY <1>1, IndexerInductiveInvariant, PTL

\* The sum over the logs is the sum of their amounts.
LEMMA SumOfAmounts ==
    ASSUME ChainInv, NEW S \in SUBSET OnChain
    PROVE  MapThenSumSet(LAMBDA id : LogAt(id).amount, S) = SumFunctionOnSet(Amount, S)
<1> DEFINE Sums(f) == f = [s \in SUBSET S |->
                             IF s = {} THEN 0 ELSE LogAt(Some(s)).amount + f[s \ {Some(s)}]]
           mapped == CHOOSE f : Sums(f)
           summed == CHOOSE f : IsPartialSums(f, Amount, S)
<1>1. MapThenSumSet(LAMBDA id : LogAt(id).amount, S) = mapped[S]
  BY DEF MapThenSumSet, MapThenFoldSet, Some
<1>2. SumFunctionOnSet(Amount, S) = summed[S]
  BY SumIsPartialSum
<1>3. IsFiniteSet(S)
  BY FS_Subset DEF ChainInv
<1>4. ASSUME NEW f
      PROVE  Sums(f) <=> IsPartialSums(f, Amount, S)
  <2>1. ASSUME NEW s \in SUBSET S
        PROVE  (IF s = {} THEN 0 ELSE LogAt(Some(s)).amount + f[s \ {Some(s)}])
                 = (IF s = {} THEN 0 ELSE Amount[Some(s)] + f[s \ {Some(s)}])
    <3>1. s # {} => Some(s) \in OnChain
      BY SomeMember
    <3>2. s # {} => Amount[Some(s)] = LogAt(Some(s)).amount
      BY <3>1 DEF Amount
    <3>3. QED
      BY <3>2
  <2>2. QED
    BY <2>1 DEF IsPartialSums
<1>5. IsPartialSums(summed, Amount, S)
  BY <1>3, PartialSumsExist
<1>6. IsPartialSums(mapped, Amount, S)
  BY <1>4, <1>5
<1> HIDE DEF mapped, summed
<1>7. mapped[S] = summed[S]
  BY <1>3, <1>5, <1>6, PartialSumsAgree
<1>8. QED
  BY <1>1, <1>2, <1>7

\* Each pool is the exact sum of the bets in events_log: no replay that starts no later than
\* the block after the cursor counts a bet twice, no skipped log loses one, overflow of
\* the pot or not (apply_log).
THEOREM IndexerPoolsExact == Spec => []PoolsExact
<1>1. IInv => PoolsExact
  <2>1. SUFFICES ASSUME IInv, NEW w \in AllWagers, disk.rows[w].known, NEW t \in Tickets
                 PROVE  disk.rows[w].pools[t] =
                          MapThenSumSet(LAMBDA id : LogAt(id).amount,
                                        {id \in Indexed(w) : LogAt(id).ticket = t})
    BY DEF PoolsExact
  <2> DEFINE S == {id \in Indexed(w) : LogAt(id).ticket = t}
  <2>2. ChainInv /\ FileInv(disk)
    BY <2>1 DEF IInv
  <2>3. disk.rows[w].pools[t] = SumFunctionOnSet(Amount, BetsIn(disk, w, t))
    BY <2>1, <2>2 DEF FileInv
  <2>4. BetsIn(disk, w, t) = S
    BY DEF BetsIn, EventsOf, Indexed
  <2>5. S \in SUBSET OnChain
    BY <2>2, DatabaseTypes DEF FileInv, Indexed
  <2> HIDE DEF S
  <2>6. MapThenSumSet(LAMBDA id : LogAt(id).amount, S) = SumFunctionOnSet(Amount, S)
    BY <2>2, <2>5, SumOfAmounts
  <2>7. QED
    BY <2>3, <2>4, <2>6 DEF S
<1>2. QED
  BY <1>1, IndexerInductiveInvariant, PTL

-------------------------------------------------------------------------------
(* The rows as summaries of a wager's events *)

\* Every term fits into SQLite's integers, and so does the pot of any chain.
WithinSQLite ==
    \A s \in Settings :
        /\ \A v \in s.terms : v <= SQLiteMax
        /\ \A a \in s.amounts : a * s.logs <= SQLiteMax

Happened(ids, kind) == \E id \in ids : LogAt(id).event = kind

\* A field has the value of the only event of its kind, and 0 before it.
Carries(value, ids, kind) ==
    /\ \A id \in ids : LogAt(id).event = kind => value = LogAt(id).value
    /\ ~Happened(ids, kind) => value = 0

RowFollows(row, ids) ==
    /\ row.state = IF Happened(ids, "Resolved") THEN "RESOLVED"
                   ELSE IF Happened(ids, "Refunded") THEN "RETRACTED" ELSE "OPEN"
    /\ Carries(row.bettingClosedAt, ids, "BettingClosed")
    /\ Carries(row.windowClosedAt, ids, "WindowClosed")
    /\ Carries(row.winner, ids, "Resolved")
    /\ row.pot = SumFunctionOnSet(row.pools, Tickets) /\ row.potRead = row.pot

RowsFollow(db) ==
    \A w \in AllWagers :
        IF db.rows[w].known THEN RowFollows(db.rows[w], EventsOf(db, w))
        ELSE EventsOf(db, w) = {}

HistoryInv == RowsFollow(disk) /\ RowsFollow(work) /\ disk.events \subseteq work.events

\* The pools of a row add up to the stakes in its wager's events.
LEMMA PoolsAddUp ==
    ASSUME ChainInv, NEW db, FileInv(db), NEW w \in AllWagers, db.rows[w].known
    PROVE  /\ db.rows[w].pools \in [Tickets -> Nat]
           /\ EventsOf(db, w) \subseteq OnChain /\ IsFiniteSet(EventsOf(db, w))
           /\ SumFunctionOnSet(Amount, EventsOf(db, w)) \in Nat
           /\ SumFunctionOnSet(db.rows[w].pools, Tickets)
                = SumFunctionOnSet(Amount, EventsOf(db, w))
<1>1. PICK S, pools, f : S = EventsOf(db, w) /\ pools = db.rows[w].pools /\ f = Amount
  OBVIOUS
<1>2. db \in Databases /\ db.rows[w] \in RowTypes /\ S \subseteq OnChain
  BY <1>1, DatabaseTypes DEF FileInv, EventsOf
<1>3. pools \in [Tickets -> Nat]
  BY <1>1, <1>2, RowsKnown
<1>4. IsFiniteSet(S)
  BY <1>2, FS_Subset DEF ChainInv
<1>5. \A id \in S : /\ f[id] \in Nat /\ LogAt(id).ticket \in Tickets \cup {0}
                    /\ LogAt(id).ticket = 0 => f[id] = 0
  <2>1. ASSUME NEW id \in S
        PROVE  /\ f[id] \in Nat /\ LogAt(id).ticket \in Tickets \cup {0}
               /\ LogAt(id).ticket = 0 => f[id] = 0
    <3>1. id \in OnChain /\ f[id] = LogAt(id).amount
      BY <1>1, <1>2 DEF Amount
    <3>2. WellFormed(LogAt(id)) /\ LogAt(id) \in LogTypes
      BY <3>1 DEF ChainInv, WellFormed
    <3>3. LogAt(id).event # "BetPlaced" \/ LogAt(id).ticket \in Tickets
      BY <3>2 DEF WellFormed
    <3>4. LogAt(id).event # "BetPlaced" => LogAt(id).amount = 0
      BY <3>2 DEF WellFormed
    <3>5. QED
      BY <3>1, <3>2, <3>3, <3>4, IndexerAssumption DEF LogTypes
  <2>2. QED
    BY <2>1
<1> DEFINE g == [id \in S |-> LogAt(id).ticket]
           part == [t \in Tickets \cup {0} |-> SumFunctionOnSet(f, {id \in S : g[id] = t})]
<1>6. IsFiniteSet(Tickets) /\ IsFiniteSet(Tickets \cup {0}) /\ 0 \notin Tickets
  BY IndexerAssumption, FS_AddElement
<1>7. SumFunctionOnSet(f, S) = SumFunctionOnSet(part, Tickets \cup {0})
  <2>1. \A id \in S : f[id] \in Int /\ g[id] \in Tickets \cup {0}
    BY <1>5
  <2> HIDE DEF g
  <2>2. QED
    BY <1>4, <1>6, <2>1, SumFibres
<1>8. part[0] = 0
  <2>1. PICK B : B = {id \in S : g[id] = 0}
    OBVIOUS
  <2>2. IsFiniteSet(B) /\ \A id \in B : f[id] = 0
    BY <1>4, <1>5, <2>1, FS_Subset
  <2>3. SumFunctionOnSet(f, B) = 0
    BY <2>2, SumZero
  <2>4. QED
    BY <2>1, <2>3
<1>9. ASSUME NEW t \in Tickets
      PROVE  part[t] = pools[t] /\ part[t] \in Nat
  <2>1. {id \in S : g[id] = t} = BetsIn(db, w, t)
    BY <1>1 DEF BetsIn, EventsOf
  <2>2. db.rows[w].pools[t] = SumFunctionOnSet(Amount, BetsIn(db, w, t))
    BY DEF FileInv
  <2>3. part[t] = SumFunctionOnSet(f, {id \in S : g[id] = t})
    OBVIOUS
  <2> HIDE DEF part, g
  <2>4. part[t] = pools[t]
    BY <1>1, <2>1, <2>2, <2>3
  <2>5. QED
    BY <1>3, <2>4
<1> HIDE DEF part, g
<1>10. SumFunctionOnSet(part, Tickets \cup {0}) = part[0] + SumFunctionOnSet(part, Tickets)
  <2>1. \A t \in Tickets \cup {0} : part[t] \in Int
    BY <1>8, <1>9
  <2>2. QED
    BY <1>6, <2>1, SumAdd
<1>11. SumFunctionOnSet(part, Tickets) = SumFunctionOnSet(pools, Tickets)
  BY <1>6, <1>9, SumEqual
<1>12. SumFunctionOnSet(pools, Tickets) \in Nat
  BY <1>3, <1>6, SumNat
<1>13. QED
  BY <1>1, <1>2, <1>3, <1>4, <1>7, <1>8, <1>10, <1>11, <1>12

\* No sum of bets of a chain is past SQLite's integers.
LEMMA SumsFit ==
    ASSUME WithinSQLite, ChainInv, NEW S \in SUBSET OnChain
    PROVE  SumFunctionOnSet(Amount, S) \in Nat /\ SumFunctionOnSet(Amount, S) <= SQLiteMax
<1>1. PICK f, l, max : f = Amount /\ l = setting.logs /\ max = SQLiteMax
  OBVIOUS
<1>2. /\ IsFiniteSet(S) /\ Cardinality(S) \in Nat /\ Cardinality(S) <= l
      /\ l \in Nat /\ max \in Nat
  <2>1. IsFiniteSet(OnChain) /\ Cardinality(OnChain) <= l
    BY <1>1 DEF ChainInv
  <2>2. IsFiniteSet(S) /\ Cardinality(S) <= Cardinality(OnChain)
        /\ Cardinality(S) \in Nat /\ Cardinality(OnChain) \in Nat
    BY <2>1, FS_Subset, FS_CardinalityType
  <2>3. l \in Nat
    BY <1>1, SettingTypes DEF Setting
  <2>4. QED
    BY <1>1, <2>1, <2>2, <2>3, IndexerAssumption
<1>3. \A id \in S : f[id] \in Nat /\ f[id] * l <= max
  <2>1. ASSUME NEW id \in S
        PROVE  f[id] \in Nat /\ f[id] * l <= max
    <3>1. f[id] = LogAt(id).amount /\ WellFormed(LogAt(id))
      BY <1>1 DEF Amount, ChainInv
    <3>2. LogAt(id).amount = 0 \/ LogAt(id).amount \in setting.amounts
      BY <3>1 DEF WellFormed
    <3>3. LogAt(id).amount \in Nat
      BY <3>1 DEF WellFormed, LogTypes
    <3>4. \A a \in setting.amounts : a * l <= max
      BY <1>1 DEF WithinSQLite, ChainInv
    <3>5. QED
      BY <1>2, <3>1, <3>2, <3>3, <3>4
  <2>2. QED
    BY <2>1
<1> DEFINE Good == {T \in SUBSET S : SumFunctionOnSet(f, T) * l <= max * Cardinality(T)}
<1>4. {} \in Good
  <2>1. SumFunctionOnSet(f, {}) = 0 /\ Cardinality({}) = 0
    BY SumEmpty, FS_EmptySet
  <2>2. QED
    BY <1>2, <2>1
<1>5. ASSUME NEW T \in SUBSET S, NEW x \in S \ T, T \in Good
      PROVE  T \cup {x} \in Good
  <2>1. PICK s, c, a : s = SumFunctionOnSet(f, T) /\ c = Cardinality(T) /\ a = f[x]
    OBVIOUS
  <2>2. IsFiniteSet(T) /\ c \in Nat /\ Cardinality(T \cup {x}) = c + 1
    BY <1>2, <2>1, FS_Subset, FS_CardinalityType, FS_AddElement
  <2>3. \A y \in T \cup {x} : f[y] \in Int
    BY <1>3
  <2>4. s \in Int /\ SumFunctionOnSet(f, T \cup {x}) = a + s
    BY <2>1, <2>2, <2>3, SumAdd
  <2>5. s * l <= max * c /\ a * l <= max /\ a \in Nat
    BY <1>3, <1>5, <2>1
  <2>6. max * (c + 1) = max * c + max /\ (a + s) * l = a * l + s * l
    BY <1>2, <2>2, <2>4, <2>5
  <2>7. a * l \in Int /\ s * l \in Int /\ max * c \in Int
    BY <1>2, <2>2, <2>4, <2>5
  <2>8. (a + s) * l <= max * (c + 1)
    BY <1>2, <2>5, <2>6, <2>7
  <2>9. QED
    BY <2>2, <2>4, <2>8
<1>6. S \in Good
  <2> HIDE DEF Good
  <2> QED BY <1>2, <1>4, <1>5, SubsetGrowth
<1>7. PICK s, c : s = SumFunctionOnSet(f, S) /\ c = Cardinality(S)
  OBVIOUS
<1>8. s \in Nat /\ s * l <= max * c /\ c \in Nat /\ c <= l
  BY <1>2, <1>3, <1>6, <1>7, SumNat
<1>9. s <= max
  <2>1. CASE l = 0
    <3>1. S = {}
      BY <1>2, <1>7, <1>8, <2>1, FS_EmptySet
    <3>2. QED
      BY <1>2, <1>7, <3>1, SumEmpty
  <2>2. CASE l > 0
    <3>1. PICK d \in Nat : l = c + d
      <4>1. l - c \in Nat /\ l = c + (l - c)
        BY <1>2, <1>8
      <4>2. QED
        BY <4>1
    <3>2. max * l = max * c + max * d /\ max * d >= 0
      BY <1>2, <1>8, <3>1
    <3>3. s * l <= max * l
      <4>1. max * c \in Int /\ max * d \in Int /\ s * l \in Int
        BY <1>2, <1>8, <3>1
      <4>2. QED
        BY <1>8, <3>2, <4>1
    <3>4. SUFFICES ASSUME s > max
                   PROVE  FALSE
      BY <1>2, <1>8
    <3>5. PICK e \in Nat : s = max + 1 + e
      <4>1. s - max - 1 \in Nat /\ s = max + 1 + (s - max - 1)
        BY <1>2, <1>8, <3>4
      <4>2. QED
        BY <4>1
    <3>6. s * l = max * l + l + e * l /\ e * l >= 0 /\ max * l \in Int
      BY <1>2, <3>5
    <3>7. QED
      BY <1>2, <2>2, <3>3, <3>6
  <2>3. QED
    BY <1>2, <2>1, <2>2
<1>10. QED
  BY <1>1, <1>7, <1>8, <1>9

\* An event of another kind changes no such field.
LEMMA CarriesOn ==
    ASSUME NEW value, NEW ids, NEW kind, Carries(value, ids, kind),
           NEW id, LogAt(id).event # kind
    PROVE  Carries(value, ids \cup {id}, kind)
BY DEF Carries, Happened

\* The first of its kind sets it.
LEMMA CarriesNew ==
    ASSUME NEW ids, NEW kind, NEW id, LogAt(id).event = kind, ~Happened(ids, kind)
    PROVE  Carries(LogAt(id).value, ids \cup {id}, kind)
BY DEF Carries, Happened

\* A row follows its wager's events through one more of them (apply_log).
LEMMA PayloadFollows ==
    ASSUME NEW row \in KnownRows, NEW ids, RowFollows(row, ids), NEW id, NEW log,
           log = LogAt(id), WellFormed(log), log.event # "Created",
           log.amount <= SQLiteMax,
           row.pot + log.amount = SumFunctionOnSet(WithPayload(row, log).pools, Tickets),
           row.pot + log.amount <= SQLiteMax,
           \A e \in ids : ~Clash(LogAt(e).event, log.event)
    PROVE  RowFollows(WithPayload(row, log), ids \cup {id})
<1> DEFINE new == WithPayload(row, log)
           more == ids \cup {id}
<1>1. /\ log.amount \in Nat /\ row.pot \in Nat /\ row.pools \in [Tickets -> Nat]
      /\ log.event \in {"BetPlaced", "BettingClosed", "WindowClosed", "FeeAccrued",
                        "Resolved", "Refunded", "Paid"}
  BY DEF WellFormed, LogTypes, KnownRows
<1>2. \A kind : Happened(more, kind) <=> Happened(ids, kind) \/ log.event = kind
  BY DEF Happened
<1>3. /\ row.state = IF Happened(ids, "Resolved") THEN "RESOLVED"
                     ELSE IF Happened(ids, "Refunded") THEN "RETRACTED" ELSE "OPEN"
      /\ Carries(row.bettingClosedAt, ids, "BettingClosed")
      /\ Carries(row.windowClosedAt, ids, "WindowClosed")
      /\ Carries(row.winner, ids, "Resolved")
      /\ row.pot = SumFunctionOnSet(row.pools, Tickets) /\ row.potRead = row.pot
  BY DEF RowFollows
<1>4. CASE log.event = "BetPlaced"
  <2>1. PICK pools : pools = [row.pools EXCEPT ![log.ticket] = @ + log.amount]
    OBVIOUS
  <2>2. PICK sum \in Nat : sum = row.pot + log.amount
    BY <1>1
  <2>3. new = [[row EXCEPT !.pools = pools] EXCEPT !.pot = sum, !.potRead = sum]
    <3>1. new = WithBet(row, log)
      BY <1>4 DEF WithPayload
    <3>2. ~(log.amount > SQLiteMax) /\ ~(sum > SQLiteMax) /\ row.potRead + log.amount = sum
      BY <1>1, <1>3, <2>2, IndexerAssumption
    <3>3. WithBet(row, log) =
            [[row EXCEPT !.pools = pools] EXCEPT !.pot = sum, !.potRead = sum]
      BY <2>1, <3>2 DEF WithBet
    <3>4. QED
      BY <3>1, <3>3
  <2> HIDE DEF new
  <2>4. /\ new.state = row.state /\ new.bettingClosedAt = row.bettingClosedAt
        /\ new.windowClosedAt = row.windowClosedAt /\ new.winner = row.winner
        /\ new.pot = sum /\ new.potRead = sum
    BY <2>3 DEF KnownRows
  <2>5. /\ Carries(new.bettingClosedAt, more, "BettingClosed")
        /\ Carries(new.windowClosedAt, more, "WindowClosed")
        /\ Carries(new.winner, more, "Resolved")
    BY <1>3, <1>4, <2>4, CarriesOn
  <2>6. QED
    BY <1>2, <1>3, <1>4, <2>2, <2>4, <2>5 DEF RowFollows, new
<1>5. CASE log.event # "BetPlaced"
  <2>1. log.amount = 0
    BY <1>5 DEF WellFormed
  <2>2. new.pot = row.pot /\ new.potRead = row.potRead
    BY <1>1, <1>5 DEF WithPayload, KnownRows
  <2>3. new.pot = SumFunctionOnSet(new.pools, Tickets) /\ new.potRead = new.pot
    BY <1>1, <1>3, <2>1, <2>2
  <2>4. Carries(new.bettingClosedAt, more, "BettingClosed")
    <3>1. CASE log.event = "BettingClosed"
      <4>1. new.bettingClosedAt = log.value
        BY <3>1 DEF WithPayload, KnownRows
      <4>2. ~Happened(ids, "BettingClosed")
        BY <3>1 DEF Happened, Clash
      <4>3. QED
        BY <3>1, <4>1, <4>2, CarriesNew
    <3>2. CASE log.event # "BettingClosed"
      <4>1. new.bettingClosedAt = row.bettingClosedAt
        BY <1>1, <1>5, <3>2 DEF WithPayload, KnownRows
      <4>2. QED
        BY <1>3, <3>2, <4>1, CarriesOn
    <3>3. QED
      BY <3>1, <3>2
  <2>5. Carries(new.windowClosedAt, more, "WindowClosed")
    <3>1. CASE log.event = "WindowClosed"
      <4>1. new.windowClosedAt = log.value
        BY <3>1 DEF WithPayload, KnownRows
      <4>2. ~Happened(ids, "WindowClosed")
        BY <3>1 DEF Happened, Clash
      <4>3. QED
        BY <3>1, <4>1, <4>2, CarriesNew
    <3>2. CASE log.event # "WindowClosed"
      <4>1. new.windowClosedAt = row.windowClosedAt
        BY <1>1, <1>5, <3>2 DEF WithPayload, KnownRows
      <4>2. QED
        BY <1>3, <3>2, <4>1, CarriesOn
    <3>3. QED
      BY <3>1, <3>2
  <2>6. Carries(new.winner, more, "Resolved")
    <3>1. CASE log.event = "Resolved"
      <4>1. new.winner = log.value
        BY <3>1 DEF WithPayload, KnownRows
      <4>2. ~Happened(ids, "Resolved")
        BY <3>1 DEF Happened, Clash
      <4>3. QED
        BY <3>1, <4>1, <4>2, CarriesNew
    <3>2. CASE log.event # "Resolved"
      <4>1. new.winner = row.winner
        BY <1>1, <1>5, <3>2 DEF WithPayload, KnownRows
      <4>2. QED
        BY <1>3, <3>2, <4>1, CarriesOn
    <3>3. QED
      BY <3>1, <3>2
  <2>7. new.state = IF Happened(more, "Resolved") THEN "RESOLVED"
                    ELSE IF Happened(more, "Refunded") THEN "RETRACTED" ELSE "OPEN"
    <3>1. CASE log.event = "Resolved"
      <4>1. new.state = "RESOLVED"
        BY <3>1 DEF WithPayload, KnownRows
      <4>2. QED
        BY <1>2, <3>1, <4>1
    <3>2. CASE log.event = "Refunded"
      <4>1. new.state = "RETRACTED"
        BY <3>2 DEF WithPayload, KnownRows
      <4>2. ~Happened(ids, "Resolved")
        BY <3>2 DEF Happened, Clash
      <4>3. QED
        BY <1>2, <3>2, <4>1, <4>2
    <3>3. CASE log.event # "Resolved" /\ log.event # "Refunded"
      <4>1. new.state = row.state
        BY <1>1, <1>5, <3>3 DEF WithPayload, KnownRows
      <4>2. QED
        BY <1>2, <1>3, <3>3, <4>1
    <3>4. QED
      BY <3>1, <3>2, <3>3
  <2> HIDE DEF new, more
  <2>8. QED
    BY <2>3, <2>4, <2>5, <2>6, <2>7 DEF RowFollows, new, more
<1>6. QED
  BY <1>4, <1>5

LEMMA NewRowFollows ==
    ASSUME NEW id, LogAt(id).event = "Created"
    PROVE  RowFollows(NewRow, {id})
<1>1. PICK f : f = [t \in Tickets |-> 0]
  OBVIOUS
<1>2. /\ NewRow.pools = f /\ NewRow.pot = 0 /\ NewRow.potRead = 0 /\ NewRow.state = "OPEN"
      /\ NewRow.bettingClosedAt = 0 /\ NewRow.windowClosedAt = 0 /\ NewRow.winner = 0
  BY <1>1 DEF NewRow
<1>3. SumFunctionOnSet(f, Tickets) = 0
  BY <1>1, IndexerAssumption, SumZero
<1>4. QED
  BY <1>2, <1>3 DEF RowFollows, Carries, Happened

\* Applying a log keeps every row the summary of its events (apply_log).
LEMMA ApplyFollows ==
    ASSUME WithinSQLite, ChainInv, NEW db, FileInv(db), RowsFollow(db),
           NEW id \in OnChain, FileInv(ApplyLog(db, id))
    PROVE  RowsFollow(ApplyLog(db, id)) /\ db.events \subseteq ApplyLog(db, id).events
<1>1. PICK log, w, new : log = LogAt(id) /\ w = log.wager /\ new = ApplyLog(db, id)
  OBVIOUS
<1>2. /\ WellFormed(log) /\ w \in AllWagers /\ db \in Databases /\ FileInv(new)
      /\ db.events \subseteq OnChain
  BY <1>1, ChainTypes, DatabaseTypes DEF ChainInv, LogTypes, FileInv
<1>3. CASE new = db
  BY <1>1, <1>3
<1>4. ASSUME new.events = db.events \cup {id},
             \A x \in AllWagers \ {w} : new.rows[x] = db.rows[x],
             new.rows[w].known, RowFollows(new.rows[w], EventsOf(new, w))
      PROVE  RowsFollow(ApplyLog(db, id)) /\ db.events \subseteq ApplyLog(db, id).events
  <2>1. \A x \in AllWagers \ {w} : EventsOf(new, x) = EventsOf(db, x)
    BY <1>1, <1>4 DEF EventsOf
  <2>2. RowsFollow(new)
    BY <1>4, <2>1 DEF RowsFollow
  <2>3. QED
    BY <1>1, <1>4, <2>2
<1>5. CASE /\ id \notin db.events /\ ~Ignored(db, log)
           /\ new.events = db.events \cup {id}
           /\ new.rows[w] = WithPayload(db.rows[w], log)
           /\ \A x \in AllWagers \ {w} : new.rows[x] = db.rows[x]
  <2>1. PICK row, ids : row = db.rows[w] /\ ids = EventsOf(db, w)
    OBVIOUS
  <2>2. EventsOf(new, w) = ids \cup {id} /\ id \notin ids /\ ids \subseteq OnChain
    BY <1>1, <1>2, <1>5, <2>1 DEF EventsOf
  <2>3. CASE row.known
    <3>1. row \in KnownRows /\ RowFollows(row, ids)
      <4>1. row \in RowTypes
        BY <1>2, <2>1, DatabaseTypes
      <4>2. QED
        BY <1>2, <2>1, <2>3, <4>1, RowsKnown DEF RowsFollow
    <3>2. log.event # "Created"
      <4>1. PICK c \in ids : LogAt(c).event = "Created"
        BY <1>2, <2>1, <2>3 DEF FileInv
      <4>2. c \in OnChain /\ LogAt(c).wager = w
        BY <2>1, <2>2, <4>1 DEF EventsOf
      <4>3. log.event = "Created" => c = id
        BY <1>1, <4>1, <4>2, OneCreation
      <4>4. QED
        BY <2>2, <4>3
    <3>3. new.rows[w].known
      <4>1. row \in RowTypes
        BY <3>1, RowsKnown
      <4>2. QED
        BY <1>2, <1>5, <2>1, <2>3, <3>2, <4>1, PayloadRow
    <3>4. /\ SumFunctionOnSet(row.pools, Tickets) = SumFunctionOnSet(Amount, ids)
          /\ SumFunctionOnSet(Amount, ids) \in Nat /\ IsFiniteSet(ids)
          /\ SumFunctionOnSet(new.rows[w].pools, Tickets)
               = SumFunctionOnSet(Amount, ids \cup {id})
      <4>1. /\ SumFunctionOnSet(row.pools, Tickets) = SumFunctionOnSet(Amount, ids)
            /\ SumFunctionOnSet(Amount, ids) \in Nat /\ IsFiniteSet(ids)
        BY <1>2, <2>1, <2>3, PoolsAddUp
      <4>2. SumFunctionOnSet(new.rows[w].pools, Tickets)
              = SumFunctionOnSet(Amount, EventsOf(new, w))
        BY <1>2, <3>3, PoolsAddUp
      <4>3. QED
        BY <2>2, <4>1, <4>2
    <3>5. PICK f : f = Amount
      OBVIOUS
    <3>6. /\ SumFunctionOnSet(f, ids \cup {id}) = f[id] + SumFunctionOnSet(f, ids)
          /\ f[id] = log.amount /\ log.amount \in Nat
      <4>1. \A y \in OnChain : f[y] \in Nat
        BY <3>5, ChainTypes DEF Amount, LogTypes
      <4>2. \A y \in ids \cup {id} : f[y] \in Int
        BY <2>2, <4>1
      <4>3. f[id] = log.amount
        BY <1>1, <3>5 DEF Amount
      <4>4. QED
        BY <2>2, <3>4, <4>1, <4>2, <4>3, SumAdd
    <3>7. SumFunctionOnSet(f, ids \cup {id}) <= SQLiteMax
      <4>1. ids \cup {id} \in SUBSET OnChain
        BY <2>2
      <4>2. QED
        BY <3>5, <4>1, SumsFit
    <3>8. /\ row.pot + log.amount = SumFunctionOnSet(WithPayload(row, log).pools, Tickets)
          /\ row.pot + log.amount <= SQLiteMax /\ log.amount <= SQLiteMax
      <4>1. row.pot = SumFunctionOnSet(row.pools, Tickets)
        BY <3>1 DEF RowFollows
      <4>2. new.rows[w] = WithPayload(row, log)
        BY <1>5, <2>1
      <4>3. SQLiteMax \in Nat
        BY IndexerAssumption
      <4>4. QED
        BY <3>4, <3>5, <3>6, <3>7, <4>1, <4>2, <4>3
    <3>9. \A e \in ids : ~Clash(LogAt(e).event, log.event)
      BY <1>1, <2>1, <2>2 DEF EventsOf, ChainInv
    <3>10. RowFollows(WithPayload(row, log), ids \cup {id})
      BY <1>1, <1>2, <3>1, <3>2, <3>8, <3>9, PayloadFollows
    <3>11. QED
      BY <1>5, <1>4, <2>1, <2>2, <3>3, <3>10
  <2>4. CASE ~row.known
    <3>1. log.event = "Created" /\ ids = {}
      BY <1>1, <1>2, <1>5, <2>1, <2>4 DEF Ignored, RowsFollow
    <3>2. log.value <= SQLiteMax
      BY <1>2, <3>1 DEF WithinSQLite, ChainInv, WellFormed
    <3>3. new.rows[w] = NewRow
      <4>1. ~(log.value > SQLiteMax)
        BY <1>2, <3>1, <3>2, IndexerAssumption DEF WellFormed
      <4>2. QED
        BY <1>5, <2>1, <2>4, <3>1, <4>1 DEF WithPayload, WithCreated
    <3>4. RowFollows(new.rows[w], EventsOf(new, w))
      BY <1>1, <2>2, <3>1, <3>3, NewRowFollows
    <3>5. QED
      BY <1>5, <1>4, <3>3, <3>4, RowsKnown
  <2>5. QED
    BY <2>3, <2>4
<1>6. QED
  <2>1. \/ new = db
        \/ /\ id \notin db.events /\ ~Ignored(db, log)
           /\ new.events = db.events \cup {id}
           /\ new.rows[w] = WithPayload(db.rows[w], log)
           /\ \A x \in AllWagers \ {w} : new.rows[x] = db.rows[x]
    BY <1>1, <1>2, ApplyCases
  <2>2. QED
    BY <1>3, <1>5, <2>1

\* What the chain adds is in no file yet.
LEMMA ChainFollows ==
    ASSUME ChainGrows, NEW db, db.events \subseteq OnChain, RowsFollow(db)
    PROVE  RowsFollow(db)'
<1>1. \A id \in db.events : LogAt(id)' = LogAt(id)
  BY DEF ChainGrows
<1>2. ASSUME NEW w \in AllWagers
      PROVE  /\ EventsOf(db, w)' = EventsOf(db, w)
             /\ \A id \in EventsOf(db, w) : LogAt(id)' = LogAt(id)
  BY <1>1 DEF EventsOf
<1>3. ASSUME NEW w \in AllWagers
      PROVE  (IF db.rows[w].known THEN RowFollows(db.rows[w], EventsOf(db, w))
              ELSE EventsOf(db, w) = {})'
  <2>1. PICK row, ids : row = db.rows[w] /\ ids = EventsOf(db, w)
    OBVIOUS
  <2>2. EventsOf(db, w)' = ids /\ \A id \in ids : LogAt(id)' = LogAt(id)
    BY <1>2, <2>1
  <2>3. RowFollows(row, ids) => RowFollows(row, ids)'
    BY <2>2 DEF RowFollows, Carries, Happened
  <2>4. IF row.known THEN RowFollows(row, ids) ELSE ids = {}
    BY <2>1 DEF RowsFollow
  <2>5. IF row.known THEN RowFollows(row, ids)' ELSE ids = {}
    BY <2>3, <2>4
  <2>6. QED
    BY <2>1, <2>2, <2>5
<1>4. QED
  BY <1>3 DEF RowsFollow

\* A file with the same events and rows; what is not about them does not matter.
Alike(d, k) == d.events = k.events /\ d.rows = k.rows

LEMMA AlikeFollows ==
    ASSUME NEW d, NEW k, Alike(d, k), RowsFollow(k)
    PROVE  RowsFollow(d)
<1>1. \A w \in AllWagers : EventsOf(d, w) = EventsOf(k, w)
  BY DEF Alike, EventsOf
<1>2. QED
  BY <1>1 DEF Alike, RowsFollow

\* The file and the open transaction after a step of the loop.
LEMMA LoopSteps ==
    ASSUME IInv, Next, ~ChainStep
    PROVE  /\ chain' = chain
           /\ \/ disk' = disk /\ work' = work
              \/ disk' = disk /\ work' = disk
              \/ Alike(disk', work) /\ work' = disk'
              \/ /\ disk' = disk /\ batch # <<>> /\ phase = "apply"
                 /\ work' = ApplyLog(work, batch[1])
<1>1. DOMAIN work = {"events", "rows", "cursor", "head", "error"}
  BY Facts
<1>2. ASSUME NEW h, NEW e, Commit([work EXCEPT !.head = h, !.error = e])
      PROVE  Alike(disk', work) /\ work' = disk'
  BY <1>1, <1>2 DEF Commit, Alike
<1>3. ASSUME NEW c, NEW e, Commit([work EXCEPT !.cursor = c, !.error = e])
      PROVE  Alike(disk', work) /\ work' = disk'
  BY <1>1, <1>3 DEF Commit, Alike
<1>4. ASSUME NEW e, Commit([work EXCEPT !.error = e])
      PROVE  Alike(disk', work) /\ work' = disk'
  BY <1>1, <1>4 DEF Commit, Alike
<1>5. CASE Poll \/ Replay
  <2>1. \E to, next : BeginPass(to, next)
    BY <1>5 DEF Poll, Replay
  <2>2. QED
    BY <1>2, <2>1 DEF BeginPass
<1>6. CASE NothingNew
  BY <1>4, <1>6 DEF NothingNew
<1>7. CASE SomethingNew \/ EndOfPass \/ Crash
  BY <1>7 DEF SomethingNew, EndOfPass, Crash
<1>8. CASE Fetch
  <2>1. chain' = chain /\ (FetchFailed \/ \E ids : Fetched(ids))
    BY <1>8 DEF Fetch
  <2>2. QED
    BY <1>4, <2>1 DEF FetchFailed, Fetched
<1>9. CASE Apply
  BY <1>9 DEF Apply
<1>10. CASE EndOfChunk
  BY <1>3, <1>10 DEF EndOfChunk
<1>11. QED
  BY <1>5, <1>6, <1>7, <1>8, <1>9, <1>10 DEF Next, SyncStep

LEMMA HistoryInit ==
    ASSUME Init
    PROVE  HistoryInv
<1>1. RowsFollow(Empty)
  BY DEF RowsFollow, Empty, NoRow, EventsOf
<1>2. QED
  BY <1>1 DEF Init, HistoryInv

LEMMA HistoryKeeps ==
    ASSUME WithinSQLite, IInv, HistoryInv, IInv', [Next]_vars
    PROVE  HistoryInv' /\ disk.events \subseteq disk'.events
<1>1. /\ ChainInv /\ FileInv(disk) /\ FileInv(work)
      /\ disk.events \subseteq OnChain /\ work.events \subseteq OnChain
  BY Facts, DatabaseTypes DEF FileInv
<1>2. PICK d, k : d = disk' /\ k = work'
  OBVIOUS
<1>3. CASE ChainStep /\ Next
  <2>1. ChainGrows /\ disk' = disk /\ work' = work
    BY <1>1, <1>3, ChainStepGrows DEF Next
  <2>2. RowsFollow(d)' /\ RowsFollow(k)'
    BY <1>1, <1>2, <2>1, ChainFollows DEF HistoryInv
  <2>3. QED
    BY <1>2, <2>1, <2>2 DEF HistoryInv, RowsFollow, EventsOf
<1>4. ASSUME chain' = chain, RowsFollow(d), RowsFollow(k), disk.events \subseteq d.events,
             d.events \subseteq k.events
      PROVE  HistoryInv' /\ disk.events \subseteq disk'.events
  <2>1. \A id : LogAt(id)' = LogAt(id)
    BY <1>4, ChainSame
  <2>2. \A w, ids, row : /\ EventsOf(d, w)' = EventsOf(d, w) /\ EventsOf(k, w)' = EventsOf(k, w)
                         /\ RowFollows(row, ids)' <=> RowFollows(row, ids)
    BY <2>1 DEF EventsOf, RowFollows, Carries, Happened
  <2>3. RowsFollow(d)' /\ RowsFollow(k)'
    BY <1>4, <2>2 DEF RowsFollow
  <2>4. QED
    BY <1>2, <1>4, <2>3 DEF HistoryInv, RowsFollow, EventsOf
<1>5. CASE UNCHANGED vars \/ (Next /\ ~ChainStep)
  <2>1. /\ chain' = chain
        /\ \/ d = disk /\ k = work
           \/ d = disk /\ k = disk
           \/ Alike(d, work) /\ k = d
           \/ /\ d = disk /\ batch # <<>> /\ phase = "apply"
              /\ k = ApplyLog(work, batch[1])
    <3>1. CASE UNCHANGED vars
      BY <1>2, <3>1 DEF vars
    <3>2. CASE Next /\ ~ChainStep
      BY <1>2, <3>2, LoopSteps
    <3>3. QED
      BY <1>5, <3>1, <3>2
  <2>2. CASE (d = disk /\ k = work) \/ (d = disk /\ k = disk)
    BY <1>4, <2>1, <2>2 DEF HistoryInv
  <2>3. CASE Alike(d, work) /\ k = d
    <3>1. RowsFollow(d)
      BY <2>3, AlikeFollows DEF HistoryInv
    <3>2. QED
      BY <1>4, <2>1, <2>3, <3>1 DEF HistoryInv, Alike
  <2>4. CASE d = disk /\ batch # <<>> /\ phase = "apply" /\ k = ApplyLog(work, batch[1])
    <3>1. PICK id : id = batch[1]
      OBVIOUS
    <3>2. id \in OnChain
      <4>1. batch \in Seq(OnChain)
        BY Facts DEF PassInv
      <4>2. QED
        BY <2>4, <3>1, <4>1
    <3>3. FileInv(k)
      <4>1. FileInv(work)' /\ chain' = chain
        BY <2>1 DEF IInv
      <4>2. QED
        BY <1>2, <4>1, ChainSame DEF FileInv, RowSound, BetsIn, EventsOf
    <3>4. RowsFollow(k) /\ work.events \subseteq k.events
      BY <1>1, <2>4, <3>1, <3>2, <3>3, ApplyFollows DEF HistoryInv
    <3>5. QED
      BY <1>4, <2>1, <2>4, <3>4 DEF HistoryInv
  <2>5. QED
    BY <2>1, <2>2, <2>3, <2>4
<1>6. QED
  BY <1>3, <1>5

-------------------------------------------------------------------------------
(* WagerHistory implemented *)

\* What is indexed of a wager is the beginning of its logs in order.
LEMMA IndexedFirst ==
    ASSUME ChainInv, NEW db, FileInv(db), NEW w \in AllWagers,
           NEW ids, ids = EventsOf(db, w), NEW order, order = InLogOrder(LogsOf(w)),
           NEW n, n = Cardinality(ids)
    PROVE  /\ ids \subseteq OnChain /\ IsFiniteSet(ids) /\ n \in Nat
           /\ order \in Seq(OnChain) /\ n <= Len(order)
           /\ \A i \in 1..n : order[i] \in ids
           /\ \A id \in ids : \E i \in 1..n : order[i] = id
           /\ \A i, j \in 1..n : order[i] = order[j] => i = j
<1>1. PICK logs : logs = LogsOf(w)
  OBVIOUS
<1>2. /\ OnChain \in SUBSET Ids /\ IsFiniteSet(OnChain) /\ ids \subseteq logs
      /\ logs \subseteq OnChain
  BY <1>1, ChainTypes, DatabaseTypes DEF FileInv, EventsOf, LogsOf, ChainInv
<1>3. /\ ids \in SUBSET Ids /\ logs \in SUBSET Ids /\ IsFiniteSet(ids) /\ IsFiniteSet(logs)
  BY <1>2, FS_Subset
<1>4. ASSUME NEW p \in ids, NEW q \in logs \ ids
      PROVE  Before(p, q)
  <2>1. ~Before(q, p)
    BY <1>1, <1>2, <1>4 DEF FileInv, EventsOf, LogsOf
  <2>2. QED
    BY <1>2, <1>4, <2>1, BeforeIsTotal
<1>5. PICK all, some : all = InLogOrder(logs) /\ some = InLogOrder(ids)
  OBVIOUS
<1>6. /\ n \in Nat /\ n <= Cardinality(logs) /\ Cardinality(logs) \in Nat
      /\ \A k \in 1..n : all[k] = some[k]
  BY <1>2, <1>3, <1>4, <1>5, OrderExtends
<1>7. all \in Seq(logs) /\ Len(all) = Cardinality(logs)
  BY <1>3, <1>5, LogOrder
<1>8. /\ some \in Seq(ids) /\ Len(some) = n /\ DOMAIN some = 1..n
      /\ \A id \in ids : \E i \in DOMAIN some : some[i] = id
      /\ \A i, j \in DOMAIN some : i < j => Before(some[i], some[j])
  <2>1. /\ some \in Seq(ids) /\ Len(some) = n
        /\ \A id \in ids : \E i \in DOMAIN some : some[i] = id
        /\ \A i, j \in DOMAIN some : i < j => Before(some[i], some[j])
    BY <1>3, <1>5, LogOrder
  <2>2. QED
    BY <2>1
<1>9. \A i \in 1..n : some[i] \in ids /\ some[i] \in Ids
  BY <1>3, <1>8
<1>10. ASSUME NEW i \in 1..n, NEW j \in 1..n, some[i] = some[j]
       PROVE  i = j
  <2>1. ~(i < j) /\ ~(j < i)
    BY <1>8, <1>9, <1>10, BeforeIsTotal
  <2>2. QED
    BY <1>6, <2>1
<1>11. order = all /\ all \in Seq(OnChain)
  BY <1>1, <1>2, <1>5, <1>7
<1>12. QED
  BY <1>2, <1>3, <1>6, <1>7, <1>8, <1>9, <1>10, <1>11

\* `value` is that of the only event of its kind, and 0 without one.
Marks(value, events, n, kind) ==
    /\ DOMAIN events = 1..n
    /\ \A i \in 1..n : events[i].event = kind => value = events[i].value
    /\ \A i, j \in 1..n : events[i].event = kind /\ events[j].event = kind => i = j
    /\ (\A i \in 1..n : events[i].event # kind) => value = 0

\* The value of the only event of a kind is that of the last.
LEMMA LastIsCarried ==
    ASSUME NEW events, NEW n \in Nat, NEW kind, NEW value, Marks(value, events, n, kind)
    PROVE  History!LastOf(events, {kind}, 0) = value
<1>1. PICK at : at = {i \in DOMAIN events : events[i].event \in {kind}}
  OBVIOUS
<1>2. History!LastOf(events, {kind}, 0)
        = IF at = {} THEN 0 ELSE events[CHOOSE i \in at : \A j \in at : j <= i].value
  BY <1>1 DEF History!LastOf
<1>3. CASE at = {}
  BY <1>1, <1>2, <1>3 DEF Marks
<1>4. CASE at # {}
  <2>1. PICK i : i \in at
    BY <1>4
  <2>2. \E k \in at : \A j \in at : j <= k
    BY <1>1, <2>1 DEF Marks
  <2>3. PICK k : k = CHOOSE l \in at : \A j \in at : j <= l
    OBVIOUS
  <2>4. k \in at
    BY <2>2, <2>3
  <2>5. QED
    BY <1>1, <1>2, <1>4, <2>3, <2>4 DEF Marks
<1>5. QED
  BY <1>3, <1>4

LEMMA StakedIsSum ==
    ASSUME NEW events, NEW bets, IsFiniteSet(bets)
    PROVE  History!Staked(events, bets)
             = SumFunctionOnSet([i \in bets |-> events[i].amount], bets)
<1> DEFINE f == [i \in bets |-> events[i].amount]
           Sums(s) == s = [b \in SUBSET bets |->
                             IF b = {} THEN 0 ELSE events[Some(b)].amount + s[b \ {Some(b)}]]
           mapped == CHOOSE s : Sums(s)
           summed == CHOOSE s : IsPartialSums(s, f, bets)
<1>1. History!Staked(events, bets) = mapped[bets]
  BY DEF History!Staked, History!MapThenSumSet, History!MapThenFoldSet, Some
<1>2. SumFunctionOnSet(f, bets) = summed[bets]
  BY SumIsPartialSum
<1>3. ASSUME NEW s
      PROVE  Sums(s) <=> IsPartialSums(s, f, bets)
  <2>1. ASSUME NEW b \in SUBSET bets
        PROVE  (IF b = {} THEN 0 ELSE events[Some(b)].amount + s[b \ {Some(b)}])
                 = (IF b = {} THEN 0 ELSE f[Some(b)] + s[b \ {Some(b)}])
    <3>1. b # {} => Some(b) \in bets
      BY SomeMember
    <3>2. b # {} => f[Some(b)] = events[Some(b)].amount
      BY <3>1
    <3>3. QED
      BY <3>2
  <2>2. QED
    BY <2>1 DEF IsPartialSums
<1>4. IsPartialSums(summed, f, bets)
  BY PartialSumsExist
<1>5. IsPartialSums(mapped, f, bets)
  BY <1>3, <1>4
<1> HIDE DEF mapped, summed
<1>6. mapped[bets] = summed[bets]
  BY <1>4, <1>5, PartialSumsAgree
<1>7. QED
  BY <1>1, <1>2, <1>6

\* `events` is what happened at the logs `ids`, in the order given.
Happenings(events, ids, order, n) ==
    /\ DOMAIN events = 1..n
    /\ \A i \in 1..n : order[i] \in ids /\ events[i] = LogAt(order[i])
    /\ \A id \in ids : \E i \in 1..n : order[i] = id
    /\ \A i, j \in 1..n : order[i] = order[j] => i = j

LEMMA PlacesFinite ==
    ASSUME NEW n \in Nat, NEW S \in SUBSET (1..n)
    PROVE  IsFiniteSet(S)
<1>1. IsFiniteSet(1..n)
  BY FS_Interval
<1>2. QED
  BY <1>1, FS_Subset

BetPlaces(events, n, order, ids) ==
    {i \in 1..n : events[i].event = "BetPlaced" /\ order[i] \in ids}

\* The bets at some places of a wager's events are worth the logs there.
LEMMA StakedLogs ==
    ASSUME ChainInv, NEW ids \in SUBSET OnChain, NEW n \in Nat, NEW order, NEW events,
           Happenings(events, ids, order, n),
           NEW T \in SUBSET ids,
           NEW bets, bets = BetPlaces(events, n, order, T)
    PROVE  History!Staked(events, bets) = SumFunctionOnSet(Amount, T)
<1>1. PICK f, g, h : /\ f = [i \in bets |-> events[i].amount]
                     /\ g = [i \in bets |-> order[i]] /\ h = Amount
  OBVIOUS
<1>2. IsFiniteSet(bets) /\ IsFiniteSet(T) /\ T \subseteq OnChain
  <2>1. bets \in SUBSET (1..n) /\ T \subseteq OnChain
    BY DEF BetPlaces
  <2>2. QED
    BY <2>1, PlacesFinite, FS_Subset DEF ChainInv
<1>3. \A id \in OnChain : /\ h[id] = LogAt(id).amount /\ h[id] \in Nat
                          /\ LogAt(id).event # "BetPlaced" => h[id] = 0
  <2>1. \A id \in OnChain : WellFormed(LogAt(id))
    BY DEF ChainInv
  <2>2. QED
    BY <1>1, <2>1 DEF Amount, WellFormed, LogTypes
<1>4. \A i \in bets : g[i] \in T /\ f[i] = h[g[i]]
  BY <1>1, <1>2, <1>3 DEF Happenings, BetPlaces
<1>5. \A i, j \in bets : g[i] = g[j] => i = j
  BY <1>1 DEF Happenings, BetPlaces
<1>6. \A id \in T : (\A i \in bets : g[i] # id) => h[id] = 0
  <2>1. ASSUME NEW id \in T, \A i \in bets : g[i] # id
        PROVE  h[id] = 0
    <3>1. PICK i \in 1..n : order[i] = id
      BY DEF Happenings
    <3>2. i \notin bets
      BY <1>1, <2>1, <3>1 DEF BetPlaces
    <3>3. events[i].event # "BetPlaced" /\ events[i] = LogAt(id)
      BY <3>1, <3>2 DEF Happenings, BetPlaces
    <3>4. QED
      BY <1>2, <1>3, <3>3
  <2>2. QED
    BY <2>1
<1>7. SumFunctionOnSet(f, bets) = SumFunctionOnSet(h, T)
  <2>1. IsFiniteSet(bets) /\ IsFiniteSet(T)
    BY <1>2
  <2>2. \A id \in T : h[id] \in Int
    BY <1>2, <1>3
  <2>3. QED
    BY <1>4, <1>5, <1>6, <2>1, <2>2, SumReindex
<1>8. QED
  BY <1>1, <1>2, <1>7, StakedIsSum

\* A row as written is the summary of the events that are in the file (apply_log).
LEMMA RowIsSummary ==
    ASSUME ChainInv, NEW db, FileInv(db), RowsFollow(db), NEW w \in AllWagers,
           NEW n, n = Cardinality(EventsOf(db, w)),
           NEW events, events = SubSeq(EventsInOrder(w), 1, n)
    PROVE  /\ n \in Nat /\ Len(EventsInOrder(w)) \in Nat /\ n <= Len(EventsInOrder(w))
           /\ WrittenRow(db.rows[w]) = History!Summary(events)
<1>1. PICK ids, order, row :
        ids = EventsOf(db, w) /\ order = InLogOrder(LogsOf(w)) /\ row = db.rows[w]
  OBVIOUS
<1>2. /\ ids \subseteq OnChain /\ IsFiniteSet(ids) /\ n \in Nat
      /\ order \in Seq(OnChain) /\ n <= Len(order)
      /\ \A i \in 1..n : order[i] \in ids
      /\ \A id \in ids : \E i \in 1..n : order[i] = id
      /\ \A i, j \in 1..n : order[i] = order[j] => i = j
  BY <1>1, IndexedFirst
<1>3. /\ Len(EventsInOrder(w)) = Len(order) /\ DOMAIN events = 1..n
      /\ \A i \in 1..n : events[i] = LogAt(order[i])
      /\ n = 0 <=> events = <<>>
      /\ Happenings(events, ids, order, n)
  <2>1. PICK all : all = EventsInOrder(w)
    OBVIOUS
  <2>2. all = [i \in 1..Len(order) |-> LogAt(order[i])]
    BY <1>1, <1>2, <2>1 DEF EventsInOrder
  <2>3. /\ all \in Seq(LogTypes) /\ Len(all) = Len(order)
    <3>1. \A i \in 1..Len(order) : LogAt(order[i]) \in LogTypes
      BY <1>2, ChainTypes
    <3>2. QED
      BY <1>2, <2>2, <3>1
  <2>4. events = [i \in 1..n |-> all[i]]
    BY <1>2, <2>1, <2>3
  <2>5. /\ Len(EventsInOrder(w)) = Len(order) /\ DOMAIN events = 1..n
        /\ \A i \in 1..n : events[i] = LogAt(order[i])
        /\ n = 0 <=> events = <<>>
    BY <1>2, <2>1, <2>2, <2>3, <2>4
  <2>6. QED
    BY <1>2, <2>5 DEF Happenings
<1>4. row \in RowTypes
  BY <1>1, DatabaseTypes DEF FileInv
<1>5. CASE ~row.known
  <2>1. row = NoRow
    BY <1>4, <1>5, RowsKnown
  <2>2. events = <<>>
    <3>1. ids = {}
      BY <1>1, <1>5 DEF RowsFollow
    <3>2. n = 0
      BY <1>1, <3>1, FS_EmptySet
    <3>3. QED
      BY <1>3, <3>2
  <2>3. WrittenRow(row) = [known |-> FALSE]
    <3>1. DOMAIN NoRow \ {"potRead"} = {"known"}
      BY DEF NoRow
    <3>2. WrittenRow(NoRow) = [f \in {"known"} |-> NoRow[f]]
      BY <3>1 DEF WrittenRow
    <3>3. QED
      BY <2>1, <3>2 DEF NoRow
  <2>4. History!Summary(events) = [known |-> FALSE]
    BY <2>2 DEF History!Summary, History!NoRow
  <2>5. QED
    BY <1>1, <1>2, <1>3, <2>3, <2>4
<1>6. CASE row.known
  <2>1. row \in KnownRows /\ RowFollows(row, ids)
    BY <1>1, <1>4, <1>6, RowsKnown DEF RowsFollow
  <2>2. events # <<>>
    <3>1. ids # {}
      BY <1>1, <1>6 DEF FileInv
    <3>2. QED
      BY <1>2, <1>3, <3>1
  <2>3. ASSUME NEW kind
        PROVE  Happened(ids, kind) <=> \E i \in DOMAIN events : events[i].event = kind
    <3>1. /\ DOMAIN events = 1..n
          /\ \A i \in 1..n : order[i] \in ids /\ events[i] = LogAt(order[i])
          /\ \A id \in ids : \E i \in 1..n : order[i] = id
      BY <1>3 DEF Happenings
    <3>2. ASSUME NEW id \in ids, LogAt(id).event = kind
          PROVE  \E i \in DOMAIN events : events[i].event = kind
      <4>1. PICK i \in 1..n : order[i] = id
        BY <3>1
      <4>2. events[i] = LogAt(id)
        BY <3>1, <4>1
      <4>3. QED
        BY <3>1, <3>2, <4>2
    <3>3. ASSUME NEW i \in DOMAIN events, events[i].event = kind
          PROVE  \E id \in ids : LogAt(id).event = kind
      BY <3>1, <3>3
    <3>4. QED
      BY <3>2, <3>3 DEF Happened
  <2>4. ASSUME NEW kind, NEW value, Carries(value, ids, kind), Clash(kind, kind)
        PROVE  value = History!LastOf(events, {kind}, 0)
    <3>1. \A i \in 1..n : events[i].event = kind => value = events[i].value
      BY <1>2, <1>3, <2>4 DEF Carries
    <3>2. \A i, j \in 1..n : events[i].event = kind /\ events[j].event = kind => i = j
      <4>1. ASSUME NEW i \in 1..n, NEW j \in 1..n,
                   events[i].event = kind, events[j].event = kind
            PROVE  i = j
        <5>1. /\ order[i] \in OnChain /\ order[j] \in OnChain
              /\ LogAt(order[i]).wager = w /\ LogAt(order[j]).wager = w
          BY <1>1, <1>2 DEF EventsOf
        <5>2. LogAt(order[i]).event = kind /\ LogAt(order[j]).event = kind
          BY <1>3, <4>1
        <5>3. order[i] = order[j]
          BY <2>4, <5>1, <5>2 DEF ChainInv
        <5>4. QED
          BY <1>2, <5>3
      <4>2. QED
        BY <4>1
    <3>3. (\A i \in 1..n : events[i].event # kind) => value = 0
      BY <1>3, <2>3, <2>4 DEF Carries
    <3>4. n \in Nat /\ DOMAIN events = 1..n
      BY <1>2, <1>3
    <3>5. Marks(value, events, n, kind)
      BY <3>1, <3>2, <3>3, <3>4 DEF Marks
    <3>6. History!LastOf(events, {kind}, 0) = value
      BY <3>4, <3>5, LastIsCarried
    <3>7. QED
      BY <3>6
  <2>5. /\ row.bettingClosedAt = History!LastOf(events, {"BettingClosed"}, 0)
        /\ row.windowClosedAt = History!LastOf(events, {"WindowClosed"}, 0)
        /\ row.winner = History!LastOf(events, {"Resolved"}, 0)
    BY <2>1, <2>4 DEF RowFollows, Clash
  <2>6. row.state = IF \E i \in DOMAIN events : events[i].event = "Resolved" THEN "RESOLVED"
                    ELSE IF \E i \in DOMAIN events : events[i].event = "Refunded"
                    THEN "RETRACTED" ELSE "OPEN"
    BY <2>1, <2>3 DEF RowFollows
  <2>7. Happenings(events, ids, order, n) /\ DOMAIN events = 1..n
    BY <1>3
  <2>8. \A i \in 1..n : /\ order[i] \in ids /\ events[i] = LogAt(order[i])
                        /\ events[i].event = "BetPlaced" => events[i].ticket \in Tickets
    <3>1. \A id \in ids : LogAt(id).event = "BetPlaced" => LogAt(id).ticket \in Tickets
      BY <1>2 DEF ChainInv, WellFormed
    <3>2. \A i \in 1..n : order[i] \in ids /\ events[i] = LogAt(order[i])
      BY <2>7 DEF Happenings
    <3>3. QED
      BY <3>1, <3>2
  <2>9. ASSUME NEW t \in Tickets
        PROVE  row.pools[t] = History!Staked(events, History!BetsOf(events, t))
    <3>1. PICK bets, T : bets = History!BetsOf(events, t) /\ T = BetsIn(db, w, t)
      OBVIOUS
    <3>2. T = {id \in ids : LogAt(id).ticket = t}
      BY <1>1, <3>1 DEF BetsIn
    <3>3. bets = BetPlaces(events, n, order, T)
      BY <2>7, <2>8, <3>1, <3>2 DEF History!BetsOf, BetPlaces
    <3>4. History!Staked(events, bets) = SumFunctionOnSet(Amount, T)
      <4>1. T \in SUBSET ids
        BY <3>2
      <4>2. ids \in SUBSET OnChain
        BY <1>2
      <4>3. n \in Nat
        BY <1>2
      <4>4. Happenings(events, ids, order, n)
        BY <2>7
      <4>5. QED
        BY <3>3, <4>1, <4>2, <4>3, <4>4, StakedLogs
    <3>5. row.pools[t] = SumFunctionOnSet(Amount, T)
      BY <1>1, <1>6, <3>1 DEF FileInv
    <3>6. QED
      BY <3>1, <3>4, <3>5
  <2>10. row.pools = [t \in Tickets |-> History!Staked(events, History!BetsOf(events, t))]
    <3>1. row.pools \in [Tickets -> Nat]
      BY <2>1, RowsKnown
    <3>2. QED
      BY <2>9, <3>1
  <2>11. row.pot = History!Staked(events, UNION {History!BetsOf(events, t) : t \in Tickets})
    <3>1. PICK bets : bets = UNION {History!BetsOf(events, t) : t \in Tickets}
      OBVIOUS
    <3>2. bets = BetPlaces(events, n, order, ids)
      <4>1. \A t, i : i \in History!BetsOf(events, t) <=>
              i \in 1..n /\ events[i].event = "BetPlaced" /\ events[i].ticket = t
        BY <2>7 DEF History!BetsOf
      <4>2. \A i : i \in bets <=> i \in 1..n /\ events[i].event = "BetPlaced"
        <5>1. \A i : i \in bets <=> \E t \in Tickets : i \in History!BetsOf(events, t)
          BY <3>1
        <5>2. \A i \in 1..n : events[i].event = "BetPlaced" => events[i].ticket \in Tickets
          BY <2>8
        <5>3. ASSUME NEW i
              PROVE  i \in bets <=> i \in 1..n /\ events[i].event = "BetPlaced"
          <6>1. CASE i \in 1..n /\ events[i].event = "BetPlaced"
            <7>1. events[i].ticket \in Tickets
              BY <5>2, <6>1
            <7>2. i \in History!BetsOf(events, events[i].ticket)
              BY <4>1, <6>1
            <7>3. QED
              BY <5>1, <6>1, <7>1, <7>2
          <6>2. CASE i \in bets
            <7>1. PICK t \in Tickets : i \in History!BetsOf(events, t)
              BY <5>1, <6>2
            <7>2. QED
              BY <4>1, <6>2, <7>1
          <6>3. QED
            BY <6>1, <6>2
        <5>4. QED
          BY <5>3
      <4>3. QED
        BY <2>8, <4>2 DEF BetPlaces
    <3>3. History!Staked(events, bets) = SumFunctionOnSet(Amount, ids)
      <4>1. ids \in SUBSET ids
        OBVIOUS
      <4>2. ids \in SUBSET OnChain
        BY <1>2
      <4>3. n \in Nat
        BY <1>2
      <4>4. Happenings(events, ids, order, n)
        BY <2>7
      <4>5. QED
        BY <3>2, <4>1, <4>2, <4>3, <4>4, StakedLogs
    <3>4. row.pot = SumFunctionOnSet(Amount, ids)
      BY <1>1, <1>6, <2>1, PoolsAddUp DEF RowFollows
    <3>5. QED
      BY <3>1, <3>3, <3>4
  <2>12. WrittenRow(row) =
           [known |-> TRUE, state |-> row.state, bettingClosedAt |-> row.bettingClosedAt,
            windowClosedAt |-> row.windowClosedAt, winner |-> row.winner,
            pools |-> row.pools, pot |-> row.pot]
    <3>1. DOMAIN row \ {"potRead"} = {"known", "state", "bettingClosedAt", "windowClosedAt",
                                      "winner", "pools", "pot"} /\ row.known = TRUE
      BY <2>1 DEF KnownRows
    <3>2. WrittenRow(row) = [f \in {"known", "state", "bettingClosedAt", "windowClosedAt",
                                    "winner", "pools", "pot"} |-> row[f]]
      BY <3>1 DEF WrittenRow
    <3>3. QED
      BY <3>1, <3>2
  <2>13. WrittenRow(row) = History!Summary(events)
    BY <2>2, <2>5, <2>6, <2>10, <2>11, <2>12 DEF History!Summary
  <2>14. QED
    BY <1>1, <1>2, <1>3, <2>13
<1>7. QED
  BY <1>5, <1>6

LEMMA LengthOf ==
    ASSUME NEW n \in Nat, NEW f, f = [i \in 1..n |-> f[i]]
    PROVE  Len(f) = n /\ DOMAIN f = 1..n
<1>1. PICK S : S = {f[i] : i \in 1..n}
  OBVIOUS
<1>2. \A i \in 1..n : f[i] \in S
  BY <1>1
<1>3. f \in [1..n -> S]
  BY <1>2
<1>4. QED
  BY <1>3

LEMMA ChainIds == ChainInv => OnChain \in SUBSET Ids
BY ChainTypes

\* What the chain grows by comes after a wager's events so far.
LEMMA EventsExtend ==
    ASSUME ChainInv, ChainInv', ChainGrows, NEW w
    PROVE  History!IsPrefixOf(EventsInOrder(w), EventsInOrder(w)')
<1>1. PICK ids, more : ids = LogsOf(w) /\ more = LogsOf(w)'
  OBVIOUS
<1>2. /\ OnChain \in SUBSET Ids /\ ids \in SUBSET Ids /\ ids \subseteq OnChain
      /\ IsFiniteSet(ids)
  BY <1>1, ChainTypes, FS_Subset DEF LogsOf, ChainInv
<1>3. more \in SUBSET Ids /\ IsFiniteSet(more) /\ more \subseteq OnChain'
  <2>1. ChainInv' => (OnChain \in SUBSET Ids)'
    BY ChainIds, PTL
  <2>2. IsFiniteSet(OnChain')
    BY DEF ChainInv
  <2>3. more \subseteq OnChain'
    BY <1>1 DEF LogsOf
  <2>4. QED
    BY <2>1, <2>2, <2>3, FS_Subset
<1>4. ids \subseteq more /\ \A id \in ids : LogAt(id)' = LogAt(id)
  BY <1>1 DEF LogsOf, ChainGrows
<1>5. ASSUME NEW p \in ids, NEW q \in more \ ids
      PROVE  Before(p, q)
  <2>1. q \notin OnChain
    BY <1>1, <1>5 DEF LogsOf, ChainGrows
  <2>2. p # q /\ ~Before(q, p)
    BY <1>2, <1>3, <1>5, <2>1 DEF ChainGrows
  <2>3. p \in Ids /\ q \in Ids
    BY <1>2, <1>3, <1>5
  <2>4. QED
    BY <2>2, <2>3, BeforeIsTotal
<1>6. PICK some, all : some = InLogOrder(ids) /\ all = InLogOrder(more)
  OBVIOUS
<1>7. PICK m, n : m = Cardinality(ids) /\ n = Cardinality(more)
  OBVIOUS
<1>8. /\ m \in Nat /\ n \in Nat /\ m <= n
      /\ \A k \in 1..m : all[k] = some[k]
  BY <1>2, <1>3, <1>4, <1>5, <1>6, <1>7, OrderExtends
<1>9. some \in Seq(ids) /\ Len(some) = m
  BY <1>2, <1>6, <1>7, LogOrder
<1>10. all \in Seq(more) /\ Len(all) = n
  BY <1>3, <1>6, <1>7, LogOrder
<1>11. PICK events, later : events = EventsInOrder(w) /\ later = EventsInOrder(w)'
  OBVIOUS
<1>12. Len(events) = m /\ DOMAIN events = 1..m /\ \A i \in 1..m : events[i] = LogAt(some[i])
  <2>1. events = [i \in 1..m |-> LogAt(some[i])]
    BY <1>1, <1>6, <1>9, <1>11 DEF EventsInOrder
  <2>2. events = [i \in 1..m |-> events[i]]
    BY <2>1
  <2>3. Len(events) = m /\ DOMAIN events = 1..m
    BY <1>8, <2>2, LengthOf
  <2>4. QED
    BY <2>1, <2>3
<1>13. Len(later) = n /\ \A i \in 1..n : later[i] = LogAt(all[i])'
  <2>1. later = [i \in 1..n |-> LogAt(all[i])']
    BY <1>1, <1>6, <1>10, <1>11 DEF EventsInOrder
  <2>2. later = [i \in 1..n |-> later[i]]
    BY <2>1
  <2>3. Len(later) = n
    BY <1>8, <2>2, LengthOf
  <2>4. QED
    BY <2>1, <2>3
<1>14. \A i \in 1..m : events[i] = later[i]
  <2>1. ASSUME NEW i \in 1..m
        PROVE  events[i] = later[i]
    <3>1. some[i] \in ids /\ all[i] = some[i] /\ i \in 1..n
      BY <1>8, <1>9
    <3>2. events[i] = LogAt(some[i]) /\ later[i] = LogAt(some[i])'
      BY <1>12, <1>13, <3>1
    <3>3. QED
      BY <1>4, <3>1, <3>2
  <2>2. QED
    BY <2>1
<1>15. QED
  BY <1>8, <1>11, <1>12, <1>13, <1>14 DEF History!IsPrefixOf

LEMMA HistoryStep ==
    ASSUME WithinSQLite, IInv, HistoryInv, IInv', HistoryInv', [Next]_vars
    PROVE  [History!Next]_(History!vars)
<1>1. /\ ChainInv /\ FileInv(disk) /\ disk.events \subseteq OnChain
      /\ ChainInv' /\ FileInv(disk)'
  BY Facts, DatabaseTypes DEF FileInv, IInv
<1>2. disk.events \subseteq disk'.events
  BY HistoryKeeps
<1>3. CASE ChainStep /\ Next
  <2>1. ChainGrows /\ disk' = disk
    BY <1>1, <1>3, ChainStepGrows DEF Next
  <2>2. \A w \in AllWagers : History!IsPrefixOf(EventsInOrder(w), EventsInOrder(w)')
    BY <1>1, <2>1, EventsExtend
  <2>3. \A w : Cardinality(Indexed(w))' = Cardinality(Indexed(w))
    <3>1. \A w : Indexed(w)' = Indexed(w)
      BY <1>1, <2>1 DEF Indexed, ChainGrows
    <3>2. QED
      BY <3>1
  <2>4. \A w : WrittenRow(disk.rows[w])' = WrittenRow(disk.rows[w])
    BY <2>1 DEF WrittenRow
  <2>5. History!Emit
    BY <2>2, <2>3, <2>4 DEF History!Emit
  <2>6. QED
    BY <2>5 DEF History!Next
<1>4. CASE UNCHANGED vars \/ (Next /\ ~ChainStep)
  <2>1. chain' = chain
    BY <1>4, LoopSteps DEF vars
  <2>2. PICK d : d = disk'
    OBVIOUS
  <2>3. FileInv(d) /\ RowsFollow(d)
    <3>1. FileInv(d)
      BY <1>1, <2>1, <2>2, ChainSame DEF FileInv, RowSound, BetsIn, EventsOf
    <3>2. RowsFollow(d)
      <4>1. RowsFollow(disk)'
        BY DEF HistoryInv
      <4>2. QED
        BY <2>1, <2>2, <4>1, ChainSame
           DEF RowsFollow, EventsOf, RowFollows, Carries, Happened
    <3>3. QED
      BY <3>1, <3>2
  <2>4. \A w : EventsInOrder(w)' = EventsInOrder(w)
    <3>1. ASSUME NEW w
          PROVE  EventsInOrder(w)' = EventsInOrder(w)
      <4>1. PICK order : order = InLogOrder(LogsOf(w))
        OBVIOUS
      <4>2. LogsOf(w)' = LogsOf(w)
        BY <2>1, ChainSame DEF LogsOf
      <4>3. EventsInOrder(w) = [i \in DOMAIN order |-> LogAt(order[i])]
        BY <4>1 DEF EventsInOrder
      <4>4. EventsInOrder(w)' = [i \in DOMAIN order |-> LogAt(order[i])']
        BY <4>1, <4>2 DEF EventsInOrder
      <4>5. QED
        BY <2>1, <4>3, <4>4, ChainSame
    <3>2. QED
      BY <3>1
  <2>5. ASSUME NEW w \in AllWagers
        PROVE  /\ Cardinality(Indexed(w))' \in Cardinality(Indexed(w)) .. Len(EventsInOrder(w))
               /\ WrittenRow(disk.rows[w])' =
                    History!Summary(SubSeq(EventsInOrder(w), 1, Cardinality(Indexed(w))'))
    <3>1. PICK old, new, m, n : /\ old = EventsOf(disk, w) /\ new = EventsOf(d, w)
                                /\ m = Cardinality(old) /\ n = Cardinality(new)
      OBVIOUS
    <3>2. /\ old \subseteq new /\ new \subseteq OnChain
          /\ Indexed(w) = old /\ Indexed(w)' = new
      <4>1. d.events \subseteq OnChain /\ disk.events \subseteq d.events
        BY <1>2, <2>2, <2>3, DatabaseTypes DEF FileInv
      <4>2. old \subseteq new /\ new \subseteq OnChain /\ Indexed(w) = old
        BY <3>1, <4>1 DEF EventsOf, Indexed
      <4>3. Indexed(w)' = {id \in d.events : LogAt(id)'.wager = w}
        BY <2>2 DEF Indexed
      <4>4. Indexed(w)' = new
        BY <2>1, <3>1, <4>3, ChainSame DEF EventsOf
      <4>5. QED
        BY <4>2, <4>4
    <3>3. m \in Nat /\ n \in Nat /\ m <= n
      BY <1>1, <3>1, <3>2, FS_Subset, FS_CardinalityType DEF ChainInv
    <3>4. PICK events : events = SubSeq(EventsInOrder(w), 1, n)
      OBVIOUS
    <3>5. /\ n <= Len(EventsInOrder(w)) /\ Len(EventsInOrder(w)) \in Nat
          /\ WrittenRow(d.rows[w]) = History!Summary(events)
      BY <1>1, <2>3, <3>1, <3>4, RowIsSummary
    <3>6. WrittenRow(disk.rows[w])' = WrittenRow(d.rows[w])
      BY <2>2 DEF WrittenRow
    <3>7. Cardinality(Indexed(w)) = m /\ Cardinality(Indexed(w))' = n
      BY <3>1, <3>2
    <3>8. QED
      BY <3>3, <3>4, <3>5, <3>6, <3>7
  <2>6. History!Publish
    BY <2>4, <2>5 DEF History!Publish
  <2>7. QED
    BY <2>6 DEF History!Next
<1>5. QED
  BY <1>3, <1>4

LEMMA HistoryStarts ==
    ASSUME Init
    PROVE  History!Init
<1>1. OnChain = {} /\ disk = Empty
  BY DEF Init, OnChain
<1>2. ASSUME NEW w \in AllWagers
      PROVE  /\ EventsInOrder(w) = <<>> /\ Cardinality(Indexed(w)) = 0
             /\ WrittenRow(disk.rows[w]) = History!NoRow
  <2>1. LogsOf(w) = {} /\ Indexed(w) = {} /\ disk.rows[w] = NoRow
    BY <1>1 DEF LogsOf, Indexed, Empty
  <2>2. Cardinality({}) = 0 /\ IsFiniteSet({})
    BY FS_EmptySet
  <2>3. InLogOrder({}) = <<>>
    BY <2>2, LogOrder
  <2>4. EventsInOrder(w) = <<>>
    BY <2>1, <2>3 DEF EventsInOrder
  <2>5. WrittenRow(NoRow) = [known |-> FALSE]
    <3>1. DOMAIN NoRow \ {"potRead"} = {"known"}
      BY DEF NoRow
    <3>2. WrittenRow(NoRow) = [f \in {"known"} |-> NoRow[f]]
      BY <3>1 DEF WrittenRow
    <3>3. QED
      BY <3>2 DEF NoRow
  <2>6. QED
    BY <2>1, <2>2, <2>4, <2>5 DEF History!NoRow
<1>3. QED
  BY <1>2 DEF History!Init

\* Each row is the summary of a growing prefix of the events its wager emitted (the
\* file as committed), as long as every number fits into SQLite's integers.
THEOREM IndexerImplementsHistory ==
    ASSUME WithinSQLite
    PROVE  Spec => ImplementsHistory
<1>1. Init => IInv /\ HistoryInv /\ History!Init
  BY InitHolds, HistoryInit, HistoryStarts
<1>2. IInv /\ HistoryInv /\ [Next]_vars => IInv' /\ HistoryInv'
  BY NextKeeps, HistoryKeeps
<1>3. IInv /\ HistoryInv /\ IInv' /\ HistoryInv' /\ [Next]_vars
        => [History!Next]_(History!vars)
  BY HistoryStep
<1>4. QED
  BY <1>1, <1>2, <1>3, PTL DEF Spec, ImplementsHistory, History!Spec


-------------------------------------------------------------------------------
(* The API *)

\* What a later file never takes back: events, rows, winners and stakes; and a row
\* that appears comes with its creation.
Ahead(d, k) ==
    /\ d.events \subseteq k.events
    /\ \A w \in AllWagers : d.rows[w].known =>
        /\ k.rows[w].known
        /\ d.rows[w].winner # 0 => k.rows[w].winner # 0
        /\ \A t \in Tickets : d.rows[w].pools[t] <= k.rows[w].pools[t]
    /\ \A w \in AllWagers : ~d.rows[w].known /\ k.rows[w].known =>
        \A c \in d.events : ~(LogAt(c).wager = w /\ LogAt(c).event = "Created")

LEMMA AheadTyped ==
    ASSUME NEW db \in Databases, NEW w \in AllWagers
    PROVE  /\ db.rows[w] \in RowTypes /\ db.rows[w].known \in BOOLEAN
           /\ db.rows[w].known => /\ db.rows[w] \in KnownRows
                                  /\ db.rows[w].pools \in [Tickets -> Nat]
<1>1. db.rows[w] \in RowTypes
  BY DatabaseTypes
<1>2. QED
  BY <1>1, RowsKnown

LEMMA AheadSame ==
    ASSUME NEW d \in Databases, NEW k \in Databases, k.events = d.events, k.rows = d.rows
    PROVE  Ahead(d, k)
<1>1. ASSUME NEW w \in AllWagers, d.rows[w].known, NEW t \in Tickets
      PROVE  d.rows[w].pools[t] <= d.rows[w].pools[t]
  BY <1>1, AheadTyped
<1>2. QED
  BY <1>1 DEF Ahead

LEMMA AheadThrough ==
    ASSUME NEW d \in Databases, NEW k \in Databases, NEW n \in Databases,
           Ahead(d, k), Ahead(k, n)
    PROVE  Ahead(d, n)
<1>1. ASSUME NEW w \in AllWagers, d.rows[w].known
      PROVE  /\ n.rows[w].known
             /\ d.rows[w].winner # 0 => n.rows[w].winner # 0
             /\ \A t \in Tickets : d.rows[w].pools[t] <= n.rows[w].pools[t]
  <2>1. k.rows[w].known /\ n.rows[w].known
    BY <1>1 DEF Ahead
  <2>2. ASSUME NEW t \in Tickets
        PROVE  d.rows[w].pools[t] <= n.rows[w].pools[t]
    <3>1. /\ d.rows[w].pools[t] \in Nat /\ k.rows[w].pools[t] \in Nat
          /\ n.rows[w].pools[t] \in Nat
      BY <1>1, <2>1, AheadTyped
    <3>2. /\ d.rows[w].pools[t] <= k.rows[w].pools[t]
          /\ k.rows[w].pools[t] <= n.rows[w].pools[t]
      BY <1>1, <2>1 DEF Ahead
    <3>3. QED
      BY <3>1, <3>2
  <2>3. QED
    BY <1>1, <2>1, <2>2 DEF Ahead
<1>2. ASSUME NEW w \in AllWagers, ~d.rows[w].known, n.rows[w].known, NEW c \in d.events
      PROVE  ~(LogAt(c).wager = w /\ LogAt(c).event = "Created")
  <2>1. c \in k.events
    BY DEF Ahead
  <2>2. QED
    BY <1>2, <2>1 DEF Ahead
<1>3. d.events \subseteq n.events
  BY DEF Ahead
<1>4. QED
  BY <1>1, <1>2, <1>3 DEF Ahead

\* Applying a log takes nothing back (apply_log).
LEMMA ApplyAhead ==
    ASSUME ChainInv, NEW db \in Databases, NEW id \in OnChain
    PROVE  /\ ApplyLog(db, id) \in Databases /\ Ahead(db, ApplyLog(db, id))
           /\ ApplyLog(db, id).events \subseteq db.events \cup {id}
           /\ ApplyLog(db, id).head = db.head
<1>1. PICK new, log : new = ApplyLog(db, id) /\ log = LogAt(id)
  OBVIOUS
<1>2. WellFormed(log) /\ log.wager \in AllWagers
  BY <1>1, ChainTypes DEF ChainInv, LogTypes
<1>3. CASE new = db
  BY <1>1, <1>3, AheadSame
<1>4. CASE /\ id \notin db.events /\ ~Ignored(db, log) /\ new \in Databases
           /\ new.events = db.events \cup {id} /\ new.head = db.head
           /\ new.rows[log.wager] = WithPayload(db.rows[log.wager], log)
           /\ \A w \in AllWagers \ {log.wager} : new.rows[w] = db.rows[w]
  <2>1. log.event # "Created" => db.rows[log.wager].known
    BY <1>4 DEF Ignored
  <2>2. PICK old, row : old = db.rows[log.wager] /\ row = WithPayload(old, log)
    OBVIOUS
  <2>3. /\ old.known => /\ row.known /\ (old.winner # 0 => row.winner # 0)
                        /\ \A t \in Tickets : row.pools[t] =
                             old.pools[t] + IF log.ticket = t THEN log.amount ELSE 0
        /\ ~old.known /\ row.known => log.event = "Created"
    <3>1. old \in RowTypes
      BY <1>2, <2>2, AheadTyped
    <3>2. QED
      BY <1>2, <2>1, <2>2, <3>1, PayloadRow
  <2>4. ASSUME NEW w \in AllWagers, db.rows[w].known
        PROVE  /\ new.rows[w].known
               /\ db.rows[w].winner # 0 => new.rows[w].winner # 0
               /\ \A t \in Tickets : db.rows[w].pools[t] <= new.rows[w].pools[t]
    <3>1. db.rows[w].pools \in [Tickets -> Nat]
      BY <2>4, AheadTyped
    <3>2. CASE w # log.wager
      <4>1. new.rows[w] = db.rows[w]
        BY <1>4, <3>2
      <4>2. QED
        BY <2>4, <3>1, <4>1
    <3>3. CASE w = log.wager
      <4>1. log.amount \in Nat
        BY <1>2 DEF WellFormed, LogTypes
      <4>2. ASSUME NEW t \in Tickets
            PROVE  old.pools[t] <= row.pools[t]
        <5>1. old.pools[t] \in Nat
          BY <2>2, <3>1, <3>3
        <5>2. row.pools[t] = old.pools[t] + IF log.ticket = t THEN log.amount ELSE 0
          BY <2>2, <2>3, <2>4, <3>3
        <5>3. QED
          BY <4>1, <5>1, <5>2
      <4>3. QED
        BY <1>4, <2>2, <2>3, <2>4, <3>3, <4>2
    <3>4. QED
      BY <3>2, <3>3
  <2>5. ASSUME NEW w \in AllWagers, ~db.rows[w].known, new.rows[w].known, NEW c \in db.events,
               LogAt(c).wager = w, LogAt(c).event = "Created"
        PROVE  FALSE
    <3>1. w = log.wager /\ log.event = "Created"
      BY <1>4, <2>2, <2>3, <2>5
    <3>2. c \in OnChain
      BY DatabaseTypes
    <3>3. c = id
      BY <1>1, <2>5, <3>1, <3>2, OneCreation
    <3>4. QED
      BY <1>4, <3>3
  <2>6. Ahead(db, new)
    BY <1>4, <2>4, <2>5 DEF Ahead
  <2>7. QED
    BY <1>1, <1>4, <2>6
<1>5. QED
  BY <1>1, <1>3, <1>4, ApplyCases

-------------------------------------------------------------------------------
(* What a reader may rely on while the loop commits *)

\* The open transaction is ahead of the file; the head stored with a pass bounds it.
SyncInv ==
    /\ Ahead(disk, work) /\ work.head = disk.head /\ replays \in Nat
    /\ disk.cursor <= disk.head /\ disk.head <= ChainHead
    /\ phase # "wait" => toBlock <= disk.head
    /\ phase = "apply" => end <= toBlock

\* Where nothing is replayed, a pass reads blocks nobody has read.
UnreadInv ==
    setting.replays = 0 =>
        /\ \A id \in disk.events : id[1] <= disk.cursor
        /\ phase # "wait" => disk.cursor < start
        /\ phase = "apply" => \A id \in work.events \ disk.events : start <= id[1] /\ id[1] <= end

\* A commit takes nothing back, and adds at the end where nothing is replayed.
FileGrows ==
    /\ Ahead(disk, disk') /\ disk.head <= disk'.head
    /\ setting.replays = 0 =>
        \A p \in disk.events, q \in disk'.events \ disk.events : Before(p, q)

LEMMA SyncFacts ==
    ASSUME IInv, SyncInv
    PROVE  /\ disk \in Databases /\ work \in Databases
           /\ disk.cursor \in Int /\ disk.head \in Int /\ ChainHead \in Int
           /\ disk.cursor <= disk.head /\ disk.head <= ChainHead
           /\ setting.replays \in Nat
<1>1. disk \in Databases /\ work \in Databases
  BY DEF IInv, FileInv
<1>2. disk.head \in {NoBlock} \cup Nat /\ disk.cursor \in {NoBlock} \cup Nat
  BY <1>1, DatabaseTypes
<1>3. disk.head \in Int /\ disk.cursor \in Int
  BY <1>2 DEF NoBlock
<1>4. QED
  BY <1>1, <1>3, Facts, SettingTypes DEF SyncInv, Setting

\* Steps that commit no event, or drop what was not committed.
LEMMA Settles ==
    ASSUME IInv, IInv', SyncInv, UnreadInv, UNCHANGED <<chain, setting>>, replays' \in Nat,
           disk'.events = disk.events, disk'.rows = disk.rows, disk'.cursor = disk.cursor,
           work' = disk', disk.head <= disk'.head, disk'.head <= ChainHead,
           phase' # "apply",
           phase' # "wait" => toBlock' <= disk'.head,
           phase' # "wait" /\ setting.replays = 0 => disk'.cursor < start'
    PROVE  SyncInv' /\ UnreadInv' /\ FileGrows
<1>1. PICK d, k : d = disk' /\ k = work'
  OBVIOUS
<1>2. disk \in Databases /\ d \in Databases
  BY <1>1, SyncFacts, ChainSame DEF IInv, FileInv
<1>3. Ahead(disk, d) /\ Ahead(d, k)
  BY <1>1, <1>2, AheadSame
<1>4. Ahead(disk, disk') /\ Ahead(disk, work)'
  BY <1>1, <1>3, ChainSame DEF Ahead
<1>5. disk'.cursor <= disk'.head
  <2>1. d.cursor \in Int /\ d.head \in Int /\ disk.head \in Int
    <3>1. d.cursor \in {NoBlock} \cup Nat /\ d.head \in {NoBlock} \cup Nat
      BY <1>2, DatabaseTypes
    <3>2. QED
      BY <3>1, SyncFacts DEF NoBlock
  <2>2. QED
    BY <1>1, <2>1, SyncFacts
<1>6. SyncInv'
  BY <1>4, <1>5, ChainSame DEF SyncInv
<1>7. UnreadInv'
  BY DEF UnreadInv
<1>8. FileGrows
  BY <1>4 DEF FileGrows
<1>9. QED
  BY <1>6, <1>7, <1>8

LEMMA BeginPassSettles ==
    ASSUME IInv, IInv', SyncInv, UnreadInv, UNCHANGED setting, replays' \in Nat,
           NEW to \in Nat, NEW next \in Nat, BeginPass(to, next), phase = "wait",
           setting.replays = 0 => disk.cursor < next
    PROVE  SyncInv' /\ UnreadInv' /\ FileGrows
<1>1. work = disk /\ DOMAIN disk = {"events", "rows", "cursor", "head", "error"}
  BY Facts DEF PassInv
<1>2. PICK new : new = [disk EXCEPT !.head = ChainHead, !.error = "none"]
  OBVIOUS
<1>3. /\ disk' = new /\ work' = new /\ start' = next /\ phase' = "range" /\ chain' = chain
      /\ toBlock' = IF to > ChainHead THEN ChainHead ELSE to
  BY <1>1, <1>2 DEF BeginPass, Commit
<1>4. /\ new.events = disk.events /\ new.rows = disk.rows /\ new.cursor = disk.cursor
      /\ new.head = ChainHead
  BY <1>1, <1>2
<1>5. disk.head <= ChainHead /\ ChainHead <= ChainHead /\ toBlock' <= ChainHead
  BY <1>3, SyncFacts
<1>6. QED
  BY <1>3, <1>4, <1>5, Settles

\* A commit of another error, back to waiting.
LEMMA ErrorSettles ==
    ASSUME IInv, IInv', SyncInv, UnreadInv, UNCHANGED <<chain, setting, replays>>,
           work = disk, NEW e, Commit([work EXCEPT !.error = e]), phase' = "wait"
    PROVE  SyncInv' /\ UnreadInv' /\ FileGrows
<1>1. PICK new : new = [disk EXCEPT !.error = e]
  OBVIOUS
<1>2. disk' = new /\ work' = new /\ DOMAIN disk = {"events", "rows", "cursor", "head", "error"}
  BY <1>1, Facts DEF Commit
<1>3. /\ new.events = disk.events /\ new.rows = disk.rows /\ new.cursor = disk.cursor
      /\ new.head = disk.head
  BY <1>1, <1>2
<1>4. disk.head <= disk.head /\ disk.head <= ChainHead /\ replays \in Nat
  BY SyncFacts DEF SyncInv
<1>5. QED
  BY <1>2, <1>3, <1>4, Settles

\* Steps that leave the file as it is.
LEMMA FileStays ==
    ASSUME IInv, SyncInv, disk' = disk
    PROVE  FileGrows
<1>1. Ahead(disk, disk)
  BY SyncFacts, AheadSame
<1>2. QED
  BY <1>1, SyncFacts DEF FileGrows

LEMMA ChainSettles ==
    ASSUME IInv, IInv', SyncInv, UnreadInv, ChainStep, UNCHANGED setting
    PROVE  SyncInv' /\ UnreadInv' /\ FileGrows
<1>1. ChainGrows /\ UNCHANGED <<disk, work, syncVars, boundVars>>
  BY ChainStepGrows, Facts
<1>2. /\ disk' = disk /\ work' = work /\ phase' = phase /\ start' = start /\ end' = end
      /\ toBlock' = toBlock /\ replays' = replays /\ setting' = setting
  BY <1>1 DEF syncVars, boundVars
<1>3. disk.head <= ChainHead'
  <2>1. ChainHead' \in Int /\ ChainHead <= ChainHead'
    <3>1. Len(chain') \in 1..MaxBlocks + 1
      BY DEF IInv, ChainInv
    <3>2. QED
      BY <1>1, <3>1 DEF ChainGrows, ChainHead
  <2>2. QED
    BY <2>1, SyncFacts
<1>4. Ahead(disk, work)'
  <2>1. \A c \in disk.events : LogAt(c)' = LogAt(c)
    BY <1>1, SyncFacts, DatabaseTypes DEF ChainGrows
  <2>2. Ahead(disk, work)
    BY DEF SyncInv
  <2>3. QED
    BY <1>2, <2>1, <2>2 DEF Ahead
<1>5. SyncInv'
  BY <1>2, <1>3, <1>4 DEF SyncInv
<1>6. UnreadInv'
  BY <1>2 DEF UnreadInv
<1>7. QED
  BY <1>2, <1>5, <1>6, FileStays

LEMMA FetchSettles ==
    ASSUME IInv, IInv', SyncInv, UnreadInv, Fetch, UNCHANGED setting
    PROVE  SyncInv' /\ UnreadInv' /\ FileGrows
<1>1. PICK refused : LET reply == GetLogsBisect(refused)[<<start, ChunkEnd>>]
                     IN  IF reply.ok THEN Fetched(reply.ids) ELSE FetchFailed
  BY DEF Fetch
<1>2. /\ phase = "fetch" /\ start <= toBlock /\ chain' = chain /\ work = disk
      /\ replays' = replays
  BY Facts DEF Fetch, PassInv
<1>3. CASE FetchFailed
  BY <1>2, <1>3, ErrorSettles DEF FetchFailed
<1>4. CASE ~FetchFailed
  <2>1. /\ disk' = disk /\ work' = work /\ start' = start /\ toBlock' = toBlock
        /\ end' = ChunkEnd /\ phase' = "apply"
    BY <1>1, <1>4 DEF Fetched
  <2>2. ChunkEnd <= toBlock
    BY <1>2, ChunkBounds, Facts, IndexerAssumption DEF ChunkEnd
  <2>3. SyncInv'
    <3>1. Ahead(disk, work)'
      BY <1>2, <2>1, ChainSame DEF SyncInv, Ahead
    <3>2. QED
      BY <1>2, <2>1, <2>2, <3>1, ChainSame DEF SyncInv
  <2>4. UnreadInv'
    BY <1>2, <2>1 DEF UnreadInv
  <2>5. QED
    BY <2>1, <2>3, <2>4, FileStays
<1>5. QED
  BY <1>3, <1>4

LEMMA ApplySettles ==
    ASSUME IInv, IInv', SyncInv, UnreadInv, Apply, UNCHANGED setting
    PROVE  SyncInv' /\ UnreadInv' /\ FileGrows
<1>1. PICK id, k : id = batch[1] /\ k = ApplyLog(work, id)
  OBVIOUS
<1>2. /\ phase = "apply" /\ batch # <<>> /\ work' = k
      /\ chain' = chain /\ disk' = disk /\ phase' = "apply"
      /\ start' = start /\ toBlock' = toBlock /\ end' = end /\ replays' = replays
  BY <1>1 DEF Apply, boundVars
<1>3. batch \in Seq(OnChain) /\ BatchInv
  BY <1>2, Facts DEF PassInv
<1>4. 1 \in DOMAIN batch /\ id \in OnChain /\ start <= id[1] /\ id[1] <= end
  BY <1>1, <1>2, <1>3 DEF BatchInv
<1>5. /\ k \in Databases /\ Ahead(work, k) /\ k.events \subseteq work.events \cup {id}
      /\ k.head = work.head
  BY <1>1, <1>4, ApplyAhead, SyncFacts, Facts
<1>6. Ahead(disk, k)
  BY <1>5, SyncFacts, AheadThrough DEF SyncInv
<1>7. SyncInv'
  <2>1. Ahead(disk, work)'
    BY <1>2, <1>6, ChainSame DEF Ahead
  <2>2. QED
    BY <1>2, <1>5, <2>1, ChainSame DEF SyncInv
<1>8. UnreadInv'
  BY <1>2, <1>4, <1>5 DEF UnreadInv
<1>9. QED
  BY <1>2, <1>7, <1>8, FileStays

LEMMA EndOfChunkSettles ==
    ASSUME IInv, IInv', SyncInv, UnreadInv, EndOfChunk, UNCHANGED setting
    PROVE  SyncInv' /\ UnreadInv' /\ FileGrows
<1>1. PICK new : new = [work EXCEPT !.cursor = end, !.error = "none"]
  OBVIOUS
<1>2. /\ disk' = new /\ work' = new /\ start' = end + 1 /\ phase' = "fetch" /\ chain' = chain
      /\ toBlock' = toBlock /\ phase = "apply" /\ replays' = replays /\ setting' = setting
  BY <1>1 DEF EndOfChunk, Commit, boundVars
<1>3. /\ new.events = work.events /\ new.rows = work.rows /\ new.cursor = end
      /\ new.head = disk.head
  BY <1>1, Facts DEF SyncInv
<1>4. new \in Databases /\ disk \in Databases /\ work \in Databases
  BY <1>2, SyncFacts, ChainSame DEF IInv, FileInv
<1>5. Ahead(disk, new)
  <2>1. Ahead(work, new)
    BY <1>3, <1>4, AheadSame
  <2>2. QED
    BY <1>4, <2>1, AheadThrough DEF SyncInv
<1>6. SyncInv'
  <2>1. Ahead(new, new)
    BY <1>4, AheadSame
  <2>2. Ahead(disk, work)'
    BY <1>2, <2>1, ChainSame DEF Ahead
  <2>3. end <= disk.head /\ toBlock <= disk.head
    BY <1>2, SyncFacts, Facts DEF SyncInv
  <2>4. QED
    BY <1>2, <1>3, <2>2, <2>3, ChainSame DEF SyncInv
<1>7. ASSUME setting.replays = 0
      PROVE  /\ \A id \in new.events : id[1] <= end
             /\ \A p \in disk.events, q \in new.events \ disk.events : Before(p, q)
  <2>1. /\ \A id \in disk.events : id[1] <= disk.cursor
        /\ disk.cursor < start
        /\ \A id \in work.events \ disk.events : start <= id[1] /\ id[1] <= end
    BY <1>2, <1>7 DEF UnreadInv
  <2>2. start <= end /\ start \in Int /\ end \in Int /\ disk.cursor \in Int
    BY <1>2, Facts, SyncFacts DEF PassInv, BatchInv
  <2>3. \A id \in disk.events \cup new.events : id[1] \in Int
    <3>1. disk.events \subseteq OnChain /\ new.events \subseteq OnChain
      BY <1>4, DatabaseTypes
    <3>2. \A id \in OnChain : id[1] \in Int
      BY ChainTypes, Facts
    <3>3. QED
      BY <3>1, <3>2
  <2>4. ASSUME NEW id \in new.events
        PROVE  id[1] <= end
    BY <1>3, <2>1, <2>2, <2>3
  <2>5. ASSUME NEW p \in disk.events, NEW q \in new.events \ disk.events
        PROVE  Before(p, q)
    <3>1. p[1] <= disk.cursor /\ start <= q[1] /\ p[1] \in Int /\ q[1] \in Int
      BY <1>3, <2>1, <2>3
    <3>2. QED
      BY <2>1, <2>2, <3>1 DEF Before
  <2>6. QED
    BY <2>4, <2>5
<1>8. UnreadInv'
  <2>1. end < end + 1
    BY Facts
  <2>2. QED
    BY <1>2, <1>3, <1>7, <2>1 DEF UnreadInv
<1>9. FileGrows
  <2>1. disk.head <= new.head
    BY <1>3, SyncFacts
  <2>2. QED
    BY <1>2, <1>5, <1>7, <2>1 DEF FileGrows
<1>10. QED
  BY <1>6, <1>8, <1>9

LEMMA SyncSettles ==
    ASSUME IInv, IInv', SyncInv, UnreadInv, [Next]_vars
    PROVE  SyncInv' /\ UnreadInv' /\ FileGrows
<1>1. CASE UNCHANGED vars
  <2>1. /\ chain' = chain /\ setting' = setting /\ disk' = disk /\ work' = work
        /\ phase' = phase /\ start' = start /\ toBlock' = toBlock /\ end' = end
        /\ replays' = replays
    BY <1>1 DEF vars, syncVars, boundVars
  <2>2. Ahead(disk, work)'
    BY <2>1, ChainSame DEF SyncInv, Ahead
  <2>3. SyncInv' /\ UnreadInv'
    BY <2>1, <2>2, ChainSame DEF SyncInv, UnreadInv
  <2>4. QED
    BY <2>1, <2>3, FileStays
<1>2. CASE Next
  <2>0. /\ UNCHANGED setting /\ replays \in Nat /\ disk.cursor \in {NoBlock} \cup Nat
        /\ setting.fromBlock \in Nat \ {0} /\ setting.replays \in Nat
    BY <1>2, Facts, SettingTypes, SyncFacts DEF Next, SyncInv, Setting
  <2>1. CASE ChainStep
    BY <2>0, <2>1, ChainSettles
  <2>2. CASE Poll
    <3>1. PICK next : next = IF disk.cursor = NoBlock THEN setting.fromBlock ELSE disk.cursor + 1
      OBVIOUS
    <3>2. next \in Nat /\ disk.cursor < next
      BY <2>0, <3>1 DEF NoBlock
    <3>3. phase = "wait" /\ BeginPass(ChainHead, next) /\ replays' = replays
      BY <2>2, <3>1 DEF Poll, boundVars
    <3>4. QED
      BY <2>0, <3>2, <3>3, Facts, BeginPassSettles
  <2>3. CASE Replay
    <3>1. PICK from \in 1..MaxBlocks, to \in 1..MaxBlocks : BeginPass(to, from)
      BY <2>3 DEF Replay
    <3>2. phase = "wait" /\ replays' \in Nat /\ setting.replays # 0
      BY <2>0, <2>3 DEF Replay
    <3>3. QED
      BY <2>0, <3>1, <3>2, Facts, BeginPassSettles
  <2>4. CASE NothingNew
    BY <2>0, <2>4, Facts, ErrorSettles DEF NothingNew, PassInv, boundVars
  <2>5. CASE SomethingNew
    <3>1. /\ disk' = disk /\ work' = work /\ chain' = chain /\ start' = start
          /\ toBlock' = toBlock /\ replays' = replays
          /\ phase = "range" /\ phase' = "fetch" /\ work = disk
      BY <2>5, Facts DEF SomethingNew, boundVars, PassInv
    <3>2. toBlock <= disk.head /\ (setting.replays = 0 => disk.cursor < start)
      BY <3>1 DEF SyncInv, UnreadInv
    <3>3. QED
      BY <2>0, <3>1, <3>2, SyncFacts, Settles
  <2>6. CASE Fetch
    BY <2>0, <2>6, FetchSettles
  <2>7. CASE Apply
    BY <2>0, <2>7, ApplySettles
  <2>8. CASE EndOfChunk
    BY <2>0, <2>8, EndOfChunkSettles
  <2>9. CASE EndOfPass \/ Crash
    <3>1. disk' = disk /\ work' = disk /\ chain' = chain /\ replays' = replays /\ phase' = "wait"
      BY <2>9, Facts DEF EndOfPass, Crash, boundVars, PassInv
    <3>2. QED
      BY <2>0, <3>1, SyncFacts, Settles
  <2>10. QED
    BY <1>2, <2>1, <2>2, <2>3, <2>4, <2>5, <2>6, <2>7, <2>8, <2>9 DEF Next, SyncStep
<1>3. QED
  BY <1>1, <1>2

-------------------------------------------------------------------------------
(* Sums *)

Total(pools) == SumFunctionOnSet(pools, Tickets)

\* The sum over the tickets is the sum of a pool each.
LEMMA SumOfPools ==
    ASSUME NEW pools
    PROVE  MapThenSumSet(LAMBDA t : pools[t], Tickets) = Total(pools)
BY DEF MapThenSumSet, MapThenFoldSet, Total, SumFunctionOnSet, FoldFunctionOnSet

LEMMA TotalRises ==
    ASSUME NEW a \in [Tickets -> Nat], NEW b \in [Tickets -> Nat], \A t \in Tickets : a[t] <= b[t]
    PROVE  Total(a) \in Nat /\ Total(b) \in Nat /\ Total(a) <= Total(b)
<1>1. IsFiniteSet(Tickets)
  BY IndexerAssumption
<1>2. Total(a) \in Nat /\ Total(b) \in Nat
  BY <1>1, SumNat DEF Total
<1>3. \A t \in Tickets : a[t] \in Nat /\ b[t] \in Nat /\ a[t] * 1 <= b[t] * 1
  OBVIOUS
<1>4. SumFunctionOnSet(a, Tickets) * 1 <= SumFunctionOnSet(b, Tickets) * 1
  BY <1>1, <1>3, SumScaledBound
<1>5. QED
  BY <1>2, <1>4 DEF Total

\* The pools of a row add up to no more than the wager's events.
LEMMA EventsAccount ==
    ASSUME IInv, NEW w \in AllWagers, disk.rows[w].known
    PROVE  /\ disk.rows[w].pools \in [Tickets -> Nat]
           /\ Indexed(w) \subseteq OnChain /\ IsFiniteSet(Indexed(w))
           /\ SumFunctionOnSet(Amount, Indexed(w)) \in Nat
           /\ Total(disk.rows[w].pools) <= SumFunctionOnSet(Amount, Indexed(w))
<1>1. ChainInv /\ FileInv(disk)
  BY DEF IInv
<1>2. PICK db, ids : db = disk /\ ids = EventsOf(db, w)
  OBVIOUS
<1>3. Indexed(w) = ids
  BY <1>2 DEF Indexed, EventsOf
<1>4. /\ db.rows[w].pools \in [Tickets -> Nat] /\ ids \subseteq OnChain /\ IsFiniteSet(ids)
      /\ SumFunctionOnSet(Amount, ids) \in Nat
      /\ SumFunctionOnSet(db.rows[w].pools, Tickets) = SumFunctionOnSet(Amount, ids)
  BY <1>1, <1>2, PoolsAddUp
<1>5. QED
  BY <1>2, <1>3, <1>4 DEF Total

-------------------------------------------------------------------------------
(* The parts of an answer *)

LEMMA WithPart ==
    ASSUME NEW part, NEW value, Reads(part, value)
    PROVE  /\ part \notin DOMAIN bundle /\ DOMAIN bundle' = DOMAIN bundle \cup {part}
           /\ bundle'[part] = value
           /\ \A p \in DOMAIN bundle : bundle'[p] = bundle[p]
BY DEF Reads, With

\* What has been read of a wager, next to the file as it is now.
WagerBundle ==
    /\ target \in AllWagers /\ disk.rows[target].known
    /\ "state" \in DOMAIN bundle
    /\ DOMAIN bundle \subseteq {"state", "totals", "pools", "events"}
    /\ bundle.state = "RESOLVED" => disk.rows[target].winner # 0
    /\ "totals" \in DOMAIN bundle =>
        /\ bundle.state = "RESOLVED" => bundle.totals.winner # 0
        /\ bundle.totals.pot \in Nat
        /\ bundle.totals.pot <= Total(disk.rows[target].pools)
    /\ "pools" \in DOMAIN bundle =>
        /\ "totals" \in DOMAIN bundle
        /\ Total(bundle.pools) \in Nat /\ bundle.totals.pot <= Total(bundle.pools)
        /\ Total(bundle.pools) <= SumFunctionOnSet(Amount, Indexed(target))
    /\ "events" \in DOMAIN bundle =>
        /\ "pools" \in DOMAIN bundle /\ bundle.events \subseteq OnChain
        /\ Total(bundle.pools) <= SumFunctionOnSet(Amount, bundle.events)

HealthBundle ==
    /\ "cursor" \in DOMAIN bundle => bundle.cursor \in Int /\ bundle.cursor <= disk.head
    /\ "head" \in DOMAIN bundle => "cursor" \in DOMAIN bundle /\ bundle.cursor <= bundle.head

RequestInv ==
    /\ request = "none" => bundle = <<>>
    /\ request = "wager" => WagerBundle
    /\ request = "health" => HealthBundle
    /\ request = "list" => "list" \in setting.requests

LEMMA AskWagerReads ==
    ASSUME IInv, SyncInv, RequestInv, AskWager
    PROVE  RequestInv'
<1>1. PICK w \in AllWagers :
        /\ disk.rows[w].known
        /\ request' = "wager" /\ target' = w /\ bundle' = [state |-> disk.rows[w].state]
  BY DEF AskWager
<1>2. disk' = disk
  BY DEF AskWager, vars
<1>3. DOMAIN bundle' = {"state"} /\ bundle'.state = disk.rows[w].state
  BY <1>1
<1>4. disk.rows[w].state = "RESOLVED" => disk.rows[w].winner # 0
  BY <1>1 DEF IInv, FileInv, RowSound
<1>5. WagerBundle'
  BY <1>1, <1>2, <1>3, <1>4 DEF WagerBundle
<1>6. QED
  BY <1>1, <1>5 DEF RequestInv

LEMMA ReadWagerPartReads ==
    ASSUME IInv, SyncInv, RequestInv, ReadWagerPart
    PROVE  RequestInv'
<1>1. /\ request = "wager" /\ request' = "wager" /\ target' = target /\ chain' = chain
      /\ disk' = disk /\ WagerBundle
  BY DEF ReadWagerPart, RequestInv, vars
<1>2. /\ OnChain' = OnChain /\ Amount' = Amount /\ Indexed(target)' = Indexed(target)
  BY <1>1, ChainSame DEF Indexed
<1>3. PICK row : row = disk.rows[target]
  OBVIOUS
<1>4. /\ row \in KnownRows /\ row.pools \in [Tickets -> Nat] /\ row.pot \in Nat
      /\ Total(row.pools) \in Nat /\ row.pot <= Total(row.pools)
  <2>1. row \in KnownRows /\ row.pools \in [Tickets -> Nat] /\ RowSound(row)
    BY <1>1, <1>3, SyncFacts, AheadTyped DEF WagerBundle, IInv, FileInv
  <2>2. Total(row.pools) \in Nat
    BY <2>1, TotalRises DEF Total
  <2>3. QED
    BY <2>1, <2>2 DEF KnownRows, RowSound, Total
<1>5. /\ Indexed(target) \subseteq OnChain
      /\ Total(row.pools) <= SumFunctionOnSet(Amount, Indexed(target))
  BY <1>1, <1>3, EventsAccount DEF WagerBundle
<1>6. PICK n \in DOMAIN WagerParts :
        /\ \A k \in 1..n - 1 : WagerParts[k] \in DOMAIN bundle
        /\ Reads(WagerParts[n], PartOf(WagerParts[n]))
  BY DEF ReadWagerPart
<1>7. DOMAIN WagerParts = 1..3 /\ WagerParts[1] = "totals" /\ WagerParts[2] = "pools"
      /\ WagerParts[3] = "events"
  BY DEF WagerParts
<1>8. CASE n = 1
  <2>1. Reads("totals", [pot |-> row.pot, winner |-> row.winner])
    BY <1>3, <1>6, <1>7, <1>8 DEF PartOf
  <2>2. /\ "totals" \notin DOMAIN bundle /\ DOMAIN bundle' = DOMAIN bundle \cup {"totals"}
        /\ bundle'.totals = [pot |-> row.pot, winner |-> row.winner]
        /\ \A p \in DOMAIN bundle : bundle'[p] = bundle[p]
    BY <2>1, WithPart
  <2>3. "pools" \notin DOMAIN bundle /\ "events" \notin DOMAIN bundle
    BY <1>1, <2>2 DEF WagerBundle
  <2>4. WagerBundle'
    BY <1>1, <1>2, <1>3, <1>4, <2>2, <2>3 DEF WagerBundle
  <2>5. QED
    BY <1>1, <2>4 DEF RequestInv
<1>9. CASE n = 2
  <2>1. "totals" \in DOMAIN bundle
    BY <1>6, <1>7, <1>9
  <2>2. Reads("pools", row.pools)
    BY <1>3, <1>6, <1>7, <1>9 DEF PartOf
  <2>3. /\ "pools" \notin DOMAIN bundle /\ DOMAIN bundle' = DOMAIN bundle \cup {"pools"}
        /\ bundle'.pools = row.pools
        /\ \A p \in DOMAIN bundle : bundle'[p] = bundle[p]
    BY <2>2, WithPart
  <2>4. "events" \notin DOMAIN bundle
    BY <1>1, <2>3 DEF WagerBundle
  <2>5. WagerBundle'
    BY <1>1, <1>2, <1>3, <1>4, <1>5, <2>1, <2>3, <2>4 DEF WagerBundle
  <2>6. QED
    BY <1>1, <2>5 DEF RequestInv
<1>10. CASE n = 3
  <2>1. "pools" \in DOMAIN bundle
    BY <1>6, <1>7, <1>10
  <2>2. Reads("events", Indexed(target))
    BY <1>6, <1>7, <1>10 DEF PartOf
  <2>3. /\ "events" \notin DOMAIN bundle /\ DOMAIN bundle' = DOMAIN bundle \cup {"events"}
        /\ bundle'.events = Indexed(target)
        /\ \A p \in DOMAIN bundle : bundle'[p] = bundle[p]
    BY <2>2, WithPart
  <2>4. WagerBundle'
    BY <1>1, <1>2, <1>5, <2>1, <2>3 DEF WagerBundle
  <2>5. QED
    BY <1>1, <2>4 DEF RequestInv
<1>11. QED
  BY <1>6, <1>7, <1>8, <1>9, <1>10

LEMMA HealthReads ==
    ASSUME IInv, SyncInv, RequestInv, AskHealth \/ ReadHealthPart
    PROVE  RequestInv'
<1>1. disk' = disk /\ request' = "health"
  BY DEF AskHealth, ReadHealthPart, vars
<1>2. CASE AskHealth
  <2>1. DOMAIN bundle' = {"count"}
    BY <1>2 DEF AskHealth
  <2>2. HealthBundle'
    BY <2>1 DEF HealthBundle
  <2>3. QED
    BY <1>1, <2>2 DEF RequestInv
<1>3. CASE ReadHealthPart
  <2>1. HealthBundle
    BY <1>3 DEF ReadHealthPart, RequestInv
  <2>2. PICK n \in DOMAIN HealthParts :
          /\ \A k \in 1..n - 1 : HealthParts[k] \in DOMAIN bundle
          /\ Reads(HealthParts[n], CASE HealthParts[n] = "error" -> disk.error
                                     [] HealthParts[n] = "cursor" -> disk.cursor
                                     [] HealthParts[n] = "head" -> disk.head)
    BY <1>3 DEF ReadHealthPart
  <2>3. DOMAIN HealthParts = 1..3 /\ HealthParts[1] = "error" /\ HealthParts[2] = "cursor"
        /\ HealthParts[3] = "head"
    BY DEF HealthParts
  <2>4. disk.cursor \in Int /\ disk.cursor <= disk.head
    BY SyncFacts
  <2>5. HealthBundle'
    <3>1. CASE n = 1
      <4>1. Reads("error", disk.error)
        BY <2>2, <2>3, <3>1
      <4>2. /\ "error" \notin DOMAIN bundle /\ DOMAIN bundle' = DOMAIN bundle \cup {"error"}
            /\ \A p \in DOMAIN bundle : bundle'[p] = bundle[p]
        BY <4>1, WithPart
      <4>3. "cursor" \in DOMAIN bundle' =>
              "cursor" \in DOMAIN bundle /\ bundle'.cursor = bundle.cursor
        BY <4>2
      <4>4. "head" \in DOMAIN bundle' => "head" \in DOMAIN bundle /\ bundle'.head = bundle.head
        BY <4>2
      <4>5. QED
        BY <1>1, <2>1, <4>2, <4>3, <4>4 DEF HealthBundle
    <3>2. CASE n = 2
      <4>1. Reads("cursor", disk.cursor)
        BY <2>2, <2>3, <3>2
      <4>2. /\ "cursor" \notin DOMAIN bundle /\ DOMAIN bundle' = DOMAIN bundle \cup {"cursor"}
            /\ bundle'.cursor = disk.cursor
        BY <4>1, WithPart
      <4>3. "head" \notin DOMAIN bundle'
        BY <2>1, <4>2 DEF HealthBundle
      <4>4. bundle'.cursor \in Int /\ bundle'.cursor <= disk'.head
        BY <1>1, <2>4, <4>2
      <4>5. QED
        BY <4>3, <4>4 DEF HealthBundle
    <3>3. CASE n = 3
      <4>1. Reads("head", disk.head) /\ "cursor" \in DOMAIN bundle
        BY <2>2, <2>3, <3>3
      <4>2. /\ "head" \notin DOMAIN bundle /\ DOMAIN bundle' = DOMAIN bundle \cup {"head"}
            /\ bundle'.head = disk.head /\ bundle'.cursor = bundle.cursor
        BY <4>1, WithPart
      <4>3. QED
        BY <1>1, <2>1, <4>1, <4>2 DEF HealthBundle
    <3>4. QED
      BY <2>2, <2>3, <3>1, <3>2, <3>3
  <2>6. QED
    BY <1>1, <2>5 DEF RequestInv
<1>4. QED
  BY <1>2, <1>3

\* A commit between two statements disturbs nothing that has been read.
LEMMA CommitsBetween ==
    ASSUME IInv, IInv', SyncInv, FileGrows, RequestInv, [Next]_vars, UNCHANGED apiVars
    PROVE  RequestInv'
<1>1. /\ request' = request /\ target' = target /\ bundle' = bundle
      /\ OnChain \subseteq OnChain' /\ setting' = setting
      /\ \A id \in OnChain : LogAt(id)' = LogAt(id)
  <2>1. CASE ChainStep
    <3>1. setting' = setting
      BY DEF Next, vars
    <3>2. ChainGrows
      BY <2>1, <3>1, ChainStepGrows, Facts
    <3>3. QED
      BY <3>2 DEF ChainGrows, apiVars
  <2>2. CASE ~ChainStep
    <3>1. chain' = chain /\ setting' = setting
      BY <2>2 DEF Next, SyncStep, Poll, Replay, NothingNew, SomethingNew, Fetch, Apply,
                  EndOfChunk, EndOfPass, Crash, BeginPass, vars
    <3>2. QED
      BY <3>1, ChainSame DEF apiVars
  <2>3. QED
    BY <2>1, <2>2
<1>2. /\ disk \in Databases /\ disk' \in Databases' /\ disk.events \subseteq OnChain
      /\ disk.head \in Int /\ disk'.head \in Int /\ disk.head <= disk'.head
      /\ Ahead(disk, disk')
  <2>1. disk' \in Databases'
    BY DEF IInv, FileInv
  <2>2. disk'.head \in {NoBlock} \cup Nat
    BY <2>1 DEF Databases
  <2>3. disk'.head \in Int /\ disk.head \in Int
    BY <2>2, SyncFacts DEF NoBlock
  <2>4. disk \in Databases /\ disk.events \subseteq OnChain
    BY SyncFacts, DatabaseTypes
  <2>5. QED
    BY <2>1, <2>3, <2>4 DEF FileGrows
<1>3. ASSUME request = "wager"
      PROVE  WagerBundle'
  <2>1. WagerBundle /\ target \in AllWagers /\ disk.rows[target].known
    BY <1>3 DEF RequestInv, WagerBundle
  <2>2. /\ disk'.rows[target].known
        /\ disk.rows[target].winner # 0 => disk'.rows[target].winner # 0
        /\ \A t \in Tickets : disk.rows[target].pools[t] <= disk'.rows[target].pools[t]
    BY <1>2, <2>1 DEF Ahead
  <2>3. /\ Total(disk.rows[target].pools) \in Nat
        /\ Total(disk'.rows[target].pools) \in Nat
        /\ Total(disk.rows[target].pools) <= Total(disk'.rows[target].pools)
    <3>1. disk.rows[target].pools \in [Tickets -> Nat]
      BY <1>2, <2>1, AheadTyped
    <3>2. disk'.rows[target].pools \in [Tickets -> Nat]
      <4>1. disk'.rows \in [AllWagers -> RowTypes]
        BY <1>2 DEF Databases, RowTypes
      <4>2. disk'.rows[target] \in RowTypes
        BY <2>1, <4>1
      <4>3. disk'.rows[target] \in KnownRows
        BY <2>2, <4>2, RowsKnown
      <4>4. QED
        BY <4>3, RowsKnown
    <3>3. PICK a, b : a = disk.rows[target].pools /\ b = disk'.rows[target].pools
      OBVIOUS
    <3>4. Total(a) \in Nat /\ Total(b) \in Nat /\ Total(a) <= Total(b)
      BY <2>2, <3>1, <3>2, <3>3, TotalRises
    <3>5. QED
      BY <3>3, <3>4
  <2>4. /\ \A S \in SUBSET OnChain :
              SumFunctionOnSet(Amount', S) = SumFunctionOnSet(Amount, S)
    <3>1. ASSUME NEW S \in SUBSET OnChain
          PROVE  SumFunctionOnSet(Amount', S) = SumFunctionOnSet(Amount, S)
      <4>1. PICK f, g : f = Amount /\ g = Amount'
        OBVIOUS
      <4>2. \A id \in S : f[id] \in Int /\ f[id] = g[id]
        <5>1. \A id \in S : f[id] = LogAt(id).amount /\ g[id] = LogAt(id)'.amount
          BY <1>1, <4>1 DEF Amount
        <5>2. \A id \in S : LogAt(id).amount \in Nat
          BY ChainTypes, Facts DEF LogTypes
        <5>3. QED
          BY <1>1, <5>1, <5>2
      <4>3. IsFiniteSet(S)
        BY Facts, FS_Subset DEF ChainInv
      <4>4. QED
        BY <4>1, <4>2, <4>3, SumEqual
    <3>2. QED
      BY <3>1
  <2>5. /\ Indexed(target) \subseteq OnChain
        /\ SumFunctionOnSet(Amount, Indexed(target)) \in Nat
        /\ SumFunctionOnSet(Amount, Indexed(target))
             <= SumFunctionOnSet(Amount', Indexed(target)')
        /\ SumFunctionOnSet(Amount', Indexed(target)') \in Nat
    <3>1. /\ Indexed(target) \subseteq OnChain /\ Indexed(target) \subseteq Indexed(target)'
          /\ SumFunctionOnSet(Amount, Indexed(target)) \in Nat
      BY <1>1, <1>2, <2>1, EventsAccount DEF Indexed, Ahead
    <3>2. PICK S, B, g : S = Indexed(target) /\ B = Indexed(target)' /\ g = Amount'
      OBVIOUS
    <3>3. B \subseteq OnChain' /\ IsFiniteSet(B) /\ \A id \in B : g[id] \in Nat
      <4>1. ChainInv' /\ disk'.events \subseteq OnChain'
        BY <1>2 DEF IInv, Databases
      <4>2. B \subseteq OnChain'
        BY <3>2, <4>1 DEF Indexed
      <4>3. \A id \in OnChain' : LogAt(id)'.amount \in Nat
        BY <4>1 DEF ChainInv, WellFormed, LogTypes
      <4>4. QED
        BY <3>2, <4>1, <4>2, <4>3, FS_Subset DEF ChainInv, Amount
    <3>4. SumFunctionOnSet(g, S) <= SumFunctionOnSet(g, B)
          /\ SumFunctionOnSet(g, B) \in Nat
      <4>1. PICK N : N = B \ S
        OBVIOUS
      <4>2. IsFiniteSet(S) /\ IsFiniteSet(N) /\ S \cap N = {} /\ S \cup N = B
        BY <3>1, <3>2, <3>3, <4>1, FS_Subset
      <4>3. SumFunctionOnSet(g, B) = SumFunctionOnSet(g, S) + SumFunctionOnSet(g, N)
        <5>1. \A id \in S \cup N : g[id] \in Int
          BY <3>3, <4>2
        <5>2. SumFunctionOnSet(g, S \cup N) = SumFunctionOnSet(g, S) + SumFunctionOnSet(g, N)
          BY <4>2, <5>1, SumUnion
        <5>3. QED
          BY <4>2, <5>2
      <4>4. SumFunctionOnSet(g, S) \in Nat /\ SumFunctionOnSet(g, N) \in Nat
        BY <3>3, <4>2, SumNat
      <4>5. QED
        BY <4>3, <4>4
    <3>5. SumFunctionOnSet(g, S) = SumFunctionOnSet(Amount, S)
      BY <2>4, <3>1, <3>2
    <3>6. QED
      BY <3>1, <3>2, <3>4, <3>5
  <2>6. QED
    BY <1>1, <2>1, <2>2, <2>3, <2>4, <2>5 DEF WagerBundle
<1>4. ASSUME request = "health"
      PROVE  HealthBundle'
  BY <1>1, <1>2, <1>4 DEF RequestInv, HealthBundle
<1>5. QED
  BY <1>1, <1>3, <1>4 DEF RequestInv

\* What is asked or sent between the commits.
LEMMA RequestsKeep ==
    ASSUME IInv, IInv', SyncInv, FileGrows, RequestInv, [APINext]_allVars
    PROVE  RequestInv'
<1>1. CASE [Next]_vars /\ UNCHANGED apiVars
  BY <1>1, CommitsBetween
<1>2. CASE AskWager
  BY <1>2, AskWagerReads
<1>3. CASE ReadWagerPart
  BY <1>3, ReadWagerPartReads
<1>4. CASE AskHealth \/ ReadHealthPart
  BY <1>4, HealthReads
<1>5. CASE StartWalk
  <2>1. request' = "list" /\ "list" \in setting.requests /\ setting' = setting
    BY <1>5 DEF StartWalk, vars
  <2>2. QED
    BY <2>1 DEF RequestInv
<1>6. CASE NextPage
  <2>1. request' = "list" /\ request = "list" /\ setting' = setting
    BY <1>6 DEF NextPage, vars
  <2>2. QED
    BY <2>1 DEF RequestInv
<1>7. CASE Send
  <2>1. request' = "none" /\ bundle' = <<>>
    BY <1>7 DEF Send
  <2>2. QED
    BY <2>1 DEF RequestInv
<1>8. CASE UNCHANGED allVars
  BY <1>1, <1>8 DEF allVars
<1>9. QED
  BY <1>1, <1>2, <1>3, <1>4, <1>5, <1>6, <1>7, <1>8 DEF APINext, APIStep

LEMMA APIInitHolds ==
    ASSUME APIInit
    PROVE  IInv /\ SyncInv /\ UnreadInv /\ RequestInv
<1>1. Init /\ request = "none" /\ bundle = <<>>
  BY DEF APIInit
<1>2. IInv
  BY <1>1, InitHolds
<1>3. /\ disk = Empty /\ work = Empty /\ phase = "wait" /\ replays = 0
      /\ ChainHead = 0
  BY <1>1 DEF Init, ChainHead
<1>4. Ahead(disk, work)
  <2>1. disk \in Databases
    BY <1>2 DEF IInv, FileInv
  <2>2. QED
    BY <1>3, <2>1, AheadSame
<1>5. SyncInv
  BY <1>3, <1>4 DEF SyncInv, Empty, NoBlock
<1>6. UnreadInv
  BY <1>3 DEF UnreadInv, Empty
<1>7. RequestInv
  BY <1>1 DEF RequestInv
<1>8. QED
  BY <1>2, <1>5, <1>6, <1>7

LEMMA APINextKeeps ==
    ASSUME IInv, SyncInv, UnreadInv, RequestInv, [APINext]_allVars
    PROVE  IInv' /\ SyncInv' /\ UnreadInv' /\ RequestInv' /\ FileGrows
<1>1. [Next]_vars
  BY DEF APINext, APIStep, AskWager, ReadWagerPart, AskHealth, ReadHealthPart, StartWalk,
         NextPage, Send, allVars
<1>2. IInv'
  BY <1>1, NextKeeps
<1>3. SyncInv' /\ UnreadInv' /\ FileGrows
  BY <1>1, <1>2, SyncSettles
<1>4. QED
  BY <1>2, <1>3, RequestsKeep

\* The file and the answers over it, through every commit between two statements
\* (api.py over the file that live_api.py's thread writes).
THEOREM APIInductiveInvariant == APISpec => [](IInv /\ SyncInv /\ UnreadInv /\ RequestInv)
<1>1. APIInit => IInv /\ SyncInv /\ UnreadInv /\ RequestInv
  BY APIInitHolds
<1>2. /\ IInv /\ SyncInv /\ UnreadInv /\ RequestInv /\ [APINext]_allVars
      => (IInv /\ SyncInv /\ UnreadInv /\ RequestInv)'
  BY APINextKeeps
<1>3. QED
  BY <1>1, <1>2, PTL DEF APISpec

\* An answer may mix several commits, but in one direction: its events account for its
\* pools, its pools for its pot, a resolved wager comes with its winner, and the cursor
\* is not past the head (get_wager and health of api.py).
THEOREM APIAnswersReadForward == APISpec => []AnswerReadsForward
<1>1. IInv /\ RequestInv => AnswerReadsForward
  <2>1. SUFFICES ASSUME IInv, RequestInv, Answered
                 PROVE  AnswerReadsForward
    BY DEF AnswerReadsForward
  <2>2. CASE request = "wager"
    <3>1. "events" \in DOMAIN bundle /\ "pools" \in DOMAIN bundle /\ WagerBundle
      BY <2>1, <2>2 DEF Answered, RequestInv
    <3>2. PICK pools, events : pools = bundle.pools /\ events = bundle.events
      OBVIOUS
    <3>3. /\ MapThenSumSet(LAMBDA t : pools[t], Tickets) = Total(pools)
          /\ MapThenSumSet(LAMBDA id : LogAt(id).amount, events)
               = SumFunctionOnSet(Amount, events)
      <4>1. events \in SUBSET OnChain
        BY <3>1, <3>2 DEF WagerBundle
      <4>2. MapThenSumSet(LAMBDA id : LogAt(id).amount, events)
              = SumFunctionOnSet(Amount, events)
        BY <2>1, <4>1, SumOfAmounts, Facts
      <4>3. QED
        BY <4>2, SumOfPools
    <3>4. /\ bundle.totals.pot <= Total(pools)
          /\ Total(pools) <= SumFunctionOnSet(Amount, events)
          /\ bundle.state = "RESOLVED" => bundle.totals.winner # 0
      BY <3>1, <3>2 DEF WagerBundle
    <3>5. QED
      BY <2>2, <3>2, <3>3, <3>4 DEF AnswerReadsForward
  <2>3. CASE request = "health"
    BY <2>1, <2>3 DEF Answered, RequestInv, HealthBundle, AnswerReadsForward
  <2>4. CASE request # "wager" /\ request # "health"
    BY <2>4 DEF AnswerReadsForward
  <2>5. QED
    BY <2>2, <2>3, <2>4
<1>2. QED
  BY <1>1, APIInductiveInvariant, PTL

-------------------------------------------------------------------------------
(* A walk of the list *)

\* A replay may index a wager older than those listed, which moves every later row
\* of the list down by one; the daemon serves no list while the operator replays.
NothingReplayed == \A s \in Settings : "list" \in s.requests => s.replays = 0

Listed == {id \in disk.events :
             LogAt(id).event = "Created" /\ disk.rows[LogAt(id).wager].known}

\* A client has the beginning of the list as it is now, or ended with all of it.
WalkInv ==
    request = "list" =>
        /\ DOMAIN walk = {"offset", "received", "initial"} /\ walk.received \in Seq(Ids)
        /\ \A j, k \in DOMAIN walk.received : walk.received[j] = walk.received[k] => j = k
        /\ "end" \notin DOMAIN bundle =>
            /\ walk.offset = Len(walk.received) /\ Len(walk.received) <= Cardinality(Listed)
            /\ \A k \in DOMAIN walk.received : walk.received[k] = InLogOrder(Listed)[k]
            /\ walk.initial \subseteq Listed
        /\ "end" \in DOMAIN bundle =>
            \A id \in walk.initial : \E k \in DOMAIN walk.received : walk.received[k] = id

\* The rows of the list are those of the creations in the file.
LEMMA ListedRows ==
    ASSUME IInv
    PROVE  /\ Listed \in SUBSET Ids /\ IsFiniteSet(Listed) /\ Cardinality(Listed) \in Nat
           /\ Listed \subseteq disk.events /\ disk.events \subseteq OnChain
           /\ {CreationOf(w) : w \in KnownWagers} = Listed
<1>1. ChainInv /\ FileInv(disk) /\ disk.events \subseteq OnChain
  BY Facts, DatabaseTypes DEF FileInv
<1>2. Listed \in SUBSET Ids /\ IsFiniteSet(Listed) /\ Cardinality(Listed) \in Nat
  <2>1. Listed \subseteq OnChain
    BY <1>1 DEF Listed
  <2>2. QED
    BY <1>1, <2>1, ChainTypes, FS_Subset, FS_CardinalityType DEF ChainInv
<1>3. ASSUME NEW w \in KnownWagers
      PROVE  /\ CreationOf(w) \in disk.events /\ LogAt(CreationOf(w)).wager = w
             /\ LogAt(CreationOf(w)).event = "Created"
  <2>1. \E id \in Indexed(w) : LogAt(id).event = "Created"
    BY <1>1 DEF KnownWagers, FileInv, EventsOf, Indexed
  <2>2. CreationOf(w) \in Indexed(w) /\ LogAt(CreationOf(w)).event = "Created"
    BY <2>1 DEF CreationOf
  <2>3. QED
    BY <2>2 DEF Indexed
<1>4. \A w \in KnownWagers : CreationOf(w) \in Listed
  BY <1>3 DEF Listed, KnownWagers
<1>5. ASSUME NEW id \in Listed
      PROVE  \E w \in KnownWagers : id = CreationOf(w)
  <2>1. PICK w : w = LogAt(id).wager
    OBVIOUS
  <2>2. id \in OnChain /\ LogAt(id).event = "Created" /\ disk.rows[w].known
    BY <1>1, <2>1 DEF Listed
  <2>3. w \in KnownWagers
    BY <1>1, <2>1, <2>2, ChainTypes DEF KnownWagers, LogTypes
  <2>4. CreationOf(w) = id
    BY <1>1, <1>3, <2>1, <2>2, <2>3, OneCreation
  <2>5. QED
    BY <2>3, <2>4
<1>6. QED
  BY <1>1, <1>2, <1>4, <1>5 DEF Listed

\* Without a replay the list grows at its end.
LEMMA ListGrows ==
    ASSUME IInv, IInv', FileGrows, [Next]_vars, setting.replays = 0
    PROVE  /\ Listed \in SUBSET Ids /\ Listed' \in SUBSET Ids
           /\ IsFiniteSet(Listed) /\ IsFiniteSet(Listed')
           /\ Listed \subseteq Listed'
           /\ \A p \in Listed, q \in Listed' \ Listed : Before(p, q)
<1>1. Listed \in SUBSET Ids /\ IsFiniteSet(Listed) /\ disk.events \subseteq OnChain
  BY ListedRows
<1>2. Listed' \in SUBSET Ids /\ IsFiniteSet(Listed')
  <2>1. ChainInv' /\ disk'.events \subseteq OnChain'
    BY DEF IInv, FileInv, Databases
  <2>2. Listed' \subseteq OnChain'
    BY <2>1 DEF Listed
  <2>3. OnChain' \subseteq Ids
    <3>1. chain' \in Seq(Seq(LogTypes))
      BY <2>1 DEF ChainInv
    <3>2. \A b \in DOMAIN chain' : b \in Nat \ {0} /\ chain'[b] \in Seq(LogTypes)
      BY <3>1
    <3>3. \A b \in DOMAIN chain' : \A i \in DOMAIN chain'[b] : i \in Nat \ {0}
      BY <3>2
    <3>4. QED
      BY <3>2, <3>3 DEF OnChain, Ids
  <2>4. QED
    BY <2>1, <2>2, <2>3, FS_Subset DEF ChainInv
<1>3. \A id \in OnChain : LogAt(id)' = LogAt(id)
  <2>1. CASE ChainStep
    <3>1. UNCHANGED setting
      BY <2>1 DEF Next, vars
    <3>2. QED
      BY <2>1, <3>1, ChainStepGrows, Facts DEF ChainGrows
  <2>2. CASE ~ChainStep
    <3>1. chain' = chain
      BY <2>2 DEF Next, SyncStep, Poll, Replay, NothingNew, SomethingNew, Fetch, Apply,
                  EndOfChunk, EndOfPass, Crash, BeginPass, vars
    <3>2. QED
      BY <3>1, ChainSame
  <2>3. QED
    BY <2>1, <2>2
<1>4. \A id \in disk.events :
          LogAt(id)' = LogAt(id) /\ LogAt(id).wager \in AllWagers
  BY <1>1, <1>3, Facts, ChainTypes DEF LogTypes
<1>5. Ahead(disk, disk')
  BY DEF FileGrows
<1>6. Listed \subseteq Listed'
  BY <1>4, <1>5 DEF Listed, Ahead
<1>7. ASSUME NEW p \in Listed, NEW q \in Listed', q \notin Listed
      PROVE  Before(p, q)
  <2>1. q \notin disk.events
    <3>1. SUFFICES ASSUME q \in disk.events
                   PROVE  FALSE
      OBVIOUS
    <3>2. PICK w \in AllWagers : w = LogAt(q).wager
      BY <1>4, <3>1
    <3>3. LogAt(q).event = "Created" /\ disk'.rows[w].known
      BY <1>4, <1>7, <3>1, <3>2 DEF Listed
    <3>4. ~disk.rows[w].known
      BY <1>7, <3>1, <3>2, <3>3 DEF Listed
    <3>5. QED
      BY <1>5, <3>1, <3>2, <3>3, <3>4 DEF Ahead
  <2>2. QED
    BY <2>1 DEF FileGrows, Listed
<1>8. QED
  BY <1>1, <1>2, <1>6, <1>7

\* A page put behind what came before it.
LEMMA PageFollows ==
    ASSUME NEW order \in Seq(Ids), NEW received \in Seq(Ids), NEW m \in Nat,
           Len(received) <= m, m <= Len(order),
           \A k \in DOMAIN received : received[k] = order[k],
           NEW page, page = SubSeq(order, Len(received) + 1, m)
    PROVE  /\ Len(page) = m - Len(received) /\ received \o page \in Seq(Ids)
           /\ Len(received \o page) = m
           /\ \A k \in 1..m : (received \o page)[k] = order[k]
<1>1. PICK n : n = Len(received) /\ page = SubSeq(order, n + 1, m)
  OBVIOUS
<1>2. n \in Nat /\ n <= m
  BY <1>1
<1>3. /\ page = [i \in 1..(m - n) |-> order[n + i]]
      /\ page \in Seq(Ids) /\ Len(page) = m - n
  <2>1. page \in Seq(Ids) /\ Len(page) = m - n /\ \A i \in 1..(m - n) : page[i] = order[n + i]
    BY <1>1, <1>2
  <2>2. QED
    BY <2>1
<1>4. received \o page \in Seq(Ids) /\ Len(received \o page) = m
  BY <1>1, <1>2, <1>3
<1>5. ASSUME NEW k \in 1..m
      PROVE  (received \o page)[k] = order[k]
  <2>1. CASE k <= n
    <3>1. k \in DOMAIN received
      BY <1>1, <1>2, <2>1
    <3>2. (received \o page)[k] = received[k]
      BY <1>1, <1>3, <3>1
    <3>3. QED
      BY <3>1, <3>2
  <2>2. CASE k > n
    <3>1. (received \o page)[k] = page[k - n] /\ k - n \in 1..(m - n)
      BY <1>1, <1>2, <1>3, <2>2
    <3>2. page[k - n] = order[n + (k - n)]
      BY <1>3, <3>1
    <3>3. QED
      BY <1>2, <3>1, <3>2
  <2>3. k <= n \/ k > n
    BY <1>2
  <2>4. QED
    BY <2>1, <2>2, <2>3
<1>6. QED
  BY <1>1, <1>3, <1>4, <1>5

LEMMA NextPageWalks ==
    ASSUME IInv, WalkInv, NextPage
    PROVE  WalkInv'
<1>1. /\ request = "list" /\ "end" \notin DOMAIN bundle
      /\ disk' = disk /\ chain' = chain
  BY DEF NextPage, vars
<1>2. Listed' = Listed
  BY <1>1, ChainSame DEF Listed
<1>3. PICK rows, received, n, size :
        /\ rows = InLogOrder(Listed) /\ received = walk.received /\ n = Len(received)
        /\ size = Cardinality(Listed)
  OBVIOUS
<1>4. /\ Listed \in SUBSET Ids /\ IsFiniteSet(Listed) /\ size \in Nat
      /\ rows \in Seq(Ids) /\ rows \in Seq(Listed) /\ Len(rows) = size
  <2>1. Listed \in SUBSET Ids /\ IsFiniteSet(Listed) /\ size \in Nat
    BY <1>3, ListedRows
  <2>2. rows \in Seq(Listed) /\ Len(rows) = size
    BY <1>3, <2>1, LogOrder
  <2>3. QED
    BY <2>1, <2>2
<1>5. /\ received \in Seq(Ids) /\ n \in Nat /\ walk.offset = n /\ n <= size
      /\ \A k \in DOMAIN received : received[k] = rows[k]
      /\ walk.initial \subseteq Listed
  BY <1>1, <1>3 DEF WalkInv
<1>6. PICK m : m = IF n + PageSize < size THEN n + PageSize ELSE size
  OBVIOUS
<1>7. m \in Nat /\ n <= m /\ m <= size /\ PageSize \in Nat
  BY <1>4, <1>5, <1>6, PageAssumption
<1>8. PICK page : page = SubSeq(rows, n + 1, m)
  OBVIOUS
<1>9. /\ Len(page) = m - n /\ received \o page \in Seq(Ids) /\ Len(received \o page) = m
      /\ \A k \in 1..m : (received \o page)[k] = rows[k]
  <2>1. n = Len(received)
    BY <1>3
  <2>2. /\ rows \in Seq(Ids) /\ received \in Seq(Ids) /\ m \in Nat
        /\ Len(received) <= m /\ m <= Len(rows)
        /\ \A k \in DOMAIN received : received[k] = rows[k]
        /\ page = SubSeq(rows, Len(received) + 1, m)
    BY <1>4, <1>5, <1>7, <1>8, <2>1
  <2>3. /\ Len(page) = m - Len(received) /\ received \o page \in Seq(Ids)
        /\ Len(received \o page) = m
        /\ \A k \in 1..m : (received \o page)[k] = rows[k]
    BY <2>2, PageFollows, SMT
  <2>4. QED
    BY <2>1, <2>3, Zenon
<1>10. ListWagers(walk.offset, PageSize) = page
  BY <1>3, <1>4, <1>5, <1>6, <1>8, ListedRows DEF ListWagers
<1>11. /\ walk' = [walk EXCEPT !.offset = n + PageSize, !.received = received \o page]
       /\ bundle' = IF m - n < PageSize THEN With("end", TRUE) ELSE bundle
       /\ request' = "list"
  BY <1>1, <1>3, <1>5, <1>9, <1>10 DEF NextPage
<1>12. /\ walk'.received = received \o page /\ walk'.offset = n + PageSize
       /\ walk'.initial = walk.initial /\ DOMAIN walk' = {"offset", "received", "initial"}
  BY <1>1, <1>11 DEF WalkInv
<1>13. DOMAIN walk'.received = 1..m
  BY <1>7, <1>9, <1>12
<1>14. ASSUME NEW j \in 1..m, NEW k \in 1..m, walk'.received[j] = walk'.received[k]
       PROVE  j = k
  <2>1. rows[j] = rows[k] /\ j \in DOMAIN rows /\ k \in DOMAIN rows
    BY <1>4, <1>7, <1>9, <1>12, <1>14
  <2>2. \A i, l \in DOMAIN rows : i < l => Before(rows[i], rows[l])
    BY <1>3, <1>4, LogOrder
  <2>3. ~(j < k) /\ ~(k < j)
    BY <1>4, <2>1, <2>2, BeforeIsTotal
  <2>4. QED
    BY <1>7, <2>3
<1>15. CASE m - n < PageSize
  <2>1. m = size
    BY <1>4, <1>5, <1>6, <1>7, <1>15
  <2>2. "end" \in DOMAIN bundle'
    BY <1>11, <1>15 DEF With
  <2>3. ASSUME NEW id \in walk.initial
        PROVE  \E k \in 1..m : walk'.received[k] = id
    <3>1. \E k \in DOMAIN rows : rows[k] = id
      BY <1>3, <1>4, <1>5, LogOrder
    <3>2. DOMAIN rows = 1..m
      BY <1>4, <2>1
    <3>3. QED
      BY <1>9, <1>12, <3>1, <3>2
  <2>4. QED
    BY <1>9, <1>12, <1>13, <1>14, <2>2, <2>3 DEF WalkInv
<1>16. CASE ~(m - n < PageSize)
  <2>1. m = n + PageSize /\ bundle' = bundle
    BY <1>5, <1>6, <1>7, <1>11, <1>16
  <2>2. /\ walk'.offset = Len(walk'.received) /\ Len(walk'.received) <= Cardinality(Listed')
        /\ \A k \in DOMAIN walk'.received : walk'.received[k] = InLogOrder(Listed')[k]
        /\ walk'.initial \subseteq Listed'
    BY <1>2, <1>3, <1>5, <1>7, <1>9, <1>12, <1>13, <2>1
  <2>3. QED
    BY <1>1, <1>9, <1>12, <1>13, <1>14, <2>1, <2>2 DEF WalkInv
<1>17. QED
  BY <1>15, <1>16

\* What is indexed between two pages comes behind the pages received.
LEMMA CommitsWalk ==
    ASSUME NothingReplayed, IInv, IInv', FileGrows, RequestInv, WalkInv, [Next]_vars,
           UNCHANGED apiVars
    PROVE  WalkInv'
<1>1. /\ request' = request /\ bundle' = bundle /\ walk' = walk
  BY DEF apiVars
<1>2. SUFFICES ASSUME request = "list"
               PROVE  WalkInv'
  BY <1>1 DEF WalkInv
<1>3. CASE "end" \in DOMAIN bundle
  BY <1>1, <1>2, <1>3 DEF WalkInv
<1>4. CASE "end" \notin DOMAIN bundle
  <2>1. setting.replays = 0
    BY <1>2, Facts DEF RequestInv, NothingReplayed, ChainInv
  <2>2. PICK old, new : old = Listed /\ new = Listed'
    OBVIOUS
  <2>3. /\ old \in SUBSET Ids /\ new \in SUBSET Ids /\ IsFiniteSet(old) /\ IsFiniteSet(new)
        /\ old \subseteq new /\ \A p \in old, q \in new \ old : Before(p, q)
    BY <2>1, <2>2, ListGrows
  <2>4. /\ Cardinality(old) \in Nat /\ Cardinality(new) \in Nat
        /\ Cardinality(old) <= Cardinality(new)
        /\ \A k \in 1..Cardinality(old) : InLogOrder(new)[k] = InLogOrder(old)[k]
    BY <2>3, OrderExtends
  <2>5. /\ walk.received \in Seq(Ids) /\ Len(walk.received) <= Cardinality(old)
        /\ \A k \in DOMAIN walk.received : walk.received[k] = InLogOrder(old)[k]
        /\ walk.initial \subseteq old
    BY <1>2, <1>4, <2>2 DEF WalkInv
  <2>6. /\ Len(walk.received) <= Cardinality(new)
        /\ \A k \in DOMAIN walk.received : walk.received[k] = InLogOrder(new)[k]
        /\ walk.initial \subseteq new
    <3>1. \A k \in DOMAIN walk.received : k \in 1..Cardinality(old)
      BY <2>4, <2>5
    <3>2. Len(walk.received) \in Nat
      BY <2>5
    <3>3. QED
      BY <2>3, <2>4, <2>5, <3>1, <3>2
  <2>7. QED
    BY <1>1, <1>2, <1>4, <2>2, <2>6 DEF WalkInv
<1>5. QED
  BY <1>3, <1>4

LEMMA WalkKeeps ==
    ASSUME NothingReplayed, IInv, SyncInv, UnreadInv, RequestInv, WalkInv, [APINext]_allVars
    PROVE  WalkInv'
<1>1. IInv' /\ FileGrows
  BY APINextKeeps
<1>2. CASE [Next]_vars /\ UNCHANGED apiVars
  BY <1>1, <1>2, CommitsWalk
<1>3. CASE UNCHANGED allVars
  BY <1>2, <1>3 DEF allVars
<1>4. CASE AskWager \/ ReadWagerPart \/ AskHealth \/ ReadHealthPart \/ Send
  <2>1. request' # "list"
    BY <1>4 DEF AskWager, ReadWagerPart, AskHealth, ReadHealthPart, Send
  <2>2. QED
    BY <2>1 DEF WalkInv
<1>5. CASE StartWalk
  <2>1. /\ walk' = [NoWalk EXCEPT !.initial = Listed]
        /\ bundle' = <<>> /\ disk' = disk /\ chain' = chain
    BY <1>5, ListedRows DEF StartWalk, RequestInv, vars
  <2>2. /\ walk'.received = <<>> /\ walk'.offset = 0 /\ walk'.initial = Listed
        /\ Listed' = Listed /\ Cardinality(Listed) \in Nat
        /\ DOMAIN walk' = {"offset", "received", "initial"}
    BY <2>1, ChainSame, ListedRows DEF NoWalk, Listed
  <2>3. DOMAIN walk'.received = {} /\ Len(walk'.received) = 0 /\ walk'.received \in Seq(Ids)
    BY <2>2
  <2>4. "end" \notin DOMAIN bundle'
    BY <2>1
  <2>5. QED
    BY <2>2, <2>3, <2>4 DEF WalkInv
<1>6. CASE NextPage
  BY <1>6, NextPageWalks
<1>7. QED
  BY <1>2, <1>3, <1>4, <1>5, <1>6 DEF APINext, APIStep

\* A client that walks the list in the order of creation receives every wager there
\* was at the start, none twice, whatever is indexed meanwhile (list_wagers).
THEOREM APIWalkReceivesEachOnce ==
    ASSUME NothingReplayed
    PROVE  APISpec => []WalkReceivesEachOnce
<1>1. APIInit => IInv /\ SyncInv /\ UnreadInv /\ RequestInv /\ WalkInv
  <2>1. APIInit => WalkInv
    BY DEF APIInit, WalkInv
  <2>2. QED
    BY <2>1, APIInitHolds
<1>2. /\ IInv /\ SyncInv /\ UnreadInv /\ RequestInv /\ WalkInv /\ [APINext]_allVars
      => (IInv /\ SyncInv /\ UnreadInv /\ RequestInv /\ WalkInv)'
  BY APINextKeeps, WalkKeeps
<1>3. WalkInv => WalkReceivesEachOnce
  BY DEF WalkInv, WalkReceivesEachOnce, Answered
<1>4. QED
  BY <1>1, <1>2, <1>3, PTL DEF APISpec
===============================================================================
