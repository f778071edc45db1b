------------------------------ MODULE FiniteSums ------------------------------
(***************************************************************************)
(* Facts about SumFunction and SumFunctionOnSet of the community module    *)
(* Functions.  Induction is over a set of sets instead of a predicate, so  *)
(* that the lemmas can be instantiated by first-order provers.  The last   *)
(* one is about enumerations.                                              *)
(***************************************************************************)
EXTENDS Integers, FiniteSets, Functions, FiniteSetTheorems,
        WellFoundedInduction, TLAPS

LessThan == {p \in Nat \X Nat : p[1] < p[2]}

\* Every non-empty set of natural numbers has a least element.
LEMMA LeastNatural ==
    ASSUME NEW N \in SUBSET Nat, N # {}
    PROVE  \E n \in N : \A m \in N : n <= m
<1>1. IsWellFoundedOn(LessThan, Nat)
  BY NatLessThanWellFounded DEF OpToRel, LessThan
<1>2. \E n \in N : \A m \in N : <<m, n>> \notin LessThan
  BY <1>1, WFMin
<1>3. \A m, n \in Nat : <<m, n>> \in LessThan <=> m < n
  BY DEF LessThan
<1>4. \A m, n \in N : ~(m < n) => n <= m
  OBVIOUS
<1>5. PICK n \in N : \A m \in N : <<m, n>> \notin LessThan
  BY <1>2
<1>6. \A m \in N : n <= m
  BY <1>3, <1>4, <1>5
<1>7. QED
  BY <1>6

\* A set of subsets of a finite set S that holds a subset as soon as it holds
\* all smaller ones holds S.
LEMMA SubsetInduction ==
    ASSUME NEW S, IsFiniteSet(S), NEW Good,
           \A T \in SUBSET S : (\A U \in SUBSET T : U # T => U \in Good) => T \in Good
    PROVE  S \in Good
<1> DEFINE Bad == {n \in Nat : \E T \in SUBSET S : T \notin Good /\ Cardinality(T) = n}
<1>1. SUFFICES ASSUME S \notin Good PROVE FALSE
  OBVIOUS
<1>2. Bad # {}
  BY <1>1, FS_CardinalityType
<1>3. PICK n \in Bad : \A m \in Bad : n <= m
  <2>1. Bad \in SUBSET Nat
    OBVIOUS
  <2> HIDE DEF Bad
  <2>2. QED
    BY <1>2, <2>1, LeastNatural
<1>4. PICK T \in SUBSET S : T \notin Good /\ Cardinality(T) = n
  BY <1>3
<1>5. ASSUME NEW U \in SUBSET T, U # T
      PROVE  U \in Good
  <2>1. IsFiniteSet(T) /\ IsFiniteSet(U)
    BY FS_Subset
  <2>2. Cardinality(U) <= Cardinality(T) /\ Cardinality(U) # Cardinality(T)
    BY <1>5, <2>1, FS_Subset
  <2>3. Cardinality(U) \in Nat /\ Cardinality(T) \in Nat
    BY <2>1, FS_CardinalityType
  <2>4. Cardinality(U) \notin Bad
    BY <1>3, <1>4, <2>2, <2>3
  <2>5. QED
    BY <2>3, <2>4
<1>6. QED
  BY <1>4, <1>5

-------------------------------------------------------------------------------
(* The recursion behind SumFunctionOnSet *)

Some(s) == CHOOSE x \in s : TRUE

IsPartialSums(sum, f, S) ==
    sum = [s \in SUBSET S |-> IF s = {} THEN 0 ELSE f[Some(s)] + sum[s \ {Some(s)}]]

LEMMA SumIsPartialSum ==
    ASSUME NEW f, NEW S
    PROVE  SumFunctionOnSet(f, S) = (CHOOSE sum : IsPartialSums(sum, f, S))[S]
BY DEF SumFunctionOnSet, FoldFunctionOnSet, MapThenFoldSet, IsPartialSums, Some

LEMMA SomeMember ==
    ASSUME NEW s, s # {}
    PROVE  Some(s) \in s
BY DEF Some

\* Two such functions agree wherever both are defined.
LEMMA PartialSumsAgree ==
    ASSUME NEW f, NEW A, NEW sumA, IsPartialSums(sumA, f, A),
           NEW B, NEW sumB, IsPartialSums(sumB, f, B),
           NEW S, IsFiniteSet(S), S \subseteq A, S \subseteq B
    PROVE  sumA[S] = sumB[S]
<1> DEFINE Good == {T \in SUBSET S : sumA[T] = sumB[T]}
<1>1. ASSUME NEW T \in SUBSET S, \A U \in SUBSET T : U # T => U \in Good
      PROVE  T \in Good
  <2>1. /\ sumA[T] = IF T = {} THEN 0 ELSE f[Some(T)] + sumA[T \ {Some(T)}]
        /\ sumB[T] = IF T = {} THEN 0 ELSE f[Some(T)] + sumB[T \ {Some(T)}]
    <3>1. T \in SUBSET A /\ T \in SUBSET B
      OBVIOUS
    <3>2. QED
      BY <3>1 DEF IsPartialSums
  <2>2. CASE T = {}
    BY <2>1, <2>2
  <2>3. CASE T # {}
    <3>1. T \ {Some(T)} \in SUBSET T /\ T \ {Some(T)} # T
      BY <2>3, SomeMember
    <3>2. sumA[T \ {Some(T)}] = sumB[T \ {Some(T)}]
      BY <1>1, <3>1
    <3>3. QED
      BY <2>1, <3>2
  <2>4. QED
    BY <2>2, <2>3
<1>2. S \in Good
  <2> HIDE DEF Good
  <2> QED BY <1>1, SubsetInduction
<1>3. QED
  BY <1>2

\* The partial sums of f over the subsets of a finite set exist.
LEMMA PartialSumsExist ==
    ASSUME NEW f, NEW S, IsFiniteSet(S)
    PROVE  \E sum : IsPartialSums(sum, f, S)
<1> DEFINE Good == {T \in SUBSET S : \E sum : IsPartialSums(sum, f, T)}
<1>1. ASSUME NEW T \in SUBSET S, \A U \in SUBSET T : U # T => U \in Good
      PROVE  T \in Good
  <2> DEFINE part(U) == CHOOSE sum : IsPartialSums(sum, f, U)
             g == [V \in SUBSET T |-> IF V = {} THEN 0
                      ELSE f[Some(V)] + part(V \ {Some(V)})[V \ {Some(V)}]]
  <2>1. \A U \in SUBSET T : U # T => IsPartialSums(part(U), f, U)
    BY <1>1
  <2> HIDE DEF part
  <2>2. ASSUME NEW V \in SUBSET T, V # {}
        PROVE  g[V \ {Some(V)}] = part(V \ {Some(V)})[V \ {Some(V)}]
    <3> DEFINE W == V \ {Some(V)}
    <3>1. W \in SUBSET T /\ W # T /\ IsPartialSums(part(W), f, W)
      BY <2>1, <2>2, SomeMember
    <3> HIDE DEF W
    <3>2. part(W)[W] = IF W = {} THEN 0 ELSE f[Some(W)] + part(W)[W \ {Some(W)}]
      BY <3>1 DEF IsPartialSums
    <3>3. ASSUME W # {}
          PROVE  part(W)[W \ {Some(W)}] = part(W \ {Some(W)})[W \ {Some(W)}]
      <4> DEFINE X == W \ {Some(W)}
      <4>1. X \in SUBSET T /\ X # T /\ X \subseteq W
        BY <3>1, <3>3, SomeMember
      <4>2. IsPartialSums(part(X), f, X)
        BY <2>1, <4>1
      <4>3. IsFiniteSet(X)
        BY <4>1, FS_Subset
      <4> HIDE DEF X
      <4>4. part(W)[X] = part(X)[X]
        BY <3>1, <4>1, <4>2, <4>3, PartialSumsAgree
      <4>5. QED
        BY <4>4 DEF X
    <3>4. g[W] = IF W = {} THEN 0 ELSE f[Some(W)] + part(W \ {Some(W)})[W \ {Some(W)}]
      BY <3>1
    <3>5. g[W] = part(W)[W]
      BY <3>2, <3>3, <3>4
    <3>6. QED
      BY <3>5 DEF W
  <2>3. IsPartialSums(g, f, T)
    BY <2>2 DEF IsPartialSums
  <2>4. QED
    BY <2>3
<1>2. S \in Good
  <2> HIDE DEF Good
  <2> QED BY <1>1, SubsetInduction
<1>3. QED
  BY <1>2

-------------------------------------------------------------------------------
(* What the sum of a function over a finite set is *)

LEMMA SumEmpty ==
    ASSUME NEW f
    PROVE  SumFunctionOnSet(f, {}) = 0
<1>1. PICK sum : IsPartialSums(sum, f, {})
  BY PartialSumsExist, FS_EmptySet
<1>2. IsPartialSums(CHOOSE it : IsPartialSums(it, f, {}), f, {})
  BY <1>1
<1>3. QED
  BY <1>2, SumIsPartialSum DEF IsPartialSums

LEMMA SumUnfold ==
    ASSUME NEW f, NEW S, IsFiniteSet(S), S # {}
    PROVE  SumFunctionOnSet(f, S) = f[Some(S)] + SumFunctionOnSet(f, S \ {Some(S)})
<1> DEFINE T == S \ {Some(S)}
           sumS == CHOOSE it : IsPartialSums(it, f, S)
           sumT == CHOOSE it : IsPartialSums(it, f, T)
<1>1. IsFiniteSet(T)
  BY FS_Subset
<1>2. IsPartialSums(sumS, f, S)
  BY PartialSumsExist
<1>3. IsPartialSums(sumT, f, T)
  BY <1>1, PartialSumsExist
<1>4. SumFunctionOnSet(f, S) = sumS[S] /\ SumFunctionOnSet(f, T) = sumT[T]
  BY SumIsPartialSum
<1>5. sumS[S] = f[Some(S)] + sumS[T]
  <2> HIDE DEF sumS
  <2> QED BY <1>2 DEF IsPartialSums
<1>6. sumS[T] = sumT[T]
  <2> HIDE DEF sumS, sumT
  <2>1. T \subseteq S /\ T \subseteq T
    OBVIOUS
  <2> HIDE DEF T
  <2> QED BY <1>1, <1>2, <1>3, <2>1, PartialSumsAgree
<1>7. QED
  BY <1>4, <1>5, <1>6

\* Any member may be taken out first.
LEMMA SumRemove ==
    ASSUME NEW f, NEW S, IsFiniteSet(S), \A x \in S : f[x] \in Int, NEW x \in S
    PROVE  /\ SumFunctionOnSet(f, S) \in Int
           /\ SumFunctionOnSet(f, S) = f[x] + SumFunctionOnSet(f, S \ {x})
<1> DEFINE sum(T) == SumFunctionOnSet(f, T)
           Good == {T \in SUBSET S : /\ sum(T) \in Int
                                     /\ \A y \in T : sum(T) = f[y] + sum(T \ {y})}
<1>1. ASSUME NEW T \in SUBSET S, \A U \in SUBSET T : U # T => U \in Good
      PROVE  T \in Good
  <2>1. CASE T = {}
    BY <2>1, SumEmpty
  <2>2. CASE T # {}
    <3> DEFINE c == Some(T)
    <3>1. c \in T
      BY <2>2, SomeMember
    <3>2. sum(T) = f[c] + sum(T \ {c})
      BY <2>2, FS_Subset, SumUnfold
    <3> HIDE DEF c, sum
    <3>3. T \ {c} \in Good
      BY <1>1, <3>1
    <3>4. sum(T) \in Int
      BY <3>1, <3>2, <3>3
    <3>5. ASSUME NEW y \in T
          PROVE  sum(T) = f[y] + sum(T \ {y})
      <4>1. CASE y = c
        BY <3>2, <4>1
      <4>2. CASE y # c
        <5>1. sum(T \ {c}) = f[y] + sum((T \ {c}) \ {y})
          BY <3>3, <4>2
        <5>2. T \ {y} \in Good
          BY <1>1
        <5>3. sum(T \ {y}) = f[c] + sum((T \ {y}) \ {c})
          BY <3>1, <4>2, <5>2
        <5>4. (T \ {c}) \ {y} = (T \ {y}) \ {c}
          OBVIOUS
        <5>5. (T \ {c}) \ {y} \in Good
          BY <1>1, <3>1
        <5>6. f[c] \in Int /\ f[y] \in Int /\ sum((T \ {c}) \ {y}) \in Int
          BY <3>1, <5>5
        <5>7. sum((T \ {c}) \ {y}) = sum((T \ {y}) \ {c})
          BY <5>4
        <5>8. \A i, j, k \in Int : i + (j + k) = j + (i + k)
          OBVIOUS
        <5>9. f[c] + (f[y] + sum((T \ {c}) \ {y})) = f[y] + (f[c] + sum((T \ {c}) \ {y}))
          BY <5>6, <5>8
        <5>10. QED
          BY <3>2, <5>1, <5>3, <5>7, <5>9, Zenon
      <4>3. QED
        BY <4>1, <4>2
    <3>6. QED
      BY <3>4, <3>5
  <2>3. QED
    BY <2>1, <2>2
<1>2. S \in Good
  <2> HIDE DEF Good
  <2> QED BY <1>1, SubsetInduction
<1>3. QED
  BY <1>2

\* A set of subsets of S closed under adding a member of S holds S.
LEMMA SubsetGrowth ==
    ASSUME NEW S, IsFiniteSet(S), NEW Good, {} \in Good,
           \A T \in SUBSET S : \A x \in S \ T : T \in Good => T \cup {x} \in Good
    PROVE  S \in Good
<1>1. ASSUME NEW T \in SUBSET S, \A U \in SUBSET T : U # T => U \in Good
      PROVE  T \in Good
  <2>1. CASE T = {}
    BY <2>1
  <2>2. CASE T # {}
    <3>1. PICK x \in T : TRUE
      BY <2>2
    <3>2. T \ {x} \in Good
      BY <1>1
    <3>3. (T \ {x}) \cup {x} = T
      OBVIOUS
    <3>4. QED
      BY <3>2, <3>3
  <2>3. QED
    BY <2>1, <2>2
<1>2. QED
  BY <1>1, SubsetInduction

LEMMA SumAdd ==
    ASSUME NEW f, NEW S, IsFiniteSet(S), NEW x, x \notin S,
           \A y \in S \cup {x} : f[y] \in Int
    PROVE  /\ SumFunctionOnSet(f, S) \in Int
           /\ SumFunctionOnSet(f, S \cup {x}) = f[x] + SumFunctionOnSet(f, S)
<1>1. IsFiniteSet(S \cup {x}) /\ (S \cup {x}) \ {x} = S
  BY FS_AddElement
<1>2. SumFunctionOnSet(f, S \cup {x}) = f[x] + SumFunctionOnSet(f, S)
  BY <1>1, SumRemove
<1>3. SumFunctionOnSet(f, S) \in Int
  <2>1. CASE S = {}
    BY <2>1, SumEmpty
  <2>2. CASE S # {}
    BY <2>2, SumRemove
  <2>3. QED
    BY <2>1, <2>2
<1>4. QED
  BY <1>2, <1>3

LEMMA SumInt ==
    ASSUME NEW f, NEW S, IsFiniteSet(S), \A x \in S : f[x] \in Int
    PROVE  SumFunctionOnSet(f, S) \in Int
<1>1. CASE S = {}
  BY <1>1, SumEmpty
<1>2. CASE S # {}
  BY <1>2, SumRemove
<1>3. QED
  BY <1>1, <1>2

\* Of natural numbers, the sum is one, and at least each of them.
LEMMA SumNat ==
    ASSUME NEW f, NEW S, IsFiniteSet(S), \A x \in S : f[x] \in Nat
    PROVE  /\ SumFunctionOnSet(f, S) \in Nat
           /\ \A x \in S : f[x] <= SumFunctionOnSet(f, S)
<1> DEFINE Good == {T \in SUBSET S : SumFunctionOnSet(f, T) \in Nat}
<1>1. {} \in Good
  BY SumEmpty
<1>2. ASSUME NEW T \in SUBSET S, NEW x \in S \ T, T \in Good
      PROVE  T \cup {x} \in Good
  <2>1. IsFiniteSet(T)
    BY FS_Subset
  <2>2. SumFunctionOnSet(f, T \cup {x}) = f[x] + SumFunctionOnSet(f, T)
    <3>1. \A y \in T \cup {x} : f[y] \in Int
      OBVIOUS
    <3>2. QED
      BY <2>1, <3>1, SumAdd
  <2>3. QED
    BY <1>2, <2>2
<1>3. \A T \in SUBSET S : T \in Good
  <2>1. ASSUME NEW T \in SUBSET S
        PROVE  T \in Good
    <3>1. IsFiniteSet(T)
      BY FS_Subset
    <3>2. \A U \in SUBSET T : \A x \in T \ U : U \in Good => U \cup {x} \in Good
      BY <1>2
    <3> HIDE DEF Good
    <3>3. QED
      BY <1>1, <3>1, <3>2, SubsetGrowth
  <2>2. QED
    BY <2>1
<1>4. ASSUME NEW x \in S
      PROVE  f[x] <= SumFunctionOnSet(f, S)
  <2>1. SumFunctionOnSet(f, S) = f[x] + SumFunctionOnSet(f, S \ {x})
    BY SumRemove
  <2>2. SumFunctionOnSet(f, S \ {x}) \in Nat
    BY <1>3
  <2>3. QED
    BY <2>1, <2>2
<1>5. QED
  BY <1>3, <1>4

\* Sums see only the values inside the set.
LEMMA SumEqual ==
    ASSUME NEW f, NEW g, NEW S, IsFiniteSet(S),
           \A x \in S : f[x] \in Int /\ f[x] = g[x]
    PROVE  SumFunctionOnSet(f, S) = SumFunctionOnSet(g, S)
<1> DEFINE Good == {T \in SUBSET S : SumFunctionOnSet(f, T) = SumFunctionOnSet(g, T)}
<1>1. {} \in Good
  BY SumEmpty
<1>2. ASSUME NEW T \in SUBSET S, NEW x \in S \ T, T \in Good
      PROVE  T \cup {x} \in Good
  <2>1. IsFiniteSet(T)
    BY FS_Subset
  <2>2. /\ \A y \in T \cup {x} : f[y] \in Int
        /\ \A y \in T \cup {x} : g[y] \in Int
    OBVIOUS
  <2>3. /\ SumFunctionOnSet(f, T \cup {x}) = f[x] + SumFunctionOnSet(f, T)
        /\ SumFunctionOnSet(g, T \cup {x}) = g[x] + SumFunctionOnSet(g, T)
    BY <2>1, <2>2, SumAdd
  <2>4. QED
    BY <1>2, <2>3
<1>3. S \in Good
  <2> HIDE DEF Good
  <2> QED BY <1>1, <1>2, SubsetGrowth
<1>4. QED
  BY <1>3

\* Changing one value changes the sum by the difference.
LEMMA SumExcept ==
    ASSUME NEW f, NEW g, NEW S, IsFiniteSet(S), NEW x \in S,
           \A y \in S : f[y] \in Int /\ g[y] \in Int,
           \A y \in S \ {x} : g[y] = f[y]
    PROVE  SumFunctionOnSet(g, S) = SumFunctionOnSet(f, S) - f[x] + g[x]
<1>1. IsFiniteSet(S \ {x})
  BY FS_Subset
<1>2. SumFunctionOnSet(g, S \ {x}) = SumFunctionOnSet(f, S \ {x})
  BY <1>1, SumEqual
<1>3. /\ SumFunctionOnSet(f, S) = f[x] + SumFunctionOnSet(f, S \ {x})
      /\ SumFunctionOnSet(g, S) = g[x] + SumFunctionOnSet(g, S \ {x})
  BY SumRemove
<1>4. SumFunctionOnSet(f, S \ {x}) \in Int
  BY <1>1, SumInt
<1>5. QED
  BY <1>2, <1>3, <1>4

\* If n*a bounds d*g pointwise, it does so in the sum: the shape of every
\* pro-rata payment that is rounded down.
LEMMA SumScaledBound ==
    ASSUME NEW a, NEW g, NEW S, IsFiniteSet(S), NEW d \in Nat, NEW n \in Nat,
           \A x \in S : a[x] \in Nat /\ g[x] \in Nat /\ g[x] * d <= a[x] * n
    PROVE  SumFunctionOnSet(g, S) * d <= SumFunctionOnSet(a, S) * n
<1> DEFINE Good == {T \in SUBSET S :
                      SumFunctionOnSet(g, T) * d <= SumFunctionOnSet(a, T) * n}
<1>1. {} \in Good
  BY SumEmpty
<1>2. ASSUME NEW T \in SUBSET S, NEW x \in S \ T, T \in Good
      PROVE  T \cup {x} \in Good
  <2> DEFINE ga == SumFunctionOnSet(g, T)
             aa == SumFunctionOnSet(a, T)
  <2>1. IsFiniteSet(T)
    BY FS_Subset
  <2>2. /\ \A y \in T \cup {x} : a[y] \in Int
        /\ \A y \in T \cup {x} : g[y] \in Int
    OBVIOUS
  <2>3. /\ SumFunctionOnSet(g, T \cup {x}) = g[x] + ga
        /\ SumFunctionOnSet(a, T \cup {x}) = a[x] + aa
    BY <2>1, <2>2, SumAdd
  <2>4. ga \in Int /\ aa \in Int
    BY <2>1, <2>2, SumInt
  <2>5. ga * d <= aa * n
    BY <1>2
  <2>6. g[x] \in Nat /\ a[x] \in Nat /\ g[x] * d <= a[x] * n
    OBVIOUS
  <2> HIDE DEF ga, aa
  <2>7. \A p, q, r, s \in Int : p * d <= q * n /\ r * d <= s * n
                                  => (p + r) * d <= (q + s) * n
    OBVIOUS
  <2>8. (g[x] + ga) * d <= (a[x] + aa) * n
    BY <2>4, <2>5, <2>6, <2>7
  <2>9. QED
    BY <2>3, <2>8
<1>3. S \in Good
  <2> HIDE DEF Good
  <2> QED BY <1>1, <1>2, SubsetGrowth
<1>4. QED
  BY <1>3

-------------------------------------------------------------------------------
(* Splitting and reindexing *)

LEMMA SumZero ==
    ASSUME NEW f, NEW S, IsFiniteSet(S), \A x \in S : f[x] = 0
    PROVE  SumFunctionOnSet(f, S) = 0
<1> DEFINE Good == {T \in SUBSET S : SumFunctionOnSet(f, T) = 0}
<1>1. {} \in Good
  BY SumEmpty
<1>2. ASSUME NEW T \in SUBSET S, NEW x \in S \ T, T \in Good
      PROVE  T \cup {x} \in Good
  <2>1. IsFiniteSet(T) /\ \A y \in T \cup {x} : f[y] \in Int
    BY FS_Subset
  <2>2. SumFunctionOnSet(f, T \cup {x}) = f[x] + SumFunctionOnSet(f, T)
    BY <2>1, SumAdd
  <2>3. QED
    BY <1>2, <2>2
<1>3. S \in Good
  <2> HIDE DEF Good
  <2> QED BY <1>1, <1>2, SubsetGrowth
<1>4. QED
  BY <1>3

LEMMA SumSingleton ==
    ASSUME NEW f, NEW x, f[x] \in Int
    PROVE  SumFunctionOnSet(f, {x}) = f[x]
<1>1. IsFiniteSet({x}) /\ {x} \ {x} = {} /\ \A y \in {x} : f[y] \in Int
  <2>1. IsFiniteSet({x})
    BY FS_Singleton
  <2>2. QED
    BY <2>1
<1>2. SumFunctionOnSet(f, {x}) = f[x] + SumFunctionOnSet(f, {x} \ {x})
  BY <1>1, SumRemove
<1>3. QED
  BY <1>1, <1>2, SumEmpty

\* A sum may be grouped by any function g of the index.
LEMMA SumFibres ==
    ASSUME NEW f, NEW g, NEW S, IsFiniteSet(S), NEW T, IsFiniteSet(T),
           \A x \in S : f[x] \in Int /\ g[x] \in T
    PROVE  SumFunctionOnSet(f, S)
             = SumFunctionOnSet([t \in T |-> SumFunctionOnSet(f, {x \in S : g[x] = t})], T)
<1> DEFINE fibre(U, t) == {x \in U : g[x] = t}
           total(U) == [t \in T |-> SumFunctionOnSet(f, fibre(U, t))]
           Good == {U \in SUBSET S : SumFunctionOnSet(f, U) = SumFunctionOnSet(total(U), T)}
<1>1. {} \in Good
  <2>1. \A t \in T : total({})[t] = 0
    <3>1. \A t \in T : fibre({}, t) = {}
      OBVIOUS
    <3> HIDE DEF fibre
    <3>2. QED
      BY <3>1, SumEmpty
  <2> HIDE DEF total
  <2>2. SumFunctionOnSet(total({}), T) = 0
    BY <2>1, SumZero
  <2>3. QED
    BY <2>2, SumEmpty
<1>2. \A U \in SUBSET S : \A t \in T : total(U)[t] \in Int
  <2>1. ASSUME NEW U \in SUBSET S, NEW t \in T
        PROVE  SumFunctionOnSet(f, fibre(U, t)) \in Int
    <3>1. IsFiniteSet(fibre(U, t)) /\ \A x \in fibre(U, t) : f[x] \in Int
      BY FS_Subset
    <3> HIDE DEF fibre
    <3>2. QED
      BY <3>1, SumInt
  <2>2. QED
    BY <2>1
<1>3. ASSUME NEW U \in SUBSET S, NEW x \in S \ U, U \in Good
      PROVE  U \cup {x} \in Good
  <2> DEFINE V == U \cup {x}
  <2>1. IsFiniteSet(U) /\ \A y \in V : f[y] \in Int
    BY FS_Subset
  <2>2. SumFunctionOnSet(f, V) = f[x] + SumFunctionOnSet(f, U)
    BY <2>1, SumAdd
  <2>3. ASSUME NEW t \in T \ {g[x]}
        PROVE  total(V)[t] = total(U)[t]
    <3>1. fibre(V, t) = fibre(U, t)
      OBVIOUS
    <3>2. QED
      BY <3>1
  <2>4. total(V)[g[x]] = f[x] + total(U)[g[x]]
    <3>1. fibre(V, g[x]) = fibre(U, g[x]) \cup {x} /\ x \notin fibre(U, g[x])
      OBVIOUS
    <3>2. IsFiniteSet(fibre(U, g[x])) /\ \A y \in fibre(U, g[x]) \cup {x} : f[y] \in Int
      BY <2>1, FS_Subset
    <3> HIDE DEF fibre
    <3>3. SumFunctionOnSet(f, fibre(U, g[x]) \cup {x})
            = f[x] + SumFunctionOnSet(f, fibre(U, g[x]))
      BY <3>1, <3>2, SumAdd
    <3>4. QED
      BY <3>1, <3>3
  <2>5. (\A t \in T : total(U)[t] \in Int /\ total(V)[t] \in Int) /\ g[x] \in T
    BY <1>2
  <2> HIDE DEF total
  <2>6. SumFunctionOnSet(total(V), T)
          = SumFunctionOnSet(total(U), T) - total(U)[g[x]] + total(V)[g[x]]
    <3> DEFINE before == total(U)
               after == total(V)
    <3>1. g[x] \in T
      BY <2>5
    <3>2. \A t \in T : before[t] \in Int /\ after[t] \in Int
      BY <2>5
    <3>3. \A t \in T \ {g[x]} : after[t] = before[t]
      BY <2>3
    <3> HIDE DEF before, after
    <3>4. SumFunctionOnSet(after, T)
            = SumFunctionOnSet(before, T) - before[g[x]] + after[g[x]]
      BY <3>1, <3>2, <3>3, SumExcept
    <3>5. QED
      BY <3>4 DEF before, after
  <2>7. SumFunctionOnSet(total(U), T) \in Int /\ f[x] \in Int
    BY <2>5, SumInt
  <2>8. SumFunctionOnSet(f, V) = SumFunctionOnSet(total(V), T)
    <3>1. SumFunctionOnSet(f, U) = SumFunctionOnSet(total(U), T)
      BY <1>3
    <3>2. total(U)[g[x]] \in Int
      BY <2>5
    <3>3. QED
      BY <2>2, <2>4, <2>6, <2>7, <3>1, <3>2
  <2>9. QED
    BY <2>8
<1>4. S \in Good
  <2> HIDE DEF Good
  <2> QED BY <1>1, <1>3, SubsetGrowth
<1>5. QED
  BY <1>4

\* A sum over distinct names of indices is the sum over the indices; those
\* without a name count nothing.
LEMMA SumReindex ==
    ASSUME NEW f, NEW g, NEW h, NEW S, IsFiniteSet(S), NEW T, IsFiniteSet(T),
           \A x \in S : g[x] \in T /\ f[x] = h[g[x]],
           \A x, y \in S : g[x] = g[y] => x = y,
           \A t \in T : h[t] \in Int,
           \A t \in T : (\A x \in S : g[x] # t) => h[t] = 0
    PROVE  SumFunctionOnSet(f, S) = SumFunctionOnSet(h, T)
<1> DEFINE fibre(t) == {x \in S : g[x] = t}
           total == [t \in T |-> SumFunctionOnSet(f, fibre(t))]
<1>1. SumFunctionOnSet(f, S) = SumFunctionOnSet(total, T)
  BY SumFibres
<1>2. ASSUME NEW t \in T
      PROVE  total[t] = h[t]
  <2>1. CASE \E x \in S : g[x] = t
    <3>1. PICK x \in S : g[x] = t
      BY <2>1
    <3>2. fibre(t) = {x}
      BY <3>1
    <3>3. f[x] = h[t] /\ f[x] \in Int
      BY <3>1
    <3>4. SumFunctionOnSet(f, {x}) = f[x]
      BY <3>3, SumSingleton
    <3>5. QED
      BY <3>2, <3>3, <3>4
  <2>2. CASE \A x \in S : g[x] # t
    <3>1. fibre(t) = {}
      BY <2>2
    <3>2. h[t] = 0
      BY <2>2
    <3>3. QED
      BY <3>1, <3>2, SumEmpty
  <2>3. QED
    BY <2>1, <2>2
<1> HIDE DEF total
<1>3. SumFunctionOnSet(total, T) = SumFunctionOnSet(h, T)
  BY <1>2, SumEqual
<1>4. QED
  BY <1>1, <1>3

LEMMA SumUnion ==
    ASSUME NEW f, NEW S, IsFiniteSet(S), NEW T, IsFiniteSet(T), S \cap T = {},
           \A x \in S \cup T : f[x] \in Int
    PROVE  SumFunctionOnSet(f, S \cup T) = SumFunctionOnSet(f, S) + SumFunctionOnSet(f, T)
<1> DEFINE Good == {U \in SUBSET T :
              SumFunctionOnSet(f, S \cup U) = SumFunctionOnSet(f, S) + SumFunctionOnSet(f, U)}
<1>1. {} \in Good
  <2>1. S \cup {} = S /\ SumFunctionOnSet(f, S) \in Int
    BY SumInt
  <2>2. QED
    BY <2>1, SumEmpty
<1>2. ASSUME NEW U \in SUBSET T, NEW x \in T \ U, U \in Good
      PROVE  U \cup {x} \in Good
  <2>1. IsFiniteSet(U) /\ IsFiniteSet(S \cup U)
    BY FS_Subset, FS_Union
  <2>2. (\A y \in U \cup {x} : f[y] \in Int) /\ (\A y \in (S \cup U) \cup {x} : f[y] \in Int)
        /\ x \notin S \cup U
    OBVIOUS
  <2>3. SumFunctionOnSet(f, U \cup {x}) = f[x] + SumFunctionOnSet(f, U)
    BY <2>1, <2>2, SumAdd
  <2>4. SumFunctionOnSet(f, (S \cup U) \cup {x}) = f[x] + SumFunctionOnSet(f, S \cup U)
    BY <2>1, <2>2, SumAdd
  <2>5. SumFunctionOnSet(f, S) \in Int /\ SumFunctionOnSet(f, U) \in Int /\ f[x] \in Int
    BY <2>1, <2>2, SumInt
  <2>6. (S \cup U) \cup {x} = S \cup (U \cup {x})
    OBVIOUS
  <2>7. SumFunctionOnSet(f, S \cup U) = SumFunctionOnSet(f, S) + SumFunctionOnSet(f, U)
    BY <1>2
  <2>8. SumFunctionOnSet(f, S \cup (U \cup {x}))
          = SumFunctionOnSet(f, S) + SumFunctionOnSet(f, U \cup {x})
    <3>1. SumFunctionOnSet(f, S \cup (U \cup {x}))
            = f[x] + SumFunctionOnSet(f, S \cup U)
      BY <2>4, <2>6
    <3>2. QED
      BY <2>3, <2>5, <2>7, <3>1
  <2>9. QED
    BY <2>8
<1>3. T \in Good
  <2> HIDE DEF Good
  <2> QED BY <1>1, <1>2, SubsetGrowth
<1>4. QED
  BY <1>3

LEMMA SumScale ==
    ASSUME NEW f, NEW g, NEW S, IsFiniteSet(S), NEW c \in Int,
           \A x \in S : f[x] \in Int /\ g[x] = f[x] * c
    PROVE  SumFunctionOnSet(g, S) = SumFunctionOnSet(f, S) * c
<1> DEFINE Good == {T \in SUBSET S : SumFunctionOnSet(g, T) = SumFunctionOnSet(f, T) * c}
<1>1. {} \in Good
  BY SumEmpty
<1>2. ASSUME NEW T \in SUBSET S, NEW x \in S \ T, T \in Good
      PROVE  T \cup {x} \in Good
  <2>1. IsFiniteSet(T) /\ (\A y \in T \cup {x} : f[y] \in Int)
        /\ (\A y \in T \cup {x} : g[y] \in Int)
    BY FS_Subset
  <2>2. SumFunctionOnSet(g, T \cup {x}) = g[x] + SumFunctionOnSet(g, T)
    BY <2>1, SumAdd
  <2>3. SumFunctionOnSet(f, T \cup {x}) = f[x] + SumFunctionOnSet(f, T)
    BY <2>1, SumAdd
  <2>4. SumFunctionOnSet(f, T) \in Int /\ f[x] \in Int /\ g[x] = f[x] * c
    BY <2>1, SumInt
  <2>5. \A p, q \in Int : p * c + q * c = (p + q) * c
    OBVIOUS
  <2>6. SumFunctionOnSet(g, T) = SumFunctionOnSet(f, T) * c
    BY <1>2
  <2>7. f[x] * c + SumFunctionOnSet(f, T) * c = (f[x] + SumFunctionOnSet(f, T)) * c
    BY <2>4, <2>5
  <2>8. SumFunctionOnSet(g, T \cup {x}) = SumFunctionOnSet(f, T \cup {x}) * c
    BY <2>2, <2>3, <2>4, <2>6, <2>7
  <2>9. QED
    BY <2>8
<1>3. S \in Good
  <2> HIDE DEF Good
  <2> QED BY <1>1, <1>2, SubsetGrowth
<1>4. QED
  BY <1>3

\* The sum of two functions, key by key.
LEMMA SumPlus ==
    ASSUME NEW f, NEW g, NEW h, NEW S, IsFiniteSet(S),
           \A x \in S : f[x] \in Int /\ g[x] \in Int /\ h[x] = f[x] + g[x]
    PROVE  SumFunctionOnSet(h, S) = SumFunctionOnSet(f, S) + SumFunctionOnSet(g, S)
<1> DEFINE Good == {T \in SUBSET S :
                      SumFunctionOnSet(h, T) = SumFunctionOnSet(f, T) + SumFunctionOnSet(g, T)}
<1>1. {} \in Good
  BY SumEmpty
<1>2. ASSUME NEW T \in SUBSET S, NEW x \in S \ T, T \in Good
      PROVE  T \cup {x} \in Good
  <2>1. IsFiniteSet(T) /\ (\A y \in T \cup {x} : f[y] \in Int)
        /\ (\A y \in T \cup {x} : g[y] \in Int) /\ (\A y \in T \cup {x} : h[y] \in Int)
    BY FS_Subset
  <2>2. SumFunctionOnSet(h, T \cup {x}) = h[x] + SumFunctionOnSet(h, T)
    BY <2>1, SumAdd
  <2>3. SumFunctionOnSet(f, T \cup {x}) = f[x] + SumFunctionOnSet(f, T)
    BY <2>1, SumAdd
  <2>4. SumFunctionOnSet(g, T \cup {x}) = g[x] + SumFunctionOnSet(g, T)
    BY <2>1, SumAdd
  <2>5. SumFunctionOnSet(f, T) \in Int /\ SumFunctionOnSet(g, T) \in Int
    BY <2>1, SumInt
  <2>6. SumFunctionOnSet(h, T) = SumFunctionOnSet(f, T) + SumFunctionOnSet(g, T)
    BY <1>2
  <2>7. f[x] \in Int /\ g[x] \in Int /\ h[x] = f[x] + g[x]
    OBVIOUS
  <2>8. SumFunctionOnSet(h, T \cup {x})
          = SumFunctionOnSet(f, T \cup {x}) + SumFunctionOnSet(g, T \cup {x})
    BY <2>2, <2>3, <2>4, <2>5, <2>6, <2>7
  <2>9. QED
    BY <2>8
<1>3. S \in Good
  <2> HIDE DEF Good
  <2> QED BY <1>1, <1>2, SubsetGrowth
<1>4. QED
  BY <1>3

\* Where no value is larger and the sums agree, the values do.
LEMMA SumTight ==
    ASSUME NEW f, NEW g, NEW S, IsFiniteSet(S),
           \A x \in S : f[x] \in Int /\ g[x] \in Int /\ f[x] <= g[x],
           SumFunctionOnSet(f, S) = SumFunctionOnSet(g, S)
    PROVE  \A x \in S : f[x] = g[x]
<1> DEFINE h == [x \in S |-> g[x] - f[x]]
<1>1. \A x \in S : h[x] \in Nat /\ f[x] \in Int /\ h[x] \in Int /\ g[x] = f[x] + h[x]
  OBVIOUS
<1> HIDE DEF h
<1>2. SumFunctionOnSet(g, S) = SumFunctionOnSet(f, S) + SumFunctionOnSet(h, S)
  BY <1>1, SumPlus
<1>3. SumFunctionOnSet(h, S) \in Nat /\ \A x \in S : h[x] <= SumFunctionOnSet(h, S)
  BY <1>1, SumNat
<1>4. SumFunctionOnSet(f, S) \in Int
  BY <1>1, SumInt
<1>5. SumFunctionOnSet(h, S) = 0
  BY <1>2, <1>3, <1>4
<1>6. QED
  BY <1>1, <1>3, <1>5

\* A sum with one value that is not zero.
LEMMA SumOfOne ==
    ASSUME NEW f, NEW S, IsFiniteSet(S), NEW x \in S, f[x] \in Int,
           \A y \in S \ {x} : f[y] = 0
    PROVE  SumFunctionOnSet(f, S) = f[x]
<1>1. SumFunctionOnSet(f, S \ {x}) = 0
  BY FS_Subset, SumZero
<1>2. \A y \in S : f[y] \in Int
  OBVIOUS
<1>3. SumFunctionOnSet(f, S) = f[x] + SumFunctionOnSet(f, S \ {x})
  BY <1>2, SumRemove
<1>4. QED
  BY <1>1, <1>3

-------------------------------------------------------------------------------
(* Pro-rata payments *)

\* If each share loses less than one unit to rounding, all of K together lose
\* less than its cardinality: with c[x] the floor of a[x] * n / d.
LEMMA SumFloorLoss ==
    ASSUME NEW a, NEW c, NEW K, IsFiniteSet(K), NEW d \in Nat, NEW n \in Nat,
           \A x \in K : a[x] \in Nat /\ c[x] \in Nat /\ a[x] * n + 1 <= (c[x] + 1) * d
    PROVE  SumFunctionOnSet(a, K) * n + Cardinality(K)
             <= (SumFunctionOnSet(c, K) + Cardinality(K)) * d
<1> DEFINE Good == {T \in SUBSET K :
              SumFunctionOnSet(a, T) * n + Cardinality(T)
                <= (SumFunctionOnSet(c, T) + Cardinality(T)) * d}
<1>1. {} \in Good
  BY SumEmpty, FS_EmptySet
<1>2. ASSUME NEW T \in SUBSET K, NEW x \in K \ T, T \in Good
      PROVE  T \cup {x} \in Good
  <2> DEFINE at == SumFunctionOnSet(a, T)
             ct == SumFunctionOnSet(c, T)
             k == Cardinality(T)
  <2>1. IsFiniteSet(T)
    BY FS_Subset
  <2>2. (\A y \in T \cup {x} : a[y] \in Int) /\ (\A y \in T \cup {x} : c[y] \in Int)
    OBVIOUS
  <2>3. /\ SumFunctionOnSet(a, T \cup {x}) = a[x] + at
        /\ SumFunctionOnSet(c, T \cup {x}) = c[x] + ct
    BY <2>1, <2>2, SumAdd
  <2>4. Cardinality(T \cup {x}) = k + 1 /\ k \in Nat
    BY <2>1, FS_AddElement, FS_CardinalityType
  <2>5. at \in Int /\ ct \in Int /\ a[x] \in Int /\ c[x] \in Int
    BY <2>1, <2>2, SumInt
  <2>6. at * n + k <= (ct + k) * d
    BY <1>2
  <2>7. a[x] * n + 1 <= (c[x] + 1) * d
    OBVIOUS
  <2> HIDE DEF at, ct, k
  <2>8. \A p, q, r, s \in Int : (p + q) * n = p * n + q * n
                                 /\ ((r + s) + (k + 1)) * d = (r + 1) * d + (s + k) * d
    BY <2>4
  <2>9. /\ (a[x] + at) * n = a[x] * n + at * n
        /\ ((c[x] + ct) + (k + 1)) * d = (c[x] + 1) * d + (ct + k) * d
    BY <2>5, <2>8
  <2>10. \A p, q, r, s, j \in Int : p + j <= r /\ q + 1 <= s => q + p + (j + 1) <= s + r
    OBVIOUS
  <2>11. a[x] * n + at * n + (k + 1) <= (c[x] + 1) * d + (ct + k) * d
    <3>1. a[x] * n \in Int /\ at * n \in Int /\ (c[x] + 1) * d \in Int /\ (ct + k) * d \in Int
      BY <2>4, <2>5
    <3>2. QED
      BY <2>4, <2>6, <2>7, <2>10, <3>1
  <2>12. (a[x] + at) * n + (k + 1) <= ((c[x] + ct) + (k + 1)) * d
    BY <2>9, <2>11
  <2>13. QED
    BY <2>3, <2>4, <2>12
<1>3. K \in Good
  <2> HIDE DEF Good
  <2> QED BY <1>1, <1>2, SubsetGrowth
<1>4. QED
  BY <1>3

\* The floors of the shares of n by the stakes a never exceed n, and fall short
\* of it by less than the number of stakes that are not 0.
LEMMA SumFloors ==
    ASSUME NEW a, NEW c, NEW S, IsFiniteSet(S), NEW n \in Nat,
           \A x \in S : a[x] \in Nat,
           SumFunctionOnSet(a, S) # 0,
           \A x \in S : c[x] = (a[x] * n) \div SumFunctionOnSet(a, S)
    PROVE  /\ SumFunctionOnSet(c, S) \in Nat
           /\ n - SumFunctionOnSet(c, S) \in 0 .. Cardinality({x \in S : a[x] # 0}) - 1
<1> DEFINE d == SumFunctionOnSet(a, S)
           sum == SumFunctionOnSet(c, S)
           K == {x \in S : a[x] # 0}
           k == Cardinality(K)
<1>1. d \in Nat \ {0}
  BY SumNat
<1>2. \A p \in Nat, q \in Nat \ {0} :
         /\ (p \div q) \in Nat /\ (p \div q) * q <= p
         /\ p + 1 <= ((p \div q) + 1) * q
  OBVIOUS
<1>3. ASSUME NEW x \in S
      PROVE  c[x] \in Nat /\ c[x] * d <= a[x] * n /\ a[x] * n + 1 <= (c[x] + 1) * d
  <2>1. a[x] * n \in Nat /\ c[x] = (a[x] * n) \div d
    OBVIOUS
  <2> HIDE DEF d
  <2>2. QED
    BY <1>1, <1>2, <2>1
<1>4. sum \in Nat
  BY <1>3, SumNat
<1>5. sum <= n
  <2>1. sum * d <= d * n
    BY <1>1, <1>3, SumScaledBound
  <2> HIDE DEF sum, d
  <2>2. \A p, q \in Nat : p * d <= d * q => p <= q
    BY <1>1
  <2>3. QED
    BY <1>4, <2>1, <2>2
<1>6. IsFiniteSet(K) /\ K \subseteq S
  BY FS_Subset
<1>7. k \in Nat
  BY <1>6, FS_CardinalityType
<1>8. SumFunctionOnSet(a, K) = d /\ SumFunctionOnSet(c, K) = sum
  <2> DEFINE Z == S \ K
  <2>1. IsFiniteSet(Z) /\ K \cap Z = {} /\ K \cup Z = S
    BY FS_Subset
  <2>2. \A x \in Z : a[x] = 0 /\ c[x] = 0
    <3>1. ASSUME NEW x \in Z
          PROVE  a[x] = 0 /\ c[x] = 0
      <4>1. a[x] = 0 /\ c[x] = (a[x] * n) \div d
        OBVIOUS
      <4>2. a[x] * n = 0
        BY <4>1
      <4> HIDE DEF d, Z
      <4>3. 0 \div d = 0
        BY <1>1
      <4>4. QED
        BY <4>1, <4>2, <4>3
    <3>2. QED
      BY <3>1
  <2>3. (\A x \in K \cup Z : a[x] \in Int) /\ (\A x \in K \cup Z : c[x] \in Int)
    BY <1>3, <2>1
  <2> HIDE DEF K, Z
  <2>4. SumFunctionOnSet(a, Z) = 0 /\ SumFunctionOnSet(c, Z) = 0
    BY <2>1, <2>2, SumZero
  <2>5. /\ SumFunctionOnSet(a, K \cup Z) = SumFunctionOnSet(a, K) + SumFunctionOnSet(a, Z)
        /\ SumFunctionOnSet(c, K \cup Z) = SumFunctionOnSet(c, K) + SumFunctionOnSet(c, Z)
    BY <1>6, <2>1, <2>3, SumUnion
  <2>6. SumFunctionOnSet(a, K) \in Int /\ SumFunctionOnSet(c, K) \in Int
    BY <1>6, <2>1, <2>3, SumInt
  <2>7. d = SumFunctionOnSet(a, K) + 0 /\ sum = SumFunctionOnSet(c, K) + 0
    BY <2>1, <2>4, <2>5
  <2> HIDE DEF d, sum
  <2>8. QED
    BY <2>6, <2>7
<1>9. k # 0
  <2>1. CASE K = {}
    <3>1. d = 0
      BY <1>8, <2>1, SumEmpty
    <3>2. QED
      BY <1>1, <3>1
  <2>2. CASE K # {}
    BY <1>6, <2>2, FS_EmptySet
  <2>3. QED
    BY <2>1, <2>2
<1>10. n < sum + k
  <2>1. d * n + k <= (sum + k) * d
    <3>1. \A x \in K : a[x] \in Nat /\ c[x] \in Nat /\ a[x] * n + 1 <= (c[x] + 1) * d
      BY <1>3
    <3> HIDE DEF K
    <3>2. d \in Nat
      BY <1>1
    <3> HIDE DEF d, sum
    <3>3. SumFunctionOnSet(a, K) * n + k <= (SumFunctionOnSet(c, K) + k) * d
      BY <1>6, <3>1, <3>2, SumFloorLoss
    <3>4. QED
      BY <1>8, <3>3
  <2> HIDE DEF d, sum, k, K
  <2>2. \A p, q \in Nat : d * p < q * d => p < q
    <3>1. SUFFICES ASSUME NEW p \in Nat, NEW q \in Nat, q <= p
                   PROVE  q * d <= d * p
      BY <1>1
    <3>2. QED
      BY <1>1, <3>1
  <2>3. d * n < (sum + k) * d
    <3>1. d * n \in Nat /\ (sum + k) * d \in Nat
      BY <1>1, <1>4, <1>7
    <3>2. QED
      BY <1>7, <1>9, <2>1, <3>1
  <2>4. QED
    BY <1>4, <1>7, <2>2, <2>3
<1>11. QED
  <2> HIDE DEF sum, k, d, K
  <2>1. n - sum \in 0 .. k - 1
    BY <1>4, <1>5, <1>7, <1>10
  <2>2. QED
    BY <1>4, <2>1 DEF sum, k, K

-------------------------------------------------------------------------------
(* Enumerations *)

\* A finite set has an enumeration in the order of its ranks.
LEMMA SortedEnumeration ==
    ASSUME NEW rank, NEW S, IsFiniteSet(S), \A x \in S : rank[x] \in Int,
           \A x, y \in S : rank[x] = rank[y] => x = y
    PROVE  \E s \in [1..Cardinality(S) -> S] :
              \A i, j \in 1..Cardinality(S) : i < j => rank[s[i]] < rank[s[j]]
<1> DEFINE Sorted(s, n) == \A i, j \in 1..n : i < j => rank[s[i]] < rank[s[j]]
           Good == {T \in SUBSET S :
                      \E s \in [1..Cardinality(T) -> T] : Sorted(s, Cardinality(T))}
<1>1. {} \in Good
  <2>1. Cardinality({}) = 0 /\ 1..0 = {}
    BY FS_EmptySet
  <2>2. [i \in 1..0 |-> i] \in [1..0 -> {}]
    BY <2>1
  <2>3. QED
    BY <2>1, <2>2
<1>2. ASSUME NEW T \in SUBSET S, NEW x \in S \ T, T \in Good
      PROVE  T \cup {x} \in Good
  <2> DEFINE n == Cardinality(T)
  <2>1. n \in Nat /\ Cardinality(T \cup {x}) = n + 1
    <3>1. IsFiniteSet(T)
      BY FS_Subset
    <3>2. QED
      BY <3>1, FS_AddElement, FS_CardinalityType
  <2>2. PICK s \in [1..n -> T] : Sorted(s, n)
    BY <1>2
  <2> HIDE DEF n
  <2> DEFINE above == {i \in 1..(n + 1) : i = n + 1 \/ rank[x] < rank[s[i]]}
  <2>3. above \in SUBSET Nat /\ above # {}
    BY <2>1
  <2>4. PICK k \in above : \A i \in above : k <= i
    <3> HIDE DEF above
    <3>1. QED
      BY <2>3, LeastNatural
  <2>5. k \in 1..(n + 1) /\ (k <= n => rank[x] < rank[s[k]])
    BY <2>1, <2>4
  <2>6. \A i \in 1..n : i < k => rank[s[i]] < rank[x]
    <3> SUFFICES ASSUME NEW i \in 1..n, i < k PROVE rank[s[i]] < rank[x]
      OBVIOUS
    <3>1. s[i] \in T /\ s[i] \in S /\ s[i] # x
      BY <2>2
    <3>2. i \notin above
      BY <2>1, <2>4
    <3>3. ~(rank[x] < rank[s[i]])
      BY <2>1, <3>2
    <3>4. rank[s[i]] \in Int /\ rank[x] \in Int /\ rank[s[i]] # rank[x]
      BY <3>1
    <3>5. QED
      BY <3>3, <3>4
  <2>7. \A i \in 1..n : i >= k => rank[x] < rank[s[i]]
    <3> SUFFICES ASSUME NEW i \in 1..n, i >= k PROVE rank[x] < rank[s[i]]
      OBVIOUS
    <3>1. k \in 1..n /\ rank[x] < rank[s[k]]
      BY <2>1, <2>5
    <3>2. i # k => rank[s[k]] < rank[s[i]]
      BY <2>2, <3>1
    <3>3. /\ rank[x] \in Int /\ rank[s[k]] \in Int /\ rank[s[i]] \in Int
      BY <2>2, <3>1
    <3>4. QED
      BY <3>1, <3>2, <3>3
  <2> HIDE DEF above
  <2> DEFINE t == [i \in 1..(n + 1) |-> IF i < k THEN s[i] ELSE IF i = k THEN x ELSE s[i - 1]]
  <2>8. /\ \A i \in 1..(n + 1) : i < k => t[i] = s[i] /\ i \in 1..n
        /\ t[k] = x
        /\ \A i \in 1..(n + 1) : i > k => t[i] = s[i - 1] /\ i - 1 \in 1..n /\ i - 1 >= k
    BY <2>1, <2>5
  <2>9. \A i \in 1..(n + 1) : t[i] \in T \cup {x}
    <3> SUFFICES ASSUME NEW i \in 1..(n + 1) PROVE t[i] \in T \cup {x}
      OBVIOUS
    <3> HIDE DEF t
    <3>1. CASE i < k
      BY <2>2, <2>8, <3>1
    <3>2. CASE i = k
      BY <2>8, <3>2
    <3>3. CASE i > k
      BY <2>2, <2>8, <3>3
    <3>4. QED
      BY <2>1, <2>5, <3>1, <3>2, <3>3
  <2>10. t \in [1..(n + 1) -> T \cup {x}]
    <3>1. t = [i \in 1..(n + 1) |-> t[i]]
      OBVIOUS
    <3> HIDE DEF t
    <3>2. QED
      BY <2>9, <3>1
  <2> HIDE DEF t
  <2>11. Sorted(t, n + 1)
    <3> SUFFICES ASSUME NEW i \in 1..(n + 1), NEW j \in 1..(n + 1), i < j
                 PROVE  rank[t[i]] < rank[t[j]]
      OBVIOUS
    <3>1. i \in Nat /\ j \in Nat /\ k \in Nat
      BY <2>1, <2>5
    <3>2. CASE j < k
      BY <2>2, <2>8, <3>1, <3>2
    <3>3. CASE j = k
      BY <2>6, <2>8, <3>1, <3>3
    <3>4. CASE i < k /\ j > k
      <4>1. t[i] = s[i] /\ t[j] = s[j - 1] /\ i \in 1..n /\ j - 1 \in 1..n /\ j - 1 >= k
        BY <2>8, <3>1, <3>4
      <4>2. i < j - 1
        BY <3>1, <3>4
      <4>3. QED
        BY <2>2, <4>1, <4>2
    <3>5. CASE i = k
      <4>1. t[i] = x /\ t[j] = s[j - 1] /\ j - 1 \in 1..n /\ j - 1 >= k
        BY <2>8, <3>1, <3>5
      <4>2. QED
        BY <2>7, <4>1
    <3>6. CASE i > k
      <4>1. t[i] = s[i - 1] /\ t[j] = s[j - 1] /\ i - 1 \in 1..n /\ j - 1 \in 1..n
        BY <2>8, <3>1, <3>6
      <4>2. i - 1 < j - 1
        BY <3>1
      <4>3. QED
        BY <2>2, <4>1, <4>2
    <3>7. QED
      BY <3>1, <3>2, <3>3, <3>4, <3>5, <3>6
  <2>12. T \cup {x} \in SUBSET S
    OBVIOUS
  <2>13. QED
    BY <2>1, <2>10, <2>11, <2>12
<1>3. S \in Good
  <2> HIDE DEF Good
  <2>1. QED
    BY <1>1, <1>2, SubsetGrowth
<1>4. QED
  BY <1>3
===============================================================================
