----------------------------- MODULE ResultsProofs -----------------------------
(***************************************************************************)
(* Rankings, prices and start lists for any number of stages and crews,    *)
(* any times and any penalty catalogue.  What is computed by a fold, a sum *)
(* or a sort is described once by a lemma (what the result is made of, in  *)
(* which order), by way of the smallest counterexample: SmallestSet and    *)
(* Upwards stand in for induction.                                         *)
(***************************************************************************)
EXTENDS Results, FiniteSetTheorems, TLAPS

-----------------------------------------------------------------------------
(* Induction: the smallest counterexample *)

LEMMA SmallestSet ==
  ASSUME NEW A, IsFiniteSet(A), NEW Bad \in SUBSET SUBSET A, Bad # {}
  PROVE  \E S \in Bad : \A T \in SUBSET S : T # S => T \notin Bad
<1>1. Bad \subseteq FiniteSubsetsOf(A)
      BY FS_Subset DEF FiniteSubsetsOf
<1>2. PICK S \in Bad : \A T \in Bad : ~(<<T, S>> \in StrictSubsetOrdering(A))
      BY <1>1, FS_StrictSubsetOrderingWellFounded, WFMin
<1>3. ASSUME NEW T \in SUBSET S, T # S, T \in Bad PROVE FALSE
      BY <1>2, <1>3 DEF StrictSubsetOrdering
<1> QED BY <1>3

LEMMA SmallestNumber ==
  ASSUME NEW Bad \in SUBSET Nat, Bad # {}
  PROVE  \E n \in Bad : \A m \in Bad : n <= m
<1>1. PICK n \in Bad : \A m \in Bad : ~(<<m, n>> \in OpToRel(<, Nat))
      BY NatLessThanWellFounded, WFMin
<1>2. \A m \in Bad : ~(m < n)
      BY <1>1 DEF OpToRel
<1> QED BY <1>2

\* What holds of 0, and of n + 1 when it holds of n, holds of every number.
LEMMA Upwards ==
  ASSUME NEW Good \in SUBSET Nat, 0 \in Good, \A n \in Good : n + 1 \in Good
  PROVE  Good = Nat
<1> SUFFICES ASSUME Nat \ Good # {} PROVE FALSE
    OBVIOUS
<1>1. PICK n \in Nat \ Good : \A m \in Nat \ Good : n <= m
      BY SmallestNumber
<1>2. n - 1 \in Nat /\ n - 1 \in Good
      BY <1>1
<1>3. (n - 1) + 1 = n
      OBVIOUS
<1> QED BY <1>2, <1>3

-----------------------------------------------------------------------------
(* The largest and the smallest of a finite set of numbers *)

LEMMA MaxIs ==
  ASSUME NEW A \in SUBSET Int, IsFiniteSet(A), A # {}
  PROVE  Max(A) \in A /\ \A y \in A : Max(A) >= y
<1> DEFINE HasMax(S) == \E x \in S : \A y \in S : x >= y
           Bad == {S \in SUBSET A : S # {} /\ ~HasMax(S)}
<1>1. Bad = {}
  <2> SUFFICES ASSUME Bad # {} PROVE FALSE
      OBVIOUS
  <2>1. PICK S \in Bad : \A T \in SUBSET S : T # S => T \notin Bad
    <3>1. Bad \in SUBSET SUBSET A
          OBVIOUS
    <3> HIDE DEF Bad
    <3> QED BY <3>1, SmallestSet
  <2> PICK x \in S : TRUE
      BY <2>1
  <2>2. S \ {x} \notin Bad
        BY <2>1
  <2>3. CASE S \ {x} = {}
        BY <2>3, <2>1
  <2>4. CASE HasMax(S \ {x})
    <3> PICK m \in S \ {x} : \A y \in S \ {x} : m >= y
        BY <2>4
    <3>1. CASE m >= x
          BY <3>1, <2>1
    <3>2. CASE ~(m >= x)
          BY <3>2, <2>1
    <3> QED BY <3>1, <3>2
  <2> QED BY <2>2, <2>3, <2>4, <2>1
<1>2. HasMax(A)
      BY <1>1
<1> QED BY <1>2 DEF Max

LEMMA MinIs ==
  ASSUME NEW A \in SUBSET Nat, A # {}
  PROVE  Min(A) \in A /\ \A y \in A : Min(A) <= y
  BY SmallestNumber DEF Min

-----------------------------------------------------------------------------
(* Folds: a set is folded one picked member after the other *)

Picks(pick, A) ==
  pick \in [SUBSET A -> A] /\ \A S \in SUBSET A : S # {} => pick[S] \in S
FoldsUp(A, base, pick, step, it) ==
  \A S \in SUBSET A : it[S] = IF S = {} THEN base ELSE step[<<pick[S], it[S \ {pick[S]}]>>]

LEMMA FoldsExist ==
  ASSUME NEW A, IsFiniteSet(A), NEW State, NEW base \in State,
         NEW pick, Picks(pick, A), NEW step \in [A \X State -> State]
  PROVE  \E it \in [SUBSET A -> State] : FoldsUp(A, base, pick, step, it)
<1> DEFINE Body(it, S) == IF S = {} THEN base ELSE step[<<pick[S], it[S \ {pick[S]}]>>]
           Upto(n) == \E it \in [SUBSET A -> State] :
                        \A S \in SUBSET A : Cardinality(S) <= n => it[S] = Body(it, S)
           Good == {n \in Nat : Upto(n)}
<1> USE DEF Picks
<1>1. \A S \in SUBSET A : IsFiniteSet(S) /\ Cardinality(S) \in Nat
      BY FS_Subset, FS_CardinalityType
<1>2. Upto(0)
  <2> DEFINE it == [S \in SUBSET A |-> base]
  <2>1. \A S \in SUBSET A : Cardinality(S) <= 0 => S = {}
        BY <1>1, FS_EmptySet
  <2>2. it \in [SUBSET A -> State] /\ \A S \in SUBSET A : S = {} => it[S] = Body(it, S)
        OBVIOUS
  <2> QED BY <2>1, <2>2
<1>3. ASSUME NEW n \in Nat, Upto(n) PROVE Upto(n + 1)
  <2> PICK it \in [SUBSET A -> State] :
              \A S \in SUBSET A : Cardinality(S) <= n => it[S] = Body(it, S)
      BY <1>3
  <2> DEFINE next == [S \in SUBSET A |-> Body(it, S)]
  <2>1. next \in [SUBSET A -> State]
    <3>1. ASSUME NEW S \in SUBSET A PROVE Body(it, S) \in State
      <4>1. CASE S = {}
            BY <4>1
      <4>2. CASE S # {}
        <5>1. pick[S] \in A /\ S \ {pick[S]} \in SUBSET A
              BY <4>2
        <5>2. <<pick[S], it[S \ {pick[S]}]>> \in A \X State
              BY <5>1
        <5> QED BY <4>2, <5>2
      <4> QED BY <4>1, <4>2
    <3> HIDE DEF Body
    <3> QED BY <3>1
  <2>2. ASSUME NEW S \in SUBSET A, Cardinality(S) <= n + 1
        PROVE  next[S] = Body(next, S)
    <3>1. CASE S = {}
          BY <3>1
    <3>2. CASE S # {}
      <4> DEFINE T == S \ {pick[S]}
      <4>1. T \in SUBSET A /\ Cardinality(T) <= n
            BY <1>1, <2>2, <3>2, FS_RemoveElement
      <4>2. next[T] = it[T]
            BY <4>1
      <4> QED BY <3>2, <4>2
    <3> QED BY <3>1, <3>2
  <2> HIDE DEF next
  <2> QED BY <2>1, <2>2
<1>4. Upto(Cardinality(A))
  <2> HIDE DEF Upto
  <2>1. 0 \in Good /\ \A n \in Good : n + 1 \in Good
        BY <1>2, <1>3
  <2>2. Good = Nat
    <3> HIDE DEF Good
    <3>1. Good \in SUBSET Nat
          BY DEF Good
    <3> QED BY <2>1, <3>1, Upwards
  <2> QED BY <1>1, <2>2
<1> QED BY <1>4, FS_Subset DEF FoldsUp

-----------------------------------------------------------------------------
(* Sums *)

Picked(S) == CHOOSE x \in S : TRUE
SumOf(f, A) == MapThenSumSet(LAMBDA x : f[x], A)
SumsUp(f, A, it) ==
  \A S \in SUBSET A : it[S] = IF S = {} THEN 0 ELSE f[Picked(S)] + it[S \ {Picked(S)}]

LEMMA SumIs ==
  ASSUME NEW A, IsFiniteSet(A), NEW f, \A x \in A : f[x] \in Int
  PROVE  \E it \in [SUBSET A -> Int] : SumsUp(f, A, it) /\ SumOf(f, A) = it[A]
<1> DEFINE Sums(it) == it = [S \in SUBSET A |->
                 IF S = {} THEN 0 ELSE f[Picked(S)] + it[S \ {Picked(S)}]]
           total == CHOOSE it : Sums(it)
<1>1. SumOf(f, A) = total[A]
      BY DEF SumOf, MapThenSumSet, MapThenFoldSet, Picked
<1>2. \A S \in SUBSET A : S # {} => Picked(S) \in S
      BY DEF Picked
<1>3. \E it : Sums(it)
  <2>0. CASE A = {}
    <3>1. Sums([S \in SUBSET A |-> 0])
          BY <2>0
    <3> QED BY <3>1
  <2>1. CASE A # {}
    <3> DEFINE pick == [S \in SUBSET A |-> IF S = {} THEN Picked(A) ELSE Picked(S)]
               step == [p \in A \X Int |-> f[p[1]] + p[2]]
    <3>1. /\ pick \in [SUBSET A -> A] /\ step \in [A \X Int -> Int]
          /\ \A S \in SUBSET A : S # {} => pick[S] = Picked(S)
          /\ \A x \in A, v \in Int : step[<<x, v>>] = f[x] + v
          BY <1>2, <2>1
    <3> HIDE DEF pick, step
    <3>2. Picks(pick, A) /\ 0 \in Int
          BY <1>2, <3>1 DEF Picks
    <3> PICK it \in [SUBSET A -> Int] : FoldsUp(A, 0, pick, step, it)
        BY <3>1, <3>2, FoldsExist
    <3>5. ASSUME NEW S \in SUBSET A
          PROVE  it[S] = IF S = {} THEN 0 ELSE f[Picked(S)] + it[S \ {Picked(S)}]
      <4>1. CASE S # {}
        <5>1. Picked(S) \in A /\ S \ {Picked(S)} \in SUBSET A /\ pick[S] = Picked(S)
              BY <1>2, <3>1, <4>1
        <5>2. it[S \ {Picked(S)}] \in Int
              BY <5>1
        <5> QED BY <3>1, <4>1, <5>1, <5>2 DEF FoldsUp
      <4> QED BY <4>1 DEF FoldsUp
    <3>6. Sums(it)
          BY <3>5
    <3> QED BY <3>6
  <2> QED BY <2>0, <2>1
<1>4. Sums(total)
      BY <1>3
<1> HIDE DEF total
<1>5. SumsUp(f, A, total)
      BY <1>4 DEF SumsUp
<1>6. total \in [SUBSET A -> Int]
  <2> DEFINE Bad == {S \in SUBSET A : total[S] \notin Int}
  <2>1. Bad = {}
    <3> SUFFICES ASSUME Bad # {} PROVE FALSE
        OBVIOUS
    <3>1. PICK S \in Bad : \A T \in SUBSET S : T # S => T \notin Bad
      <4>1. Bad \in SUBSET SUBSET A
            OBVIOUS
      <4> HIDE DEF Bad
      <4> QED BY <4>1, SmallestSet
    <3>2. S # {}
      <4>1. total[{}] = 0 /\ {} \in SUBSET A
            BY <1>5 DEF SumsUp
      <4>2. {} \notin Bad
            BY <4>1
      <4> HIDE DEF Bad
      <4> QED BY <3>1, <4>2
    <3>3. Picked(S) \in S /\ S \ {Picked(S)} \notin Bad
          BY <1>2, <3>1, <3>2
    <3>4. total[S] = f[Picked(S)] + total[S \ {Picked(S)}]
          BY <3>1, <3>2, <1>5 DEF SumsUp
    <3> QED BY <3>1, <3>3, <3>4
  <2>2. DOMAIN total = SUBSET A /\ total = [S \in SUBSET A |-> total[S]]
        BY <1>4
  <2> QED BY <2>1, <2>2
<1> QED BY <1>1, <1>5, <1>6

LEMMA SumTyped ==
  ASSUME NEW A, IsFiniteSet(A), NEW f, \A x \in A : f[x] \in Int
  PROVE  SumOf(f, A) \in Int
<1> PICK F \in [SUBSET A -> Int] : SumsUp(f, A, F) /\ SumOf(f, A) = F[A]
    BY SumIs
<1>1. A \in SUBSET A
      OBVIOUS
<1> QED BY <1>1

LEMMA SumNothing ==
  ASSUME NEW A, IsFiniteSet(A), NEW f, \A x \in A : f[x] = 0
  PROVE  SumOf(f, A) = 0
<1> PICK F \in [SUBSET A -> Int] : SumsUp(f, A, F) /\ SumOf(f, A) = F[A]
  <2>1. \A x \in A : f[x] \in Int
        OBVIOUS
  <2> QED BY <2>1, SumIs
<1> DEFINE Bad == {S \in SUBSET A : F[S] # 0}
<1>1. Bad = {}
  <2> SUFFICES ASSUME Bad # {} PROVE FALSE
      OBVIOUS
  <2>1. PICK S \in Bad : \A T \in SUBSET S : T # S => T \notin Bad
    <3>1. Bad \in SUBSET SUBSET A
          OBVIOUS
    <3> HIDE DEF Bad
    <3> QED BY <3>1, SmallestSet
  <2>2. S # {}
    <3>1. F[{}] = 0 /\ {} \in SUBSET A
          BY DEF SumsUp
    <3>2. {} \notin Bad
          BY <3>1
    <3> HIDE DEF Bad
    <3> QED BY <2>1, <3>2
  <2> DEFINE x == Picked(S)
  <2>3. x \in S
        BY <2>2 DEF Picked
  <2>4. F[S] = f[x] + F[S \ {x}]
        BY <2>1, <2>2 DEF SumsUp
  <2> HIDE DEF x
  <2> QED BY <2>1, <2>3, <2>4
<1>2. A \in SUBSET A
      OBVIOUS
<1> QED BY <1>1, <1>2

\* Summands that differ at one member differ in the sum by as much.
LEMMA SumChanges ==
  ASSUME NEW A, IsFiniteSet(A), NEW f, NEW g, \A x \in A : f[x] \in Int /\ g[x] \in Int,
         NEW s, \A x \in A : x # s => f[x] = g[x]
  PROVE  /\ SumOf(f, A) \in Int /\ SumOf(g, A) \in Int
         /\ SumOf(g, A) = SumOf(f, A) + IF s \in A THEN g[s] - f[s] ELSE 0
<1> PICK F \in [SUBSET A -> Int] : SumsUp(f, A, F) /\ SumOf(f, A) = F[A]
    BY SumIs
<1> PICK G \in [SUBSET A -> Int] : SumsUp(g, A, G) /\ SumOf(g, A) = G[A]
    BY SumIs
<1> DEFINE Bad == {S \in SUBSET A : G[S] # F[S] + IF s \in S THEN g[s] - f[s] ELSE 0}
<1>1. Bad = {}
  <2> SUFFICES ASSUME Bad # {} PROVE FALSE
      OBVIOUS
  <2>1. PICK S \in Bad : \A T \in SUBSET S : T # S => T \notin Bad
    <3>1. Bad \in SUBSET SUBSET A
          OBVIOUS
    <3> HIDE DEF Bad
    <3> QED BY <3>1, SmallestSet
  <2>2. S # {}
    <3>1. F[{}] = 0 /\ G[{}] = 0 /\ {} \in SUBSET A
          BY DEF SumsUp
    <3>2. {} \notin Bad
          BY <3>1
    <3> HIDE DEF Bad
    <3> QED BY <2>1, <3>2
  <2> DEFINE x == Picked(S)
             T == S \ {x}
  <2>3. x \in S
        BY <2>2 DEF Picked
  <2>4. F[S] = f[x] + F[T] /\ G[S] = g[x] + G[T]
        BY <2>1, <2>2 DEF SumsUp
  <2> HIDE DEF x
  <2>5. T \in SUBSET A /\ G[T] = F[T] + IF s \in T THEN g[s] - f[s] ELSE 0
        BY <2>1, <2>3
  <2>6. f[x] \in Int /\ g[x] \in Int /\ F[T] \in Int /\ G[T] \in Int
        BY <2>1, <2>3, <2>5
  <2>7. CASE x = s
        BY <2>1, <2>3, <2>4, <2>5, <2>6, <2>7
  <2>8. CASE x # s
        BY <2>1, <2>3, <2>4, <2>5, <2>6, <2>8
  <2> QED BY <2>7, <2>8
<1>2. F[A] \in Int /\ G[A] \in Int
      OBVIOUS
<1> QED BY <1>1, <1>2

-----------------------------------------------------------------------------
(* Sorting: a finite set in a strict order is laid out member by member *)

StrictlyOrders(R, S) ==
  /\ \A x \in S : <<x, x>> \notin R
  /\ \A x, y, z \in S : <<x, y>> \in R /\ <<y, z>> \in R => <<x, z>> \in R
  /\ \A x, y \in S : x # y => <<x, y>> \in R \/ <<y, x>> \in R

\* The members of S, each once, in the order of R.
LaidOut(seq, S, R) ==
  /\ Cardinality(S) \in Nat
  /\ seq \in [1 .. Cardinality(S) -> S]
  /\ \A x \in S : \E i \in 1 .. Cardinality(S) : seq[i] = x
  /\ \A i, j \in 1 .. Cardinality(S) : i < j => <<seq[i], seq[j]>> \in R

LEMMA SortedIs ==
  ASSUME NEW S, IsFiniteSet(S), NEW R, StrictlyOrders(R, S)
  PROVE  LaidOut(Sorted(S, R), S, R)
<1> DEFINE n == Cardinality(S)
           Before(x) == {y \in S : <<y, x>> \in R}
           place == [x \in S |-> Place(S, R, x)]
<1>1. n \in Nat
      BY FS_CardinalityType
<1>2. ASSUME NEW x \in S
      PROVE  IsFiniteSet(Before(x)) /\ Cardinality(Before(x)) \in Nat /\ Cardinality(Before(x)) < n
  <2>1. Before(x) \in SUBSET S /\ x \notin Before(x)
        BY DEF StrictlyOrders
  <2>2. Before(x) # S
        BY <2>1
  <2>3. IsFiniteSet(Before(x)) /\ Cardinality(Before(x)) <= n /\ Cardinality(Before(x)) # n
    <3> HIDE DEF Before
    <3> QED BY <2>1, <2>2, FS_Subset
  <2>4. Cardinality(Before(x)) \in Nat
        BY <2>3, FS_CardinalityType
  <2> QED BY <1>1, <2>3, <2>4
<1>3. \A x \in S : place[x] = Cardinality(Before(x)) + 1
      BY DEF Place
<1>4. ASSUME NEW x \in S, NEW y \in S, <<x, y>> \in R PROVE place[x] < place[y]
  <2>1. Before(x) \in SUBSET Before(y) /\ x \in Before(y) /\ x \notin Before(x)
        BY <1>4 DEF StrictlyOrders
  <2>2. Cardinality(Before(x)) <= Cardinality(Before(y)) /\ Cardinality(Before(x)) # Cardinality(Before(y))
    <3>1. IsFiniteSet(Before(y)) /\ Before(x) # Before(y)
          BY <1>2, <2>1
    <3> HIDE DEF Before
    <3> QED BY <2>1, <3>1, FS_Subset
  <2>3. Cardinality(Before(x)) \in Nat /\ Cardinality(Before(y)) \in Nat
        BY <1>2
  <2> HIDE DEF Before, place
  <2> QED BY <1>3, <2>2, <2>3
<1>5. place \in [S -> 1 .. n]
  <2> HIDE DEF Before
  <2>1. \A x \in S : place[x] \in 1 .. n
        BY <1>1, <1>2, <1>3
  <2> QED BY <2>1
<1>6. \A x, y \in S : place[x] = place[y] => x = y
  <2> HIDE DEF Before, place
  <2>1. \A x \in S : place[x] \in Int
        BY <1>1, <1>5
  <2>2. \A x, y \in S : x # y => <<x, y>> \in R \/ <<y, x>> \in R
        BY DEF StrictlyOrders
  <2>3. \A x, y \in S : <<x, y>> \in R => place[x] < place[y]
        BY <1>4
  <2> SUFFICES ASSUME NEW x \in S, NEW y \in S, place[x] = place[y], x # y PROVE FALSE
      OBVIOUS
  <2>4. ~(place[x] < place[y]) /\ ~(place[y] < place[x])
        BY <2>1
  <2> QED BY <2>2, <2>3, <2>4
<1>7. \A i \in 1 .. n : \E x \in S : place[x] = i
  <2> HIDE DEF place, Before, n
  <2>1. place \in Injection(S, 1 .. n)
        BY <1>5, <1>6 DEF Injection, IsInjective
  <2>2. IsFiniteSet(1 .. n) /\ Cardinality(1 .. n) = n
        BY <1>1, FS_Interval
  <2>3. place \in Surjection(S, 1 .. n)
        BY <2>1, <2>2, FS_Injection DEF n
  <2> QED BY <2>3 DEF Surjection
<1> DEFINE seq == Sorted(S, R)
<1>8. \A i \in 1 .. n : seq[i] \in S /\ place[seq[i]] = i
  <2>1. ASSUME NEW i \in 1 .. n PROVE seq[i] \in S /\ place[seq[i]] = i
    <3>1. PICK x \in S : Place(S, R, x) = i
          BY <1>7
    <3>2. seq[i] = CHOOSE y \in S : Place(S, R, y) = i
          BY DEF Sorted
    <3>3. seq[i] \in S /\ Place(S, R, seq[i]) = i
          BY <3>1, <3>2
    <3> QED BY <3>3
  <2> QED BY <2>1
<1>9. DOMAIN seq = 1 .. n /\ seq = [i \in 1 .. n |-> seq[i]]
      BY DEF Sorted
<1> HIDE DEF seq, place, Before
<1>10. seq \in [1 .. n -> S]
      BY <1>8, <1>9
<1>11. \A x \in S : \E i \in 1 .. n : seq[i] = x
      BY <1>5, <1>6, <1>8
<1>12. ASSUME NEW i \in 1 .. n, NEW j \in 1 .. n, i < j
       PROVE  <<seq[i], seq[j]>> \in R
  <2>1. seq[i] \in S /\ seq[j] \in S /\ seq[i] # seq[j]
        BY <1>1, <1>8, <1>12
  <2>2. ~(<<seq[j], seq[i]>> \in R)
        BY <1>1, <1>4, <1>8, <1>12
  <2> QED BY <2>1, <2>2 DEF StrictlyOrders
<1> QED BY <1>1, <1>10, <1>11, <1>12 DEF LaidOut, seq

-----------------------------------------------------------------------------
(* What offences cost *)

Tiers == Seq([fromCount : Nat, seconds : Nat])

LEMMA LastIs ==
  ASSUME NEW n \in Nat, NEW S \in SUBSET (1 .. n)
  PROVE  IsFiniteSet(S) /\ S \in SUBSET Int /\ (S # {} => Max(S) \in S)
<1> DEFINE K == 1 .. n
<1>1. IsFiniteSet(K) /\ S \in SUBSET K /\ S \in SUBSET Int
      BY FS_Interval
<1> HIDE DEF K
<1>2. IsFiniteSet(S)
      BY <1>1, FS_Subset
<1> QED BY <1>1, <1>2, MaxIs

LEMMA TierSecondsIs ==
  ASSUME NEW tiers \in Tiers, NEW n \in Int
  PROVE  TierSeconds(tiers, n) \in Nat
<1> DEFINE reached == {i \in DOMAIN tiers : tiers[i].fromCount <= n}
<1>1. CASE reached = {}
      BY <1>1 DEF TierSeconds
<1>2. CASE reached # {}
  <2>1. Len(tiers) \in Nat /\ DOMAIN tiers = 1 .. Len(tiers)
        BY DEF Tiers
  <2>2. reached \in SUBSET (1 .. Len(tiers)) /\ reached \in SUBSET Int
        BY <2>1
  <2>4. Max(reached) \in reached
    <3> HIDE DEF reached
    <3> QED BY <1>2, <2>1, <2>2, LastIs
  <2>5. tiers[Max(reached)] \in [fromCount : Nat, seconds : Nat]
    <3>1. \A i \in 1 .. Len(tiers) : tiers[i] \in [fromCount : Nat, seconds : Nat]
      <4> DEFINE Tier == [fromCount : Nat, seconds : Nat]
      <4>1. tiers \in Seq(Tier)
            BY DEF Tiers
      <4> HIDE DEF Tier
      <4>2. \A i \in 1 .. Len(tiers) : tiers[i] \in Tier
            BY <4>1
      <4> QED BY <4>2 DEF Tier
    <3>2. Max(reached) \in 1 .. Len(tiers)
          BY <2>2, <2>4
    <3> QED BY <3>1, <3>2
  <2>6. TierSeconds(tiers, n) = tiers[Max(reached)].seconds
        BY <1>2 DEF TierSeconds
  <2> HIDE DEF reached
  <2> QED BY <2>5, <2>6
<1> QED BY <1>1, <1>2

\* A sequence is folded from the left: what is picked last is the last.
LEMMA LastOfMany ==
  ASSUME NEW k \in Nat, k # 0
  PROVE  1 .. k # {} /\ Max(1 .. k) = k /\ (1 .. k) \ {k} = 1 .. k - 1
<1> DEFINE K == 1 .. k
<1>1. k \in K /\ IsFiniteSet(K) /\ K \in SUBSET Int
      BY FS_Interval
<1>2. Max(K) \in K /\ \A y \in K : Max(K) >= y
  <2> HIDE DEF K
  <2>1. K \in SUBSET Int /\ IsFiniteSet(K) /\ K # {}
        BY <1>1 DEF K
  <2> QED BY <2>1, MaxIs
<1>3. Max(1 .. k) = k
      BY <1>1, <1>2
<1>4. 1 .. k # {} /\ (1 .. k) \ {k} = 1 .. k - 1
      OBVIOUS
<1> QED BY <1>3, <1>4

LEMMA LeftwardsPicks ==
  ASSUME NEW n \in Nat, n # 0
  PROVE  \E pick : Picks(pick, 1 .. n) /\ \A S \in SUBSET (1 .. n) : S # {} => pick[S] = Max(S)
<1> DEFINE pick == [S \in SUBSET (1 .. n) |-> IF S = {} THEN 1 ELSE Max(S)]
<1>1. ASSUME NEW S \in SUBSET (1 .. n), S # {} PROVE Max(S) \in S
  BY <1>1, LastIs
<1>2. 1 \in 1 .. n
      OBVIOUS
<1>3. pick \in [SUBSET (1 .. n) -> 1 .. n]
      BY <1>1, <1>2
<1>4. \A S \in SUBSET (1 .. n) : S # {} => pick[S] = Max(S) /\ pick[S] \in S
      BY <1>1
<1> HIDE DEF pick
<1> QED BY <1>3, <1>4 DEF Picks

\* cost[k]: the first k of the offences from the given one on.
CostsUp(tiers, first, count, cost) ==
  /\ cost \in [0 .. count -> Nat] /\ cost[0] = 0
  /\ \A k \in 1 .. count : cost[k] = cost[k - 1] + TierSeconds(tiers, first + k - 1)

LEMMA OffencesCostIs ==
  ASSUME NEW tiers \in Tiers, NEW first \in Nat, NEW count \in Nat,
         NEW last, last = first + count - 1
  PROVE  \E cost : CostsUp(tiers, first, count, cost) /\ OffencesCost(tiers, first, last) = cost[count]
<1> DEFINE seq == [i \in 1 .. last + 1 - first |-> first + i - 1]
           A == 1 .. count
           Second(i) == TierSeconds(tiers, seq[i])
           Body(it, S) == IF S = {} THEN 0 ELSE it[S \ {Max(S)}] + Second(Max(S))
           Costs(it) == it = [S \in SUBSET A |-> Body(it, S)]
           total == CHOOSE it : Costs(it)
<1>0. last + 1 - first = count
      OBVIOUS
<1>1. OffencesCost(tiers, first, last) = total[A]
  <2>1. DOMAIN seq = A
        BY <1>0
  <2> HIDE DEF A
  <2> QED BY <2>1 DEF OffencesCost, FoldLeft, MapThenFoldSet
<1>8. \A i \in A : Second(i) = TierSeconds(tiers, first + i - 1) /\ Second(i) \in Nat
  <2>1. ASSUME NEW i \in A
        PROVE  Second(i) = TierSeconds(tiers, first + i - 1) /\ Second(i) \in Nat
    <3>1. first + i - 1 \in Int /\ seq[i] = first + i - 1
          BY <1>0
    <3> HIDE DEF seq
    <3> QED BY <3>1, TierSecondsIs
  <2> QED BY <2>1
<1> HIDE DEF Second
<1>2. \E it : Costs(it)
  <2>1. CASE count = 0
    <3>1. Costs([S \in SUBSET A |-> 0])
          BY <2>1
    <3> QED BY <3>1
  <2>2. CASE count # 0
    <3> PICK pick : Picks(pick, A) /\ \A S \in SUBSET A : S # {} => pick[S] = Max(S)
        BY <2>2, LeftwardsPicks
    <3> DEFINE step == [p \in A \X Nat |-> p[2] + Second(p[1])]
    <3>0. \A i \in A : Second(i) \in Nat
          BY <1>8
    <3>1. /\ step \in [A \X Nat -> Nat]
          /\ \A i \in A, v \in Nat : step[<<i, v>>] = v + Second(i)
      <4> HIDE DEF A
      <4>1. \A p \in A \X Nat : p[2] + Second(p[1]) \in Nat
            BY <3>0
      <4> QED BY <4>1
    <3> HIDE DEF step
    <3>2. IsFiniteSet(A) /\ 0 \in Nat
          BY FS_Interval
    <3> HIDE DEF A
    <3> PICK it \in [SUBSET A -> Nat] : FoldsUp(A, 0, pick, step, it)
        BY <3>1, <3>2, FoldsExist
    <3>3. ASSUME NEW S \in SUBSET A PROVE it[S] = Body(it, S)
      <4>1. CASE S # {}
        <5>1. Max(S) \in A /\ pick[S] = Max(S) /\ S \ {Max(S)} \in SUBSET A
              BY <4>1 DEF Picks
        <5>2. it[S \ {Max(S)}] \in Nat
              BY <5>1
        <5> QED BY <3>1, <4>1, <5>1, <5>2 DEF FoldsUp
      <4> QED BY <4>1 DEF FoldsUp
    <3>4. Costs(it)
          BY <3>3
    <3> QED BY <3>4
  <2> QED BY <2>1, <2>2
<1>3. Costs(total)
      BY <1>2
<1> HIDE DEF total
<1> DEFINE cost == [k \in 0 .. count |-> total[1 .. k]]
<1>4. cost[0] = 0 /\ \A k \in 1 .. count : cost[k] = cost[k - 1] + Second(k)
  <2>1. \A S \in SUBSET A : total[S] = Body(total, S)
        BY <1>3
  <2>2. 1 .. 0 = {} /\ 1 .. 0 \in SUBSET A
        OBVIOUS
  <2>3. ASSUME NEW k \in 1 .. count PROVE cost[k] = cost[k - 1] + Second(k)
    <3>1. 1 .. k # {} /\ Max(1 .. k) = k /\ (1 .. k) \ {k} = 1 .. k - 1
          BY LastOfMany
    <3>2. 1 .. k \in SUBSET A /\ k \in 0 .. count /\ k - 1 \in 0 .. count
          OBVIOUS
    <3>3. total[1 .. k] = total[(1 .. k) \ {Max(1 .. k)}] + Second(Max(1 .. k))
          BY <2>1, <3>1, <3>2
    <3>4. cost[k] = total[1 .. k] /\ cost[k - 1] = total[1 .. k - 1]
          BY <3>2
    <3> QED BY <3>1, <3>3, <3>4
  <2>4. cost[0] = 0
    <3>1. 0 \in 0 .. count
          OBVIOUS
    <3>2. cost[0] = total[1 .. 0]
          BY <3>1
    <3>3. total[1 .. 0] = 0
          BY <2>1, <2>2
    <3> QED BY <3>2, <3>3
  <2> QED BY <2>3, <2>4
<1>5. cost \in [0 .. count -> Nat]
  <2> DEFINE Good == {n \in Nat : n \in 0 .. count => cost[n] \in Nat}
  <2> HIDE DEF cost
  <2>1. 0 \in Good
        BY <1>4
  <2>2. ASSUME NEW n \in Good PROVE n + 1 \in Good
    <3>1. CASE n + 1 \in 1 .. count
      <4>1. cost[n + 1] = cost[n] + Second(n + 1) /\ cost[n] \in Nat
            BY <3>1, <1>4
      <4>2. Second(n + 1) \in Nat
            BY <1>8, <3>1
      <4> QED BY <4>1, <4>2
    <3> QED BY <3>1
  <2>3. Good = Nat
    <3> HIDE DEF Good
    <3>1. Good \in SUBSET Nat
          BY DEF Good
    <3> QED BY <2>1, <2>2, <3>1, Upwards
  <2>4. \A n \in 0 .. count : cost[n] \in Nat
        BY <2>3
  <2> QED BY <2>4 DEF cost
<1>6. cost[count] = total[A]
      OBVIOUS
<1> HIDE DEF cost
<1>7. CostsUp(tiers, first, count, cost)
      BY <1>8, <1>4, <1>5 DEF CostsUp
<1> QED BY <1>1, <1>6, <1>7

\* What is offended on top of b offences costs the difference.
LEMMA OffencesAdd ==
  ASSUME NEW tiers \in Tiers, NEW b \in Nat, NEW c \in Nat
  PROVE  /\ OffencesCost(tiers, 1, b) \in Nat
         /\ OffencesCost(tiers, b + 1, b + c) \in Nat
         /\ OffencesCost(tiers, 1, b + c)
              = OffencesCost(tiers, 1, b) + OffencesCost(tiers, b + 1, b + c)
<1> PICK all : CostsUp(tiers, 1, b + c, all) /\ OffencesCost(tiers, 1, b + c) = all[b + c]
    BY OffencesCostIs
<1> PICK low : CostsUp(tiers, 1, b, low) /\ OffencesCost(tiers, 1, b) = low[b]
    BY OffencesCostIs
<1> PICK high : CostsUp(tiers, b + 1, c, high) /\ OffencesCost(tiers, b + 1, b + c) = high[c]
    BY OffencesCostIs
<1>1. low[b] \in Nat /\ high[c] \in Nat
      BY DEF CostsUp
<1>2. all[b] = low[b]
  <2> DEFINE Good == {n \in Nat : n <= b => all[n] = low[n]}
  <2>1. 0 \in Good
        BY DEF CostsUp
  <2>2. ASSUME NEW n \in Good PROVE n + 1 \in Good
    <3>1. CASE n + 1 <= b
      <4>1. n + 1 \in 1 .. b /\ n + 1 \in 1 .. b + c /\ (n + 1) - 1 = n
            BY <3>1
      <4>2. all[n] = low[n]
            BY <3>1
      <4>3. /\ all[n + 1] = all[(n + 1) - 1] + TierSeconds(tiers, 1 + (n + 1) - 1)
            /\ low[n + 1] = low[(n + 1) - 1] + TierSeconds(tiers, 1 + (n + 1) - 1)
            BY <4>1 DEF CostsUp
      <4> QED BY <4>1, <4>2, <4>3
    <3> QED BY <3>1
  <2>3. Good = Nat
    <3> HIDE DEF Good
    <3>1. Good \in SUBSET Nat
          BY DEF Good
    <3> QED BY <2>1, <2>2, <3>1, Upwards
  <2> QED BY <2>3
<1>3. all[b + c] = all[b] + high[c]
  <2> DEFINE Good == {n \in Nat : n <= c => all[b + n] = all[b] + high[n]}
  <2>0. all[b] \in Nat
        BY DEF CostsUp
  <2>1. 0 \in Good
        BY <2>0 DEF CostsUp
  <2>2. ASSUME NEW n \in Good PROVE n + 1 \in Good
    <3>1. CASE n + 1 <= c
      <4>1. n + 1 \in 1 .. c /\ b + n + 1 \in 1 .. b + c /\ (n + 1) - 1 = n /\ (b + n + 1) - 1 = b + n
            BY <3>1
      <4>2. all[b + n] = all[b] + high[n]
            BY <3>1
      <4>3. /\ all[b + n + 1] = all[(b + n + 1) - 1] + TierSeconds(tiers, 1 + (b + n + 1) - 1)
            /\ high[n + 1] = high[(n + 1) - 1] + TierSeconds(tiers, (b + 1) + (n + 1) - 1)
            BY <4>1 DEF CostsUp
      <4>4. 1 + (b + n + 1) - 1 = (b + 1) + (n + 1) - 1
            OBVIOUS
      <4>5. high[n] \in Nat /\ TierSeconds(tiers, (b + 1) + (n + 1) - 1) \in Nat
        <5>1. n \in 0 .. c /\ (b + 1) + (n + 1) - 1 \in Int
              BY <3>1
        <5>2. high[n] \in Nat
              BY <5>1 DEF CostsUp
        <5>3. TierSeconds(tiers, (b + 1) + (n + 1) - 1) \in Nat
              BY <5>1, TierSecondsIs
        <5> QED BY <5>2, <5>3
      <4>6. all[b + (n + 1)] = all[b] + high[n + 1]
            BY <2>0, <4>1, <4>2, <4>3, <4>4, <4>5
      <4> QED BY <4>6
    <3> QED BY <3>1
  <2>3. Good = Nat
    <3> HIDE DEF Good
    <3>1. Good \in SUBSET Nat
          BY DEF Good
    <3> QED BY <2>1, <2>2, <3>1, Upwards
  <2> QED BY <2>3
<1> QED BY <1>1, <1>2, <1>3

-----------------------------------------------------------------------------
(* Pricing *)

CatalogueOK(cat) ==
  /\ DOMAIN cat \subseteq DOMAIN Catalogue
  /\ \A n \in DOMAIN cat : cat[n] \in PenaltyType

GivenOK(pens) == pens \in Seq(PenaltyRow)

Keyed(cat) == Entries \X (DOMAIN cat) \X (Stages \cup {NoStage})
Tallies(cat) == UNION {[K -> Nat] : K \in SUBSET Keyed(cat)}
Accounts(pens, cat) == [counts : Tallies(cat), price : [DOMAIN pens -> Int]]
Nothing(pens) == [counts |-> <<>>, price |-> [i \in DOMAIN pens |-> 0]]

LEMMA RowIs ==
  ASSUME NEW pens, GivenOK(pens)
  PROVE  /\ Len(pens) \in Nat /\ DOMAIN pens = 1 .. Len(pens)
         /\ \A i \in DOMAIN pens : pens[i] \in PenaltyRow
<1> DEFINE Row == PenaltyRow
<1>1. pens \in Seq(Row)
      BY DEF GivenOK
<1> HIDE DEF Row
<1>2. /\ Len(pens) \in Nat /\ DOMAIN pens = 1 .. Len(pens)
      /\ \A i \in DOMAIN pens : pens[i] \in Row
      BY <1>1
<1> QED BY <1>2 DEF Row

LEMMA KeyIs ==
  ASSUME NEW cat, CatalogueOK(cat), NEW p \in PenaltyRow, p.type \in DOMAIN cat
  PROVE  CountedWith(cat[p.type], p) \in Keyed(cat)
<1>1. p.entry \in Entries /\ p.stage \in Stages \cup {NoStage}
      BY DEF PenaltyRow
<1>2. CountedWith(cat[p.type], p) \in {<<p.entry, p.type, NoStage>>, <<p.entry, p.type, p.stage>>}
      BY DEF CountedWith
<1>3. /\ <<p.entry, p.type, NoStage>> \in Keyed(cat)
      /\ <<p.entry, p.type, p.stage>> \in Keyed(cat)
      BY <1>1 DEF Keyed
<1> QED BY <1>2, <1>3

LEMMA CountedIs ==
  ASSUME NEW cat, NEW counts \in Tallies(cat), NEW key
  PROVE  Counted(counts, key) \in Nat
  BY DEF Counted, Tallies

LEMMA NothingTyped ==
  ASSUME NEW pens, NEW cat
  PROVE  Nothing(pens) \in Accounts(pens, cat)
<1>1. <<>> \in [{} -> Nat]
      OBVIOUS
<1>2. <<>> \in Tallies(cat)
      BY <1>1 DEF Tallies
<1> QED BY <1>2 DEF Nothing, Accounts

LEMMA TierTyped ==
  ASSUME NEW cat, CatalogueOK(cat), NEW n \in DOMAIN cat
  PROVE  cat[n].tiers \in Tiers
  BY DEF CatalogueOK, PenaltyType, Tiers

\* What one penalty adds to the account.
PricedOn(pens, cat, acc, i, new) ==
  LET p == pens[i]
      key == CountedWith(cat[p.type], p)
      before == Counted(acc.counts, key)
  IN /\ new \in Accounts(pens, cat)
     /\ p.type \notin DOMAIN cat => new.counts = acc.counts
     /\ p.type \in DOMAIN cat =>
          /\ Counted(new.counts, key) = before + p.count
          /\ \A k : k # key => Counted(new.counts, k) = Counted(acc.counts, k)
          /\ new.price[i] = OffencesCost(cat[p.type].tiers, before + 1, before + p.count)
     /\ \A j \in DOMAIN pens \ {i} : new.price[j] = acc.price[j]

LEMMA PriceIs ==
  ASSUME NEW pens, GivenOK(pens), NEW cat, CatalogueOK(cat),
         NEW acc \in Accounts(pens, cat), NEW i \in DOMAIN pens
  PROVE  PricedOn(pens, cat, acc, i, Price(pens, cat, acc, i))
<1> DEFINE p == pens[i]
           key == CountedWith(cat[p.type], p)
           before == Counted(acc.counts, key)
           new == Price(pens, cat, acc, i)
           cost == OffencesCost(cat[p.type].tiers, before + 1, before + p.count)
           counted == [k \in DOMAIN acc.counts \cup {key} |->
                         IF k = key THEN before + p.count ELSE acc.counts[k]]
<1>1. p \in PenaltyRow /\ p.count \in Nat /\ p.seconds \in Nat
      BY RowIs DEF PenaltyRow
<1>2. acc.counts \in Tallies(cat) /\ acc.price \in [DOMAIN pens -> Int]
      BY DEF Accounts
<1>3. CASE p.type \notin DOMAIN cat
  <2>1. new = [counts |-> acc.counts, price |-> [acc.price EXCEPT ![i] = p.seconds * p.count]]
        BY <1>3 DEF Price
  <2>2. p.seconds * p.count \in Int
        BY <1>1
  <2> HIDE DEF new, p
  <2>3. new.counts = acc.counts /\ new.price = [acc.price EXCEPT ![i] = p.seconds * p.count]
        BY <2>1
  <2>4. new.price \in [DOMAIN pens -> Int] /\ \A j \in DOMAIN pens \ {i} : new.price[j] = acc.price[j]
        BY <1>2, <2>2, <2>3
  <2>5. new \in Accounts(pens, cat)
        BY <1>2, <2>1, <2>2, <2>4 DEF Accounts
  <2> QED BY <1>3, <2>3, <2>4, <2>5 DEF new, p, PricedOn
<1>4. CASE p.type \in DOMAIN cat
  <2>1. new = [counts |-> counted, price |-> [acc.price EXCEPT ![i] = cost]]
        BY <1>4 DEF Price
  <2>2. before \in Nat
        BY <1>2, CountedIs
  <2>3. cost \in Int
    <3>1. cat[p.type].tiers \in Tiers
          BY <1>4, TierTyped
    <3> HIDE DEF p, before
    <3>2. OffencesCost(cat[p.type].tiers, before + 1, before + p.count) \in Nat
          BY <1>1, <2>2, <3>1, OffencesAdd
    <3> QED BY <3>2
  <2>4. key \in Keyed(cat)
        BY <1>1, <1>4, KeyIs
  <2> HIDE DEF new, p, key, before, cost
  <2>5. counted \in Tallies(cat)
    <3>1. PICK K \in SUBSET Keyed(cat) : acc.counts \in [K -> Nat]
          BY <1>2 DEF Tallies
    <3>2. counted \in [K \cup {key} -> Nat] /\ K \cup {key} \in SUBSET Keyed(cat)
          BY <1>1, <2>2, <2>4, <3>1
    <3> QED BY <3>2 DEF Tallies
  <2>6. Counted(counted, key) = before + p.count
        BY DEF Counted
  <2>7. \A k : k # key => Counted(counted, k) = Counted(acc.counts, k)
        BY DEF Counted
  <2> HIDE DEF counted
  <2>8. new.counts = counted /\ new.price = [acc.price EXCEPT ![i] = cost]
        BY <2>1
  <2>9. /\ new.price \in [DOMAIN pens -> Int] /\ new.price[i] = cost
        /\ \A j \in DOMAIN pens \ {i} : new.price[j] = acc.price[j]
        BY <1>2, <2>3, <2>8
  <2>10. new \in Accounts(pens, cat)
        BY <2>1, <2>5, <2>9, <2>8 DEF Accounts
  <2> QED BY <1>4, <2>6, <2>7, <2>8, <2>9, <2>10 DEF new, p, key, before, cost, PricedOn
<1> QED BY <1>3, <1>4

LEMMA InStageOrderIs ==
  ASSUME NEW pens, GivenOK(pens)
  PROVE  /\ Cardinality(DOMAIN pens) = Len(pens)
         /\ LaidOut(InStageOrder(pens), DOMAIN pens,
              {p \in (DOMAIN pens) \X (DOMAIN pens) : PricedBefore(pens, p[1], p[2])})
<1> DEFINE given == DOMAIN pens
           before == {p \in given \X given : PricedBefore(pens, p[1], p[2])}
<1>1. /\ Len(pens) \in Nat /\ given = 1 .. Len(pens)
      /\ IsFiniteSet(given) /\ Cardinality(given) = Len(pens)
  <2>1. Len(pens) \in Nat /\ given = 1 .. Len(pens)
        BY RowIs
  <2>2. IsFiniteSet(1 .. Len(pens)) /\ Cardinality(1 .. Len(pens)) = Len(pens)
    <3> DEFINE n == Len(pens)
    <3> HIDE DEF n
    <3>1. n \in Nat
          BY <2>1 DEF n
    <3>2. IsFiniteSet(1 .. n) /\ Cardinality(1 .. n) = n
      <4>1. Cardinality(1 .. n) = IF 1 > n THEN 0 ELSE n - 1 + 1
            BY <3>1, FS_Interval
      <4> QED BY <3>1, <4>1, FS_Interval
    <3> QED BY <3>2 DEF n
  <2> QED BY <2>1, <2>2
<1>2. \A i \in given : i \in Int /\ pens[i].stage \in Int
      BY <1>1, RowIs, PricingAssumption DEF PenaltyRow, Stages, NoStage
<1>3. StrictlyOrders(before, given)
  <2>1. \A i, j \in given : <<i, j>> \in before <=> PricedBefore(pens, i, j)
        OBVIOUS
  <2> HIDE DEF before, given
  <2>2. \A i \in given : ~PricedBefore(pens, i, i)
        BY <1>2 DEF PricedBefore
  <2>3. \A i, j, k \in given :
           PricedBefore(pens, i, j) /\ PricedBefore(pens, j, k) => PricedBefore(pens, i, k)
        BY <1>2 DEF PricedBefore
  <2>4. \A i, j \in given : i # j => PricedBefore(pens, i, j) \/ PricedBefore(pens, j, i)
        BY <1>2 DEF PricedBefore
  <2> QED BY <2>1, <2>2, <2>3, <2>4 DEF StrictlyOrders
<1>4. InStageOrder(pens) = Sorted(given, before)
      BY DEF InStageOrder
<1>5. LaidOut(Sorted(given, before), given, before)
  <2> HIDE DEF given, before
  <2> QED BY <1>1, <1>3, SortedIs
<1> QED BY <1>1, <1>4, <1>5

\* The account after each step of the loop.
AccountsUp(pens, cat, acc) ==
  /\ acc \in [0 .. Len(pens) -> Accounts(pens, cat)]
  /\ acc[0] = Nothing(pens)
  /\ \A k \in 1 .. Len(pens) : acc[k] = Price(pens, cat, acc[k - 1], InStageOrder(pens)[k])

LEMMA PricesAre ==
  ASSUME NEW pens, GivenOK(pens), NEW cat, CatalogueOK(cat)
  PROVE  \E acc : AccountsUp(pens, cat, acc) /\ Prices(pens, cat) = acc[Len(pens)].price
<1> DEFINE n == Len(pens)
           A == 1 .. n
           seq == InStageOrder(pens)
           State == Accounts(pens, cat)
           Body(it, S) == IF S = {} THEN Nothing(pens)
                          ELSE Price(pens, cat, it[S \ {Max(S)}], seq[Max(S)])
           Runs(it) == it = [S \in SUBSET A |-> Body(it, S)]
           total == CHOOSE it : Runs(it)
<1>1. n \in Nat /\ DOMAIN pens = A
      BY RowIs
<1>2. seq \in [A -> A]
      BY <1>1, InStageOrderIs DEF LaidOut
<1>3. Prices(pens, cat) = total[A].price
  <2>1. DOMAIN seq = A
        BY <1>2
  <2> HIDE DEF A, seq
  <2> QED BY <2>1 DEF Prices, FoldLeft, MapThenFoldSet, Nothing, seq
<1> HIDE DEF seq
<1>4. \A acc \in State, i \in A : Price(pens, cat, acc, i) \in State
      BY <1>1, PriceIs DEF PricedOn
<1>5. Nothing(pens) \in State
      BY NothingTyped
<1>6. \E it : Runs(it)
  <2>1. CASE n = 0
    <3>1. Runs([S \in SUBSET A |-> Nothing(pens)])
          BY <2>1
    <3> QED BY <3>1
  <2>2. CASE n # 0
    <3> PICK pick : Picks(pick, A) /\ \A S \in SUBSET A : S # {} => pick[S] = Max(S)
        BY <1>1, <2>2, LeftwardsPicks
    <3> DEFINE step == [p \in A \X State |-> Price(pens, cat, p[2], seq[p[1]])]
    <3>1. IsFiniteSet(A)
          BY <1>1, FS_Interval
    <3> HIDE DEF A, State
    <3>2. /\ step \in [A \X State -> State]
          /\ \A i \in A, v \in State : step[<<i, v>>] = Price(pens, cat, v, seq[i])
      <4>1. \A p \in A \X State : Price(pens, cat, p[2], seq[p[1]]) \in State
            BY <1>2, <1>4
      <4> QED BY <4>1
    <3> HIDE DEF step
    <3> PICK it \in [SUBSET A -> State] : FoldsUp(A, Nothing(pens), pick, step, it)
        BY <1>5, <3>1, <3>2, FoldsExist
    <3>3. ASSUME NEW S \in SUBSET A PROVE it[S] = Body(it, S)
      <4>1. CASE S # {}
        <5>1. Max(S) \in A /\ pick[S] = Max(S) /\ S \ {Max(S)} \in SUBSET A
              BY <4>1 DEF Picks
        <5>2. it[S \ {Max(S)}] \in State
              BY <5>1
        <5> QED BY <3>2, <4>1, <5>1, <5>2 DEF FoldsUp
      <4> QED BY <4>1 DEF FoldsUp
    <3>4. Runs(it)
          BY <3>3
    <3> QED BY <3>4
  <2> QED BY <2>1, <2>2
<1>7. Runs(total)
      BY <1>6
<1> HIDE DEF total
<1> DEFINE acc == [k \in 0 .. n |-> total[1 .. k]]
<1>8. acc[0] = Nothing(pens) /\ \A k \in A : acc[k] = Price(pens, cat, acc[k - 1], seq[k])
  <2>1. \A S \in SUBSET A : total[S] = Body(total, S)
        BY <1>7
  <2>2. 1 .. 0 = {} /\ 1 .. 0 \in SUBSET A /\ 0 \in 0 .. n
        BY <1>1
  <2>3. ASSUME NEW k \in A PROVE acc[k] = Price(pens, cat, acc[k - 1], seq[k])
    <3>1. 1 .. k # {} /\ Max(1 .. k) = k /\ (1 .. k) \ {k} = 1 .. k - 1
          BY LastOfMany
    <3>2. 1 .. k \in SUBSET A /\ k \in 0 .. n /\ k - 1 \in 0 .. n
          BY <1>1
    <3>3. total[1 .. k] = Price(pens, cat, total[(1 .. k) \ {Max(1 .. k)}], seq[Max(1 .. k)])
          BY <2>1, <3>1, <3>2
    <3>4. acc[k] = total[1 .. k] /\ acc[k - 1] = total[1 .. k - 1]
          BY <3>2
    <3> QED BY <3>1, <3>3, <3>4
  <2>4. acc[0] = total[1 .. 0]
        BY <2>2
  <2>5. total[1 .. 0] = Nothing(pens)
        BY <2>1, <2>2
  <2> QED BY <2>3, <2>4, <2>5
<1>9. acc \in [0 .. n -> State]
  <2> DEFINE Good == {m \in Nat : m \in 0 .. n => acc[m] \in State}
  <2> HIDE DEF acc, State
  <2>1. 0 \in Good
        BY <1>5, <1>8
  <2>2. ASSUME NEW m \in Good PROVE m + 1 \in Good
    <3>1. CASE m + 1 \in A
      <4>1. acc[m + 1] = Price(pens, cat, acc[m], seq[m + 1]) /\ acc[m] \in State
            BY <1>1, <1>8, <3>1
      <4>2. seq[m + 1] \in A
            BY <1>2, <3>1
      <4> QED BY <1>4, <4>1, <4>2
    <3> QED BY <1>1, <3>1
  <2>3. Good = Nat
    <3> HIDE DEF Good
    <3>1. Good \in SUBSET Nat
          BY DEF Good
    <3> QED BY <2>1, <2>2, <3>1, Upwards
  <2>4. \A m \in 0 .. n : acc[m] \in State
        BY <1>1, <2>3
  <2> QED BY <2>4 DEF acc
<1>10. acc[n] = total[A]
      BY <1>1
<1> HIDE DEF acc
<1>11. AccountsUp(pens, cat, acc)
      BY <1>8, <1>9 DEF AccountsUp, seq
<1> QED BY <1>3, <1>10, <1>11

LEMMA PricesTyped ==
  ASSUME NEW pens, GivenOK(pens), NEW cat, CatalogueOK(cat)
  PROVE  Prices(pens, cat) \in [DOMAIN pens -> Int]
<1> PICK acc : AccountsUp(pens, cat, acc) /\ Prices(pens, cat) = acc[Len(pens)].price
    BY PricesAre
<1>1. Len(pens) \in 0 .. Len(pens)
      BY RowIs
<1>2. acc[Len(pens)] \in Accounts(pens, cat)
      BY <1>1 DEF AccountsUp
<1> QED BY <1>2 DEF Accounts

-----------------------------------------------------------------------------
(* The state *)

StatusInv == entryStatus \in [Entries -> {"registered", "withdrawn", "disqualified"}]

LEMMA StatusInit == Init => StatusInv
  BY DEF Init, StatusInv

\* Only the jury changes it.
LEMMA StatusNext ==
  ASSUME [Next]_vars
  PROVE  \/ entryStatus' = entryStatus
         \/ \E e \in Entries, to \in {"registered", "withdrawn", "disqualified"} :
              SetEntryStatus(e, to)
  BY DEF Next, vars, Racing, Judging, StartRally, CloseRally, Reopen, Activate, Close,
         Drive, Correct, VoidTime, GivePenalty, RemovePenalty, UpdateType, RemoveType

LEMMA StatusKept == StatusInv /\ [Next]_vars => StatusInv'
  BY StatusNext DEF StatusInv, SetEntryStatus

TimesOK == time \in [Stages -> [Entries -> Times \cup {NoTime}]]
StagesOK == /\ status \in [Stages -> {"NOT_STARTED", "ACTIVE", "CLOSED"}]
            /\ rally \in {"SETUP", "RUNNING", "CLOSED"}
PenaltiesOK == /\ GivenOK(penalties) /\ CatalogueOK(types)
               /\ \A i \in DOMAIN penalties :
                    penalties[i].type = FreeText \/ penalties[i].type \in DOMAIN types

\* What every state satisfies, whoever wrote it.
ResultsInv == StagesOK /\ TimesOK /\ StatusInv /\ PenaltiesOK

LEMMA ResultsInit == Init => ResultsInv
<1> SUFFICES ASSUME Init PROVE ResultsInv
    OBVIOUS
<1>1. StagesOK /\ TimesOK /\ StatusInv
      BY DEF Init, StagesOK, TimesOK, StatusInv
<1>2. GivenOK(penalties) /\ DOMAIN penalties = {}
      BY DEF Init, GivenOK
<1>3. CatalogueOK(types)
      BY ResultsAssumption DEF Init, CatalogueOK
<1> QED BY <1>1, <1>2, <1>3 DEF ResultsInv, PenaltiesOK

LEMMA StagesNext == ResultsInv /\ [Next]_vars => StagesOK'
<1> SUFFICES ASSUME ResultsInv, [Next]_vars PROVE StagesOK'
    OBVIOUS
<1> USE DEF ResultsInv, StagesOK
<1>1. CASE Racing
  <2>1. CASE StartRally
        BY <2>1 DEF StartRally
  <2>2. CASE CloseRally
        BY <2>2 DEF CloseRally
  <2>3. CASE Reopen
        BY <2>3 DEF Reopen
  <2>4. ASSUME NEW s \in Stages, Activate(s) PROVE StagesOK'
        BY <2>4 DEF Activate
  <2>5. ASSUME NEW s \in Stages, Close(s) PROVE StagesOK'
        BY <2>5 DEF Close
  <2>6. ASSUME NEW s \in Stages, NEW e \in Entries, NEW t \in Times, Drive(s, e, t) PROVE StagesOK'
        BY <2>6 DEF Drive
  <2> QED BY <1>1, <2>1, <2>2, <2>3, <2>4, <2>5, <2>6 DEF Racing
<1>2. CASE Judging
      BY <1>2 DEF Judging, VoidTime, Correct, SetEntryStatus, GivePenalty, RemovePenalty,
                  UpdateType, RemoveType
<1>3. CASE UNCHANGED vars
      BY <1>3 DEF vars
<1> QED BY <1>1, <1>2, <1>3 DEF Next

LEMMA TimesNext == ResultsInv /\ [Next]_vars => TimesOK'
<1> SUFFICES ASSUME ResultsInv, [Next]_vars PROVE TimesOK'
    OBVIOUS
<1> USE DEF ResultsInv, TimesOK
<1>1. CASE Racing
  <2>1. ASSUME NEW s \in Stages, NEW e \in Entries, NEW t \in Times, Drive(s, e, t) PROVE TimesOK'
        BY <2>1 DEF Drive
  <2>2. CASE UNCHANGED time
        BY <2>2
  <2> QED BY <1>1, <2>1, <2>2 DEF Racing, StartRally, CloseRally, Reopen, Activate, Close
<1>2. CASE Judging
  <2>1. ASSUME NEW s \in Stages, NEW e \in Entries, VoidTime(s, e) PROVE TimesOK'
        BY <2>1 DEF VoidTime
  <2>2. ASSUME NEW s \in Stages, NEW e \in Entries, NEW t \in Times, Correct(s, e, t) PROVE TimesOK'
        BY <2>2 DEF Correct
  <2>3. CASE UNCHANGED time
        BY <2>3
  <2> QED BY <1>2, <2>1, <2>2, <2>3 DEF Judging, SetEntryStatus, GivePenalty, RemovePenalty,
                                      UpdateType, RemoveType
<1>3. CASE UNCHANGED vars
      BY <1>3 DEF vars
<1> QED BY <1>1, <1>2, <1>3 DEF Next

LEMMA LeftBehind ==
  ASSUME NEW pens, GivenOK(pens), NEW others \in SUBSET (DOMAIN pens),
         NEW left, left = Sorted(others, {p \in others \X others : p[1] < p[2]})
  PROVE  /\ LaidOut(left, others, {p \in others \X others : p[1] < p[2]})
         /\ GivenOK([k \in DOMAIN left |-> pens[left[k]]])
<1> DEFINE order == {p \in others \X others : p[1] < p[2]}
           m == Cardinality(others)
           kept == [k \in DOMAIN left |-> pens[left[k]]]
<1>1. others \in SUBSET (1 .. Len(pens)) /\ Len(pens) \in Nat
      BY RowIs
<1>2. IsFiniteSet(others) /\ others \in SUBSET Int
      BY <1>1, LastIs
<1>3. StrictlyOrders(order, others)
      BY <1>2 DEF StrictlyOrders
<1>4. LaidOut(left, others, order)
  <2> HIDE DEF order
  <2> QED BY <1>2, <1>3, SortedIs DEF order
<1>5. m \in Nat /\ left \in [1 .. m -> others]
      BY <1>4 DEF LaidOut
<1>6. \A k \in 1 .. m : pens[left[k]] \in PenaltyRow
  <2> HIDE DEF m
  <2> QED BY <1>5, RowIs
<1>7. kept \in [1 .. m -> PenaltyRow]
  <2> HIDE DEF m
  <2> QED BY <1>5, <1>6
<1>8. kept \in Seq(PenaltyRow)
  <2> HIDE DEF kept, m
  <2> QED BY <1>5, <1>7
<1> QED BY <1>4, <1>8 DEF GivenOK

LEMMA PenaltiesNext == ResultsInv /\ [Next]_vars => PenaltiesOK'
<1> SUFFICES ASSUME ResultsInv, [Next]_vars PROVE PenaltiesOK'
    OBVIOUS
<1> USE DEF ResultsInv
<1>0. /\ GivenOK(penalties) /\ CatalogueOK(types)
      /\ \A i \in DOMAIN penalties :
           penalties[i].type = FreeText \/ penalties[i].type \in DOMAIN types
      BY DEF PenaltiesOK
<1>1. CASE UNCHANGED <<penalties, types>>
      BY <1>1 DEF PenaltiesOK
<1>2. ASSUME NEW p \in PenaltiesGiven, GivePenalty(p) PROVE PenaltiesOK'
  <2>1. penalties' = Append(penalties, p) /\ types' = types /\ p \in PenaltyRow
        BY <1>2, ResultsAssumption DEF GivePenalty
  <2>2. p.type = FreeText \/ p.type \in DOMAIN types
        BY <1>2 DEF GivePenalty
  <2>3. GivenOK(penalties')
        BY <1>0, <2>1 DEF GivenOK
  <2>4. \A i \in DOMAIN penalties' : penalties'[i] = p \/ (i \in DOMAIN penalties /\ penalties'[i] = penalties[i])
        BY <1>0, <2>1 DEF GivenOK
  <2> QED BY <1>0, <2>1, <2>2, <2>3, <2>4 DEF PenaltiesOK
<1>3. ASSUME NEW i \in DOMAIN penalties, RemovePenalty(i) PROVE PenaltiesOK'
  <2>1. penalties' = SubSeq(penalties, 1, i - 1) \o SubSeq(penalties, i + 1, Len(penalties)) /\ types' = types
        BY <1>3 DEF RemovePenalty, RemoveAt
  <2>2. Len(penalties) \in Nat /\ i \in 1 .. Len(penalties)
        BY <1>0, RowIs
  <2> DEFINE low == SubSeq(penalties, 1, i - 1)
             high == SubSeq(penalties, i + 1, Len(penalties))
             Row == PenaltyRow
  <2>3. penalties \in Seq(Row)
        BY <1>0 DEF GivenOK
  <2> HIDE DEF Row
  <2>4. low \in Seq(Row) /\ Len(low) = i - 1 /\ \A j \in 1 .. i - 1 : low[j] = penalties[j]
        BY <2>2, <2>3
  <2>5. high \in Seq(Row) /\ Len(high) = Len(penalties) - i
          /\ \A j \in 1 .. Len(penalties) - i : high[j] = penalties[i + j]
        BY <2>2, <2>3
  <2> HIDE DEF low, high
  <2>6. low \o high \in Seq(Row)
        BY <2>4, <2>5
  <2>7. \A k \in DOMAIN (low \o high) : \E j \in DOMAIN penalties : (low \o high)[k] = penalties[j]
    <3>1. ASSUME NEW k \in DOMAIN (low \o high)
          PROVE  \E j \in DOMAIN penalties : (low \o high)[k] = penalties[j]
      <4>1. k \in 1 .. Len(penalties) - 1
            BY <2>2, <2>4, <2>5
      <4>2. CASE k <= i - 1
        <5>1. (low \o high)[k] = low[k] /\ k \in 1 .. i - 1
              BY <2>2, <2>4, <2>5, <4>1, <4>2
        <5> QED BY <2>2, <2>3, <2>4, <5>1
      <4>3. CASE ~(k <= i - 1)
        <5>1. (low \o high)[k] = high[k - (i - 1)] /\ k - (i - 1) \in 1 .. Len(penalties) - i
              BY <2>2, <2>4, <2>5, <4>1, <4>3
        <5>2. high[k - (i - 1)] = penalties[i + (k - (i - 1))]
              BY <2>5, <5>1
        <5>3. i + (k - (i - 1)) \in DOMAIN penalties
              BY <2>2, <2>3, <5>1
        <5> QED BY <5>1, <5>2, <5>3
      <4> QED BY <4>2, <4>3
    <3> QED BY <3>1
  <2>8. penalties' = low \o high
        BY <2>1 DEF low, high
  <2> QED BY <1>0, <2>1, <2>6, <2>7, <2>8 DEF PenaltiesOK, GivenOK, Row
<1>4. ASSUME NEW n \in DOMAIN types, UpdateType(n) PROVE PenaltiesOK'
  <2>1. types' = [types EXCEPT ![n] = Repriced[n]] /\ penalties' = penalties
        BY <1>4 DEF UpdateType
  <2>2. DOMAIN types' = DOMAIN types /\ Repriced[n] \in PenaltyType
        BY <1>0, <2>1, ResultsAssumption DEF CatalogueOK
  <2>3. CatalogueOK(types')
        BY <1>0, <2>1, <2>2 DEF CatalogueOK
  <2> QED BY <1>0, <2>1, <2>2, <2>3 DEF PenaltiesOK
<1>5. ASSUME NEW n \in DOMAIN types, RemoveType(n) PROVE PenaltiesOK'
  <2> DEFINE others == {i \in DOMAIN penalties : penalties[i].type # n}
             left == Sorted(others, {p \in others \X others : p[1] < p[2]})
  <2>1. /\ types' = [m \in DOMAIN types \ {n} |-> types[m]]
        /\ penalties' = [k \in DOMAIN left |-> penalties[left[k]]]
        BY <1>5 DEF RemoveType
  <2>2. others \in SUBSET (DOMAIN penalties) /\ \A i \in others : penalties[i].type # n
        OBVIOUS
  <2> HIDE DEF others
  <2>3. LaidOut(left, others, {p \in others \X others : p[1] < p[2]}) /\ GivenOK(penalties')
        BY <1>0, <2>1, <2>2, LeftBehind
  <2>4. CatalogueOK(types') /\ DOMAIN types' = DOMAIN types \ {n}
        BY <1>0, <2>1 DEF CatalogueOK
  <2> HIDE DEF left
  <2>5. \A k \in DOMAIN penalties' : left[k] \in others /\ penalties'[k] = penalties[left[k]]
        BY <2>1, <2>3 DEF LaidOut
  <2>6. \A k \in DOMAIN penalties' :
           penalties'[k].type = FreeText \/ penalties'[k].type \in DOMAIN types'
        BY <1>0, <2>2, <2>4, <2>5
  <2> QED BY <2>3, <2>4, <2>6 DEF PenaltiesOK
<1>6. CASE Racing
      BY <1>1, <1>6 DEF Racing, StartRally, CloseRally, Reopen, Activate, Close, Drive
<1>7. CASE Judging
      BY <1>1, <1>2, <1>3, <1>4, <1>5, <1>7 DEF Judging, VoidTime, Correct, SetEntryStatus
<1> QED BY <1>1, <1>6, <1>7 DEF Next, vars

LEMMA ResultsNext == ResultsInv /\ [Next]_vars => ResultsInv'
  BY StagesNext, TimesNext, StatusKept, PenaltiesNext DEF ResultsInv

\* Every time is one that was driven or none, every penalty row is priced by a
\* type in the catalogue or by itself: removing a type leaves no row behind
\* whose price cannot be looked up (removeType).
THEOREM ResultsTyped == Spec => []ResultsTypeOK
<1>1. ResultsInv => ResultsTypeOK
      BY DEF ResultsInv, StagesOK, TimesOK, StatusInv, PenaltiesOK, CatalogueOK, ResultsTypeOK
<1> QED BY <1>1, ResultsInit, ResultsNext, PTL DEF Spec

-----------------------------------------------------------------------------
(* Rankings and the jury *)

\* A ranking is computed from the rankable crews alone: nothing a disqualified
\* crew drove is in it, and no other crew is charged by it.
THEOREM DisqualifiedLeavesNoTraceHolds == Spec => []DisqualifiedLeavesNoTrace
<1>1. DisqualifiedLeavesNoTrace
  <2> DEFINE out == {e \in Entries : entryStatus[e] = "disqualified"}
  <2>1. ASSUME NEW view \in Views
        PROVE  Rankable(view) = Rankable(view \ out)
        BY DEF Rankable, Views, View
  <2>2. ASSUME NEW view \in Views
        PROVE  Overall(view) = Overall(view \ out)
    <3>1. Classified(view) = Classified(view \ out)
          BY <2>1 DEF Classified
    <3> QED BY <2>1, <3>1 DEF Overall
  <2>3. ASSUME NEW view \in Views, NEW s \in Stages
        PROVE  StageTimes(s, view) = StageTimes(s, view \ out)
        BY <2>1 DEF StageTimes
  <2> QED BY <2>2, <2>3 DEF DisqualifiedLeavesNoTrace
<1> QED BY <1>1, PTL

\* Withdrawing a crew takes its line out of every ranking and changes no other
\* total, of the field or of any class: its times keep anchoring the notionals.
THEOREM WithdrawalMovesNobodyElseHolds == Spec => WithdrawalMovesNobodyElse
<1> DEFINE Moves(e) == (entryStatus'[e] = "withdrawn" /\ entryStatus[e] = "registered") =>
             LET before == Totals  after == Totals' IN
             \A view \in Views : \A f \in DOMAIN before[view] \ {e} :
               f \in DOMAIN after[view] /\ after[view][f] = before[view][f]
<1>1. ASSUME StatusInv, [Next]_vars
      PROVE  [\A e \in Entries : Moves(e)]_vars
  <2> SUFFICES ASSUME NEW e \in Entries,
                      entryStatus'[e] = "withdrawn", entryStatus[e] = "registered",
                      NEW view \in Views, NEW f \in DOMAIN (Totals[view]) \ {e}
               PROVE  f \in DOMAIN (Totals'[view]) /\ Totals'[view][f] = Totals[view][f]
      OBVIOUS
  <2>1. /\ UNCHANGED <<status, rally, time, penalties, types>>
        /\ entryStatus' = [entryStatus EXCEPT ![e] = "withdrawn"]
    <3>1. PICK d \in Entries, to \in {"registered", "withdrawn", "disqualified"} :
            SetEntryStatus(d, to)
          BY <1>1, StatusNext
    <3> QED BY <3>1, <1>1 DEF SetEntryStatus, StatusInv
  <2>2. view \subseteq Entries
        BY DEF Views, View
  <2>3. Rankable(view)' = Rankable(view)
        BY <1>1, <2>1, <2>2 DEF Rankable, StatusInv
  <2>4. Totals[view] = Overall(view) /\ Totals'[view] = Overall(view)'
        BY DEF Totals
  <2>5. f \in Classified(view) /\ f \in Classified(view)'
    <3>1. f \in Classified(view)
          BY <2>4 DEF Overall
    <3> QED BY <3>1, <1>1, <2>1, <2>2, <2>3 DEF Classified, CountsInOverall, StatusInv, Rankable
  <2>6. Overall(view)'[f] = Overall(view)[f]
    <3>1. PenaltyTotal(status, penalties, types, f)' = PenaltyTotal(status, penalties, types, f)
          BY <2>1
    <3>2. StageSum(status, time, Rankable(view), f)' = StageSum(status, time, Rankable(view), f)
          BY <2>1, <2>3
    <3> QED BY <2>5, <3>1, <3>2 DEF Overall
  <2> QED BY <2>4, <2>5, <2>6 DEF Overall
<1> QED BY StatusInit, StatusKept, <1>1, PTL DEF Spec, WithdrawalMovesNobodyElse

-----------------------------------------------------------------------------
(* Totals *)

LEMMA PenaltyTotalTyped ==
  ASSUME NEW st, NEW pens, GivenOK(pens), NEW cat, CatalogueOK(cat), NEW e
  PROVE  PenaltyTotal(st, pens, cat, e) \in Int
<1> DEFINE prices == Prices(pens, cat)
           mine == {i \in DOMAIN pens :
                      /\ pens[i].entry = e
                      /\ pens[i].stage = NoStage \/ CountsInOverall(st, pens[i].stage)}
<1>1. PenaltyTotal(st, pens, cat, e) = SumOf(prices, mine)
      BY DEF PenaltyTotal, SumOf
<1>2. mine \in SUBSET (1 .. Len(pens)) /\ Len(pens) \in Nat
      BY RowIs
<1>3. \A i \in mine : prices[i] \in Int
      BY PricesTyped
<1> HIDE DEF prices, mine
<1>4. IsFiniteSet(mine)
      BY <1>2, LastIs
<1> QED BY <1>1, <1>3, <1>4, SumTyped

LEMMA DrivenIs ==
  /\ NotionalPenalty \in Nat
  /\ \A t \in Times : t \in Nat /\ t # NoTime
  /\ \A tm \in [Stages -> [Entries -> Times \cup {NoTime}]] :
       \A s \in Stages, e \in Entries : tm[s][e] \in Nat
<1>1. NotionalPenalty \in Nat /\ Times \subseteq Nat \ {NoTime}
      BY ResultsAssumption
<1>2. \A t \in Times \cup {NoTime} : t \in Nat
      BY <1>1 DEF NoTime
<1> QED BY <1>1, <1>2

LEMMA CrewsFinite ==
  ASSUME NEW crews \in SUBSET Entries
  PROVE  IsFiniteSet(crews)
  BY ResultsAssumption, FS_Subset

\* The slowest real time of a stage.
Slowest(tm, s, crews, slowest) ==
  /\ \E e \in Drivers(tm, s, crews) : slowest = tm[s][e]
  /\ \A e \in Drivers(tm, s, crews) : tm[s][e] <= slowest
  /\ Notional(tm, s, crews) = slowest + NotionalPenalty

LEMMA SlowestIs ==
  ASSUME NEW tm \in [Stages -> [Entries -> Times \cup {NoTime}]], NEW s \in Stages,
         NEW crews \in SUBSET Entries, Drivers(tm, s, crews) # {}
  PROVE  \E slowest \in Nat : Slowest(tm, s, crews, slowest)
<1> DEFINE drivers == Drivers(tm, s, crews)
           driven == {tm[s][e] : e \in drivers}
<1>1. drivers \in SUBSET crews /\ drivers \in SUBSET Entries
      BY DEF Drivers
<1>2. driven \in SUBSET Nat /\ driven # {}
      BY <1>1, DrivenIs
<1>3. IsFiniteSet(driven)
  <2> DEFINE at == [e \in drivers |-> tm[s][e]]
  <2>1. IsFiniteSet(drivers)
        BY <1>1, CrewsFinite
  <2>2. at \in Surjection(drivers, driven)
        BY DEF Surjection
  <2> HIDE DEF drivers, driven
  <2> QED BY <2>1, <2>2, FS_Surjection
<1>4. Max(driven) \in driven /\ \A y \in driven : Max(driven) >= y
  <2> HIDE DEF driven
  <2>1. driven \in SUBSET Int
        BY <1>2
  <2> QED BY <1>2, <1>3, <2>1, MaxIs
<1>5. Max(driven) \in Nat
      BY <1>2, <1>4
<1>6. Notional(tm, s, crews) = Max(driven) + NotionalPenalty
      BY DEF Notional
<1>7. /\ \E e \in drivers : Max(driven) = tm[s][e]
      /\ \A e \in drivers : tm[s][e] \in driven /\ tm[s][e] \in Nat
      BY <1>2, <1>4
<1>8. \A e \in drivers : tm[s][e] <= Max(driven)
      BY <1>4, <1>5, <1>7
<1> QED BY <1>5, <1>6, <1>7, <1>8 DEF Slowest

LEMMA ChargedTyped ==
  ASSUME NEW st, NEW tm \in [Stages -> [Entries -> Times \cup {NoTime}]],
         NEW crews \in SUBSET Entries, NEW s \in Anchored(st, tm, crews), NEW e \in Entries
  PROVE  Charged(tm, s, crews, e) \in Nat
<1>1. s \in Stages /\ Drivers(tm, s, crews) # {}
      BY DEF Anchored
<1>2. Notional(tm, s, crews) \in Nat
      BY <1>1, SlowestIs, DrivenIs DEF Slowest
<1>3. tm[s][e] \in Nat
      BY <1>1, DrivenIs
<1> QED BY <1>2, <1>3 DEF Charged

LEMMA StageSumIs ==
  ASSUME NEW st, NEW tm, NEW crews, NEW e
  PROVE  StageSum(st, tm, crews, e)
           = SumOf([s \in Anchored(st, tm, crews) |-> Charged(tm, s, crews, e)], Anchored(st, tm, crews))
<1> DEFINE charged == [s \in Anchored(st, tm, crews) |-> Charged(tm, s, crews, e)]
<1>1. StageSum(st, tm, crews, e) = FoldFunction(+, 0, charged)
      BY DEF StageSum
<1>2. DOMAIN charged = Anchored(st, tm, crews)
      OBVIOUS
<1> HIDE DEF charged
<1>3. FoldFunction(+, 0, charged) = SumOf(charged, DOMAIN charged)
      BY DEF FoldFunction, FoldFunctionOnSet, SumOf, MapThenSumSet
<1> QED BY <1>1, <1>2, <1>3 DEF charged

LEMMA StagesFinite ==
  ASSUME NEW st, NEW tm, NEW crews
  PROVE  IsFiniteSet(Anchored(st, tm, crews))
<1>1. Anchored(st, tm, crews) \in SUBSET (1 .. NumStages) /\ NumStages \in Nat
      BY PricingAssumption DEF Anchored, Stages
<1> QED BY <1>1, LastIs

\* One time of one crew grows: no stage is counted or dropped by it, and the
\* sum of any crew grows by what that stage charges it more.
Slowed(tm, tn, s, e, t) ==
  /\ tm \in [Stages -> [Entries -> Times \cup {NoTime}]]
  /\ NoTime < tm[s][e] /\ tm[s][e] < t
  /\ tn = [tm EXCEPT ![s][e] = t]

LEMMA StageSumGrows ==
  ASSUME NEW st, NEW tm, NEW tn, NEW s \in Stages, NEW e \in Entries, NEW t \in Times,
         Slowed(tm, tn, s, e, t),
         NEW crews \in SUBSET Entries, e \in crews, NEW f \in Entries
  PROVE  /\ StageSum(st, tm, crews, f) \in Int /\ StageSum(st, tn, crews, f) \in Int
         /\ StageSum(st, tn, crews, e) = StageSum(st, tm, crews, e)
              + IF CountsInOverall(st, s) THEN t - tm[s][e] ELSE 0
         /\ StageSum(st, tn, crews, f) <= StageSum(st, tm, crews, f)
              + IF CountsInOverall(st, s) THEN t - tm[s][e] ELSE 0
<1> /\ tm \in [Stages -> [Entries -> Times \cup {NoTime}]]
    /\ NoTime < tm[s][e] /\ tm[s][e] < t
    /\ tn = [tm EXCEPT ![s][e] = t]
    BY DEF Slowed
<1>1. /\ t \in Nat /\ t # NoTime /\ tm[s][e] \in Nat /\ NotionalPenalty \in Nat
      /\ tn \in [Stages -> [Entries -> Times \cup {NoTime}]]
      BY DrivenIs
<1>2. /\ tn[s][e] = t
      /\ \A r \in Stages, c \in Entries : <<r, c>> # <<s, e>> => tn[r][c] = tm[r][c]
      OBVIOUS
<1>3. \A r \in Stages : Drivers(tn, r, crews) = Drivers(tm, r, crews)
      BY <1>1, <1>2 DEF Drivers, NoTime
<1> DEFINE anchored == Anchored(st, tm, crews)
<1>4. Anchored(st, tn, crews) = anchored
      BY <1>3 DEF Anchored
<1>5. s \in anchored <=> CountsInOverall(st, s)
      BY <1>1 DEF Anchored, Drivers, NoTime
<1>6. \A r \in Stages, c \in Entries : r # s => Charged(tn, r, crews, c) = Charged(tm, r, crews, c)
  <2> SUFFICES ASSUME NEW r \in Stages, NEW c \in Entries, r # s
               PROVE  Charged(tn, r, crews, c) = Charged(tm, r, crews, c)
      OBVIOUS
  <2>1. tn[r] = tm[r]
        OBVIOUS
  <2>2. Notional(tn, r, crews) = Notional(tm, r, crews)
        BY <1>3, <2>1 DEF Notional
  <2> QED BY <2>1, <2>2 DEF Charged
<1>7. ASSUME s \in anchored
      PROVE  /\ Charged(tn, s, crews, e) = Charged(tm, s, crews, e) + (t - tm[s][e])
             /\ Charged(tn, s, crews, f) <= Charged(tm, s, crews, f) + (t - tm[s][e])
  <2>1. Drivers(tm, s, crews) # {} /\ Drivers(tn, s, crews) # {}
        BY <1>3, <1>7 DEF Anchored
  <2> PICK slow \in Nat : Slowest(tm, s, crews, slow)
      BY <2>1, SlowestIs
  <2> PICK slower \in Nat : Slowest(tn, s, crews, slower)
      BY <1>1, <2>1, SlowestIs
  <2>0. /\ \A c \in Drivers(tm, s, crews) : tm[s][c] <= slow
        /\ Notional(tm, s, crews) = slow + NotionalPenalty
        /\ Notional(tn, s, crews) = slower + NotionalPenalty
        BY DEF Slowest
  <2> PICK d \in Drivers(tn, s, crews) : slower = tn[s][d]
      BY DEF Slowest
  <2>2. e \in Drivers(tm, s, crews) /\ d \in Drivers(tm, s, crews) /\ d \in Entries
        BY <1>1, <1>3 DEF Drivers, NoTime
  <2>3. tm[s][e] <= slow /\ tm[s][d] <= slow /\ tm[s][d] \in Nat
        BY <1>1, <2>0, <2>2, DrivenIs
  <2>4. slower <= slow + (t - tm[s][e])
    <3>1. CASE d = e
          BY <1>1, <1>2, <2>3, <3>1
    <3>2. CASE d # e
          BY <1>1, <1>2, <2>2, <2>3, <3>2
    <3> QED BY <3>1, <3>2
  <2>5. Charged(tn, s, crews, e) = t /\ Charged(tm, s, crews, e) = tm[s][e]
        BY <1>1, <1>2 DEF Charged, NoTime
  <2>6. Charged(tn, s, crews, f) <= Charged(tm, s, crews, f) + (t - tm[s][e])
    <3>1. CASE f = e
          BY <1>1, <2>5, <3>1
    <3>2. CASE f # e /\ tm[s][f] # NoTime
      <4>1. Charged(tn, s, crews, f) = tm[s][f] /\ Charged(tm, s, crews, f) = tm[s][f]
            BY <1>2, <3>2 DEF Charged
      <4>2. tm[s][f] \in Nat
            BY DrivenIs
      <4> QED BY <1>1, <4>1, <4>2
    <3>3. CASE f # e /\ tm[s][f] = NoTime
      <4>1. /\ Charged(tn, s, crews, f) = slower + NotionalPenalty
            /\ Charged(tm, s, crews, f) = slow + NotionalPenalty
            BY <1>2, <2>0, <3>3 DEF Charged
      <4> QED BY <1>1, <2>0, <2>4, <4>1
    <3> QED BY <3>1, <3>2, <3>3
  <2> QED BY <1>1, <2>5, <2>6
<1>9. ASSUME NEW c \in Entries, NEW r \in anchored
      PROVE  Charged(tm, r, crews, c) \in Nat /\ Charged(tn, r, crews, c) \in Nat
  <2>1. Charged(tm, r, crews, c) \in Nat
        BY ChargedTyped
  <2>2. Charged(tn, r, crews, c) \in Nat
    <3>1. r \in Anchored(st, tn, crews)
          BY <1>4
    <3> HIDE DEF anchored
    <3> QED BY <1>1, <3>1, ChargedTyped
  <2> QED BY <2>1, <2>2
<1>8. ASSUME NEW c \in Entries
      PROVE  /\ StageSum(st, tm, crews, c) \in Int /\ StageSum(st, tn, crews, c) \in Int
             /\ StageSum(st, tn, crews, c) = StageSum(st, tm, crews, c)
                  + IF s \in anchored
                    THEN Charged(tn, s, crews, c) - Charged(tm, s, crews, c) ELSE 0
  <2> DEFINE old == [r \in anchored |-> Charged(tm, r, crews, c)]
             new == [r \in anchored |-> Charged(tn, r, crews, c)]
  <2>1. StageSum(st, tm, crews, c) = SumOf(old, anchored)
        BY StageSumIs
  <2>2. StageSum(st, tn, crews, c) = SumOf(new, anchored)
        BY <1>4, StageSumIs
  <2>3. \A r \in anchored : old[r] \in Int /\ new[r] \in Int
    <3>1. \A r \in anchored : Charged(tm, r, crews, c) \in Nat /\ Charged(tn, r, crews, c) \in Nat
          BY <1>9
    <3> HIDE DEF anchored
    <3>2. \A r \in anchored : old[r] = Charged(tm, r, crews, c) /\ new[r] = Charged(tn, r, crews, c)
          OBVIOUS
    <3> HIDE DEF old, new
    <3>3. ASSUME NEW r \in anchored PROVE old[r] \in Nat /\ new[r] \in Nat
          BY <3>1, <3>2
    <3>4. ASSUME NEW r \in anchored PROVE old[r] \in Int /\ new[r] \in Int
          BY <3>3
    <3> QED BY <3>4
  <2>4. \A r \in anchored : r # s => old[r] = new[r]
        BY <1>6 DEF Anchored
  <2>5. IsFiniteSet(anchored)
        BY StagesFinite
  <2>6. s \in anchored => new[s] = Charged(tn, s, crews, c) /\ old[s] = Charged(tm, s, crews, c)
        OBVIOUS
  <2> HIDE DEF old, new, anchored
  <2>7. /\ SumOf(old, anchored) \in Int /\ SumOf(new, anchored) \in Int
        /\ SumOf(new, anchored) = SumOf(old, anchored) + IF s \in anchored THEN new[s] - old[s] ELSE 0
        BY <2>3, <2>4, <2>5, SumChanges
  <2> QED BY <2>1, <2>2, <2>6, <2>7
<1>10. CASE s \in anchored
  <2> HIDE DEF anchored
  <2>1. /\ Charged(tn, s, crews, f) \in Nat /\ Charged(tm, s, crews, f) \in Nat
        /\ Charged(tn, s, crews, e) \in Nat /\ Charged(tm, s, crews, e) \in Nat
        BY <1>9, <1>10
  <2>2. /\ StageSum(st, tm, crews, e) \in Int
        /\ StageSum(st, tn, crews, e) = StageSum(st, tm, crews, e)
             + (Charged(tn, s, crews, e) - Charged(tm, s, crews, e))
        BY <1>8, <1>10
  <2>3. /\ StageSum(st, tm, crews, f) \in Int /\ StageSum(st, tn, crews, f) \in Int
        /\ StageSum(st, tn, crews, f) = StageSum(st, tm, crews, f)
             + (Charged(tn, s, crews, f) - Charged(tm, s, crews, f))
        BY <1>8, <1>10
  <2>4. StageSum(st, tn, crews, e) = StageSum(st, tm, crews, e) + (t - tm[s][e])
        BY <1>1, <1>7, <1>10, <2>1, <2>2
  <2>5. StageSum(st, tn, crews, f) <= StageSum(st, tm, crews, f) + (t - tm[s][e])
        BY <1>1, <1>7, <1>10, <2>1, <2>3
  <2> QED BY <1>5, <1>10, <2>3, <2>4, <2>5
<1>11. CASE s \notin anchored
  <2> HIDE DEF anchored
  <2>1. /\ StageSum(st, tm, crews, e) \in Int
        /\ StageSum(st, tn, crews, e) = StageSum(st, tm, crews, e) + 0
        BY <1>8, <1>11
  <2>2. /\ StageSum(st, tm, crews, f) \in Int /\ StageSum(st, tn, crews, f) \in Int
        /\ StageSum(st, tn, crews, f) = StageSum(st, tm, crews, f) + 0
        BY <1>8, <1>11
  <2> QED BY <1>5, <1>11, <2>1, <2>2
<1> QED BY <1>10, <1>11

\* Only a correction makes a time longer.
LEMMA OnlyCorrected ==
  ASSUME [Next]_vars, ResultsInv, NEW s \in Stages, NEW e \in Entries,
         NoTime < time[s][e], time[s][e] < time'[s][e]
  PROVE  \E t \in Times : Correct(s, e, t)
<1>1. /\ time[s][e] \in Nat /\ time[s][e] # NoTime
      /\ \A r \in Stages, c \in Entries : time[r][c] \in Nat
      BY DrivenIs DEF ResultsInv, TimesOK, NoTime
<1>2. time' # time
      BY <1>1
<1>3. ASSUME NEW r \in Stages, NEW c \in Entries, NEW t \in Times, time' = [time EXCEPT ![r][c] = t]
      PROVE  r = s /\ c = e /\ time'[s][e] = t
      BY <1>1, <1>3 DEF ResultsInv, TimesOK
<1>4. ASSUME NEW r \in Stages, NEW c \in Entries, NEW t \in Times, Drive(r, c, t) PROVE FALSE
  <2>1. time' = [time EXCEPT ![r][c] = t] /\ (time[r][c] = NoTime \/ t < time[r][c])
        BY <1>4 DEF Drive
  <2>2. r = s /\ c = e /\ time'[s][e] = t /\ t \in Nat
        BY <1>3, <2>1, DrivenIs
  <2> QED BY <1>1, <2>1, <2>2
<1>5. ASSUME NEW r \in Stages, NEW c \in Entries, VoidTime(r, c) PROVE FALSE
  <2>1. time' = [time EXCEPT ![r][c] = NoTime]
        BY <1>5 DEF VoidTime
  <2>2. time'[s][e] \in {NoTime, time[s][e]}
        BY <2>1 DEF ResultsInv, TimesOK
  <2> QED BY <1>1, <2>2 DEF NoTime
<1>6. ASSUME NEW r \in Stages, NEW c \in Entries, NEW t \in Times, Correct(r, c, t)
      PROVE  Correct(s, e, t)
  <2>1. r = s /\ c = e
        BY <1>3, <1>6 DEF Correct
  <2> QED BY <1>6, <2>1
<1>7. CASE Racing
      BY <1>2, <1>4, <1>7 DEF Racing, StartRally, CloseRally, Reopen, Activate, Close
<1>8. CASE Judging
      BY <1>2, <1>5, <1>6, <1>8 DEF Judging, SetEntryStatus, GivePenalty, RemovePenalty,
                                    UpdateType, RemoveType
<1> QED BY <1>2, <1>7, <1>8 DEF Next, vars

\* A time that is corrected upwards moves its own crew's total by as much, and
\* no other total by more, be it as the measure of a notional time: who was
\* behind a crew does not pass it by having been slower.
THEOREM SlowerNeverGainsHolds == Spec => SlowerNeverGains
<1> DEFINE Gains(s, e) ==
             (NoTime < time[s][e] /\ time[s][e] < time'[s][e] /\ UNCHANGED <<status, entryStatus>>)
             => LET before == Totals  after == Totals' IN
                \A view \in {v \in Views : e \in DOMAIN before[v]} :
                  \A f \in DOMAIN before[view] :
                    before[view][f] < before[view][e] => after[view][f] < after[view][e]
<1>1. ASSUME ResultsInv, [Next]_vars
      PROVE  [\A s \in Stages, e \in Entries : Gains(s, e)]_vars
  <2> SUFFICES ASSUME NEW s \in Stages, NEW e \in Entries,
                      NoTime < time[s][e], time[s][e] < time'[s][e],
                      NEW view \in Views, e \in DOMAIN (Totals[view]), NEW f \in DOMAIN (Totals[view]),
                      Totals[view][f] < Totals[view][e]
               PROVE  Totals'[view][f] < Totals'[view][e]
      OBVIOUS
  <2> PICK t \in Times : Correct(s, e, t)
      BY <1>1, OnlyCorrected
  <2>1. /\ time' = [time EXCEPT ![s][e] = t]
        /\ status' = status /\ entryStatus' = entryStatus /\ penalties' = penalties /\ types' = types
        BY DEF Correct
  <2>2. /\ time \in [Stages -> [Entries -> Times \cup {NoTime}]] /\ time[s][e] \in Nat
        /\ t \in Nat /\ t # NoTime /\ time[s][e] # NoTime /\ time[s][e] < t
        BY <1>1, <2>1, DrivenIs DEF ResultsInv, TimesOK, NoTime
  <2>3. view \in SUBSET Entries
        BY DEF Views, View
  <2> DEFINE crews == Rankable(view)
  <2>4. crews \in SUBSET Entries /\ Rankable(view)' = crews
        BY <2>1, <2>3 DEF Rankable
  <2>5. Totals[view] = Overall(view) /\ Totals'[view] = Overall(view)'
        BY DEF Totals
  <2>6. e \in Classified(view) /\ f \in Classified(view)
        BY <2>5 DEF Overall
  <2>7. Classified(view)' = Classified(view)
    <3>1. \A r \in Stages, c \in Entries : (time'[r][c] # NoTime) <=> (time[r][c] # NoTime)
          BY <2>1, <2>2
    <3> QED BY <2>1, <2>4, <3>1 DEF Classified, CountsInOverall
  <2>8. e \in crews /\ f \in Entries
        BY <2>4, <2>6 DEF Classified
  <2> DEFINE fined(c) == PenaltyTotal(status, penalties, types, c)
             old(c) == StageSum(status, time, crews, c)
             new(c) == StageSum(status, time', crews, c)
  <2>9. /\ fined(e) \in Int /\ fined(f) \in Int
        BY <1>1, PenaltyTotalTyped DEF ResultsInv, PenaltiesOK
  <2>10. \A c \in Classified(view) : Totals[view][c] = fined(c) + old(c)
        BY <2>5 DEF Overall
  <2>11. \A c \in Classified(view) : Totals'[view][c] = fined(c) + new(c)
    <3>1. Overall(view)' = [c \in Classified(view)' |->
              PenaltyTotal(status', penalties', types', c) + StageSum(status', time', Rankable(view)', c)]
          BY DEF Overall
    <3> QED BY <2>1, <2>4, <2>5, <2>7, <3>1
  <2>12. /\ old(e) \in Int /\ new(e) \in Int /\ old(f) \in Int /\ new(f) \in Int
         /\ new(e) = old(e) + IF CountsInOverall(status, s) THEN t - time[s][e] ELSE 0
         /\ new(f) <= old(f) + IF CountsInOverall(status, s) THEN t - time[s][e] ELSE 0
    <3> PICK st, tm, tn : st = status /\ tm = time /\ tn = time'
        OBVIOUS
    <3>1. Slowed(tm, tn, s, e, t)
          BY <2>1, <2>2 DEF Slowed
    <3> HIDE DEF crews
    <3>2. crews \in SUBSET Entries /\ e \in crews
          BY <2>4, <2>8
    <3>3. ASSUME NEW c \in Entries
          PROVE  /\ StageSum(st, tm, crews, c) \in Int /\ StageSum(st, tn, crews, c) \in Int
                 /\ StageSum(st, tn, crews, e) = StageSum(st, tm, crews, e)
                      + IF CountsInOverall(st, s) THEN t - tm[s][e] ELSE 0
                 /\ StageSum(st, tn, crews, c) <= StageSum(st, tm, crews, c)
                      + IF CountsInOverall(st, s) THEN t - tm[s][e] ELSE 0
          BY <3>1, <3>2, StageSumGrows
    <3> QED BY <2>8, <3>3
  <2> HIDE DEF fined, old, new
  <2>13. new(f) - old(f) <= new(e) - old(e)
         BY <2>2, <2>12
  <2> QED BY <2>6, <2>9, <2>10, <2>11, <2>12, <2>13
<1> QED BY <1>1, ResultsInit, ResultsNext, PTL DEF Spec, SlowerNeverGains

-----------------------------------------------------------------------------
(* What a crew's offences of a type cost together *)

OffencesOf(pens, e, n) ==
  {i \in DOMAIN pens : /\ pens[i].entry = e /\ pens[i].type = n
                       /\ pens[i].stage # NoStage => Scoring[pens[i].stage] = "OVERALL"}

\* They are what is counted under one key.
LEMMA OneKey ==
  ASSUME NEW pens, NEW cat, NEW e, NEW n \in DOMAIN cat, cat[n].scope = "RALLY",
         NEW i \in DOMAIN pens, pens[i].type \in DOMAIN cat
  PROVE  CountedWith(cat[pens[i].type], pens[i]) = <<e, n, NoStage>> <=> i \in OffencesOf(pens, e, n)
<1> DEFINE p == pens[i]
           alone == p.stage # NoStage /\ Scoring[p.stage] # "OVERALL"
<1>1. CountedWith(cat[p.type], p)
        = <<p.entry, p.type, IF cat[p.type].scope = "RALLY" /\ ~alone THEN NoStage ELSE p.stage>>
      BY DEF CountedWith
<1>2. i \in OffencesOf(pens, e, n) <=> p.entry = e /\ p.type = n /\ ~alone
      BY DEF OffencesOf
<1> HIDE DEF p
<1> QED BY <1>1, <1>2 DEF p

\* After k penalties: those of the crew and type that were looked at cost what
\* that many offences cost, those not looked at cost nothing yet.
Visited(pens, k) == {InStageOrder(pens)[j] : j \in 1 .. k}
CountSoFar(pens, mine, k) == [i \in mine |-> IF i \in Visited(pens, k) THEN pens[i].count ELSE 0]
CostSoFar(pens, cat, acc, e, n, k) ==
  LET mine == OffencesOf(pens, e, n)
      count == Counted(acc[k].counts, <<e, n, NoStage>>)
  IN /\ SumOf(acc[k].price, mine) = OffencesCost(cat[n].tiers, 1, count)
     /\ SumOf(CountSoFar(pens, mine, k), mine) = count
     /\ \A i \in DOMAIN pens \ Visited(pens, k) : acc[k].price[i] = 0

LEMMA NoOffences ==
  ASSUME NEW tiers \in Tiers
  PROVE  OffencesCost(tiers, 1, 0) = 0
<1> PICK cost : CostsUp(tiers, 1, 0, cost) /\ OffencesCost(tiers, 1, 0) = cost[0]
    BY OffencesCostIs
<1> QED BY DEF CostsUp

LEMMA MineFinite ==
  ASSUME NEW pens, GivenOK(pens), NEW e, NEW n
  PROVE  IsFiniteSet(OffencesOf(pens, e, n)) /\ OffencesOf(pens, e, n) \in SUBSET DOMAIN pens
<1>1. OffencesOf(pens, e, n) \in SUBSET (1 .. Len(pens)) /\ Len(pens) \in Nat
      BY RowIs DEF OffencesOf
<1> QED BY <1>1, LastIs DEF OffencesOf

LEMMA CostStarts ==
  ASSUME NEW pens, GivenOK(pens), NEW cat, CatalogueOK(cat), NEW e, NEW n \in DOMAIN cat,
         NEW acc, AccountsUp(pens, cat, acc)
  PROVE  CostSoFar(pens, cat, acc, e, n, 0)
<1> DEFINE mine == OffencesOf(pens, e, n)
<1>1. acc[0].counts = <<>> /\ \A i \in DOMAIN pens : acc[0].price[i] = 0
      BY DEF AccountsUp, Nothing
<1>2. Counted(acc[0].counts, <<e, n, NoStage>>) = 0
  <2>1. DOMAIN acc[0].counts = {}
        BY <1>1
  <2> QED BY <2>1 DEF Counted
<1>3. Visited(pens, 0) = {}
      BY DEF Visited
<1>4. SumOf(acc[0].price, mine) = 0
      BY <1>1, MineFinite, SumNothing
<1>5. SumOf(CountSoFar(pens, mine, 0), mine) = 0
  <2>1. \A i \in mine : CountSoFar(pens, mine, 0)[i] = 0
        BY <1>3 DEF CountSoFar
  <2> QED BY <2>1, MineFinite, SumNothing
<1>6. OffencesCost(cat[n].tiers, 1, 0) = 0
      BY TierTyped, NoOffences
<1> QED BY <1>1, <1>2, <1>4, <1>5, <1>6 DEF CostSoFar

LEMMA CostGrows ==
  ASSUME NEW pens, GivenOK(pens), NEW cat, CatalogueOK(cat), NEW e, NEW n \in DOMAIN cat,
         cat[n].scope = "RALLY", NEW acc, AccountsUp(pens, cat, acc),
         NEW k \in 1 .. Len(pens), CostSoFar(pens, cat, acc, e, n, k - 1)
  PROVE  CostSoFar(pens, cat, acc, e, n, k)
<1> DEFINE N == Len(pens)
           given == DOMAIN pens
           seq == InStageOrder(pens)
           i == seq[k]
           p == pens[i]
           mine == OffencesOf(pens, e, n)
           key == <<e, n, NoStage>>
           old == acc[k - 1]
           new == acc[k]
           was == Counted(old.counts, key)
           is == Counted(new.counts, key)
           tiers == cat[n].tiers
           counted(j) == CountSoFar(pens, mine, j)
<1>1. N \in Nat /\ given = 1 .. N /\ k - 1 \in 0 .. N /\ k \in 0 .. N
      BY RowIs
<1>2. /\ seq \in [1 .. N -> given]
      /\ \A j, m \in 1 .. N : j < m => seq[j] # seq[m]
  <2> DEFINE order == {q \in given \X given : PricedBefore(pens, q[1], q[2])}
  <2>1. LaidOut(seq, given, order) /\ Cardinality(given) = N
        BY InStageOrderIs
  <2>2. \A j \in given : <<j, j>> \notin order
    <3>1. \A j \in given : j \in Int /\ pens[j].stage \in Int
          BY <1>1, RowIs, PricingAssumption DEF PenaltyRow, Stages, NoStage
    <3> QED BY <3>1 DEF PricedBefore
  <2> HIDE DEF order, seq, given
  <2>3. seq \in [1 .. N -> given]
        BY <2>1 DEF LaidOut
  <2>4. \A j, m \in 1 .. N : j < m => <<seq[j], seq[m]>> \in order
        BY <2>1 DEF LaidOut
  <2> QED BY <2>2, <2>3, <2>4
<1>3. i \in given /\ i \notin Visited(pens, k - 1) /\ Visited(pens, k) = Visited(pens, k - 1) \cup {i}
  <2>1. i \in given
        BY <1>1, <1>2
  <2>2. \A j \in 1 .. k - 1 : seq[j] # i
        BY <1>1, <1>2
  <2>3. 1 .. k = (1 .. k - 1) \cup {k}
        OBVIOUS
  <2> HIDE DEF seq
  <2> QED BY <2>1, <2>2, <2>3 DEF Visited, seq
<1>4. old \in Accounts(pens, cat) /\ new = Price(pens, cat, old, i)
      BY <1>1 DEF AccountsUp
<1> HIDE DEF i
<1>14. PricedOn(pens, cat, old, i, new)
      BY <1>3, <1>4, PriceIs
<1>5. /\ new \in Accounts(pens, cat)
      /\ p.type \notin DOMAIN cat => new.counts = old.counts
      /\ p.type \in DOMAIN cat =>
           LET mykey == CountedWith(cat[p.type], p)
               before == Counted(old.counts, mykey)
           IN /\ Counted(new.counts, mykey) = before + p.count
              /\ \A other : other # mykey => Counted(new.counts, other) = Counted(old.counts, other)
              /\ new.price[i] = OffencesCost(cat[p.type].tiers, before + 1, before + p.count)
      /\ \A j \in given \ {i} : new.price[j] = old.price[j]
      BY <1>14 DEF PricedOn
<1>6. /\ old.price \in [given -> Int] /\ new.price \in [given -> Int]
      /\ was \in Nat /\ is \in Nat /\ p.count \in Nat
  <2>1. old.price \in [given -> Int] /\ new.price \in [given -> Int]
        BY <1>4, <1>5 DEF Accounts
  <2>2. old.counts \in Tallies(cat) /\ new.counts \in Tallies(cat)
        BY <1>4, <1>5 DEF Accounts
  <2>3. p \in PenaltyRow
        BY <1>3, RowIs
  <2> QED BY <2>1, <2>2, <2>3, CountedIs DEF PenaltyRow
<1>7. /\ SumOf(old.price, mine) = OffencesCost(tiers, 1, was)
      /\ SumOf(counted(k - 1), mine) = was
      /\ \A j \in given \ Visited(pens, k - 1) : old.price[j] = 0
      BY DEF CostSoFar
<1>8. mine \in SUBSET given /\ IsFiniteSet(mine)
      BY MineFinite
<1>9. /\ SumOf(new.price, mine) = SumOf(old.price, mine)
           + IF i \in mine THEN new.price[i] - old.price[i] ELSE 0
      /\ SumOf(new.price, mine) \in Int /\ SumOf(old.price, mine) \in Int
  <2> DEFINE f == old.price
             g == new.price
  <2>1. \A j \in mine : f[j] \in Int /\ g[j] \in Int
        BY <1>6, <1>8
  <2>2. \A j \in mine : j # i => f[j] = g[j]
        BY <1>5, <1>8
  <2> HIDE DEF f, g, mine
  <2>3. /\ SumOf(g, mine) = SumOf(f, mine) + IF i \in mine THEN g[i] - f[i] ELSE 0
        /\ SumOf(g, mine) \in Int /\ SumOf(f, mine) \in Int
        BY <1>8, <2>1, <2>2, SumChanges
  <2> QED BY <2>3 DEF f, g
<1>10. SumOf(counted(k), mine) = was + IF i \in mine THEN p.count ELSE 0
  <2> DEFINE f == counted(k - 1)
             g == counted(k)
  <2>1. \A j \in mine : pens[j].count \in Nat
        BY <1>8, RowIs DEF PenaltyRow
  <2>2. \A j \in mine : f[j] \in Int /\ g[j] \in Int
        BY <2>1 DEF CountSoFar
  <2>3. \A j \in mine : j # i => f[j] = g[j]
        BY <1>3 DEF CountSoFar
  <2>4. i \in mine => f[i] = 0 /\ g[i] = p.count
        BY <1>3 DEF CountSoFar
  <2> HIDE DEF f, g, mine
  <2>5. SumOf(g, mine) = SumOf(f, mine) + IF i \in mine THEN g[i] - f[i] ELSE 0
        BY <1>8, <2>2, <2>3, SumChanges
  <2>6. SumOf(f, mine) = was
        BY <1>7 DEF f
  <2>7. SumOf(g, mine) = was + IF i \in mine THEN p.count ELSE 0
        BY <1>6, <2>4, <2>5, <2>6
  <2> QED BY <2>7 DEF g
<1>11. \A j \in given \ Visited(pens, k) : new.price[j] = 0
       BY <1>3, <1>5, <1>7
<1>12. CASE i \in mine
  <2>1. p.type = n /\ p.type \in DOMAIN cat /\ CountedWith(cat[p.type], p) = key
    <3>1. p.type = n
          BY <1>12 DEF OffencesOf
    <3> QED BY <1>3, <1>12, <3>1, OneKey
  <2>2. is = was + p.count /\ new.price[i] = OffencesCost(tiers, was + 1, was + p.count)
        BY <1>5, <2>1
  <2>3. old.price[i] = 0
        BY <1>3, <1>7
  <2>4. /\ OffencesCost(tiers, 1, was) \in Nat
        /\ OffencesCost(tiers, was + 1, was + p.count) \in Nat
        /\ OffencesCost(tiers, 1, was + p.count)
             = OffencesCost(tiers, 1, was) + OffencesCost(tiers, was + 1, was + p.count)
    <3>1. tiers \in Tiers
          BY TierTyped
    <3> HIDE DEF was, p, tiers
    <3> QED BY <1>6, <3>1, OffencesAdd
  <2>5. SumOf(new.price, mine) = OffencesCost(tiers, 1, is)
    <3> DEFINE a == OffencesCost(tiers, 1, was)
               b == OffencesCost(tiers, was + 1, was + p.count)
    <3>1. SumOf(new.price, mine) = a + (b - 0)
          BY <1>7, <1>9, <1>12, <2>2, <2>3
    <3>2. OffencesCost(tiers, 1, is) = a + b /\ a \in Nat /\ b \in Nat
          BY <2>2, <2>4
    <3> HIDE DEF a, b, mine, new, is, tiers
    <3> QED BY <3>1, <3>2
  <2>6. SumOf(counted(k), mine) = is
        BY <1>10, <1>12, <2>2
  <2> QED BY <1>11, <2>5, <2>6 DEF CostSoFar
<1>13. CASE i \notin mine
  <2>1. is = was
    <3>1. CASE p.type \notin DOMAIN cat
          BY <1>5, <3>1
    <3>2. CASE p.type \in DOMAIN cat
      <4>1. CountedWith(cat[p.type], p) # key
            BY <1>3, <1>13, <3>2, OneKey
      <4> QED BY <1>5, <3>2, <4>1
    <3> QED BY <3>1, <3>2
  <2>2. SumOf(new.price, mine) = SumOf(old.price, mine)
        BY <1>9, <1>13
  <2>3. SumOf(counted(k), mine) = is
        BY <1>6, <1>10, <1>13, <2>1
  <2> QED BY <1>7, <1>11, <2>1, <2>2, <2>3 DEF CostSoFar
<1> QED BY <1>12, <1>13

\* Two stages' offences in either order cost the same: the price of each
\* depends on the order, their sum on how many there are.
THEOREM OffencesCostTheirNumberHolds == Spec => []OffencesCostTheirNumber
<1>1. ASSUME ResultsInv PROVE OffencesCostTheirNumber
  <2> DEFINE pens == penalties
             cat == types
  <2>1. GivenOK(pens) /\ CatalogueOK(cat)
        BY <1>1 DEF ResultsInv, PenaltiesOK
  <2> DEFINE prices == Prices(pens, cat)
             Mine(e, n) == OffencesOf(pens, e, n)
             counts(e, n) == [i \in Mine(e, n) |-> pens[i].count]
  <2>2. ASSUME NEW n \in DOMAIN cat, NEW e \in Entries, cat[n].scope = "RALLY"
        PROVE  SumOf(prices, Mine(e, n))
                 = OffencesCost(cat[n].tiers, 1, SumOf(counts(e, n), Mine(e, n)))
    <3> PICK acc : AccountsUp(pens, cat, acc) /\ prices = acc[Len(pens)].price
        BY <2>1, PricesAre
    <3> DEFINE Good == {k \in Nat : k <= Len(pens) => CostSoFar(pens, cat, acc, e, n, k)}
    <3>1. 0 \in Good
          BY <2>1, CostStarts
    <3>2. ASSUME NEW k \in Good PROVE k + 1 \in Good
      <4>1. Len(pens) \in Nat
            BY <2>1, RowIs
      <4>2. CASE k + 1 <= Len(pens)
        <5> DEFINE m == k + 1
        <5>1. m \in 1 .. Len(pens) /\ m - 1 = k /\ k <= Len(pens)
              BY <4>1, <4>2
        <5>2. CostSoFar(pens, cat, acc, e, n, m - 1)
              BY <5>1
        <5> HIDE DEF m
        <5>3. CostSoFar(pens, cat, acc, e, n, m)
              BY <2>1, <2>2, <5>1, <5>2, CostGrows
        <5> QED BY <5>3 DEF m
      <4> QED BY <4>2
    <3>3. Good = Nat
      <4> HIDE DEF Good
      <4>1. Good \in SUBSET Nat
            BY DEF Good
      <4> QED BY <3>1, <3>2, <4>1, Upwards
    <3>4. Len(pens) \in Nat
          BY <2>1, RowIs
    <3>5. CostSoFar(pens, cat, acc, e, n, Len(pens))
      <4>1. Len(pens) \in Good
            BY <3>3, <3>4
      <4> QED BY <3>4, <4>1
    <3>6. \A i \in DOMAIN pens : i \in Visited(pens, Len(pens))
          BY <2>1, InStageOrderIs DEF LaidOut, Visited
    <3>7. CountSoFar(pens, Mine(e, n), Len(pens)) = counts(e, n)
          BY <3>6 DEF CountSoFar, OffencesOf
    <3> QED BY <3>5, <3>7 DEF CostSoFar
  <2>3. \A n \in DOMAIN cat, e \in Entries : cat[n].scope = "RALLY" =>
          MapThenSumSet(LAMBDA i : prices[i], Mine(e, n))
            = OffencesCost(cat[n].tiers, 1, FoldFunction(+, 0, counts(e, n)))
    <3> SUFFICES ASSUME NEW n \in DOMAIN cat, NEW e \in Entries, cat[n].scope = "RALLY"
                 PROVE  MapThenSumSet(LAMBDA i : prices[i], Mine(e, n))
                          = OffencesCost(cat[n].tiers, 1, FoldFunction(+, 0, counts(e, n)))
        OBVIOUS
    <3> DEFINE f == counts(e, n)
               mine == Mine(e, n)
    <3>1. DOMAIN f = mine
          OBVIOUS
    <3>2. SumOf(prices, mine) = OffencesCost(cat[n].tiers, 1, SumOf(f, mine))
          BY <2>2
    <3> HIDE DEF f, mine, prices
    <3>3. FoldFunction(+, 0, f) = SumOf(f, mine)
          BY <3>1 DEF FoldFunction, FoldFunctionOnSet, SumOf, MapThenSumSet
    <3>4. MapThenSumSet(LAMBDA i : prices[i], mine) = OffencesCost(cat[n].tiers, 1, FoldFunction(+, 0, f))
          BY <3>2, <3>3 DEF SumOf
    <3> QED BY <3>4 DEF f, mine, prices
  <2> QED BY <2>3 DEF OffencesCostTheirNumber, OffencesOf
<1> QED BY <1>1, ResultsInit, ResultsNext, PTL DEF Spec

-----------------------------------------------------------------------------
(* The start list *)

\* Every member once, in the order of R.
Lists(list, S, R) ==
  /\ list \in Seq(S)
  /\ \A x \in S : \E i \in 1 .. Len(list) : list[i] = x
  /\ \A i, j \in 1 .. Len(list) : i < j => <<list[i], list[j]>> \in R

LEMMA LaidOutLists ==
  ASSUME NEW seq, NEW S, NEW R, LaidOut(seq, S, R)
  PROVE  Lists(seq, S, R)
<1> DEFINE n == Cardinality(S)
<1>1. n \in Nat /\ seq \in [1 .. n -> S]
      BY DEF LaidOut
<1> HIDE DEF n
<1>2. seq \in Seq(S) /\ Len(seq) = n
      BY <1>1
<1> QED BY <1>2 DEF LaidOut, Lists, n

LEMMA ListedOnce ==
  ASSUME NEW list, NEW S, NEW R, Lists(list, S, R), \A x \in S : <<x, x>> \notin R
  PROVE  IsInjective(list) /\ Range(list) = S
<1>1. /\ list \in Seq(S) /\ DOMAIN list = 1 .. Len(list) /\ Len(list) \in Nat
      /\ \A i \in 1 .. Len(list) : list[i] \in S
      BY DEF Lists
<1>2. \A i, j \in DOMAIN list : i < j => list[i] # list[j]
      BY <1>1 DEF Lists
<1>3. IsInjective(list)
  <2> SUFFICES ASSUME NEW i \in DOMAIN list, NEW j \in DOMAIN list, list[i] = list[j], i # j
               PROVE FALSE
      BY DEF IsInjective
  <2> QED BY <1>1, <1>2
<1>4. Range(list) = S
      BY <1>1 DEF Lists, Range
<1> QED BY <1>3, <1>4

\* flatten[i]: the groups up to the ith, one behind the other.
Joins(seqs, n, flat) ==
  /\ DOMAIN flat = 1 .. n
  /\ \A i \in 1 .. n : flat[i] = IF i = 1 THEN seqs[i] ELSE flat[i - 1] \o seqs[i]

LEMMA JoinsExist ==
  ASSUME NEW seqs, NEW n \in Nat
  PROVE  \E flat : Joins(seqs, n, flat)
<1> DEFINE Good == {m \in Nat : \E flat : Joins(seqs, m, flat)}
<1>1. 0 \in Good
  <2>1. Joins(seqs, 0, [i \in 1 .. 0 |-> 0])
        BY DEF Joins
  <2> QED BY <2>1
<1>2. ASSUME NEW m \in Good PROVE m + 1 \in Good
  <2> PICK flat : Joins(seqs, m, flat)
      OBVIOUS
  <2> DEFINE next == IF m + 1 = 1 THEN seqs[m + 1] ELSE flat[m] \o seqs[m + 1]
             longer == [i \in 1 .. m + 1 |-> IF i = m + 1 THEN next ELSE flat[i]]
  <2>1. /\ longer[m + 1] = next /\ DOMAIN longer = 1 .. m + 1
        /\ \A i \in 1 .. m : longer[i] = flat[i]
    <3>1. m \in Nat /\ m + 1 \in 1 .. m + 1
          OBVIOUS
    <3>2. \A i \in 1 .. m : i \in 1 .. m + 1 /\ i # m + 1
          BY <3>1
    <3> HIDE DEF next, Good
    <3> QED BY <3>1, <3>2
  <2> HIDE DEF longer
  <2>2. ASSUME NEW i \in 1 .. m + 1
        PROVE  longer[i] = IF i = 1 THEN seqs[i] ELSE longer[i - 1] \o seqs[i]
    <3>1. CASE i = m + 1
      <4>1. CASE m = 0
            BY <2>1, <3>1, <4>1
      <4>2. CASE m # 0
        <5>1. m \in 1 .. m /\ i - 1 = m /\ i # 1 /\ m + 1 # 1
              BY <3>1, <4>2
        <5>2. longer[m] = flat[m]
              BY <2>1, <5>1
        <5>3. longer[i] = flat[m] \o seqs[m + 1]
              BY <2>1, <3>1, <5>1
        <5> QED BY <3>1, <5>1, <5>2, <5>3
      <4> QED BY <4>1, <4>2
    <3>2. CASE i # m + 1
      <4>1. i \in 1 .. m
            BY <3>2
      <4>2. longer[i] = flat[i] /\ (i # 1 => longer[i - 1] = flat[i - 1])
            BY <2>1, <4>1
      <4>3. flat[i] = IF i = 1 THEN seqs[i] ELSE flat[i - 1] \o seqs[i]
            BY <4>1 DEF Joins
      <4> QED BY <4>2, <4>3
    <3> QED BY <3>1, <3>2
  <2>3. Joins(seqs, m + 1, longer)
        BY <2>1, <2>2 DEF Joins
  <2> QED BY <2>3
<1>3. Good = Nat
  <2> HIDE DEF Good
  <2>1. Good \in SUBSET Nat
        BY DEF Good
  <2> QED BY <1>1, <1>2, <2>1, Upwards
<1> QED BY <1>3

LEMMA FlattenIs ==
  ASSUME NEW n \in Nat, n # 0, NEW seqs, DOMAIN seqs = 1 .. n, Len(seqs) = n
  PROVE  \E flat : Joins(seqs, n, flat) /\ FlattenSeq(seqs) = flat[n]
<1> DEFINE Flat(f) == f = [i \in 1 .. Len(seqs) |-> IF i = 1 THEN seqs[i] ELSE f[i - 1] \o seqs[i]]
           flat == CHOOSE f : Flat(f)
<1>1. FlattenSeq(seqs) = flat[n]
      BY DEF FlattenSeq
<1>2. \E f : Flat(f)
  <2> PICK f : Joins(seqs, n, f)
      BY JoinsExist
  <2> DEFINE g == [i \in 1 .. n |-> f[i]]
  <2>1. \A i \in 1 .. n : g[i] = f[i] /\ (i # 1 => g[i - 1] = f[i - 1])
        OBVIOUS
  <2>2. \A i \in 1 .. n : g[i] = IF i = 1 THEN seqs[i] ELSE g[i - 1] \o seqs[i]
        BY <2>1 DEF Joins
  <2>3. Flat(g)
    <3>1. g = [i \in 1 .. n |-> g[i]]
          OBVIOUS
    <3> HIDE DEF g
    <3> QED BY <2>2, <3>1
  <2> QED BY <2>3
<1>3. Flat(flat)
      BY <1>2
<1> HIDE DEF flat
<1>4. Joins(seqs, n, flat)
      BY <1>3 DEF Joins
<1> QED BY <1>1, <1>4

\* Groups listed each by itself, one behind the other, list the whole.
ByGroup(class, S, R) ==
  {p \in S \X S : class[p[1]] < class[p[2]] \/ (class[p[1]] = class[p[2]] /\ <<p[1], p[2]>> \in R)}

LEMMA JoinedGroups ==
  ASSUME NEW n \in Nat, n # 0, NEW S, NEW class \in [S -> 1 .. n], NEW R,
         NEW seqs, DOMAIN seqs = 1 .. n, Len(seqs) = n,
         \A c \in 1 .. n : Lists(seqs[c], {x \in S : class[x] = c}, R)
  PROVE  Lists(FlattenSeq(seqs), S, ByGroup(class, S, R))
<1> PICK flat : Joins(seqs, n, flat) /\ FlattenSeq(seqs) = flat[n]
    BY FlattenIs
<1> DEFINE Upto(m) == {x \in S : class[x] <= m}
           Order == ByGroup(class, S, R)
           Good == {m \in Nat : m + 1 <= n => Lists(flat[m + 1], Upto(m + 1), Order)}
<1>1. ASSUME NEW c \in 1 .. n
      PROVE  /\ Lists(seqs[c], {x \in S : class[x] = c}, Order)
             /\ seqs[c] \in Seq({x \in S : class[x] = c}) /\ seqs[c] \in Seq(S)
  <2> DEFINE group == {x \in S : class[x] = c}
             list == seqs[c]
  <2>1. list \in Seq(group) /\ Lists(list, group, R)
        BY DEF Lists
  <2>2. \A x, y \in group : <<x, y>> \in R => <<x, y>> \in Order
        BY DEF ByGroup
  <2>3. group \in SUBSET S
        OBVIOUS
  <2> HIDE DEF group, list, Order
  <2>4. \A i \in 1 .. Len(list) : list[i] \in group
        BY <2>1
  <2>5. Lists(list, group, Order)
        BY <2>1, <2>2, <2>4 DEF Lists
  <2>6. list \in Seq(S)
        BY <2>1, <2>3
  <2> QED BY <2>1, <2>5, <2>6 DEF group, list
<1>2. 0 \in Good
  <2>1. 1 \in 1 .. n /\ flat[1] = seqs[1]
        BY DEF Joins
  <2>2. {x \in S : class[x] = 1} = Upto(1)
        OBVIOUS
  <2> QED BY <1>1, <2>1, <2>2
<1>3. ASSUME NEW m \in Good PROVE m + 1 \in Good
  <2> SUFFICES ASSUME m + 2 <= n PROVE Lists(flat[m + 2], Upto(m + 2), Order)
      OBVIOUS
  <2> DEFINE low == flat[m + 1]
             c == m + 2
             high == seqs[c]
             group == {x \in S : class[x] = c}
             before == Upto(m + 1)
             both == low \o high
  <2>1. Lists(low, before, Order)
        OBVIOUS
  <2>2. c \in 1 .. n /\ c # 1 /\ c - 1 = m + 1
        OBVIOUS
  <2>3. flat[c] = both
    <3>1. flat[c] = flat[c - 1] \o seqs[c]
          BY <2>2 DEF Joins
    <3> QED BY <2>2, <3>1
  <2>4. Lists(high, group, Order)
        BY <1>1, <2>2
  <2>5. /\ before \in SUBSET S /\ group \in SUBSET S /\ Upto(c) = before \cup group
        /\ \A x \in before, y \in group : <<x, y>> \in Order
        BY DEF ByGroup
  <2> DEFINE all == Upto(c)
  <2>6. before \in SUBSET all /\ group \in SUBSET all
        BY <2>5
  <2> HIDE DEF low, high, before, group, Order, all
  <2>7. /\ low \in Seq(before) /\ high \in Seq(group) /\ low \in Seq(all) /\ high \in Seq(all)
        BY <2>1, <2>4, <2>6 DEF Lists
  <2>8. /\ Len(low) \in Nat /\ Len(high) \in Nat
        /\ \A i \in 1 .. Len(low) : low[i] \in before
        /\ \A i \in 1 .. Len(high) : high[i] \in group
        BY <2>7
  <2>9. /\ both \in Seq(all) /\ Len(both) = Len(low) + Len(high)
        /\ \A i \in 1 .. Len(low) : both[i] = low[i]
        /\ \A i \in 1 .. Len(high) : both[Len(low) + i] = high[i]
        BY <2>7
  <2> HIDE DEF both
  <2>10. ASSUME NEW x \in all PROVE \E i \in 1 .. Len(both) : both[i] = x
    <3>1. CASE x \in before
      <4> PICK i \in 1 .. Len(low) : low[i] = x
          BY <2>1, <3>1 DEF Lists
      <4>1. i \in 1 .. Len(both) /\ both[i] = x
            BY <2>8, <2>9
      <4> QED BY <4>1
    <3>2. CASE x \in group
      <4> PICK i \in 1 .. Len(high) : high[i] = x
          BY <2>4, <3>2 DEF Lists
      <4>1. Len(low) + i \in 1 .. Len(both) /\ both[Len(low) + i] = x
            BY <2>8, <2>9
      <4> QED BY <4>1
    <3> QED BY <2>5, <3>1, <3>2 DEF all
  <2>11. ASSUME NEW i \in 1 .. Len(both), NEW j \in 1 .. Len(both), i < j
         PROVE  <<both[i], both[j]>> \in Order
    <3>1. CASE j <= Len(low)
      <4>1. i \in 1 .. Len(low) /\ j \in 1 .. Len(low)
            BY <2>8, <2>11, <3>1
      <4>2. both[i] = low[i] /\ both[j] = low[j] /\ <<low[i], low[j]>> \in Order
            BY <2>1, <2>9, <2>11, <4>1 DEF Lists
      <4> QED BY <4>2
    <3>2. CASE i <= Len(low) /\ ~(j <= Len(low))
      <4>1. i \in 1 .. Len(low) /\ j - Len(low) \in 1 .. Len(high) /\ Len(low) + (j - Len(low)) = j
            BY <2>8, <2>9, <3>2
      <4>2. both[i] \in before /\ both[j] \in group
            BY <2>8, <2>9, <4>1
      <4> QED BY <2>5, <4>2
    <3>3. CASE ~(i <= Len(low))
      <4> DEFINE p == i - Len(low)
                 q == j - Len(low)
      <4>1. p \in 1 .. Len(high) /\ q \in 1 .. Len(high) /\ p < q /\ Len(low) + p = i /\ Len(low) + q = j
            BY <2>8, <2>9, <2>11, <3>3
      <4> HIDE DEF p, q
      <4>2. both[i] = high[p] /\ both[j] = high[q] /\ <<high[p], high[q]>> \in Order
            BY <2>4, <2>9, <4>1 DEF Lists
      <4> QED BY <4>2
    <3> QED BY <3>1, <3>2, <3>3
  <2>12. Lists(both, all, Order)
         BY <2>9, <2>10, <2>11 DEF Lists
  <2> QED BY <2>3, <2>12 DEF all
<1>4. Good = Nat
  <2> HIDE DEF Good
  <2>1. Good \in SUBSET Nat
        BY DEF Good
  <2> QED BY <1>2, <1>3, <2>1, Upwards
<1>5. n - 1 \in Good /\ (n - 1) + 1 = n
  <2>1. n - 1 \in Nat /\ (n - 1) + 1 = n
        OBVIOUS
  <2> HIDE DEF Good
  <2> QED BY <1>4, <2>1
<1>6. Lists(flat[n], Upto(n), Order)
      BY <1>5
<1>7. Upto(n) = S
      OBVIOUS
<1> QED BY <1>6, <1>7

LEMMA OverallTyped ==
  ASSUME ResultsInv, NEW view \in SUBSET Entries, NEW e \in Classified(view)
  PROVE  e \in Entries /\ Overall(view)[e] \in Int
<1> DEFINE crews == Rankable(view)
           anchored == Anchored(status, time, crews)
           charged == [s \in anchored |-> Charged(time, s, crews, e)]
<1>1. crews \in SUBSET Entries /\ e \in Entries
      BY DEF Rankable, Classified
<1>2. PenaltyTotal(status, penalties, types, e) \in Int
      BY PenaltyTotalTyped DEF ResultsInv, PenaltiesOK
<1>3. StageSum(status, time, crews, e) = SumOf(charged, anchored)
      BY StageSumIs
<1>4. \A s \in anchored : charged[s] \in Int
  <2>1. ASSUME NEW s \in anchored PROVE Charged(time, s, crews, e) \in Nat
        BY <1>1, ChargedTyped DEF ResultsInv, TimesOK
  <2>2. ASSUME NEW s \in anchored PROVE Charged(time, s, crews, e) \in Int
        BY <2>1
  <2> HIDE DEF anchored
  <2>3. \A s \in anchored : charged[s] = Charged(time, s, crews, e)
        OBVIOUS
  <2> HIDE DEF charged
  <2> QED BY <2>2, <2>3
<1>5. IsFiniteSet(anchored)
      BY StagesFinite
<1>6. SumOf(charged, anchored) \in Int
  <2> HIDE DEF charged, anchored
  <2> QED BY <1>4, <1>5, SumTyped
<1>7. Overall(view)[e] = PenaltyTotal(status, penalties, types, e) + StageSum(status, time, crews, e)
      BY DEF Overall
<1> QED BY <1>1, <1>2, <1>3, <1>6, <1>7

\* What a group is ordered by: whole numbers, of crews.
Timed(times) == \A e \in DOMAIN times : e \in Entries /\ times[e] \in Int

LEMMA StageTimesTimed ==
  ASSUME ResultsInv, NEW s \in Stages
  PROVE  Timed(StageTimes(s, Entries))
<1>1. Drivers(time, s, Rankable(Entries)) \in SUBSET Entries
      BY DEF Drivers, Rankable
<1>2. \A e \in Entries : time[s][e] \in Int
      BY DrivenIs DEF ResultsInv, TimesOK
<1> QED BY <1>1, <1>2 DEF StageTimes, Timed

LEMMA LatestClosedIs ==
  ASSUME NEW s \in Stages, NEW scoring, LatestClosed(s, scoring) # {}
  PROVE  Max(LatestClosed(s, scoring)) \in Stages
<1> DEFINE before == {t \in 1 .. s - 1 : status[t] = "CLOSED" /\ Scoring[t] = scoring}
<1>1. before # {} /\ LatestClosed(s, scoring) = {Max(before)}
      BY DEF LatestClosed
<1>2. s - 1 \in Nat /\ before \in SUBSET (1 .. s - 1)
      BY PricingAssumption DEF Stages
<1>3. Max(before) \in before
  <2> HIDE DEF before
  <2> QED BY <1>1, <1>2, LastIs
<1>4. Max(before) \in Stages
      BY <1>2, <1>3, PricingAssumption DEF Stages
<1> DEFINE m == Max(before)
<1> HIDE DEF m
<1>5. m \in Int /\ LatestClosed(s, scoring) = {m} /\ m \in Stages
      BY <1>1, <1>4, PricingAssumption DEF Stages, m
<1>6. Max({m}) = m
  <2> DEFINE one == {m}
  <2>1. one \in SUBSET Int /\ one # {} /\ IsFiniteSet(one)
        BY <1>5, FS_Singleton
  <2> HIDE DEF one
  <2>2. Max(one) \in one
        BY <2>1, MaxIs
  <2> QED BY <2>2 DEF one
<1> QED BY <1>5, <1>6

LEMMA ViewOf ==
  ASSUME NEW c \in 1 .. NoClass
  PROVE  View(c) \in Views /\ View(c) \in SUBSET Entries
  BY DEF View, Views

LEMMA OverallTimed ==
  ASSUME ResultsInv, NEW c \in 1 .. NoClass
  PROVE  Timed(Overall(View(c)))
<1>1. View(c) \in SUBSET Entries
      BY ViewOf
<1>2. DOMAIN Overall(View(c)) = Classified(View(c))
      BY DEF Overall
<1> QED BY <1>1, <1>2, OverallTyped DEF Timed

LEMMA TimesForTimed ==
  ASSUME ResultsInv, NEW key \in Keys, NEW c \in 1 .. NoClass, NEW s \in Stages
  PROVE  Timed(TimesFor(key, s, c))
<1> DEFINE first == IF \E t \in Stages : CountsInOverall(status, t) THEN {}
                    ELSE LatestClosed(s, "QUALIFYING")
           last == LatestClosed(s, "OVERALL")
<1>1. CASE key = "OVERALL_TIME" /\ first # {}
  <2>1. first = LatestClosed(s, "QUALIFYING")
        BY <1>1
  <2>2. Max(first) \in Stages
        BY <1>1, <2>1, LatestClosedIs
  <2> HIDE DEF first, last
  <2>3. TimesFor(key, s, c) = StageTimes(Max(first), Entries)
        BY <1>1 DEF TimesFor, first, last
  <2> QED BY <2>2, <2>3, StageTimesTimed
<1>2. CASE key = "OVERALL_TIME" /\ first = {}
  <2>1. TimesFor(key, s, c) = Overall(View(c))
        BY <1>2 DEF TimesFor
  <2> QED BY <2>1, OverallTimed
<1>3. CASE key = "LAST_STAGE_TIME" /\ last # {}
  <2>1. Max(last) \in Stages
        BY <1>3, LatestClosedIs
  <2>2. TimesFor(key, s, c) = StageTimes(Max(last), Entries)
        BY <1>3 DEF TimesFor
  <2> QED BY <2>1, <2>2, StageTimesTimed
<1>4. CASE key # "OVERALL_TIME" /\ ~(key = "LAST_STAGE_TIME" /\ last # {})
  <2>1. TimesFor(key, s, c) = <<>>
        BY <1>4 DEF TimesFor
  <2> QED BY <2>1 DEF Timed
<1> QED BY <1>1, <1>2, <1>3, <1>4

\* A group in its order: whoever has a time by it, then whoever has none.
Starts(crews, times, direction) ==
  {p \in crews \X crews : StartsBefore(times, direction, p[1], p[2])}

LEMMA NumbersTellApart ==
  ASSUME NEW e \in Entries, NEW f \in Entries
  PROVE  StartNumber[e] \in Int /\ (StartNumber[e] = StartNumber[f] => e = f)
<1>1. StartNumber \in [Entries -> Nat] /\ IsInjective(StartNumber)
      BY ResultsAssumption
<1> QED BY <1>1 DEF IsInjective

LEMMA StartsOrders ==
  ASSUME NEW crews \in SUBSET Entries, NEW times, Timed(times), NEW direction
  PROVE  StrictlyOrders(Starts(crews, times, direction), crews)
<1> DEFINE Before(e, f) == StartsBefore(times, direction, e, f)
           Has(e) == e \in DOMAIN times
           number == [e \in Entries |-> StartNumber[e]]
           t == [e \in Entries |-> IF Has(e) THEN times[e] ELSE 0]
           fastest == direction = "FASTEST_FIRST"
           B(e, f) == IF Has(e) /\ Has(f) /\ t[e] # t[f]
                      THEN IF fastest THEN t[e] < t[f] ELSE t[f] < t[e]
                      ELSE IF ~(Has(e) <=> Has(f)) THEN Has(e)
                      ELSE number[e] < number[f]
<1>1. \A e \in Entries : t[e] \in Int /\ number[e] \in Int
      BY NumbersTellApart DEF Timed
<1>2. \A e, f \in Entries : number[e] = number[f] => e = f
      BY NumbersTellApart
<1>3. \A e, f \in crews : <<e, f>> \in Starts(crews, times, direction) <=> B(e, f)
      BY DEF Starts, StartsBefore
<1> HIDE DEF Has, t, number, fastest
<1>4. \A e \in crews : ~B(e, e)
      BY <1>1
<1>5. \A e, f \in crews : e # f => B(e, f) \/ B(f, e)
  <2> SUFFICES ASSUME NEW e \in crews, NEW f \in crews, e # f PROVE B(e, f) \/ B(f, e)
      OBVIOUS
  <2>1. t[e] \in Int /\ t[f] \in Int /\ number[e] \in Int /\ number[f] \in Int /\ number[e] # number[f]
        BY <1>1, <1>2
  <2>2. CASE Has(e) /\ Has(f) /\ t[e] # t[f]
        BY <2>1, <2>2
  <2>3. CASE Has(e) /\ Has(f) /\ t[e] = t[f]
        BY <2>1, <2>3
  <2>4. CASE Has(e) /\ ~Has(f)
        BY <2>4
  <2>5. CASE ~Has(e) /\ Has(f)
        BY <2>5
  <2>6. CASE ~Has(e) /\ ~Has(f)
        BY <2>1, <2>6
  <2> QED BY <2>2, <2>3, <2>4, <2>5, <2>6
<1>6. \A e, f, g \in crews : B(e, f) /\ B(f, g) => B(e, g)
  <2> SUFFICES ASSUME NEW e \in crews, NEW f \in crews, NEW g \in crews, B(e, f), B(f, g)
               PROVE  B(e, g)
      OBVIOUS
  <2>1. /\ t[e] \in Int /\ t[f] \in Int /\ t[g] \in Int
        /\ number[e] \in Int /\ number[f] \in Int /\ number[g] \in Int
        BY <1>1
  <2>2. CASE Has(e) /\ Has(f) /\ Has(g)
        BY <2>1, <2>2
  <2>3. CASE ~(Has(e) /\ Has(f) /\ Has(g))
        BY <2>1, <2>3
  <2> QED BY <2>2, <2>3
<1> HIDE DEF B
<1> QED BY <1>3, <1>4, <1>5, <1>6 DEF StrictlyOrders

LEMMA GroupLists ==
  ASSUME NEW crews \in SUBSET Entries, NEW times, Timed(times), NEW direction
  PROVE  Lists(SortedGroup(crews, times, direction), crews, Starts(crews, times, direction))
<1>1. StrictlyOrders(Starts(crews, times, direction), crews) /\ IsFiniteSet(crews)
      BY StartsOrders, CrewsFinite
<1>2. SortedGroup(crews, times, direction) = Sorted(crews, Starts(crews, times, direction))
      BY DEF SortedGroup, Starts
<1> QED BY <1>1, <1>2, SortedIs, LaidOutLists

LEMMA MainClassIs ==
  ASSUME NEW e \in Entries
  PROVE  MainClass(e) \in 1 .. NoClass /\ NoClass \in Nat /\ NoClass # 0
<1> DEFINE classes == ClassesOf[e] \cup {NoClass}
<1>1. NumClasses \in Nat /\ ClassesOf \in [Entries -> SUBSET (1 .. NumClasses)]
      BY ResultsAssumption
<1>2. classes \in SUBSET (1 .. NoClass) /\ classes \in SUBSET Nat /\ classes # {} /\ NoClass \in Nat /\ NoClass # 0
      BY <1>1 DEF NoClass
<1>3. Min(classes) \in classes
  <2> HIDE DEF classes
  <2> QED BY <1>2, MinIs
<1> QED BY <1>2, <1>3 DEF MainClass

Starters == {e \in Entries : InEvent(e)}
\* Two of a class, by what the class is ordered by.
InClass(key, s, direction) ==
  {p \in Starters \X Starters :
     StartsBefore(TimesFor(key, s, MainClass(p[1])), direction, p[1], p[2])}

LEMMA GroupedLists ==
  ASSUME ResultsInv, NEW key \in Keys, NEW s \in Stages, NEW direction
  PROVE  Lists(StartList(s, key, direction, TRUE), Starters,
               ByGroup([e \in Starters |-> MainClass(e)], Starters, InClass(key, s, direction)))
<1> DEFINE Group(c) == SortedGroup({e \in Starters : MainClass(e) = c}, TimesFor(key, s, c), direction)
           seqs == [c \in 1 .. NoClass |-> Group(c)]
           class == [e \in Starters |-> MainClass(e)]
           R == InClass(key, s, direction)
<1>1. StartList(s, key, direction, TRUE) = FlattenSeq(seqs)
      BY DEF StartList, Starters
<1>2. NoClass \in Nat /\ NoClass # 0
      BY ResultsAssumption DEF NoClass
<1>3. DOMAIN seqs = 1 .. NoClass /\ Len(seqs) = NoClass
      BY <1>2
<1>4. class \in [Starters -> 1 .. NoClass]
      BY MainClassIs DEF Starters
<1>5. ASSUME NEW c \in 1 .. NoClass
      PROVE  Lists(seqs[c], {e \in Starters : class[e] = c}, R)
  <2> DEFINE group == {e \in Starters : MainClass(e) = c}
             times == TimesFor(key, s, c)
  <2>1. group \in SUBSET Entries /\ group \in SUBSET Starters
        BY DEF Starters
  <2>2. Timed(times)
        BY TimesForTimed
  <2>3. seqs[c] = SortedGroup(group, times, direction)
        OBVIOUS
  <2>4. \A p \in Starts(group, times, direction) : p \in R
        BY DEF Starts, InClass
  <2>5. group = {e \in Starters : class[e] = c}
        OBVIOUS
  <2> HIDE DEF group, times, seqs, R
  <2>6. Lists(seqs[c], group, Starts(group, times, direction))
        BY <2>1, <2>2, <2>3, GroupLists
  <2>7. Lists(seqs[c], group, R)
        BY <2>4, <2>6 DEF Lists
  <2> QED BY <2>5, <2>7
<1> HIDE DEF seqs, class, R
<1>6. Lists(FlattenSeq(seqs), Starters, ByGroup(class, Starters, R))
      BY <1>2, <1>3, <1>4, <1>5, JoinedGroups
<1> QED BY <1>1, <1>6 DEF class, R

LEMMA NeverBeforeItself ==
  ASSUME NEW e \in Entries, NEW times, NEW direction
  PROVE  ~StartsBefore(times, direction, e, e)
<1>1. StartNumber[e] \in Int
      BY NumbersTellApart
<1> QED BY <1>1 DEF StartsBefore

\* Whatever it is ordered by, whoever is in the event is on the list once.
LEMMA EverybodyOnce ==
  ASSUME ResultsInv, NEW key \in Keys, NEW s \in Stages, NEW direction, NEW grouped \in BOOLEAN
  PROVE  IsInjective(StartList(s, key, direction, grouped))
         /\ Range(StartList(s, key, direction, grouped)) = Starters
<1>1. CASE grouped = TRUE
  <2> DEFINE class == [e \in Starters |-> MainClass(e)]
             R == ByGroup(class, Starters, InClass(key, s, direction))
             list == StartList(s, key, direction, TRUE)
  <2>1. \A e \in Starters : <<e, e>> \notin R
    <3> SUFFICES ASSUME NEW e \in Starters PROVE <<e, e>> \notin R
        OBVIOUS
    <3>1. e \in Entries /\ class[e] \in Int
          BY MainClassIs DEF Starters
    <3>2. <<e, e>> \notin InClass(key, s, direction)
          BY <3>1, NeverBeforeItself DEF InClass
    <3> QED BY <3>1, <3>2 DEF ByGroup
  <2>2. Lists(list, Starters, R)
        BY GroupedLists
  <2> HIDE DEF list, R
  <2>3. IsInjective(list) /\ Range(list) = Starters
        BY <2>1, <2>2, ListedOnce
  <2> QED BY <1>1, <2>3 DEF list
<1>2. CASE grouped = FALSE
  <2> DEFINE times == TimesFor(key, s, NoClass)
             list == SortedGroup(Starters, times, direction)
             R == Starts(Starters, times, direction)
  <2>1. StartList(s, key, direction, FALSE) = list
        BY DEF StartList, Starters
  <2>2. NoClass \in 1 .. NoClass
        BY ResultsAssumption DEF NoClass
  <2>3. Timed(times)
        BY <2>2, TimesForTimed
  <2>4. Starters \in SUBSET Entries
        BY DEF Starters
  <2>5. \A e \in Starters : <<e, e>> \notin R
        BY <2>4, NeverBeforeItself DEF Starts
  <2>6. Lists(list, Starters, R)
    <3> HIDE DEF times
    <3> QED BY <2>3, <2>4, GroupLists
  <2> HIDE DEF list, R
  <2>7. IsInjective(list) /\ Range(list) = Starters
        BY <2>5, <2>6, ListedOnce
  <2> QED BY <1>2, <2>1, <2>7
<1> QED BY <1>1, <1>2

\* The computed list is of the crews in the event, each once, and where it goes
\* by overall time it is the class results posted beside it, in that order or
\* the reverse, with the crews without a time at the end either way.
THEOREM StartListFollowsResultsHolds == Spec => []StartListFollowsResults
<1>1. ASSUME ResultsInv PROVE StartListFollowsResults
  <2>1. NumStages \in Stages
        BY PricingAssumption DEF Stages
  <2>2. ASSUME NEW direction \in Directions, NEW key \in Keys, NEW grouped \in BOOLEAN
        PROVE  IsInjective(StartList(NumStages, key, direction, grouped))
               /\ Range(StartList(NumStages, key, direction, grouped)) = {e \in Entries : InEvent(e)}
        BY <1>1, <2>1, EverybodyOnce DEF Starters
  <2>3. ASSUME NEW direction \in Directions, \E t \in Stages : CountsInOverall(status, t),
               NEW list, list = StartList(NumStages, "OVERALL_TIME", direction, TRUE),
               NEW j \in DOMAIN list, NEW i \in 1 .. j - 1,
               MainClass(list[i]) = MainClass(list[j]),
               NEW total, total = Totals[View(MainClass(list[j]))],
               list[j] \in DOMAIN total
        PROVE  /\ list[i] \in DOMAIN total
               /\ direction = "FASTEST_FIRST" => total[list[i]] <= total[list[j]]
               /\ direction = "SLOWEST_FIRST" => total[list[i]] >= total[list[j]]
               /\ total[list[i]] = total[list[j]] => StartNumber[list[i]] < StartNumber[list[j]]
    <3> DEFINE key == "OVERALL_TIME"
               class == [e \in Starters |-> MainClass(e)]
               R == InClass(key, NumStages, direction)
               e == list[i]
               f == list[j]
               c == MainClass(f)
    <3>1. Lists(list, Starters, ByGroup(class, Starters, R))
      <4>1. key \in Keys
            BY DEF Keys
      <4> QED BY <1>1, <2>1, <2>3, <4>1, GroupedLists
    <3>2. i \in 1 .. Len(list) /\ j \in 1 .. Len(list) /\ i < j
      <4>1. list \in Seq(Starters)
            BY <3>1 DEF Lists
      <4> QED BY <4>1
    <3>3. <<e, f>> \in ByGroup(class, Starters, R) /\ e \in Starters /\ f \in Starters
      <4>1. <<e, f>> \in ByGroup(class, Starters, R)
            BY <3>1, <3>2 DEF Lists
      <4> QED BY <4>1 DEF ByGroup
    <3> HIDE DEF e, f
    <3>4. <<e, f>> \in R
      <4>1. class[e] = class[f] /\ class[e] \in Int
        <5>1. MainClass(e) = MainClass(f)
              BY <2>3 DEF e, f
        <5>2. class[e] = MainClass(e) /\ class[f] = MainClass(f)
              BY <3>3
        <5>3. MainClass(e) \in Int
              BY <3>3, MainClassIs DEF Starters
        <5> QED BY <5>1, <5>2, <5>3
      <4> QED BY <3>3, <4>1 DEF ByGroup
    <3>5. StartsBefore(TimesFor(key, NumStages, c), direction, e, f)
      <4>1. MainClass(e) = c
            BY <2>3 DEF e, f
      <4> QED BY <3>4, <4>1 DEF InClass
    <3>6. c \in 1 .. NoClass
          BY <3>3, MainClassIs DEF Starters
    <3>7. TimesFor(key, NumStages, c) = Overall(View(c)) /\ total = Overall(View(c))
      <4>1. TimesFor(key, NumStages, c) = Overall(View(c))
            BY <2>3 DEF TimesFor
      <4>2. Totals[View(c)] = Overall(View(c))
            BY <3>6, ViewOf DEF Totals
      <4> QED BY <2>3, <4>1, <4>2 DEF f
    <3>8. StartsBefore(total, direction, e, f) /\ f \in DOMAIN total /\ Timed(total)
          BY <1>1, <2>3, <3>5, <3>6, <3>7, OverallTimed DEF f
    <3>9. e \in DOMAIN total
          BY <3>8 DEF StartsBefore
    <3>10. total[e] \in Int /\ total[f] \in Int
           BY <3>8, <3>9 DEF Timed
    <3>11. /\ direction = "FASTEST_FIRST" => total[e] <= total[f]
           /\ direction = "SLOWEST_FIRST" => total[e] >= total[f]
           /\ total[e] = total[f] => StartNumber[e] < StartNumber[f]
           BY <3>8, <3>9, <3>10 DEF StartsBefore
    <3> QED BY <3>9, <3>11 DEF e, f
  <2>4. ASSUME NEW direction \in Directions
        PROVE  \A key \in Keys, grouped \in BOOLEAN :
                 LET list == StartList(NumStages, key, direction, grouped)
                 IN IsInjective(list) /\ Range(list) = {e \in Entries : InEvent(e)}
        BY <2>2
  <2>5. ASSUME NEW direction \in Directions
        PROVE  LET list == StartList(NumStages, "OVERALL_TIME", direction, TRUE) IN
               \A j \in DOMAIN list : \A i \in 1 .. j - 1 :
                 LET total == Totals[View(MainClass(list[j]))] IN
                 (/\ \E t \in Stages : CountsInOverall(status, t)
                  /\ MainClass(list[i]) = MainClass(list[j])
                  /\ list[j] \in DOMAIN total) =>
                    /\ list[i] \in DOMAIN total
                    /\ direction = "FASTEST_FIRST" => total[list[i]] <= total[list[j]]
                    /\ direction = "SLOWEST_FIRST" => total[list[i]] >= total[list[j]]
                    /\ total[list[i]] = total[list[j]] => StartNumber[list[i]] < StartNumber[list[j]]
    <3> DEFINE list == StartList(NumStages, "OVERALL_TIME", direction, TRUE)
    <3> HIDE DEF list
    <3>1. ASSUME \E t \in Stages : CountsInOverall(status, t),
                 NEW j \in DOMAIN list, NEW i \in 1 .. j - 1,
                 MainClass(list[i]) = MainClass(list[j]),
                 list[j] \in DOMAIN Totals[View(MainClass(list[j]))]
          PROVE  LET total == Totals[View(MainClass(list[j]))] IN
                 /\ list[i] \in DOMAIN total
                 /\ direction = "FASTEST_FIRST" => total[list[i]] <= total[list[j]]
                 /\ direction = "SLOWEST_FIRST" => total[list[i]] >= total[list[j]]
                 /\ total[list[i]] = total[list[j]] => StartNumber[list[i]] < StartNumber[list[j]]
      <4> DEFINE total == Totals[View(MainClass(list[j]))]
      <4>1. list = StartList(NumStages, "OVERALL_TIME", direction, TRUE)
            BY DEF list
      <4>2. list[j] \in DOMAIN total
            BY <3>1
      <4> HIDE DEF total
      <4>3. /\ list[i] \in DOMAIN total
            /\ direction = "FASTEST_FIRST" => total[list[i]] <= total[list[j]]
            /\ direction = "SLOWEST_FIRST" => total[list[i]] >= total[list[j]]
            /\ total[list[i]] = total[list[j]] => StartNumber[list[i]] < StartNumber[list[j]]
        <5>1. total = Totals[View(MainClass(list[j]))]
              BY DEF total
        <5> QED BY <2>3, <3>1, <4>1, <4>2, <5>1
      <4> QED BY <4>3 DEF total
    <3> QED BY <3>1 DEF list
  <2> QED BY Zenon, <2>4, <2>5 DEF StartListFollowsResults
<1> QED BY <1>1, ResultsInit, ResultsNext, PTL DEF Spec
=============================================================================
