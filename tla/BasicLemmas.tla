----------------------------- MODULE BasicLemmas -----------------------------
(***************************************************************************)
(* Facts that several proofs share: induction over an interval, stated     *)
(* with a set instead of a predicate; smallest and largest numbers; loops  *)
(* written as recursive functions,                                         *)
(*   loop[k \in 0 .. N] == IF k = 0 THEN s0 ELSE Step(k, loop[k - 1]);     *)
(* and sums over finite sets.                                              *)
(***************************************************************************)
EXTENDS Integers, FiniteSetsExt, TLAPS, WellFoundedInduction, FiniteSetTheorems

\* Every non-empty set of naturals has a least element.
LEMMA LeastNatural ==
  ASSUME NEW T \in SUBSET Nat, T # {}
  PROVE  \E x \in T : \A y \in T : x <= y
<1> DEFINE R == {ss \in Nat \X Nat : ss[1] < ss[2]}
<1>1. IsWellFoundedOn(R, Nat)
  <2>1. R = OpToRel(<, Nat)
    BY Zenon DEF OpToRel
  <2> QED
    BY <2>1, NatLessThanWellFounded
<1>2. \A x, y \in Nat : y < x => <<y, x>> \in R
  OBVIOUS
<1> HIDE DEF R
<1>3. PICK x \in T : \A y \in T : ~ (<<y, x>> \in R)
  BY <1>1, WFMin
<1>4. \A y \in T : ~ (y < x)
  BY <1>2, <1>3
<1> QED
  BY <1>4

\* A set that holds 0 and, below N, the successor of each member holds 0 .. N.
LEMMA IntervalInduction ==
  ASSUME NEW N \in Nat, NEW P, 0 \in P,
         \A k \in 0 .. N : k < N /\ k \in P => k + 1 \in P
  PROVE  0 .. N \subseteq P
<1> SUFFICES ASSUME ~ (0 .. N \subseteq P) PROVE FALSE
  OBVIOUS
<1> DEFINE T == {k \in 0 .. N : k \notin P}
<1>1. T \in SUBSET Nat /\ T # {}
  OBVIOUS
<1>2. PICK x \in T : \A y \in T : x <= y
  BY <1>1, LeastNatural
<1>3. x # 0
  BY <1>2
<1>4. x - 1 \in 0 .. N /\ x - 1 < N /\ x - 1 \notin T
  BY <1>2, <1>3
<1> QED
  BY <1>2, <1>4

-----------------------------------------------------------------------------
(* Smallest and largest numbers.                                           *)

\* A set of numbers has its Min.
LEMMA MinIsLeast ==
  ASSUME NEW T \in SUBSET Nat, T # {}
  PROVE  Min(T) \in T /\ \A y \in T : Min(T) <= y
  <1>1. PICK x \in T : \A y \in T : x <= y  BY LeastNatural
  <1> QED  BY <1>1 DEF Min

\* A bounded set of numbers has its Max.
LEMMA MaxIsGreatest ==
  ASSUME NEW T \in SUBSET Nat, T # {}, NEW B \in Nat, \A x \in T : x <= B
  PROVE  Max(T) \in T /\ \A y \in T : Max(T) >= y
  <1> DEFINE D == {B - x : x \in T}
  <1>1. D \in SUBSET Nat
    <2>1. \A x \in T : x \in Nat /\ x <= B  OBVIOUS
    <2>2. \A x \in T : B - x \in Nat  BY <2>1, SMT
    <2> QED  BY <2>2
  <1>2. D # {}  OBVIOUS
  <1>3. PICK m \in D : \A y \in D : m <= y  BY <1>1, <1>2, MinIsLeast
  <1>4. PICK z \in T : m = B - z  BY <1>3
  <1>5. ASSUME NEW y \in T PROVE z >= y
    <2>1. m <= B - y  BY <1>3
    <2>2. y \in Nat /\ z \in Nat  OBVIOUS
    <2> QED  BY <2>1, <2>2, <1>4
  <1> QED  BY <1>4, <1>5 DEF Max

LEMMA MaxOfTwo ==
  ASSUME NEW a \in Nat, NEW b \in Nat
  PROVE  Max({a, b}) = IF a >= b THEN a ELSE b
  <1>1. {a, b} \in SUBSET Nat /\ {a, b} # {}  OBVIOUS
  <1>2. a + b \in Nat /\ \A x \in {a, b} : x <= a + b  OBVIOUS
  <1>3. Max({a, b}) \in {a, b} /\ \A y \in {a, b} : Max({a, b}) >= y
    BY <1>1, <1>2, MaxIsGreatest
  <1> QED  BY <1>3

LEMMA MinOfTwo ==
  ASSUME NEW a \in Nat, NEW b \in Nat
  PROVE  Min({a, b}) = IF a <= b THEN a ELSE b
  <1>1. {a, b} \in SUBSET Nat /\ {a, b} # {}  OBVIOUS
  <1>2. Min({a, b}) \in {a, b} /\ \A y \in {a, b} : Min({a, b}) <= y
    BY <1>1, MinIsLeast
  <1> QED  BY <1>2

-----------------------------------------------------------------------------
(* Remainders.                                                             *)

LEMMA ModOfSmall ==
  ASSUME NEW M \in Nat \ {0}, NEW r \in Nat, r < M
  PROVE  r % M = r
  OBVIOUS

LEMMA ModOfMultiple ==
  ASSUME NEW M \in Nat \ {0}, NEW k \in Nat, NEW r \in 0 .. M - 1
  PROVE  (k * M + r) % M = r
  OBVIOUS

LEMMA DivOfMultiple ==
  ASSUME NEW M \in Nat \ {0}, NEW k \in Nat, NEW r \in 0 .. M - 1
  PROVE  (k * M + r) \div M = k
  OBVIOUS

LEMMA Division ==
  ASSUME NEW M \in Nat \ {0}, NEW x \in Nat
  PROVE  /\ x \div M \in Nat /\ x % M \in 0 .. M - 1
         /\ x = M * (x \div M) + (x % M)
<1>1. x = M * (x \div M) + (x % M)  OBVIOUS
<1>2. x % M \in 0 .. M - 1 /\ x \div M \in Nat  OBVIOUS
<1> QED  BY <1>1, <1>2

LEMMA ModSplit ==
  ASSUME NEW M \in Nat \ {0}, NEW x \in Nat
  PROVE  \E k \in Nat, r \in 0 .. M - 1 : x = k * M + r /\ x % M = r
  <1>1. x = M * (x \div M) + (x % M)  OBVIOUS
  <1>2. x % M \in 0 .. M - 1 /\ x \div M \in Nat  OBVIOUS
  <1> QED  BY <1>1, <1>2

LEMMA ModShift ==
  ASSUME NEW M \in Nat \ {0}, NEW x \in Nat
  PROVE  (x + M) % M = x % M
  <1>1. PICK k \in Nat, r \in 0 .. M - 1 : x = k * M + r /\ x % M = r  BY ModSplit
  <1>2. x + M = (k + 1) * M + r /\ k + 1 \in Nat  BY <1>1
  <1>3. ((k + 1) * M + r) % M = r  BY <1>2, ModOfMultiple
  <1> QED  BY <1>1, <1>2, <1>3

LEMMA ModNext ==
  ASSUME NEW M \in Nat \ {0}, NEW x \in Nat
  PROVE  (x + 1) % M = IF x % M = M - 1 THEN 0 ELSE (x % M) + 1
  <1>1. PICK k \in Nat, r \in 0 .. M - 1 : x = k * M + r /\ x % M = r  BY ModSplit
  <1>2. CASE r = M - 1
    <2>1. x + 1 = (k + 1) * M + 0 /\ k + 1 \in Nat  BY <1>1, <1>2
    <2>2. ((k + 1) * M + 0) % M = 0  BY <2>1, ModOfMultiple
    <2> QED  BY <1>1, <1>2, <2>1, <2>2
  <1>3. CASE r < M - 1
    <2>1. x + 1 = k * M + (r + 1) /\ r + 1 \in 0 .. M - 1  BY <1>1, <1>3
    <2>2. (k * M + (r + 1)) % M = r + 1  BY <2>1, ModOfMultiple
    <2> QED  BY <1>1, <1>3, <2>1, <2>2
  <1> QED  BY <1>2, <1>3

\* What is left of a round: l more make it full.
LEMMA ModRest ==
  ASSUME NEW M \in Nat \ {0}, NEW x \in Nat, NEW l \in 1 .. M, (x + l) % M = 0
  PROVE  x % M = M - l
  <1>1. PICK k \in Nat, r \in 0 .. M - 1 : x = k * M + r /\ x % M = r  BY ModSplit
  <1>2. CASE r + l < M
    <2>1. x + l = k * M + (r + l) /\ r + l \in 0 .. M - 1  BY <1>1, <1>2
    <2>2. (k * M + (r + l)) % M = r + l  BY <2>1, ModOfMultiple
    <2> QED  BY <1>1, <1>2, <2>1, <2>2
  <1>3. CASE r + l >= M
    <2>1. x + l = (k + 1) * M + (r + l - M) /\ r + l - M \in 0 .. M - 1 /\ k + 1 \in Nat
      BY <1>1, <1>3
    <2>2. ((k + 1) * M + (r + l - M)) % M = r + l - M  BY <2>1, ModOfMultiple
    <2>3. r + l - M = 0  BY <2>1, <2>2
    <2> QED  BY <1>1, <1>3, <2>3
  <1> QED  BY <1>2, <1>3

-----------------------------------------------------------------------------
(* Loops.                                                                  *)

\* The bodies of a loop of N turns on states of S, which may differ from turn to
\* turn, and the states that the loop goes through.
Bodies(S, N) == [1 .. N -> [S -> S]]
States(S, N) == [0 .. N -> S]
IsRun(g, s0, N, F) == g[0] = s0 /\ \A k \in 1 .. N : g[k] = F[k][g[k - 1]]

\* They exist and stay within S.
LEMMA Iterates ==
  \A S : \A s0 \in S, N \in Nat : \A F \in Bodies(S, N) :
    \E g : g \in States(S, N) /\ IsRun(g, s0, N, F)
<1> TAKE S
<1> TAKE s0 \in S, N \in Nat
<1> TAKE F \in Bodies(S, N)
<1> USE DEF Bodies, States, IsRun
<1> DEFINE Good(g, m) == g[0] = s0 /\ \A k \in 1 .. m : g[k] = F[k][g[k - 1]]
           P == {m \in 0 .. N : \E g \in [0 .. N -> S] : Good(g, m)}
<1>1. 0 \in P
  <2> DEFINE z == [k \in 0 .. N |-> s0]
  <2>1. z \in [0 .. N -> S] /\ Good(z, 0)
    OBVIOUS
  <2>2. \E g \in [0 .. N -> S] : Good(g, 0)
    <3> HIDE DEF z, Good
    <3> QED
      BY <2>1
  <2> QED
    BY <2>2
<1>2. ASSUME NEW m \in 0 .. N, m < N, m \in P
      PROVE  m + 1 \in P
  <2>1. PICK g \in [0 .. N -> S] : Good(g, m)
    BY <1>2
  <2> DEFINE h == [g EXCEPT ![m + 1] = F[m + 1][g[m]]]
  <2>2. h \in [0 .. N -> S]
    <3>1. m + 1 \in 1 .. N /\ F[m + 1] \in [S -> S] /\ g[m] \in S
      BY <1>2
    <3> QED
      BY <3>1
  <2>3. h[0] = s0
    BY <2>1, <1>2
  <2>4. ASSUME NEW k \in 1 .. (m + 1)
        PROVE  h[k] = F[k][h[k - 1]]
    <3>1. CASE k = m + 1
      <4>1. h[k] = F[k][g[m]] /\ h[m] = g[m] /\ k - 1 = m
        BY <3>1, <1>2
      <4> QED
        BY <4>1
    <3>2. CASE k \in 1 .. m
      <4>1. h[k] = g[k] /\ h[k - 1] = g[k - 1]
        BY <3>2, <1>2
      <4> QED
        BY <4>1, <3>2, <2>1
    <3> QED
      BY <3>1, <3>2, <1>2
  <2>5. \E f \in [0 .. N -> S] : Good(f, m + 1)
    <3>1. Good(h, m + 1)
      BY <2>3, <2>4
    <3> HIDE DEF h, Good
    <3> QED
      BY <2>2, <3>1
  <2> QED
    BY <2>5, <1>2
<1>3. N \in P
  <2> HIDE DEF P
  <2>1. 0 .. N \subseteq P
    BY <1>1, <1>2, IntervalInduction
  <2> QED
    BY <2>1
<1> QED
  BY <1>3

-----------------------------------------------------------------------------
(* Sums of f[x] over the members x of a finite set, as the folds of the    *)
(* community modules compute them: choosing one member after the other.    *)

Chosen(s) == CHOOSE x \in s : TRUE
Total(f, S) == MapThenFoldSet(+, 0, LAMBDA x : f[x], LAMBDA s : CHOOSE x \in s : TRUE, S)

\* The recursive function of the fold.
IsSum(g, f, S) ==
  g = [s \in SUBSET S |-> IF s = {} THEN 0 ELSE f[Chosen(s)] + g[s \ {Chosen(s)}]]

LEMMA ChosenIn == \A s : s # {} => Chosen(s) \in s
BY DEF Chosen

\* Without its chosen member a set is smaller.
LEMMA ChosenOut ==
  ASSUME NEW s, IsFiniteSet(s), s # {}
  PROVE  /\ Chosen(s) \in s /\ IsFiniteSet(s \ {Chosen(s)})
         /\ Cardinality(s) \in Nat /\ Cardinality(s) >= 1
         /\ Cardinality(s \ {Chosen(s)}) = Cardinality(s) - 1
<1>1. Chosen(s) \in s
  BY ChosenIn
<1>2. Cardinality(s) \in Nat /\ Cardinality(s) # 0
  BY FS_CardinalityType, FS_EmptySet
<1> QED  BY <1>1, <1>2, FS_RemoveElement

\* Two such functions agree where their arguments do.
LEMMA SumsAgree ==
  ASSUME NEW S, NEW T, NEW f, NEW e, NEW g, NEW h, IsSum(g, f, S), IsSum(h, e, T),
         NEW r, IsFiniteSet(r), r \subseteq S, r \subseteq T, \A x \in r : f[x] = e[x]
  PROVE  g[r] = h[r]
<1> DEFINE N == Cardinality(r)
           P == {k \in 0 .. N : \A s \in SUBSET r : Cardinality(s) = k => g[s] = h[s]}
<1>1. N \in Nat
  BY FS_CardinalityType
<1>2. \A s \in SUBSET r :
        /\ g[s] = IF s = {} THEN 0 ELSE f[Chosen(s)] + g[s \ {Chosen(s)}]
        /\ h[s] = IF s = {} THEN 0 ELSE e[Chosen(s)] + h[s \ {Chosen(s)}]
  <2> SUFFICES ASSUME NEW s \in SUBSET r
               PROVE  /\ g[s] = IF s = {} THEN 0 ELSE f[Chosen(s)] + g[s \ {Chosen(s)}]
                      /\ h[s] = IF s = {} THEN 0 ELSE e[Chosen(s)] + h[s \ {Chosen(s)}]
    OBVIOUS
  <2>1. s \in SUBSET S /\ s \in SUBSET T
    OBVIOUS
  <2>2. g[s] = IF s = {} THEN 0 ELSE f[Chosen(s)] + g[s \ {Chosen(s)}]
    BY ONLY <2>1, IsSum(g, f, S) DEF IsSum
  <2>3. h[s] = IF s = {} THEN 0 ELSE e[Chosen(s)] + h[s \ {Chosen(s)}]
    BY ONLY <2>1, IsSum(h, e, T) DEF IsSum
  <2> QED  BY <2>2, <2>3
<1>3. \A s \in SUBSET r : IsFiniteSet(s) /\ Cardinality(s) \in 0 .. N
  BY <1>1, FS_Subset, FS_CardinalityType
<1>4. 0 \in P
  <2>1. \A s \in SUBSET r : Cardinality(s) = 0 => s = {}
    BY <1>3, FS_EmptySet
  <2> QED  BY <1>1, <1>2, <2>1
<1>5. ASSUME NEW k \in 0 .. N, k < N, k \in P PROVE k + 1 \in P
  <2> SUFFICES ASSUME NEW s \in SUBSET r, Cardinality(s) = k + 1 PROVE g[s] = h[s]
    BY <1>1, <1>5
  <2>1. s # {}
    BY <1>1, FS_EmptySet
  <2>2. /\ Chosen(s) \in s /\ s \ {Chosen(s)} \in SUBSET r
        /\ Cardinality(s \ {Chosen(s)}) = k
    BY <2>1, <1>1, <1>3, ChosenOut
  <2>3. g[s \ {Chosen(s)}] = h[s \ {Chosen(s)}]
    BY <2>2, <1>5
  <2>4. f[Chosen(s)] = e[Chosen(s)]
    BY <2>2
  <2>5. /\ g[s] = f[Chosen(s)] + g[s \ {Chosen(s)}]
        /\ h[s] = e[Chosen(s)] + h[s \ {Chosen(s)}]
    BY <2>1, <1>2
  <2> QED  BY <2>3, <2>4, <2>5
<1> HIDE DEF P
<1>6. N \in P
  BY <1>1, <1>4, <1>5, IntervalInduction
<1> QED  BY <1>6 DEF P

\* They exist: after a turn for each member of the set, another one changes nothing.
LEMMA SumExists ==
  ASSUME NEW S, IsFiniteSet(S), NEW f \in [S -> Int]
  PROVE  \E g \in [SUBSET S -> Int] : IsSum(g, f, S)
<1> DEFINE Fun == [SUBSET S -> Int]
           Turn(g) == [s \in SUBSET S |->
                         IF s = {} THEN 0 ELSE f[Chosen(s)] + g[s \ {Chosen(s)}]]
           N == Cardinality(S) + 2
           F == [k \in 1 .. N |-> [g \in Fun |-> Turn(g)]]
           g0 == [s \in SUBSET S |-> 0]
<1>1. N \in Nat /\ Cardinality(S) \in Nat
  BY FS_CardinalityType
<1>2. \A g \in Fun : Turn(g) \in Fun
  <2> SUFFICES ASSUME NEW g \in Fun, NEW s \in SUBSET S, s # {}
               PROVE  f[Chosen(s)] + g[s \ {Chosen(s)}] \in Int
    OBVIOUS
  <2>1. Chosen(s) \in S
    BY ChosenIn
  <2> QED  BY <2>1
<1>3. F \in Bodies(Fun, N) /\ g0 \in Fun
  <2>1. g0 \in Fun
    OBVIOUS
  <2> HIDE DEF Fun, Turn, N, g0
  <2>2. \A g \in Fun : Turn(g) \in Fun
    BY <1>2
  <2>3. F \in Bodies(Fun, N)
    BY <2>2 DEF Bodies
  <2> QED  BY <2>1, <2>3
<1>4. PICK run : run \in States(Fun, N) /\ IsRun(run, g0, N, F)
  <2> HIDE DEF F, g0, Fun, N
  <2> QED  BY <1>1, <1>3, Iterates, Zenon
<1>5. \A k \in 1 .. N : run[k] = Turn(run[k - 1]) /\ run[k] \in Fun /\ run[k - 1] \in Fun
  <2> SUFFICES ASSUME NEW k \in 1 .. N
               PROVE  run[k] = Turn(run[k - 1]) /\ run[k] \in Fun /\ run[k - 1] \in Fun
    OBVIOUS
  <2>1. k - 1 \in 0 .. N /\ k \in 0 .. N
    BY <1>1
  <2> HIDE DEF Fun, Turn, N
  <2>2. run[k] \in Fun /\ run[k - 1] \in Fun
    BY <2>1, <1>4 DEF States
  <2>3. run[k] = F[k][run[k - 1]]
    BY <1>4 DEF IsRun
  <2> QED  BY <2>2, <2>3
<1> DEFINE P == {k \in 0 .. N - 1 : \A s \in SUBSET S : Cardinality(s) < k => run[k][s] = run[k + 1][s]}
<1>6. \A s \in SUBSET S : IsFiniteSet(s) /\ Cardinality(s) \in 0 .. Cardinality(S)
  BY <1>1, FS_Subset, FS_CardinalityType
<1>7. 0 \in P
  BY <1>1, <1>6
<1>8. ASSUME NEW k \in 0 .. N - 1, k < N - 1, k \in P PROVE k + 1 \in P
  <2> SUFFICES ASSUME NEW s \in SUBSET S, Cardinality(s) < k + 1
               PROVE  run[k + 1][s] = run[k + 2][s]
    BY <1>1, <1>8
  <2>1. run[k + 1] = Turn(run[k]) /\ run[k + 2] = Turn(run[k + 1])
    <3>1. k + 1 \in 1 .. N /\ k + 2 \in 1 .. N /\ (k + 1) - 1 = k /\ (k + 2) - 1 = k + 1
      BY <1>1, <1>8
    <3> HIDE DEF N, Turn
    <3> QED  BY <3>1, <1>5
  <2>2. CASE s = {}
    BY <2>1, <2>2
  <2>3. CASE s # {}
    <3>1. s \ {Chosen(s)} \in SUBSET S /\ Cardinality(s \ {Chosen(s)}) < k
      BY <2>3, <1>6, ChosenOut
    <3>2. run[k][s \ {Chosen(s)}] = run[k + 1][s \ {Chosen(s)}]
      BY <3>1, <1>8
    <3> QED  BY <2>1, <2>3, <3>2
  <2> QED  BY <2>2, <2>3
<1> DEFINE n == Cardinality(S) + 1
<1>9. n \in P
  <2>1. n = N - 1 /\ n \in Nat
    BY <1>1
  <2> HIDE DEF P, n
  <2> QED  BY <2>1, <1>7, <1>8, IntervalInduction
<1>10. run[n] = run[n + 1]
  <2>1. \A s \in SUBSET S : run[n][s] = run[n + 1][s]
    BY <1>1, <1>6, <1>9
  <2>2. run[n] \in Fun /\ run[n + 1] \in Fun
    <3>1. n \in 1 .. N /\ n + 1 \in 1 .. N
      BY <1>1
    <3> HIDE DEF Fun, n, N, Turn
    <3> QED  BY <3>1, <1>5
  <2> HIDE DEF n
  <2> QED  BY <2>1, <2>2
<1>11. run[n + 1] = Turn(run[n]) /\ run[n] \in Fun
  <2>1. n \in 1 .. N /\ n + 1 \in 1 .. N /\ (n + 1) - 1 = n
    BY <1>1
  <2> HIDE DEF Fun, Turn, n, N
  <2> QED  BY <2>1, <1>5
<1> HIDE DEF n
<1> QED  BY <1>10, <1>11 DEF IsSum

\* The sum is the last value of such a function.
LEMMA TotalIs ==
  ASSUME NEW f, NEW S, IsFiniteSet(S), \A y \in S : f[y] \in Int
  PROVE  \E g \in [SUBSET S -> Int] : IsSum(g, f, S) /\ Total(f, S) = g[S]
<1> DEFINE Rec(g) == g = [s \in SUBSET S |->
                            IF s = {} THEN 0 ELSE f[CHOOSE x \in s : TRUE]
                                                  + g[s \ {CHOOSE x \in s : TRUE}]]
           iter == CHOOSE g : Rec(g)
           e == [x \in S |-> f[x]]
<1>1. Total(f, S) = iter[S]
  BY DEF Total, MapThenFoldSet
<1>2. e \in [S -> Int]
  OBVIOUS
<1>3. PICK g \in [SUBSET S -> Int] : IsSum(g, e, S)
  BY <1>2, SumExists
<1>4. IsSum(g, f, S)
  <2>1. \A s \in SUBSET S : s # {} => e[Chosen(s)] = f[Chosen(s)]
    <3> SUFFICES ASSUME NEW s \in SUBSET S, s # {} PROVE Chosen(s) \in S
      OBVIOUS
    <3> QED  BY ChosenIn
  <2> HIDE DEF e
  <2> QED  BY <1>3, <2>1 DEF IsSum
<1>5. Rec(iter)
  <2>1. Rec(g)
    BY <1>4 DEF IsSum, Chosen
  <2> HIDE DEF Rec
  <2> QED  BY <2>1
<1>6. IsSum(iter, f, S)
  BY <1>5 DEF IsSum, Chosen
<1> HIDE DEF iter
<1>7. iter[S] = g[S]
  BY <1>4, <1>6, SumsAgree
<1> QED  BY <1>1, <1>4, <1>7

\* It depends on the values summed alone.
LEMMA TotalSame ==
  ASSUME NEW f, NEW e, NEW S, IsFiniteSet(S), \A y \in S : f[y] \in Int /\ f[y] = e[y]
  PROVE  Total(f, S) = Total(e, S)
<1>1. PICK g \in [SUBSET S -> Int] : IsSum(g, f, S) /\ Total(f, S) = g[S]
  BY TotalIs
<1>2. PICK h \in [SUBSET S -> Int] : IsSum(h, e, S) /\ Total(e, S) = h[S]
  BY TotalIs
<1>3. g[S] = h[S]
  BY <1>1, <1>2, SumsAgree
<1> QED  BY <1>1, <1>2, <1>3

LEMMA TotalType ==
  ASSUME NEW f, NEW S, IsFiniteSet(S), \A y \in S : f[y] \in Int
  PROVE  Total(f, S) \in Int
<1>1. PICK g \in [SUBSET S -> Int] : IsSum(g, f, S) /\ Total(f, S) = g[S]
  BY TotalIs
<1> QED  BY <1>1

LEMMA TotalEmpty ==
  ASSUME NEW f
  PROVE  Total(f, {}) = 0
<1>1. IsFiniteSet({})
  BY FS_EmptySet
<1>2. PICK g \in [SUBSET {} -> Int] : IsSum(g, f, {}) /\ Total(f, {}) = g[{}]
  BY <1>1, TotalIs
<1>3. {} \in SUBSET {}
  OBVIOUS
<1> QED  BY <1>2, <1>3 DEF IsSum

LEMMA TotalChosen ==
  ASSUME NEW f, NEW S, IsFiniteSet(S), \A y \in S : f[y] \in Int, S # {}
  PROVE  Total(f, S) = f[Chosen(S)] + Total(f, S \ {Chosen(S)})
<1> DEFINE T == S \ {Chosen(S)}
<1>1. PICK g \in [SUBSET S -> Int] : IsSum(g, f, S) /\ Total(f, S) = g[S]
  BY TotalIs
<1>2. IsFiniteSet(T)
  BY ChosenOut
<1>3. PICK h \in [SUBSET T -> Int] : IsSum(h, f, T) /\ Total(f, T) = h[T]
  BY <1>2, TotalIs
<1>4. g[T] = h[T]
  <2> HIDE DEF T
  <2>1. T \subseteq S
    BY DEF T
  <2> QED  BY <1>1, <1>2, <1>3, <2>1, SumsAgree
<1>5. g[S] = f[Chosen(S)] + g[T]
  <2>1. S \in SUBSET S
    OBVIOUS
  <2> QED  BY <2>1, <1>1 DEF IsSum
<1> QED  BY <1>1, <1>3, <1>4, <1>5

\* Any member may be added last: the order of the additions does not matter.
LEMMA TotalSplit ==
  ASSUME NEW f, NEW S, IsFiniteSet(S), \A y \in S : f[y] \in Int, NEW x \in S
  PROVE  Total(f, S) = f[x] + Total(f, S \ {x})
<1> DEFINE N == Cardinality(S)
           Holds(s) == \A y \in s : Total(f, s) = f[y] + Total(f, s \ {y})
           P == {k \in 0 .. N : \A s \in SUBSET S : Cardinality(s) = k => Holds(s)}
<1>1. N \in Nat
  BY FS_CardinalityType
<1>2. \A s \in SUBSET S : IsFiniteSet(s) /\ Cardinality(s) \in 0 .. N
  BY <1>1, FS_Subset, FS_CardinalityType
<1>3. \A s \in SUBSET S : Total(f, s) \in Int
  BY <1>2, TotalType
<1>4. 0 \in P
  <2>1. \A s \in SUBSET S : Cardinality(s) = 0 => s = {}
    BY <1>2, FS_EmptySet
  <2> QED  BY <1>1, <2>1
<1>5. ASSUME NEW k \in 0 .. N, k < N, k \in P PROVE k + 1 \in P
  <2> SUFFICES ASSUME NEW s \in SUBSET S, Cardinality(s) = k + 1, NEW y \in s
               PROVE  Total(f, s) = f[y] + Total(f, s \ {y})
    BY <1>1, <1>5
  <2> DEFINE c == Chosen(s)
  <2>1. c \in s /\ IsFiniteSet(s) /\ Cardinality(s \ {c}) = k
    BY <1>2, ChosenOut
  <2>2. Total(f, s) = f[c] + Total(f, s \ {c})
    BY <2>1, TotalChosen
  <2> HIDE DEF c
  <2>3. CASE y = c
    BY <2>2, <2>3
  <2>4. CASE y # c
    <3>1. Cardinality(s \ {y}) = k
      BY <2>1, FS_RemoveElement
    <3>2. Holds(s \ {c}) /\ Holds(s \ {y})
      BY <2>1, <3>1, <1>5
    <3>3. Total(f, s \ {c}) = f[y] + Total(f, (s \ {c}) \ {y})
      BY <2>4, <3>2
    <3>4. Total(f, s \ {y}) = f[c] + Total(f, (s \ {y}) \ {c})
      BY <2>1, <2>4, <3>2
    <3>5. (s \ {c}) \ {y} = (s \ {y}) \ {c}
      OBVIOUS
    <3> DEFINE r == (s \ {y}) \ {c}
    <3>6. f[y] \in Int /\ f[c] \in Int /\ Total(f, r) \in Int
      BY <2>1, <1>3
    <3>7. Total(f, s) = f[c] + (f[y] + Total(f, r)) /\ Total(f, s \ {y}) = f[c] + Total(f, r)
      BY <2>2, <3>3, <3>4, <3>5
    <3> HIDE DEF r
    <3> QED  BY <3>6, <3>7
  <2> QED  BY <2>3, <2>4
<1>6. N \in P
  <2> HIDE DEF P
  <2> QED  BY <1>1, <1>4, <1>5, IntervalInduction
<1> QED  BY <1>6

\* One value changes: so does the sum, by the difference.
LEMMA TotalExcept ==
  ASSUME NEW f, NEW e, NEW S, IsFiniteSet(S),
         \A y \in S : f[y] \in Int /\ e[y] \in Int, NEW x \in S,
         \A y \in S : y # x => f[y] = e[y]
  PROVE  Total(e, S) = Total(f, S) + (e[x] - f[x])
<1>1. IsFiniteSet(S \ {x}) 
  BY FS_Subset
<1>2. Total(f, S \ {x}) = Total(e, S \ {x})
  BY <1>1, TotalSame
<1>3. Total(f, S) = f[x] + Total(f, S \ {x}) /\ Total(e, S) = e[x] + Total(e, S \ {x})
  BY TotalSplit
<1>4. Total(f, S \ {x}) \in Int /\ f[x] \in Int /\ e[x] \in Int
  BY <1>1, TotalType
<1> QED  BY <1>2, <1>3, <1>4

LEMMA TotalAdded ==
  ASSUME NEW f, NEW S, IsFiniteSet(S), NEW x, x \notin S,
         \A y \in S \cup {x} : f[y] \in Int
  PROVE  Total(f, S \cup {x}) = f[x] + Total(f, S)
<1>1. IsFiniteSet(S \cup {x})
  BY FS_AddElement
<1>2. (S \cup {x}) \ {x} = S
  OBVIOUS
<1> QED  BY <1>1, <1>2, TotalSplit

LEMMA TotalOfZeros ==
  ASSUME NEW f, NEW S, IsFiniteSet(S), \A y \in S : f[y] = 0
  PROVE  Total(f, S) = 0
<1> DEFINE z == [s \in SUBSET S |-> 0]
<1>0. \A y \in S : f[y] \in Int
  OBVIOUS
<1>1. PICK g \in [SUBSET S -> Int] : IsSum(g, f, S) /\ Total(f, S) = g[S]
  BY <1>0, TotalIs
<1>2. IsSum(z, f, S)
  <2>1. \A s \in SUBSET S : s # {} => f[Chosen(s)] = 0 /\ s \ {Chosen(s)} \in SUBSET S
    BY ChosenIn
  <2> QED  BY <2>1 DEF IsSum
<1>3. g[S] = z[S]
  <2> HIDE DEF z
  <2> QED  BY <1>1, <1>2, SumsAgree
<1> QED  BY <1>1, <1>3

\* A loop over 1 .. k.
LEMMA TotalUpTo ==
  ASSUME NEW f, NEW k \in Nat \ {0}, \A y \in 1 .. k : f[y] \in Int
  PROVE  Total(f, 1 .. k) = Total(f, 1 .. k - 1) + f[k]
<1>1. IsFiniteSet(1 .. k - 1) /\ IsFiniteSet(1 .. k)
  BY FS_Interval
<1>2. 1 .. k = (1 .. k - 1) \cup {k} /\ k \notin 1 .. k - 1
  OBVIOUS
<1>3. \A y \in (1 .. k - 1) \cup {k} : f[y] \in Int
  OBVIOUS
<1>4. Total(f, (1 .. k - 1) \cup {k}) = f[k] + Total(f, 1 .. k - 1)
  BY <1>1, <1>2, <1>3, TotalAdded
<1>5. Total(f, 1 .. k - 1) \in Int /\ f[k] \in Int
  BY <1>1, TotalType
<1>6. Total(f, 1 .. k) = Total(f, (1 .. k - 1) \cup {k})
  BY <1>2
<1> QED  BY ONLY <1>4, <1>5, <1>6

\* A sum of numbers from 0 to m.
LEMMA TotalBound ==
  ASSUME NEW f, NEW S, IsFiniteSet(S), NEW m \in Nat, \A y \in S : f[y] \in 0 .. m
  PROVE  Total(f, S) \in 0 .. Cardinality(S) * m
<1> DEFINE N == Cardinality(S)
           Holds(s) == Total(f, s) \in 0 .. Cardinality(s) * m
           P == {k \in 0 .. N : \A s \in SUBSET S : Cardinality(s) = k => Holds(s)}
<1>1. N \in Nat
  BY FS_CardinalityType
<1>2. \A s \in SUBSET S : IsFiniteSet(s) /\ Cardinality(s) \in 0 .. N
  BY <1>1, FS_Subset, FS_CardinalityType
<1>3. 0 \in P
  <2>1. \A s \in SUBSET S : Cardinality(s) = 0 => s = {}
    BY <1>2, FS_EmptySet
  <2>2. Total(f, {}) = 0 /\ Cardinality({}) = 0 /\ 0 * m = 0
    BY TotalEmpty, FS_EmptySet
  <2> QED  BY <1>1, <2>1, <2>2
<1>4. ASSUME NEW k \in 0 .. N, k < N, k \in P PROVE k + 1 \in P
  <2> SUFFICES ASSUME NEW s \in SUBSET S, Cardinality(s) = k + 1
               PROVE  Total(f, s) \in 0 .. Cardinality(s) * m
    BY <1>1, <1>4
  <2> DEFINE c == Chosen(s)
             r == s \ {c}
  <2>1. s # {}
    <3>1. Cardinality({}) = 0 /\ k + 1 # 0
      BY <1>1, FS_EmptySet
    <3> QED  BY <3>1
  <2>2. c \in s /\ IsFiniteSet(r) /\ Cardinality(r) = k
    BY <1>2, <2>1, ChosenOut
  <2>3. \A y \in s : f[y] \in Int
    OBVIOUS
  <2>4. Total(f, s) = f[c] + Total(f, r)
    BY <1>2, <2>1, <2>3, TotalChosen
  <2>5. Total(f, r) \in 0 .. k * m
    BY <2>2, <1>4
  <2>6. f[c] \in 0 .. m
    BY <2>2
  <2>7. (k + 1) * m = k * m + m /\ k * m \in Nat
    BY <1>1, <1>4
  <2> HIDE DEF c, r
  <2> QED  BY <2>4, <2>5, <2>6, <2>7
<1>5. N \in P
  <2> HIDE DEF P
  <2> QED  BY <1>1, <1>3, <1>4, IntervalInduction
<1> QED  BY <1>5

\* A sum of naturals is at least each of them.
LEMMA TotalAtLeast ==
  ASSUME NEW f, NEW S, IsFiniteSet(S), NEW m \in Nat, \A y \in S : f[y] \in 0 .. m,
         NEW x \in S
  PROVE  Total(f, S) >= f[x]
<1>1. \A y \in S : f[y] \in Int
  OBVIOUS
<1>2. Total(f, S) = f[x] + Total(f, S \ {x})
  BY <1>1, TotalSplit
<1>3. IsFiniteSet(S \ {x}) /\ \A y \in S \ {x} : f[y] \in 0 .. m
  BY FS_Subset
<1>4. Total(f, S \ {x}) \in 0 .. Cardinality(S \ {x}) * m
  BY ONLY <1>3, TotalBound, m \in Nat
<1>5. Cardinality(S \ {x}) * m \in Nat
  BY <1>3, FS_CardinalityType
<1> QED  BY <1>1, <1>2, <1>4, <1>5
=============================================================================
