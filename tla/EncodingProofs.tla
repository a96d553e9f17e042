---------------------------- MODULE EncodingProofs ----------------------------
(***************************************************************************)
(* What the encodings come to for all values: the sizes that the           *)
(* serialization functions promise are those of the bytes they write, and  *)
(* deserialization makes of these bytes what was serialized.               *)
(*                                                                         *)
(* Sums, strings of bytes and NULL bitmaps are folds.  Facts about them    *)
(* take an induction over the number of elements, which is stated for sets *)
(* of numbers and for functions, so that no fact has an operator among its *)
(* parameters.                                                             *)
(***************************************************************************)
EXTENDS Messages, Values, SequenceTheorems, FiniteSetTheorems, WellFoundedInduction, TLAPS

\* Induction for sets of numbers
LEMMA SetInduction ==
  ASSUME NEW S, 0 \in S, \A n \in Nat : n \in S => n + 1 \in S
  PROVE  Nat \subseteq S
<1> DEFINE T == Nat \ S
           R == {r \in Nat \X Nat : r[1] < r[2]}
<1>1. SUFFICES ASSUME T # {} PROVE FALSE
  OBVIOUS
<1>2. IsWellFoundedOn(R, Nat)
  BY NatLessThanWellFounded, Zenon DEF OpToRel
<1>3. PICK x \in T : \A y \in T : ~ (<<y, x>> \in R)
  <2> HIDE DEF R
  <2> QED BY <1>1, <1>2, WFMin
<1>4. \A y \in T : ~ (y < x)
  BY <1>3
<1>5. x # 0 /\ x \in Nat
  OBVIOUS
<1>6. x - 1 \in Nat /\ x - 1 < x /\ (x - 1) + 1 = x
  BY <1>5
<1>7. x - 1 \in S
  BY <1>4, <1>6
<1> QED BY <1>6, <1>7

LEMMA Sizes ==
  ASSUME NEW S, IsFiniteSet(S)
  PROVE  \A s \in SUBSET S :
           /\ Cardinality(s) \in Nat /\ Cardinality(s) <= Cardinality(S)
           /\ Cardinality(s) = 0 <=> s = {}
           /\ \A x \in s : Cardinality(s \ {x}) = Cardinality(s) - 1
<1> SUFFICES ASSUME NEW s \in SUBSET S
             PROVE  /\ Cardinality(s) \in Nat /\ Cardinality(s) <= Cardinality(S)
                    /\ Cardinality(s) = 0 <=> s = {}
                    /\ \A x \in s : Cardinality(s \ {x}) = Cardinality(s) - 1
  OBVIOUS
<1>1. IsFiniteSet(s) /\ Cardinality(s) <= Cardinality(S)
  BY FS_Subset
<1>2. Cardinality(s) \in Nat
  BY <1>1, FS_CardinalityType
<1>3. Cardinality(s) = 0 <=> s = {}
  BY <1>1, FS_EmptySet
<1>4. \A x \in s : Cardinality(s \ {x}) = Cardinality(s) - 1
  BY <1>1, FS_RemoveElement
<1> QED BY <1>1, <1>2, <1>3, <1>4

\* What a fold is: c chooses the element that comes last, step says what it
\* makes of the value for the others.
Chooses(c, S) == \A s \in SUBSET S : s # {} => c[s] \in s
Steps(step, S, V) == step \in [S -> [V -> V]]
Folded(f, D, base, c, step) ==
  \A s \in D : f[s] = IF s = {} THEN base ELSE step[c[s]][f[s \ {c[s]}]]
Folds_(f, S, V, base, c, step) ==
  f \in [SUBSET S -> V] /\ Folded(f, SUBSET S, base, c, step)

\* A fold over a finite set exists.
LEMMA FoldExists ==
  ASSUME NEW S, IsFiniteSet(S), NEW V, NEW base \in V, NEW c, Chooses(c, S),
         NEW step, Steps(step, S, V)
  PROVE  \E f : Folds_(f, S, V, base, c, step)
<1> USE DEF Chooses, Steps
<1> DEFINE D(k) == {s \in SUBSET S : Cardinality(s) <= k}
           G == {k \in Nat : \E f \in [D(k) -> V] : Folded(f, D(k), base, c, step)}
<1>0. 0 \in G
  <2>1. D(0) = {{}}
    BY Sizes, FS_EmptySet
  <2> DEFINE f == [s \in D(0) |-> base]
  <2>2. f \in [D(0) -> V]
    OBVIOUS
  <2>3. Folded(f, D(0), base, c, step)
    BY <2>1 DEF Folded
  <2> QED BY <2>2, <2>3
<1>1. ASSUME NEW k \in Nat, k \in G PROVE k + 1 \in G
  <2>1. PICK f \in [D(k) -> V] : Folded(f, D(k), base, c, step)
    BY <1>1
  <2> DEFINE g == [s \in D(k + 1) |-> IF s = {} THEN base ELSE step[c[s]][f[s \ {c[s]}]]]
  <2>2. \A s \in D(k + 1) : s # {} => c[s] \in S /\ s \ {c[s]} \in D(k)
    BY Sizes
  <2>3. D(k) \subseteq D(k + 1)
    BY Sizes
  <2>4. g \in [D(k + 1) -> V]
    <3>1. ASSUME NEW s \in D(k + 1) PROVE (IF s = {} THEN base ELSE step[c[s]][f[s \ {c[s]}]]) \in V
      <4>1. CASE s = {}
        BY <4>1
      <4>2. CASE s # {}
        <5>1. f[s \ {c[s]}] \in V /\ step[c[s]] \in [V -> V]
          BY <4>2, <2>1, <2>2
        <5> QED BY <5>1, <4>2
      <4> QED BY <4>1, <4>2
    <3> QED BY <3>1
  <2>5. \A s \in D(k) : g[s] = f[s]
    BY <2>1, <2>3 DEF Folded
  <2>6. Folded(g, D(k + 1), base, c, step)
    BY <2>2, <2>5 DEF Folded
  <2>7. \E h \in [D(k + 1) -> V] : Folded(h, D(k + 1), base, c, step)
    <3> HIDE DEF g, D
    <3> QED BY <2>4, <2>6
  <2>8. k + 1 \in Nat
    OBVIOUS
  <2> QED
    <3> HIDE DEF D
    <3> QED BY <2>7, <2>8
<1>2. Cardinality(S) \in G
  <2> HIDE DEF G
  <2>1. Nat \subseteq G
    BY <1>0, <1>1, SetInduction
  <2> QED BY <2>1, FS_CardinalityType
<1>3. D(Cardinality(S)) = SUBSET S
  BY Sizes
<1>4. \E f \in [D(Cardinality(S)) -> V] : Folded(f, D(Cardinality(S)), base, c, step)
  BY <1>2
<1> QED 
  <2> HIDE DEF D
  <2> QED BY <1>3, <1>4 DEF Folds_


\* There is only one.
SameSteps(f, g, S, c) ==
  /\ f[{}] = g[{}]
  /\ \A s \in SUBSET S : s # {} /\ f[s \ {c[s]}] = g[s \ {c[s]}] => f[s] = g[s]

LEMMA FoldUnique ==
  ASSUME NEW S, IsFiniteSet(S), NEW c, Chooses(c, S), NEW f, NEW g, SameSteps(f, g, S, c)
  PROVE  f[S] = g[S]
<1> USE DEF SameSteps
<1> DEFINE G == {k \in Nat : \A s \in SUBSET S : Cardinality(s) = k => f[s] = g[s]}
<1>0. 0 \in G
  BY Sizes
<1>1. ASSUME NEW k \in Nat, k \in G PROVE k + 1 \in G
  <2> SUFFICES ASSUME NEW s \in SUBSET S, Cardinality(s) = k + 1 PROVE f[s] = g[s]
    OBVIOUS
  <2>1. s # {}
    BY Sizes
  <2>2. c[s] \in s
    BY <2>1 DEF Chooses
  <2>3. Cardinality(s \ {c[s]}) = k
    BY <2>2, Sizes
  <2>4. f[s \ {c[s]}] = g[s \ {c[s]}]
    BY <1>1, <2>3
  <2> QED BY <2>1, <2>4
<1>2. Cardinality(S) \in G
  <2> HIDE DEF G
  <2>1. Nat \subseteq G
    BY <1>0, <1>1, SetInduction
  <2> QED BY <2>1, FS_CardinalityType
<1> QED BY <1>2

-----------------------------------------------------------------------------
(* From the first element to the last *)

LEMMA MaxOfSet ==
  ASSUME NEW n \in Nat, NEW s \in SUBSET (1..n), s # {}
  PROVE  /\ Max(s) \in s /\ \A x \in s : x <= Max(s)
<1> DEFINE G == {k \in Nat : \A t \in SUBSET (1..k) : t # {} => \E x \in t : \A y \in t : x >= y}
<1>0. 0 \in G
  <2>1. 1..0 = {}
    OBVIOUS
  <2> QED BY <2>1
<1>1. ASSUME NEW k \in Nat, k \in G PROVE k + 1 \in G
  <2> SUFFICES ASSUME NEW t \in SUBSET (1..(k + 1)), t # {} PROVE \E x \in t : \A y \in t : x >= y
    OBVIOUS
  <2>1. CASE k + 1 \in t
    BY <2>1
  <2>2. CASE k + 1 \notin t
    <3>1. t \in SUBSET (1..k)
      BY <2>2
    <3> QED BY <3>1, <1>1
  <2> QED BY <2>1, <2>2
<1>2. n \in G
  <2> HIDE DEF G
  <2> QED BY <1>0, <1>1, SetInduction
<1>3. \E x \in s : \A y \in s : x >= y
  BY <1>2
<1> QED BY <1>3 DEF Max

LEMMA MaxOfInterval ==
  ASSUME NEW n \in Nat, n # 0
  PROVE  Max(1..n) = n /\ (1..n) \ {n} = 1..(n - 1)
<1>1. 1..n # {} /\ n \in 1..n
  OBVIOUS
<1>2. Max(1..n) \in 1..n /\ n <= Max(1..n)
  BY <1>1, MaxOfSet
<1> QED BY <1>2

LEMMA FiniteInterval ==
  ASSUME NEW n \in Nat
  PROVE  IsFiniteSet(1..n)
BY FS_Interval

Greatest(n) == [s \in SUBSET (1..n) |-> Max(s)]

LEMMA GreatestChooses ==
  ASSUME NEW n \in Nat
  PROVE  /\ Chooses(Greatest(n), 1..n)
         /\ \A s \in SUBSET (1..n) : s # {} => Greatest(n)[s] = Max(s) /\ Max(s) \in 1..n
BY MaxOfSet DEF Chooses, Greatest

\* The value of a fold after each element.
LEMMA FoldSteps ==
  ASSUME NEW n \in Nat, NEW V, NEW f, NEW base, NEW step,
         Folds_(f, 1..n, V, base, Greatest(n), step)
  PROVE  /\ f[{}] = base
         /\ \A k \in 0..n : f[1..k] \in V
         /\ \A k \in 1..n : f[1..k] = step[k][f[1..(k - 1)]]
<1>1. f[{}] = base
  BY DEF Folds_, Folded
<1>2. ASSUME NEW k \in 0..n PROVE 1..k \in SUBSET (1..n)
  <2>1. ASSUME NEW x \in 1..k PROVE x \in 1..n
    OBVIOUS
  <2> QED BY <2>1
<1>3. ASSUME NEW k \in 1..n PROVE f[1..k] = step[k][f[1..(k - 1)]]
  <2>1. 1..k \in SUBSET (1..n) /\ 1..k # {}
    BY <1>2
  <2>2. Max(1..k) = k /\ (1..k) \ {k} = 1..(k - 1)
    BY MaxOfInterval
  <2>3. f[1..k] = step[Greatest(n)[1..k]][f[(1..k) \ {Greatest(n)[1..k]}]]
    BY <2>1, Zenon DEF Folds_, Folded
  <2>4. Greatest(n)[1..k] = k
    BY <2>1, <2>2 DEF Greatest
  <2> QED BY <2>2, <2>3, <2>4
<1>4. \A k \in 0..n : f[1..k] \in V
  BY <1>2 DEF Folds_
<1> QED BY <1>1, <1>3, <1>4

\* A sum, element by element.
Sums(f, n, a) ==
  /\ Sum(a) = f[1..n]
  /\ f[{}] = 0
  /\ \A k \in 0..n : f[1..k] \in Int
  /\ \A k \in 1..n : f[1..k] = f[1..(k - 1)] + a[k]

LEMMA SumSteps ==
  ASSUME NEW n \in Nat, NEW a \in [1..n -> Int]
  PROVE  \E f : Sums(f, n, a)
<1> DEFINE step == [k \in 1..n |-> [x \in Int |-> x + a[k]]]
<1>1. PICK f : Folds_(f, 1..n, Int, 0, Greatest(n), step)
  <2>1. Steps(step, 1..n, Int)
    BY DEF Steps
  <2>2. IsFiniteSet(1..n) /\ Chooses(Greatest(n), 1..n) /\ 0 \in Int
    BY GreatestChooses, FiniteInterval
  <2> HIDE DEF step
  <2> QED BY <2>1, <2>2, FoldExists, Zenon
<1>2. \A s \in SUBSET (1..n) : s # {} => f[s] = f[s \ {Max(s)}] + a[Max(s)]
  <2> SUFFICES ASSUME NEW s \in SUBSET (1..n), s # {} PROVE f[s] = f[s \ {Max(s)}] + a[Max(s)]
    OBVIOUS
  <2>1. Greatest(n)[s] = Max(s) /\ Max(s) \in 1..n
    BY GreatestChooses
  <2>2. f[s] = step[Max(s)][f[s \ {Max(s)}]]
    BY <1>1, <2>1, Zenon DEF Folds_, Folded
  <2>3. f[s \ {Max(s)}] \in Int
    BY <1>1 DEF Folds_
  <2> QED BY <2>1, <2>2, <2>3
<1>3. f[{}] = 0 /\ f \in [SUBSET (1..n) -> Int]
  BY <1>1 DEF Folds_, Folded
<1>4. f = [s \in SUBSET (1..n) |-> IF s = {} THEN 0 ELSE f[s \ {Max(s)}] + a[Max(s)]]
  <2> HIDE DEF step
  <2> QED BY <1>2, <1>3
<1> DEFINE it == CHOOSE it : it = [s \in SUBSET (1..n) |-> IF s = {} THEN 0 ELSE it[s \ {Max(s)}] + a[Max(s)]]
<1>5. it = [s \in SUBSET (1..n) |-> IF s = {} THEN 0 ELSE it[s \ {Max(s)}] + a[Max(s)]]
  BY <1>4, Zenon
<1>6. Sum(a) = it[1..n]
  <2>1. DOMAIN a = 1..n
    OBVIOUS
  <2> QED BY <2>1, Zenon DEF Sum, FoldLeft, MapThenFoldSet
<1>7. it[1..n] = f[1..n]
  <2>1. it[{}] = f[{}]
    <3> HIDE DEF it
    <3> QED BY <1>3, <1>5
  <2>2. \A s \in SUBSET (1..n) :
          s # {} /\ it[s \ {Greatest(n)[s]}] = f[s \ {Greatest(n)[s]}] => it[s] = f[s]
    <3> HIDE DEF it
    <3> SUFFICES ASSUME NEW s \in SUBSET (1..n), s # {}, it[s \ {Greatest(n)[s]}] = f[s \ {Greatest(n)[s]}]
                 PROVE  it[s] = f[s]
      OBVIOUS
    <3>1. Greatest(n)[s] = Max(s)
      BY GreatestChooses
    <3>2. it[s] = it[s \ {Max(s)}] + a[Max(s)]
      BY <1>5, Zenon
    <3>3. f[s] = f[s \ {Max(s)}] + a[Max(s)]
      BY <1>2, Zenon
    <3> QED BY <3>1, <3>2, <3>3, Zenon
  <2>3. IsFiniteSet(1..n) /\ Chooses(Greatest(n), 1..n)
    BY GreatestChooses, FiniteInterval
  <2> HIDE DEF it
  <2>4. SameSteps(it, f, 1..n, Greatest(n))
    BY <2>1, <2>2 DEF SameSteps
  <2>5. PICK S, c : S = 1..n /\ c = Greatest(n)
    OBVIOUS
  <2>6. IsFiniteSet(S) /\ Chooses(c, S) /\ SameSteps(it, f, S, c)
    BY <2>3, <2>4, <2>5, Zenon
  <2>7. it[S] = f[S]
    BY <2>6, FoldUnique, Zenon
  <2> QED BY <2>5, <2>7, Zenon
<1>8. \A k \in 1..n : f[1..k] = f[1..(k - 1)] + a[k]
  <2> SUFFICES ASSUME NEW k \in 1..n PROVE f[1..k] = f[1..(k - 1)] + a[k]
    OBVIOUS
  <2>1. f[1..k] = step[k][f[1..(k - 1)]] /\ f[1..(k - 1)] \in Int
    <3> HIDE DEF step
    <3> QED BY <1>1, FoldSteps
  <2> QED BY <2>1
<1>9. \A k \in 0..n : f[1..k] \in Int
  BY <1>1, FoldSteps
<1> QED
  <2> HIDE DEF it
  <2> QED BY <1>3, <1>6, <1>7, <1>8, <1>9 DEF Sums

LEMMA SumValue ==
  ASSUME NEW n \in Nat, NEW a \in [1..n -> Int], NEW g, g[0] = 0,
         \A k \in 1..n : g[k] = g[k - 1] + a[k]
  PROVE  Sum(a) = g[n]
<1>1. PICK f : Sums(f, n, a)
  BY SumSteps
<1> USE DEF Sums
<1> DEFINE G == {k \in Nat : k <= n => f[1..k] = g[k]}
<1>2. 0 \in G
  <2>1. 1..0 = {}
    OBVIOUS
  <2> QED BY <2>1, <1>1
<1>3. ASSUME NEW k \in Nat, k \in G PROVE k + 1 \in G
  <2> SUFFICES ASSUME k + 1 <= n PROVE f[1..(k + 1)] = g[k + 1]
    OBVIOUS
  <2>1. k + 1 \in 1..n /\ (k + 1) - 1 = k
    OBVIOUS
  <2>2. f[1..(k + 1)] = f[1..k] + a[k + 1] /\ g[k + 1] = g[k] + a[k + 1]
    BY <1>1, <2>1
  <2>3. f[1..k] = g[k]
    BY <1>3, <2>1
  <2> QED BY <2>2, <2>3
<1>4. n \in G
  <2> HIDE DEF G
  <2> QED BY <1>2, <1>3, SetInduction
<1> QED BY <1>1, <1>4

\* The sum of the first k numbers.
SumTo(a, k) == Sum([i \in 1..k |-> a[i]])

LEMMA SumPrefix ==
  ASSUME NEW n \in Nat, NEW a \in [1..n -> Int]
  PROVE  /\ SumTo(a, 0) = 0
         /\ SumTo(a, n) = Sum(a)
         /\ \A k \in 0..n : SumTo(a, k) \in Int
         /\ \A k \in 1..n : SumTo(a, k) = SumTo(a, k - 1) + a[k]
<1>1. PICK f : Sums(f, n, a)
  BY SumSteps
<1> USE DEF Sums
<1>2. ASSUME NEW k \in 0..n PROVE SumTo(a, k) = f[1..k]
  <2> DEFINE b == [i \in 1..k |-> a[i]]
             g == [i \in 0..k |-> f[1..i]]
  <2>1. b \in [1..k -> Int] /\ k \in Nat
    OBVIOUS
  <2>2. 1..0 = {}
    OBVIOUS
  <2>3. g[0] = 0
    BY <1>1, <2>2
  <2>4. ASSUME NEW i \in 1..k PROVE g[i] = g[i - 1] + b[i]
    <3>1. i \in 1..n /\ i \in 0..k /\ i - 1 \in 0..k
      OBVIOUS
    <3> QED BY <1>1, <3>1
  <2>5. Sum(b) = g[k]
    <3> HIDE DEF b, g
    <3> QED BY <2>1, <2>3, <2>4, SumValue
  <2> QED BY <2>5 DEF SumTo
<1>3. [i \in 1..n |-> a[i]] = a
  OBVIOUS
<1>4. SumTo(a, n) = Sum(a)
  BY <1>3 DEF SumTo
<1>5. 1..0 = {}
  OBVIOUS
<1>6. ASSUME NEW k \in 1..n PROVE SumTo(a, k) = SumTo(a, k - 1) + a[k]
  <2>1. k \in 0..n /\ k - 1 \in 0..n
    OBVIOUS
  <2> QED BY <1>1, <1>2, <2>1
<1>7. SumTo(a, 0) = 0
  BY <1>1, <1>2, <1>5
<1>8. \A k \in 0..n : SumTo(a, k) \in Int
  BY <1>1, <1>2
<1> QED BY <1>4, <1>6, <1>7, <1>8

\* Sums of sizes only grow.
LEMMA SumGrows ==
  ASSUME NEW n \in Nat, NEW a \in [1..n -> Nat]
  PROVE  \A j, k \in 0..n : j <= k => SumTo(a, j) \in Nat /\ SumTo(a, j) <= SumTo(a, k)
<1>1. a \in [1..n -> Int]
  OBVIOUS
<1>2. /\ SumTo(a, 0) = 0
      /\ \A k \in 0..n : SumTo(a, k) \in Int
      /\ \A k \in 1..n : SumTo(a, k) = SumTo(a, k - 1) + a[k]
  BY <1>1, SumPrefix
<1> DEFINE G == {k \in Nat : k <= n => \A j \in 0..k : 0 <= SumTo(a, j) /\ SumTo(a, j) <= SumTo(a, k)}
<1>3. 0 \in G
  BY <1>2
<1>4. ASSUME NEW k \in Nat, k \in G PROVE k + 1 \in G
  <2> SUFFICES ASSUME k + 1 <= n, NEW j \in 0..(k + 1)
               PROVE 0 <= SumTo(a, j) /\ SumTo(a, j) <= SumTo(a, k + 1)
    OBVIOUS
  <2>1. k + 1 \in 1..n /\ (k + 1) - 1 = k /\ k \in 0..n /\ k + 1 \in 0..n
    OBVIOUS
  <2>2. SumTo(a, k + 1) = SumTo(a, k) + a[k + 1] /\ a[k + 1] \in Nat /\ SumTo(a, k) \in Int
    BY <1>2, <2>1
  <2>3. 0 <= SumTo(a, k) /\ SumTo(a, k) <= SumTo(a, k + 1)
    BY <1>4, <2>1, <2>2
  <2>4. CASE j = k + 1
    BY <2>2, <2>3, <2>4
  <2>5. CASE j # k + 1
    <3>1. j \in 0..k
      BY <2>5
    <3>2. 0 <= SumTo(a, j) /\ SumTo(a, j) <= SumTo(a, k) /\ SumTo(a, j) \in Int
      BY <1>2, <1>4, <2>1, <3>1
    <3> QED BY <2>2, <2>3, <3>2
  <2> QED BY <2>4, <2>5
<1>5. Nat \subseteq G
  <2> HIDE DEF G
  <2> QED BY <1>3, <1>4, SetInduction
<1> QED BY <1>2, <1>5

-----------------------------------------------------------------------------
(* Strings of bytes *)

LEMMA Concatenation ==
  ASSUME NEW T
  PROVE  \A s, t \in Seq(T) : s \o t \in Seq(T) /\ Len(s \o t) = Len(s) + Len(t)
OBVIOUS

LEMMA JoinedParts ==
  ASSUME NEW T, NEW s \in Seq(T), NEW t \in Seq(T)
  PROVE  SubSeq(s \o t, 1, Len(s)) = s /\ SubSeq(s \o t, Len(s) + 1, Len(s \o t)) = t
<1>1. s \o t \in Seq(T) /\ Len(s \o t) = Len(s) + Len(t)
  BY Concatenation
<1>2. ASSUME NEW i \in 1..(Len(s) + Len(t))
      PROVE (s \o t)[i] = IF i <= Len(s) THEN s[i] ELSE t[i - Len(s)]
  BY ConcatProperties
<1>3. SubSeq(s \o t, 1, Len(s)) = [i \in 1..Len(s) |-> s[i]]
  BY <1>1, <1>2
<1>4. SubSeq(s \o t, Len(s) + 1, Len(s \o t)) = [i \in 1..Len(t) |-> t[i]]
  BY <1>1, <1>2
<1> QED BY <1>3, <1>4

\* What FlattenSeq returns, string after string.
Joins(p, n, T, seqs) ==
  /\ p \in [0..n -> Seq(T)]
  /\ p[0] = <<>> /\ p[n] = FlattenSeq(seqs)
  /\ \A k \in 1..n : p[k] = p[k - 1] \o seqs[k]

LEMMA FlattenSteps ==
  ASSUME NEW n \in Nat, NEW T, NEW seqs \in [1..n -> Seq(T)]
  PROVE  \E p : Joins(p, n, T, seqs)
<1> DEFINE step == [k \in 1..n |-> [x \in Seq(T) |-> x \o seqs[k]]]
<1>1. PICK f : Folds_(f, 1..n, Seq(T), <<>>, Greatest(n), step)
  <2>1. Steps(step, 1..n, Seq(T))
    BY DEF Steps
  <2>2. IsFiniteSet(1..n) /\ Chooses(Greatest(n), 1..n) /\ <<>> \in Seq(T)
    BY GreatestChooses, FiniteInterval
  <2> HIDE DEF step
  <2> QED BY <2>1, <2>2, FoldExists, Zenon
<1>2. /\ f[{}] = <<>>
      /\ \A k \in 0..n : f[1..k] \in Seq(T)
      /\ \A k \in 1..n : f[1..k] = step[k][f[1..(k - 1)]]
  <2> HIDE DEF step
  <2> QED BY <1>1, FoldSteps
<1>3. ASSUME NEW k \in 1..n PROVE f[1..k] = f[1..(k - 1)] \o seqs[k]
  <2>1. f[1..(k - 1)] \in Seq(T) /\ f[1..k] = step[k][f[1..(k - 1)]]
    <3>1. k - 1 \in 0..n
      OBVIOUS
    <3> HIDE DEF step
    <3> QED BY <1>2, <3>1
  <2> QED BY <2>1
<1> HIDE DEF step
<1>4. Len(seqs) = n
  OBVIOUS
<1> DEFINE p == [k \in 0..n |-> f[1..k]]
<1>5. p \in [0..n -> Seq(T)] /\ p[0] = <<>>
  <2>1. 1..0 = {} /\ 0 \in 0..n
    OBVIOUS
  <2> QED BY <1>2, <2>1
<1>6. \A k \in 1..n : p[k] = p[k - 1] \o seqs[k]
  <2> SUFFICES ASSUME NEW k \in 1..n PROVE p[k] = p[k - 1] \o seqs[k]
    OBVIOUS
  <2>1. k \in 0..n /\ k - 1 \in 0..n
    OBVIOUS
  <2> QED BY <1>3, <2>1, Zenon
<1> HIDE DEF p
<1> DEFINE h == [i \in 1..n |-> p[i]]
<1>7. h = [i \in 1..n |-> IF i = 1 THEN seqs[i] ELSE h[i - 1] \o seqs[i]]
  <2> SUFFICES ASSUME NEW i \in 1..n
               PROVE h[i] = IF i = 1 THEN seqs[i] ELSE h[i - 1] \o seqs[i]
    OBVIOUS
  <2>1. CASE i = 1
    <3>1. p[1] = p[0] \o seqs[1] /\ seqs[1] \in Seq(T)
      BY <1>6, <2>1
    <3>2. p[1] = seqs[1]
      BY <1>5, <3>1
    <3> QED BY <2>1, <3>2
  <2>2. CASE i # 1
    <3>1. i - 1 \in 1..n
      BY <2>2
    <3>2. h[i - 1] = p[i - 1] /\ h[i] = p[i]
      BY <3>1
    <3>3. p[i] = p[i - 1] \o seqs[i]
      BY <1>6, Zenon
    <3> HIDE DEF h
    <3> QED BY <2>2, <3>2, <3>3, Zenon
  <2> QED BY <2>1, <2>2
<1> DEFINE flatten == CHOOSE fl : fl = [i \in 1..n |-> IF i = 1 THEN seqs[i] ELSE fl[i - 1] \o seqs[i]]
<1>8. flatten = [i \in 1..n |-> IF i = 1 THEN seqs[i] ELSE flatten[i - 1] \o seqs[i]]
  <2> HIDE DEF h
  <2> QED BY <1>7, Zenon
<1>9. \A k \in 1..n : flatten[k] = p[k]
  <2> HIDE DEF flatten
  <2> DEFINE G == {k \in Nat : k + 1 <= n => flatten[k + 1] = p[k + 1]}
  <2>1. 0 \in G
    <3> SUFFICES ASSUME 1 <= n PROVE flatten[1] = p[1]
      OBVIOUS
    <3>1. 1 \in 1..n /\ 1 - 1 = 0
      OBVIOUS
    <3>2. flatten[1] = seqs[1] /\ seqs[1] \in Seq(T)
      BY <3>1, <1>8
    <3>3. p[1] = p[0] \o seqs[1]
      BY <1>6, <3>1
    <3> QED BY <1>5, <3>2, <3>3
  <2>2. ASSUME NEW k \in Nat, k \in G PROVE k + 1 \in G
    <3> SUFFICES ASSUME k + 1 + 1 <= n PROVE flatten[k + 1 + 1] = p[k + 1 + 1]
      OBVIOUS
    <3>1. k + 1 + 1 \in 1..n /\ k + 1 + 1 # 1 /\ (k + 1 + 1) - 1 = k + 1
      OBVIOUS
    <3>2. flatten[k + 1 + 1] = flatten[k + 1] \o seqs[k + 1 + 1]
      BY <3>1, <1>8
    <3>3. p[k + 1 + 1] = p[k + 1] \o seqs[k + 1 + 1]
      BY <1>6, <3>1
    <3>4. flatten[k + 1] = p[k + 1]
      BY <2>2, <3>1
    <3> QED BY <3>2, <3>3, <3>4
  <2>3. Nat \subseteq G
    <3> HIDE DEF G
    <3> QED BY <2>1, <2>2, SetInduction
  <2> SUFFICES ASSUME NEW k \in 1..n PROVE flatten[k] = p[k]
    OBVIOUS
  <2>4. k - 1 \in Nat /\ (k - 1) + 1 = k /\ k <= n
    OBVIOUS
  <2> QED BY <2>3, <2>4
<1>10. FlattenSeq(seqs) = p[n]
  <2>1. CASE n = 0
    <3>1. FlattenSeq(seqs) = seqs
      BY <1>4, <2>1, Zenon DEF FlattenSeq
    <3>2. seqs = <<>>
      BY <2>1
    <3> QED BY <1>5, <2>1, <3>1, <3>2
  <2>2. CASE n # 0
    <3>1. FlattenSeq(seqs) = flatten[n]
      BY <1>4, <2>2, Zenon DEF FlattenSeq
    <3>2. n \in 1..n
      BY <2>2
    <3> HIDE DEF flatten
    <3> QED BY <1>9, <3>1, <3>2
  <2> QED BY <2>1, <2>2
<1>11. Joins(p, n, T, seqs)
  <2> HIDE DEF flatten
  <2> QED BY <1>5, <1>6, <1>10, Zenon DEF Joins
<1> QED BY <1>11

\* It has the bytes of all the strings.
LEMMA FlattenSize ==
  ASSUME NEW n \in Nat, NEW T, NEW seqs \in [1..n -> Seq(T)]
  PROVE  /\ FlattenSeq(seqs) \in Seq(T)
         /\ Len(FlattenSeq(seqs)) = Sum([i \in 1..n |-> Len(seqs[i])])
<1> DEFINE a == [i \in 1..n |-> Len(seqs[i])]
<1>1. PICK p : Joins(p, n, T, seqs)
  BY FlattenSteps
<1>2. a \in [1..n -> Int]
  OBVIOUS
<1>3. ASSUME NEW k \in 1..n PROVE Len(p[k]) = Len(p[k - 1]) + a[k]
  <2>1. k - 1 \in 0..n
    OBVIOUS
  <2>2. p[k - 1] \in Seq(T) /\ seqs[k] \in Seq(T) /\ p[k] = p[k - 1] \o seqs[k]
    BY <1>1, <2>1 DEF Joins
  <2> QED BY <2>2
<1> DEFINE sizes == [k \in 0..n |-> Len(p[k])]
<1>4. sizes[0] = 0 /\ sizes[n] = Len(p[n])
  BY <1>1 DEF Joins
<1>5. \A k \in 1..n : sizes[k] = sizes[k - 1] + a[k]
  <2> SUFFICES ASSUME NEW k \in 1..n PROVE sizes[k] = sizes[k - 1] + a[k]
    OBVIOUS
  <2>1. k \in 0..n /\ k - 1 \in 0..n
    OBVIOUS
  <2>2. sizes[k] = Len(p[k]) /\ sizes[k - 1] = Len(p[k - 1])
    BY <2>1
  <2> HIDE DEF sizes, a
  <2> QED BY <1>3, <2>2
<1>6. Sum(a) = sizes[n]
  <2> HIDE DEF sizes, a
  <2> QED BY <1>2, <1>4, <1>5, SumValue
<1>7. n \in 0..n
  OBVIOUS
<1>8. p[n] \in Seq(T) /\ p[n] = FlattenSeq(seqs)
  BY <1>1, <1>7 DEF Joins
<1>9. Len(FlattenSeq(seqs)) = Sum(a)
  <2> HIDE DEF sizes, a
  <2> QED BY <1>4, <1>6, <1>8
<1> QED BY <1>8, <1>9

\* After the first strings come the others.
Rests(r, n, T, seqs) ==
  /\ r \in [0..n -> Seq(T)] /\ r[0] = FlattenSeq(seqs) /\ r[n] = <<>>
  /\ \A k \in 1..n : r[k - 1] = seqs[k] \o r[k]

LEMMA FlattenRest ==
  ASSUME NEW n \in Nat, NEW T, NEW seqs \in [1..n -> Seq(T)]
  PROVE  \E r : Rests(r, n, T, seqs)
<1>1. PICK p : Joins(p, n, T, seqs)
  BY FlattenSteps
<1> DEFINE r == [k \in 0..n |-> SubSeq(p[n], Len(p[k]) + 1, Len(p[n]))]
<1>2. /\ p \in [0..n -> Seq(T)] /\ p[0] = <<>> /\ p[n] = FlattenSeq(seqs)
      /\ \A k \in 1..n : p[k] = p[k - 1] \o seqs[k]
  BY <1>1, Zenon DEF Joins
<1>3. n \in 0..n /\ 0 \in 0..n
  OBVIOUS
<1>4. p[n] \in Seq(T)
  BY <1>2, <1>3
<1>5. \A k \in 0..n : r[k] = SubSeq(p[n], Len(p[k]) + 1, Len(p[n]))
  OBVIOUS
<1>6. r \in [0..n -> Seq(T)]
  <2>1. ASSUME NEW k \in 0..n PROVE SubSeq(p[n], Len(p[k]) + 1, Len(p[n])) \in Seq(T)
    <3>1. p[k] \in Seq(T) /\ Len(p[k]) + 1 \in 1..(Len(p[k]) + 1)
      BY <1>2
    <3> QED BY <1>4, <3>1
  <2> QED BY <2>1
<1> HIDE DEF r
<1>7. r[0] = FlattenSeq(seqs)
  <2>1. r[0] = SubSeq(p[n], Len(<<>>) + 1, Len(p[n]))
    BY <1>2, <1>3, <1>5, Zenon
  <2> QED BY <1>2, <1>4, <2>1
<1>8. r[n] = <<>>
  <2>1. r[n] = SubSeq(p[n], Len(p[n]) + 1, Len(p[n]))
    BY <1>3, <1>5, Zenon
  <2> QED BY <1>4, <2>1
<1>10. ASSUME NEW k \in 1..n, p[n] = p[k] \o r[k]
       PROVE  p[n] = p[k - 1] \o r[k - 1] /\ r[k - 1] = seqs[k] \o r[k]
  <2>1. k - 1 \in 0..n /\ k \in 0..n
    OBVIOUS
  <2>2. p[k] = p[k - 1] \o seqs[k] /\ p[k - 1] \in Seq(T) /\ seqs[k] \in Seq(T) /\ r[k] \in Seq(T)
    BY <1>2, <1>6, <2>1
  <2>3. PICK s, t, u : s = p[k - 1] /\ t = seqs[k] /\ u = r[k]
    OBVIOUS
  <2>4. s \in Seq(T) /\ t \in Seq(T) /\ u \in Seq(T) /\ p[k] = s \o t
    BY <2>2, <2>3, Zenon
  <2>5. p[n] = (s \o t) \o u
    BY <1>10, <2>3, <2>4, Zenon
  <2>6. p[n] = s \o (t \o u) /\ t \o u \in Seq(T)
    <3>1. (s \o t) \o u = s \o (t \o u)
      <4> s \in Seq(T) /\ t \in Seq(T) /\ u \in Seq(T)
        BY <2>4, Zenon
      <4> QED BY ConcatAssociative
    <3>2. t \o u \in Seq(T)
      BY <2>4, Concatenation, Zenon
    <3> QED BY <2>5, <3>1, <3>2, Zenon
  <2>7. r[k - 1] = SubSeq(p[n], Len(s) + 1, Len(p[n]))
    BY <1>5, <2>1, <2>3, Zenon
  <2>8. r[k - 1] = t \o u
    <3>1. SubSeq(s \o (t \o u), Len(s) + 1, Len(s \o (t \o u))) = t \o u
      BY <2>4, <2>6, JoinedParts, Zenon
    <3> QED BY <2>6, <2>7, <3>1, Zenon
  <2> QED BY <2>3, <2>6, <2>8, Zenon
<1> DEFINE Split(k) == p[n] = p[k] \o r[k]
           G == {m \in Nat : m <= n => Split(n - m)}
<1>11. Split(n)
  BY <1>4, <1>8
<1>12. \A k \in 1..n : Split(k) => Split(k - 1) /\ r[k - 1] = seqs[k] \o r[k]
  BY <1>10, Zenon
<1> HIDE DEF Split
<1>13. Nat \subseteq G
  <2>1. 0 \in G
    BY <1>11
  <2>2. ASSUME NEW m \in Nat, m \in G PROVE m + 1 \in G
    <3> SUFFICES ASSUME m + 1 <= n PROVE Split(n - (m + 1))
      OBVIOUS
    <3>1. n - m \in 1..n /\ n - (m + 1) = (n - m) - 1 /\ m <= n
      OBVIOUS
    <3> QED BY <1>12, <2>2, <3>1
  <2> HIDE DEF G
  <2> QED BY <2>1, <2>2, SetInduction
<1>14. ASSUME NEW k \in 1..n PROVE r[k - 1] = seqs[k] \o r[k]
  <2>1. n - k \in Nat /\ n - k <= n /\ n - (n - k) = k
    OBVIOUS
  <2>2. Split(k)
    BY <1>13, <2>1
  <2> QED BY <1>12, <2>2, Zenon
<1>15. Rests(r, n, T, seqs)
  <2> HIDE DEF G
  <2> QED BY <1>6, <1>7, <1>8, <1>14, Zenon DEF Rests
<1> QED BY <1>15

\* Sequences of any elements.
IsSeq(s) == \E T : s \in Seq(T)

LEMMA Joined ==
  ASSUME NEW s, NEW t, IsSeq(s), IsSeq(t)
  PROVE  IsSeq(s \o t) /\ Len(s \o t) = Len(s) + Len(t) /\ Len(s) \in Nat /\ Len(t) \in Nat
<1>1. PICK A : s \in Seq(A)
  BY DEF IsSeq
<1>2. PICK B : t \in Seq(B)
  BY DEF IsSeq
<1>3. s \in Seq(A \cup B) /\ t \in Seq(A \cup B)
  BY <1>1, <1>2
<1>4. s \o t \in Seq(A \cup B) /\ Len(s \o t) = Len(s) + Len(t) /\ Len(s) \in Nat /\ Len(t) \in Nat
  BY <1>3
<1> QED BY <1>4 DEF IsSeq

LEMMA Short ==
  /\ IsSeq(<<>>) /\ Len(<<>>) = 0
  /\ \A a : IsSeq(<<a>>) /\ Len(<<a>>) = 1
  /\ \A a, b : IsSeq(<<a, b>>) /\ Len(<<a, b>>) = 2
  /\ \A a, b, c : IsSeq(<<a, b, c>>) /\ Len(<<a, b, c>>) = 3
<1>1. \A a : <<a>> \in Seq({a})
  OBVIOUS
<1>2. \A a, b : <<a, b>> \in Seq({a, b})
  OBVIOUS
<1>3. \A a, b, c : <<a, b, c>> \in Seq({a, b, c})
  OBVIOUS
<1>4. <<>> \in Seq({})
  OBVIOUS
<1> QED BY <1>1, <1>2, <1>3, <1>4 DEF IsSeq

\* A function on 1..n is a sequence of n elements.
LEMMA Listed ==
  ASSUME NEW n \in Nat, NEW f, f = [i \in 1..n |-> f[i]]
  PROVE  IsSeq(f) /\ Len(f) = n
<1>1. f \in [1..n -> {f[i] : i \in 1..n}]
  OBVIOUS
<1>2. f \in Seq({f[i] : i \in 1..n}) /\ Len(f) = n
  BY <1>1
<1> QED BY <1>2 DEF IsSeq

LEMMA FlattenedSize ==
  ASSUME NEW n \in Nat, NEW seqs, seqs = [i \in 1..n |-> seqs[i]],
         \A i \in 1..n : IsSeq(seqs[i])
  PROVE  /\ IsSeq(FlattenSeq(seqs))
         /\ Len(FlattenSeq(seqs)) = Sum([i \in 1..n |-> Len(seqs[i])])
<1> DEFINE T == UNION {{seqs[i][j] : j \in DOMAIN seqs[i]} : i \in 1..n}
<1>1. ASSUME NEW i \in 1..n PROVE seqs[i] \in Seq(T)
  <2>1. PICK A : seqs[i] \in Seq(A)
    BY DEF IsSeq
  <2>2. \A j \in DOMAIN seqs[i] : seqs[i][j] \in T
    OBVIOUS
  <2> HIDE DEF T
  <2> QED BY <2>1, <2>2
<1>2. seqs \in [1..n -> Seq(T)]
  <2> HIDE DEF T
  <2> QED BY <1>1
<1> HIDE DEF T
<1> QED BY <1>2, FlattenSize DEF IsSeq

-----------------------------------------------------------------------------
(* From the last element to the first: the numbers in a string of bytes *)

LEMMA MinOfSet ==
  ASSUME NEW n \in Nat, NEW s \in SUBSET (1..n), s # {}
  PROVE  /\ Min(s) \in s /\ \A x \in s : Min(s) <= x
<1> DEFINE G == {k \in Nat : (\E x \in s : x <= k) => \E x \in s : \A y \in s : x <= y}
<1>0. 0 \in G
  OBVIOUS
<1>1. ASSUME NEW k \in Nat, k \in G PROVE k + 1 \in G
  <2> SUFFICES ASSUME NEW x \in s, x <= k + 1 PROVE \E z \in s : \A y \in s : z <= y
    OBVIOUS
  <2>1. CASE \E y \in s : y <= k
    BY <1>1, <2>1
  <2>2. CASE \A y \in s : ~ (y <= k)
    <3>1. \A y \in s : x <= y
      BY <2>2
    <3> QED BY <3>1
  <2> QED BY <2>1, <2>2
<1>2. n \in G
  <2> HIDE DEF G
  <2> QED BY <1>0, <1>1, SetInduction
<1>3. \E x \in s : x <= n
  <2>1. PICK x : x \in s
    OBVIOUS
  <2>2. x \in 1..n
    BY <2>1
  <2> QED BY <2>1, <2>2
<1>4. \E x \in s : \A y \in s : x <= y
  BY <1>2, <1>3
<1> QED BY <1>4 DEF Min

LEMMA MinOfInterval ==
  ASSUME NEW n \in Nat, NEW k \in 1..n
  PROVE  /\ k..n \in SUBSET (1..n) /\ k..n # {}
         /\ Min(k..n) = k /\ (k..n) \ {k} = (k + 1)..n
<1>1. k..n # {} /\ k \in k..n /\ \A x \in k..n : x \in 1..n
  OBVIOUS
<1>2. Min(k..n) \in k..n /\ Min(k..n) <= k
  BY <1>1, MinOfSet
<1> QED BY <1>1, <1>2

Least(n) == [s \in SUBSET (1..n) |-> Min(s)]

LEMMA LeastChooses ==
  ASSUME NEW n \in Nat
  PROVE  /\ Chooses(Least(n), 1..n)
         /\ \A s \in SUBSET (1..n) : s # {} => Least(n)[s] = Min(s) /\ Min(s) \in 1..n
BY MinOfSet DEF Chooses, Least

\* A number and its bytes, from byte to byte.
Numbers(f, n, bytes) ==
  /\ Unsigned(bytes) = f[1..n]
  /\ f[{}] = 0
  /\ \A k \in 1..(n + 1) : f[k..n] \in Nat
  /\ \A k \in 1..n : f[k..n] = f[(k + 1)..n] * 256 + bytes[k]

LEMMA UnsignedSteps ==
  ASSUME NEW n \in Nat, NEW bytes \in [1..n -> Nat]
  PROVE  \E f : Numbers(f, n, bytes)
<1> DEFINE step == [k \in 1..n |-> [x \in Nat |-> x * 256 + bytes[k]]]
<1>1. PICK f : Folds_(f, 1..n, Nat, 0, Least(n), step)
  <2>1. Steps(step, 1..n, Nat)
    BY DEF Steps
  <2>2. IsFiniteSet(1..n) /\ Chooses(Least(n), 1..n) /\ 0 \in Nat
    BY LeastChooses, FiniteInterval
  <2> HIDE DEF step
  <2> QED BY <2>1, <2>2, FoldExists, Zenon
<1>2. \A s \in SUBSET (1..n) : s # {} => f[s] = f[s \ {Min(s)}] * 256 + bytes[Min(s)]
  <2> SUFFICES ASSUME NEW s \in SUBSET (1..n), s # {} PROVE f[s] = f[s \ {Min(s)}] * 256 + bytes[Min(s)]
    OBVIOUS
  <2>1. Least(n)[s] = Min(s) /\ Min(s) \in 1..n
    BY LeastChooses
  <2>2. f[s] = step[Min(s)][f[s \ {Min(s)}]]
    <3> HIDE DEF step
    <3> QED BY <1>1, <2>1, Zenon DEF Folds_, Folded
  <2>3. f[s \ {Min(s)}] \in Nat
    BY <1>1 DEF Folds_
  <2> QED BY <2>1, <2>2, <2>3
<1>3. f[{}] = 0 /\ f \in [SUBSET (1..n) -> Nat]
  BY <1>1 DEF Folds_, Folded
<1>4. f = [s \in SUBSET (1..n) |-> IF s = {} THEN 0 ELSE f[s \ {Min(s)}] * 256 + bytes[Min(s)]]
  <2> HIDE DEF step
  <2> QED BY <1>2, <1>3
<1> DEFINE it == CHOOSE it : it = [s \in SUBSET (1..n) |->
                                     IF s = {} THEN 0 ELSE it[s \ {Min(s)}] * 256 + bytes[Min(s)]]
<1>5. it = [s \in SUBSET (1..n) |-> IF s = {} THEN 0 ELSE it[s \ {Min(s)}] * 256 + bytes[Min(s)]]
  <2>1. \E h : h = [s \in SUBSET (1..n) |-> IF s = {} THEN 0 ELSE h[s \ {Min(s)}] * 256 + bytes[Min(s)]]
    BY <1>4, Zenon
  <2> QED BY <2>1, Zenon
<1>6. Unsigned(bytes) = it[1..n]
  <2>1. DOMAIN bytes = 1..n
    OBVIOUS
  <2> QED BY <2>1, Zenon DEF Unsigned, FoldRight, MapThenFoldSet
<1>7. it[1..n] = f[1..n]
  <2>1. it[{}] = f[{}]
    <3> HIDE DEF it
    <3> QED BY <1>3, <1>5
  <2>2. \A s \in SUBSET (1..n) :
          s # {} /\ it[s \ {Least(n)[s]}] = f[s \ {Least(n)[s]}] => it[s] = f[s]
    <3> HIDE DEF it
    <3> SUFFICES ASSUME NEW s \in SUBSET (1..n), s # {}, it[s \ {Least(n)[s]}] = f[s \ {Least(n)[s]}]
                 PROVE  it[s] = f[s]
      OBVIOUS
    <3>1. Least(n)[s] = Min(s)
      BY LeastChooses
    <3>2. it[s] = it[s \ {Min(s)}] * 256 + bytes[Min(s)]
      BY <1>5, Zenon
    <3>3. f[s] = f[s \ {Min(s)}] * 256 + bytes[Min(s)]
      BY <1>2, Zenon
    <3> QED BY <3>1, <3>2, <3>3, Zenon
  <2>3. IsFiniteSet(1..n) /\ Chooses(Least(n), 1..n)
    BY LeastChooses, FiniteInterval
  <2> HIDE DEF it
  <2>4. SameSteps(it, f, 1..n, Least(n))
    BY <2>1, <2>2 DEF SameSteps
  <2>5. PICK S, c : S = 1..n /\ c = Least(n)
    OBVIOUS
  <2>6. IsFiniteSet(S) /\ Chooses(c, S) /\ SameSteps(it, f, S, c)
    BY <2>3, <2>4, <2>5, Zenon
  <2>7. it[S] = f[S]
    BY <2>6, FoldUnique, Zenon
  <2> QED BY <2>5, <2>7, Zenon
<1>8. ASSUME NEW k \in 1..n PROVE f[k..n] = f[(k + 1)..n] * 256 + bytes[k]
  <2>1. k..n \in SUBSET (1..n) /\ k..n # {} /\ Min(k..n) = k /\ (k..n) \ {k} = (k + 1)..n
    BY MinOfInterval
  <2>2. f[k..n] = f[(k..n) \ {Min(k..n)}] * 256 + bytes[Min(k..n)]
    BY <1>2, <2>1, Zenon
  <2> QED BY <2>1, <2>2
<1>9. ASSUME NEW k \in 1..(n + 1) PROVE f[k..n] \in Nat
  <2>1. \A x \in k..n : x \in 1..n
    OBVIOUS
  <2> QED BY <1>3, <2>1
<1>10. Unsigned(bytes) = f[1..n]
  <2> HIDE DEF it, step
  <2> QED BY <1>6, <1>7, Zenon
<1>11. Numbers(f, n, bytes)
  <2> HIDE DEF it, step
  <2> QED BY <1>3, <1>8, <1>9, <1>10, Zenon DEF Numbers
<1> QED BY <1>11

\* A number is found once what is above each byte is known.
Above(g, n, bytes) == g[n] = 0 /\ \A k \in 1..n : g[k - 1] = g[k] * 256 + bytes[k]

LEMMA UnsignedValue ==
  ASSUME NEW n \in Nat, NEW bytes \in [1..n -> Nat], NEW g, Above(g, n, bytes)
  PROVE  Unsigned(bytes) = g[0]
<1> USE DEF Above
<1>1. PICK f : Numbers(f, n, bytes)
  BY UnsignedSteps
<1> USE DEF Numbers
<1> DEFINE G == {k \in Nat : k <= n => f[(n - k + 1)..n] = g[n - k]}
<1>2. 0 \in G
  <2>1. (n - 0 + 1)..n = {} /\ n - 0 = n
    OBVIOUS
  <2> QED BY <2>1, <1>1
<1>3. ASSUME NEW k \in Nat, k \in G PROVE k + 1 \in G
  <2> SUFFICES ASSUME k + 1 <= n PROVE f[(n - (k + 1) + 1)..n] = g[n - (k + 1)]
    OBVIOUS
  <2>1. n - k \in 1..n /\ n - (k + 1) + 1 = n - k /\ n - (k + 1) = (n - k) - 1
    OBVIOUS
  <2>2. f[(n - k)..n] = f[((n - k) + 1)..n] * 256 + bytes[n - k]
    BY <1>1, <2>1
  <2>3. g[(n - k) - 1] = g[n - k] * 256 + bytes[n - k]
    BY <2>1
  <2>4. f[((n - k) + 1)..n] = g[n - k]
    BY <1>3, <2>1
  <2> QED BY <2>1, <2>2, <2>3, <2>4
<1>4. n \in G
  <2> HIDE DEF G
  <2> QED BY <1>2, <1>3, SetInduction
<1>5. n - n + 1 = 1 /\ n - n = 0
  OBVIOUS
<1> QED BY <1>1, <1>4, <1>5

LEMMA UnsignedIsNat ==
  ASSUME NEW n \in Nat, NEW bytes \in [1..n -> Nat]
  PROVE  Unsigned(bytes) \in Nat
<1>1. PICK f : Numbers(f, n, bytes)
  BY UnsignedSteps
<1> QED BY <1>1 DEF Numbers

\* The bytes of a number, least significant first, with what is left of it after
\* each of them.
Shifts(g, n, width) ==
  /\ g \in [0..width -> Nat] /\ g[0] = n
  /\ \A k \in 1..width : g[k] = g[k - 1] \div 256

LEMMA ShiftedBytes ==
  ASSUME NEW n \in Nat, NEW width \in Nat
  PROVE  \E g : Shifts(g, n, width) /\ LittleEndian(n, width) = [i \in 1..width |-> g[i - 1] % 256]
<1> DEFINE G == {k \in Nat : \E g : Shifts(g, n, k)}
<1>1. 0 \in G
  <2> DEFINE g == [i \in 0..0 |-> n]
  <2>1. Shifts(g, n, 0)
    BY DEF Shifts
  <2> QED BY <2>1
<1>2. ASSUME NEW k \in Nat, k \in G PROVE k + 1 \in G
  <2>1. PICK g : Shifts(g, n, k)
    BY <1>2
  <2> DEFINE h == [i \in 0..(k + 1) |-> IF i = k + 1 THEN g[k] \div 256 ELSE g[i]]
  <2>2. g[k] \in Nat /\ g[k] \div 256 \in Nat
    BY <2>1 DEF Shifts
  <2>3. h \in [0..(k + 1) -> Nat] /\ h[0] = n
    BY <2>1, <2>2 DEF Shifts
  <2>4. ASSUME NEW i \in 1..(k + 1) PROVE h[i] = h[i - 1] \div 256
    BY <2>1 DEF Shifts
  <2>5. Shifts(h, n, k + 1)
    <3> HIDE DEF h
    <3> QED BY <2>3, <2>4 DEF Shifts
  <2> QED BY <2>5
<1>3. PICK g : Shifts(g, n, width)
  <2>1. width \in G
    <3> HIDE DEF G
    <3> QED BY <1>1, <1>2, SetInduction
  <2> QED BY <2>1
<1>4. g = [i \in 0..width |-> IF i = 0 THEN n ELSE g[i - 1] \div 256]
  BY <1>3 DEF Shifts
<1> HIDE DEF G
<1>e. \E it : it = [i \in 0..width |-> IF i = 0 THEN n ELSE it[i - 1] \div 256]
  BY ONLY <1>4, Zenon
<1> DEFINE shifted == CHOOSE it : it = [i \in 0..width |-> IF i = 0 THEN n ELSE it[i - 1] \div 256]
<1>5. shifted = [i \in 0..width |-> IF i = 0 THEN n ELSE shifted[i - 1] \div 256]
  BY ONLY <1>e, Zenon
<1>6. LittleEndian(n, width) = [i \in 1..width |-> shifted[i - 1] % 256]
  BY Zenon DEF LittleEndian
<1>7. \A i \in 0..width : shifted[i] = g[i]
  <2> HIDE DEF shifted
  <2> DEFINE H == {k \in Nat : k <= width => shifted[k] = g[k]}
  <2>1. 0 \in H
    BY <1>3, <1>5 DEF Shifts
  <2>2. ASSUME NEW k \in Nat, k \in H PROVE k + 1 \in H
    <3> SUFFICES ASSUME k + 1 <= width PROVE shifted[k + 1] = g[k + 1]
      OBVIOUS
    <3>1. k + 1 \in 0..width /\ k + 1 # 0 /\ (k + 1) - 1 = k /\ k + 1 \in 1..width
      OBVIOUS
    <3>2. shifted[k + 1] = shifted[k] \div 256
      BY <1>5, <3>1
    <3>3. g[k + 1] = g[k] \div 256
      BY <1>3, <3>1 DEF Shifts
    <3> QED BY <2>2, <3>1, <3>2, <3>3
  <2>3. Nat \subseteq H
    <3> HIDE DEF H
    <3> QED BY <2>1, <2>2, SetInduction
  <2> QED BY <2>3
<1>8. LittleEndian(n, width) = [i \in 1..width |-> g[i - 1] % 256]
  <2> HIDE DEF shifted
  <2>1. \A i \in 1..width : i - 1 \in 0..width
    OBVIOUS
  <2> QED BY <1>6, <1>7, <2>1
<1> QED BY <1>3, <1>8

\* Nothing of the number is left after so many bytes.
FitsIn(n, width) == \A g : Shifts(g, n, width) => g[width] = 0

\* What was written is what is read, for numbers of any width.
LEMMA UnsignedReadsBack ==
  ASSUME NEW n \in Nat, NEW width \in Nat, FitsIn(n, width)
  PROVE  /\ LittleEndian(n, width) \in [1..width -> 0..255]
         /\ Unsigned(LittleEndian(n, width)) = n
<1> DEFINE bytes == LittleEndian(n, width)
<1>1. PICK g : Shifts(g, n, width) /\ bytes = [i \in 1..width |-> g[i - 1] % 256]
  BY ShiftedBytes
<1> HIDE DEF bytes
<1>2. ASSUME NEW i \in 1..width
      PROVE  bytes[i] \in 0..255 /\ bytes[i] \in Nat /\ g[i - 1] = g[i] * 256 + bytes[i]
  <2>1. g[i - 1] \in Nat /\ g[i] = g[i - 1] \div 256
    BY <1>1 DEF Shifts
  <2>2. bytes[i] = g[i - 1] % 256
    BY <1>1
  <2> QED BY <2>1, <2>2
<1>3. bytes = [i \in 1..width |-> bytes[i]]
  BY <1>1, Zenon
<1>4. bytes \in [1..width -> 0..255] /\ bytes \in [1..width -> Nat]
  BY <1>2, <1>3
<1>5. g[width] = 0 /\ g[0] = n
  BY <1>1 DEF FitsIn, Shifts
<1>6. Unsigned(bytes) = g[0]
  <2>1. Above(g, width, bytes)
    BY <1>2, <1>5, Zenon DEF Above
  <2> QED BY <1>4, <2>1, UnsignedValue, Zenon
<1> QED BY <1>4, <1>5, <1>6 DEF bytes

\* The widths of length-encoded integers.
LEMMA FitsInOne == \A n \in Nat : n < 256 => FitsIn(n, 1)
<1> SUFFICES ASSUME NEW n \in Nat, n < 256, NEW g, Shifts(g, n, 1) PROVE g[1] = 0
  BY DEF FitsIn
<1>1. 1 \in 1..1 /\ 1 - 1 = 0
  OBVIOUS
<1>2. g[1] = g[0] \div 256 /\ g[0] = n
  BY <1>1 DEF Shifts
<1> QED BY <1>2

LEMMA FitsInNext ==
  ASSUME NEW n \in Nat, NEW width \in Nat, FitsIn(n \div 256, width)
  PROVE  FitsIn(n, width + 1)
<1> SUFFICES ASSUME NEW g, Shifts(g, n, width + 1) PROVE g[width + 1] = 0
  BY DEF FitsIn
<1> DEFINE h == [i \in 0..width |-> g[i + 1]]
<1>1. /\ g \in [0..(width + 1) -> Nat] /\ g[0] = n
      /\ \A k \in 1..(width + 1) : g[k] = g[k - 1] \div 256
  BY DEF Shifts
<1>2. h \in [0..width -> Nat]
  <2>1. \A i \in 0..width : i + 1 \in 0..(width + 1)
    OBVIOUS
  <2> QED BY <1>1, <2>1
<1>3. h[0] = n \div 256
  <2>1. 0 + 1 = 1 /\ 1 \in 1..(width + 1) /\ 1 - 1 = 0
    OBVIOUS
  <2> QED BY <1>1, <2>1
<1>4. ASSUME NEW k \in 1..width PROVE h[k] = h[k - 1] \div 256
  <2>1. k + 1 \in 1..(width + 1) /\ (k + 1) - 1 = k /\ k - 1 \in 0..width /\ (k - 1) + 1 = k
    OBVIOUS
  <2> QED BY <1>1, <2>1
<1>5. Shifts(h, n \div 256, width)
  <2> HIDE DEF h
  <2> QED BY <1>2, <1>3, <1>4 DEF Shifts
<1>6. h[width] = 0
  <2> HIDE DEF h
  <2> QED BY <1>5 DEF FitsIn
<1> QED BY <1>6

LEMMA FittingNumbers ==
  \A n \in Nat :
    /\ n < 65536 => FitsIn(n, 2)
    /\ n < 16777216 => FitsIn(n, 3)
    /\ n < 65536 * 65536 * 65536 * 65536 => FitsIn(n, 8)
<1>1. \A n \in Nat : n < 65536 => n \div 256 \in Nat /\ n \div 256 < 256
  OBVIOUS
<1>2. \A n \in Nat : n < 65536 => FitsIn(n, 2)
  BY <1>1, FitsInOne, FitsInNext, 1 + 1 = 2
<1>3. \A n \in Nat : n < 16777216 => FitsIn(n, 3)
  BY <1>2, FitsInNext, 2 + 1 = 3
<1>4. \A n \in Nat : n < 65536 * 65536 => FitsIn(n, 4)
  BY <1>3, FitsInNext, 3 + 1 = 4
<1>5. \A n \in Nat : n < 256 * 65536 * 65536 => FitsIn(n, 5)
  BY <1>4, FitsInNext, 4 + 1 = 5
<1>6. \A n \in Nat : n < 65536 * 65536 * 65536 => FitsIn(n, 6)
  BY <1>5, FitsInNext, 5 + 1 = 6
<1>7. \A n \in Nat : n < 256 * 65536 * 65536 * 65536 => FitsIn(n, 7)
  BY <1>6, FitsInNext, 6 + 1 = 7
<1>8. \A n \in Nat : n < 65536 * 65536 * 65536 * 65536 => FitsIn(n, 8)
  BY <1>7, FitsInNext, 7 + 1 = 8
<1> QED BY <1>2, <1>3, <1>8

-----------------------------------------------------------------------------
(* The sizes of what is written *)

LEMMA LittleEndianSize ==
  ASSUME NEW n, NEW width \in Nat
  PROVE  IsSeq(LittleEndian(n, width)) /\ Len(LittleEndian(n, width)) = width
<1> DEFINE f == LittleEndian(n, width)
<1>1. f = [i \in 1..width |-> f[i]]
  BY DEF LittleEndian
<1> HIDE DEF f
<1>2. IsSeq(f) /\ Len(f) = width
  BY <1>1, Listed
<1> QED BY <1>2 DEF f

\* Sequences of n elements.
Sized(s, n) == IsSeq(s) /\ Len(s) = n /\ n \in Nat

LEMMA JoinedSize ==
  ASSUME NEW s, NEW m, Sized(s, m), NEW t, NEW n, Sized(t, n)
  PROVE  Sized(s \o t, m + n)
<1>1. IsSeq(s \o t) /\ Len(s \o t) = Len(s) + Len(t)
  BY Joined, Zenon DEF Sized
<1>2. m \in Nat /\ n \in Nat /\ Len(s) = m /\ Len(t) = n
  BY DEF Sized
<1> QED BY <1>1, <1>2 DEF Sized

LEMMA LenencSize ==
  ASSUME NEW n \in Nat
  PROVE  /\ IsSeq(serialize_lenenc(n))
         /\ Len(serialize_lenenc(n)) = get_size_lenenc(n) /\ get_size_lenenc(n) \in Nat
<1>1. ASSUME NEW w \in Nat, NEW a
      PROVE  IsSeq(<<a>> \o LittleEndian(n, w)) /\ Len(<<a>> \o LittleEndian(n, w)) = 1 + w
  <2>1. IsSeq(<<a>>) /\ Len(<<a>>) = 1
    BY Short
  <2>2. IsSeq(LittleEndian(n, w)) /\ Len(LittleEndian(n, w)) = w
    BY LittleEndianSize
  <2> QED BY <2>1, <2>2, Joined
<1>2. CASE n < 251
  <2>1. serialize_lenenc(n) = <<n>> /\ get_size_lenenc(n) = 1
    BY <1>2 DEF serialize_lenenc, get_size_lenenc
  <2> QED BY <2>1, Short
<1>3. CASE n >= 251 /\ n < 65536
  <2>1. serialize_lenenc(n) = <<252>> \o LittleEndian(n, 2) /\ get_size_lenenc(n) = 3
    BY <1>3 DEF serialize_lenenc, get_size_lenenc
  <2> QED BY <1>1, <2>1
<1>4. CASE n >= 65536 /\ n < 16777216
  <2>1. serialize_lenenc(n) = <<253>> \o LittleEndian(n, 3) /\ get_size_lenenc(n) = 4
    BY <1>4 DEF serialize_lenenc, get_size_lenenc
  <2> QED BY <1>1, <2>1
<1>5. CASE n >= 16777216
  <2>1. serialize_lenenc(n) = <<254>> \o LittleEndian(n, 8) /\ get_size_lenenc(n) = 9
    BY <1>5 DEF serialize_lenenc, get_size_lenenc
  <2> QED BY <1>1, <2>1
<1> QED BY <1>2, <1>3, <1>4, <1>5

LEMMA LenencStringSize ==
  ASSUME NEW string, IsSeq(string)
  PROVE  /\ IsSeq(serialize_string_lenenc(string))
         /\ Len(serialize_string_lenenc(string)) = get_size_lenenc(Len(string)) + Len(string)
         /\ get_size_lenenc(Len(string)) + Len(string) \in Nat
<1>1. Len(string) \in Nat
  BY DEF IsSeq
<1>2. /\ IsSeq(serialize_lenenc(Len(string)))
      /\ Len(serialize_lenenc(Len(string))) = get_size_lenenc(Len(string))
      /\ get_size_lenenc(Len(string)) \in Nat
  BY <1>1, LenencSize
<1>3. serialize_string_lenenc(string) = serialize_lenenc(Len(string)) \o string
  BY DEF serialize_string_lenenc
<1> QED BY <1>1, <1>2, <1>3, Joined

\* Values that a field of a message can have.
FieldTypes ==
  {"fixed_size_int", "string_fixed", "int_lenenc", "string_lenenc", "string_null", "string_eof"}
Fits(field, value) ==
  /\ field.type \in FieldTypes
  /\ field.type = "fixed_size_int" => field.size \in Nat
  /\ field.type = "string_fixed" => IsSeq(value) /\ Len(value) = field.size
  /\ field.type = "int_lenenc" => value \in Nat
  /\ field.type \in {"string_lenenc", "string_null", "string_eof"} => IsSeq(value)

LEMMA FieldSize ==
  ASSUME NEW field, NEW value, Fits(field, value)
  PROVE  /\ IsSeq(serialize_(field, value))
         /\ Len(serialize_(field, value)) = get_size_(field, value)
         /\ get_size_(field, value) \in Nat
<1> USE DEF Fits, FieldTypes
<1>1. CASE field.type = "fixed_size_int"
  BY <1>1, LittleEndianSize DEF serialize_, get_size_
<1>2. CASE field.type = "string_fixed"
  <2>1. serialize_(field, value) = value /\ get_size_(field, value) = field.size
    BY <1>2 DEF serialize_, get_size_
  <2>2. Len(value) \in Nat
    BY <1>2 DEF IsSeq
  <2> QED BY <1>2, <2>1, <2>2
<1>3. CASE field.type = "int_lenenc"
  BY <1>3, LenencSize DEF serialize_, get_size_
<1>4. CASE field.type = "string_lenenc"
  BY <1>4, LenencStringSize DEF serialize_, get_size_
<1>5. CASE field.type = "string_null"
  <2>1. serialize_(field, value) = Append(value, 0) /\ get_size_(field, value) = Len(value) + 1
    BY <1>5 DEF serialize_, get_size_
  <2>2. PICK T : value \in Seq(T)
    BY <1>5 DEF IsSeq
  <2>3. Append(value, 0) \in Seq(T \cup {0}) /\ Len(Append(value, 0)) = Len(value) + 1 /\ Len(value) \in Nat
    <3>1. value \in Seq(T \cup {0})
      BY <2>2
    <3> QED BY <3>1
  <2> QED BY <2>1, <2>3 DEF IsSeq
<1>6. CASE field.type = "string_eof"
  <2>1. serialize_(field, value) = value /\ get_size_(field, value) = Len(value)
    BY <1>6 DEF serialize_, get_size_
  <2>2. Len(value) \in Nat
    BY <1>6 DEF IsSeq
  <2> QED BY <1>6, <2>1, <2>2
<1> QED BY <1>1, <1>2, <1>3, <1>4, <1>5, <1>6

\* What the get_size of a message promises is what its serialization writes.
Layouts(fields, message) ==
  /\ fields = [i \in 1..Len(fields) |-> fields[i]] /\ Len(fields) \in Nat
  /\ \A i \in 1..Len(fields) : Fits(fields[i], message[fields[i].name])

LEMMA StructSize ==
  ASSUME NEW command, IsSeq(command), NEW fields, NEW message, Layouts(fields, message)
  PROVE  /\ IsSeq(serialize_struct(command, fields, message))
         /\ Len(serialize_struct(command, fields, message)) = get_size_struct(command, fields, message)
         /\ get_size_struct(command, fields, message) \in Nat
<1> DEFINE n == Len(fields)
           seqs == [i \in DOMAIN fields |-> serialize_(fields[i], message[fields[i].name])]
           sizes == [i \in DOMAIN fields |-> get_size_(fields[i], message[fields[i].name])]
<1>1. n \in Nat /\ DOMAIN fields = 1..n
  BY DEF Layouts
<1>2. ASSUME NEW i \in 1..n
      PROVE  IsSeq(seqs[i]) /\ Len(seqs[i]) = sizes[i] /\ sizes[i] \in Nat
  <2>1. Fits(fields[i], message[fields[i].name])
    BY DEF Layouts
  <2>2. /\ seqs[i] = serialize_(fields[i], message[fields[i].name])
        /\ sizes[i] = get_size_(fields[i], message[fields[i].name])
    BY <1>1
  <2> HIDE DEF n, seqs, sizes
  <2> QED BY <2>1, <2>2, FieldSize
<1>3. seqs = [i \in 1..n |-> seqs[i]] /\ sizes = [i \in 1..n |-> sizes[i]]
  BY <1>1
<1>4. serialize_struct(command, fields, message) = command \o FlattenSeq(seqs)
  BY DEF serialize_struct
<1>5. get_size_struct(command, fields, message) = Len(command) + Sum(sizes)
  BY DEF get_size_struct
<1> HIDE DEF n, seqs, sizes
<1>6. sizes = [i \in 1..n |-> Len(seqs[i])] /\ sizes \in [1..n -> Nat]
  BY <1>2, <1>3
<1>7. IsSeq(FlattenSeq(seqs)) /\ Len(FlattenSeq(seqs)) = Sum(sizes)
  BY <1>1, <1>2, <1>3, <1>6, FlattenedSize
<1>8. Len(command) \in Nat /\ Len(FlattenSeq(seqs)) \in Nat
  BY <1>7 DEF IsSeq
<1> QED BY <1>4, <1>5, <1>7, <1>8, Joined

\* What is written is the whole message, and no more.
Serialized(command, fields, message) ==
  serialize_message(command, fields, message) = serialize_struct(command, fields, message)

\* serialize_message resizes the buffer to get_size and then writes without any
\* check: the message fills that buffer exactly, for every layout and all values
\* that fit it.
THEOREM MessagesFillTheirBuffers ==
  ASSUME NEW command, IsSeq(command), NEW fields, NEW message, Layouts(fields, message)
  PROVE  Serialized(command, fields, message)
<1> DEFINE bytes == serialize_struct(command, fields, message)
           size == get_size_struct(command, fields, message)
<1>1. IsSeq(bytes) /\ Len(bytes) = size /\ size \in Nat
  BY StructSize
<1>2. serialize_message(command, fields, message) = InBuffer(size, bytes)
  BY DEF serialize_message
<1> HIDE DEF bytes, size
<1>3. PICK T : bytes \in Seq(T)
  BY <1>1 DEF IsSeq
<1>4. InBuffer(size, bytes) = bytes
  <2>1. InBuffer(size, bytes) = [i \in 1..Len(bytes) |-> bytes[i]]
    BY <1>1, <1>3 DEF InBuffer
  <2> QED BY <1>3, <2>1
<1> QED BY <1>2, <1>4 DEF bytes, Serialized

-----------------------------------------------------------------------------
(* What was serialized is what is deserialized *)

LEMMA SumOfOne == \A w \in Nat : Sum(<<w>>) = w /\ Sum(<<>>) = 0
<1> SUFFICES ASSUME NEW w \in Nat PROVE Sum(<<w>>) = w /\ Sum(<<>>) = 0
  OBVIOUS
<1> DEFINE one == <<w>>
           none == <<>>
           g == [k \in 0..1 |-> IF k = 0 THEN 0 ELSE w]
<1>1. one \in [1..1 -> Int] /\ none \in [1..0 -> Int]
  OBVIOUS
<1>2. g[0] = 0 /\ \A k \in 1..1 : g[k] = g[k - 1] + one[k]
  OBVIOUS
<1>3. g[1] = w
  OBVIOUS
<1>4. \A k \in 1..0 : g[k] = g[k - 1] + none[k]
  OBVIOUS
<1> HIDE DEF one, none, g
<1>5. Sum(one) = g[1]
  BY <1>1, <1>2, SumValue
<1>6. Sum(none) = g[0]
  BY <1>1, <1>2, <1>4, SumValue
<1> QED BY <1>2, <1>3, <1>5, <1>6 DEF one, none

LEMMA DeserializeOne ==
  ASSUME NEW T, NEW bytes \in Seq(T), NEW width \in Nat
  PROVE  deserialize(bytes, <<width>>) =
           IF Len(bytes) < width THEN Failed("incomplete_message")
           ELSE Got(<<Unsigned(SubSeq(bytes, 1, width))>>, Skip(bytes, width))
<1>1. Sum(<<width>>) = width /\ Sum(<<>>) = 0
  BY SumOfOne
<1>2. SubSeq(<<width>>, 1, 1 - 1) = <<>> /\ Len(<<width>>) = 1 /\ <<width>>[1] = width
  OBVIOUS
<1>3. [i \in 1..1 |->
         Unsigned(SubSeq(bytes, Sum(SubSeq(<<width>>, 1, i - 1)) + 1,
                         Sum(SubSeq(<<width>>, 1, i - 1)) + <<width>>[i]))]
        = <<Unsigned(SubSeq(bytes, 1, width))>>
  <2> DEFINE x == [i \in 1..1 |->
                     Unsigned(SubSeq(bytes, Sum(SubSeq(<<width>>, 1, i - 1)) + 1,
                                     Sum(SubSeq(<<width>>, 1, i - 1)) + <<width>>[i]))]
  <2>1. x[1] = Unsigned(SubSeq(bytes, Sum(SubSeq(<<width>>, 1, 1 - 1)) + 1,
                               Sum(SubSeq(<<width>>, 1, 1 - 1)) + <<width>>[1]))
    OBVIOUS
  <2>2. 0 + 1 = 1 /\ 0 + width = width
    OBVIOUS
  <2>3. x[1] = Unsigned(SubSeq(bytes, 1, width))
    BY <1>1, <1>2, <2>1, <2>2, Zenon
  <2>4. x = <<x[1]>>
    <3>1. x = [i \in 1..1 |-> x[i]]
      BY Zenon
    <3> HIDE DEF x
    <3> QED BY <3>1
  <2> QED BY <2>3, <2>4, Zenon
<1> QED BY <1>1, <1>2, <1>3, Zenon DEF deserialize

LEMMA FirstByte ==
  ASSUME NEW byte \in Byte, NEW more \in ByteString
  PROVE  /\ <<byte>> \o more \in ByteString
         /\ deserialize(<<byte>> \o more, <<1>>) = Got(<<byte>>, more)
<1> DEFINE all == <<byte>> \o more
<1>1. <<byte>> \in ByteString /\ Len(<<byte>>) = 1
  BY DEF ByteString
<1>2. all \in ByteString /\ Len(all) = 1 + Len(more) /\ Len(more) \in Nat
  BY <1>1, Concatenation DEF ByteString
<1>3. SubSeq(all, 1, 1) = <<byte>> /\ SubSeq(all, 1 + 1, Len(all)) = more
  BY <1>1, JoinedParts DEF ByteString
<1>4. Unsigned(<<byte>>) = byte
  <2> DEFINE g == [k \in 0..1 |-> IF k = 0 THEN byte ELSE 0]
             one == <<byte>>
  <2>1. one \in [1..1 -> Nat]
    BY DEF Byte
  <2>2. Above(g, 1, one) /\ g[0] = byte
    BY DEF Above, Byte
  <2> HIDE DEF g, one
  <2>3. Unsigned(one) = g[0]
    BY <2>1, <2>2, UnsignedValue
  <2> QED BY <2>2, <2>3 DEF one
<1>5. ~ (Len(all) < 1)
  BY <1>2
<1> HIDE DEF all
<1>6. deserialize(all, <<1>>) = Got(<<Unsigned(SubSeq(all, 1, 1))>>, Skip(all, 1))
  BY <1>2, <1>5, DeserializeOne DEF ByteString
<1>7. deserialize(all, <<1>>) = Got(<<byte>>, more)
  BY <1>3, <1>4, <1>6 DEF Skip
<1> QED BY <1>2, <1>7 DEF all

LEMMA IntegerReadsBack ==
  ASSUME NEW n \in Nat, NEW width \in Nat, FitsIn(n, width), NEW more \in ByteString
  PROVE  /\ LittleEndian(n, width) \o more \in ByteString
         /\ deserialize(LittleEndian(n, width) \o more, <<width>>) = Got(<<n>>, more)
<1> DEFINE own == LittleEndian(n, width)
           all == own \o more
<1>1. own \in [1..width -> Byte] /\ Unsigned(own) = n
  BY UnsignedReadsBack DEF Byte
<1> HIDE DEF own
<1>2. own \in ByteString /\ Len(own) = width
  BY <1>1 DEF ByteString
<1>3. all \in ByteString /\ Len(all) = width + Len(more) /\ Len(more) \in Nat
  BY <1>2, Concatenation DEF ByteString
<1>4. SubSeq(all, 1, width) = own /\ SubSeq(all, width + 1, Len(all)) = more
  BY <1>2, JoinedParts DEF ByteString
<1>5. ~ (Len(all) < width)
  BY <1>3
<1> HIDE DEF all
<1>6. deserialize(all, <<width>>) = Got(<<Unsigned(SubSeq(all, 1, width))>>, Skip(all, width))
  BY <1>3, <1>5, DeserializeOne DEF ByteString
<1>7. deserialize(all, <<width>>) = Got(<<n>>, more)
  BY <1>1, <1>4, <1>6 DEF Skip
<1> QED BY <1>3, <1>7 DEF all, own

\* The numbers that an integer of eight bytes can have.
Lenenc == {n \in Nat : n < 65536 * 65536 * 65536 * 65536}

\* A first byte that announces an integer of so many bytes.
LEMMA AnnouncedReadsBack ==
  ASSUME NEW first \in {252, 253, 254}, NEW n \in Nat, FitsIn(n, LenencWidth(first)),
         NEW more \in ByteString
  PROVE  /\ (<<first>> \o LittleEndian(n, LenencWidth(first))) \o more \in ByteString
         /\ deserialize_lenenc((<<first>> \o LittleEndian(n, LenencWidth(first))) \o more)
              = Got(<<n>>, more)
<1> DEFINE width == LenencWidth(first)
           own == LittleEndian(n, width)
           after == own \o more
           all == <<first>> \o after
<1>1. width \in Nat /\ width # 0
  BY DEF LenencWidth
<1> HIDE DEF width
<1>2. own \in ByteString
  BY <1>1, UnsignedReadsBack DEF width, ByteString, Byte
<1>3. after \in ByteString /\ deserialize(after, <<width>>) = Got(<<n>>, more)
  BY <1>1, IntegerReadsBack DEF width
<1> HIDE DEF own, after
<1>4. first \in Byte
  BY DEF Byte
<1>5. all \in ByteString /\ deserialize(all, <<1>>) = Got(<<first>>, after)
  BY <1>3, <1>4, FirstByte
<1>6. (<<first>> \o own) \o more = all
  <2>1. <<first>> \in ByteString
    BY <1>4 DEF ByteString
  <2>2. (<<first>> \o own) \o more = <<first>> \o (own \o more)
    BY <1>2, <2>1, ConcatAssociative DEF ByteString
  <2> QED BY <2>2 DEF after
<1> HIDE DEF all
<1>7. deserialize_lenenc(all) = Got(<<n>>, more)
  <2>1. <<first>>[1] = first
    OBVIOUS
  <2>2. deserialize(all, <<1>>).err = "ok" /\ deserialize(all, <<1>>).value = <<first>>
        /\ deserialize(all, <<1>>).rest = after
    BY <1>5 DEF Got
  <2> QED BY <1>1, <1>3, <2>1, <2>2, Zenon DEF deserialize_lenenc, Then, width
<1> QED BY <1>5, <1>6, <1>7, Zenon DEF own, width

LEMMA LenencReadsBack ==
  ASSUME NEW n \in Lenenc, NEW more \in ByteString
  PROVE  /\ serialize_lenenc(n) \in ByteString
         /\ serialize_lenenc(n) \o more \in ByteString
         /\ deserialize_lenenc(serialize_lenenc(n) \o more) = Got(<<n>>, more)
<1>1. n \in Nat /\ n < 65536 * 65536 * 65536 * 65536
  BY DEF Lenenc
<1>2. CASE n < 251
  <2>1. serialize_lenenc(n) = <<n>> /\ n \in Byte
    BY <1>1, <1>2 DEF serialize_lenenc, Byte
  <2>2. <<n>> \o more \in ByteString /\ deserialize(<<n>> \o more, <<1>>) = Got(<<n>>, more)
    BY <2>1, FirstByte
  <2>3. LenencWidth(n) = 0
    BY <1>2 DEF LenencWidth
  <2>4. deserialize_lenenc(<<n>> \o more) = Got(<<n>>, more)
    <3> DEFINE all == <<n>> \o more
    <3> HIDE DEF all
    <3>1. deserialize(all, <<1>>) = Got(<<n>>, more)
      BY <2>2 DEF all
    <3>2. deserialize(all, <<1>>).err = "ok" /\ deserialize(all, <<1>>).value = <<n>>
          /\ deserialize(all, <<1>>).rest = more
      BY <3>1 DEF Got
    <3>3. <<n>>[1] = n
      OBVIOUS
    <3>4. deserialize_lenenc(all) = Got(<<n>>, more)
      BY <2>3, <3>2, <3>3, Zenon DEF deserialize_lenenc, Then
    <3> QED BY <3>4 DEF all
  <2>5. <<n>> \in ByteString
    BY <2>1 DEF ByteString
  <2> QED BY <2>1, <2>2, <2>4, <2>5
<1>3. CASE n >= 251
  <2>1. ASSUME NEW first \in {252, 253, 254}, NEW width \in Nat, width = LenencWidth(first),
               FitsIn(n, width), serialize_lenenc(n) = <<first>> \o LittleEndian(n, width)
        PROVE  /\ serialize_lenenc(n) \in ByteString
               /\ serialize_lenenc(n) \o more \in ByteString
               /\ deserialize_lenenc(serialize_lenenc(n) \o more) = Got(<<n>>, more)
    <3>1. <<first>> \in ByteString
      BY DEF ByteString, Byte
    <3>2. LittleEndian(n, width) \in ByteString
      BY <1>1, <2>1, UnsignedReadsBack DEF ByteString, Byte
    <3>3. serialize_lenenc(n) \in ByteString
      BY <2>1, <3>1, <3>2, Concatenation DEF ByteString
    <3> QED BY <1>1, <2>1, <3>3, AnnouncedReadsBack
  <2>2. LenencWidth(252) = 2 /\ LenencWidth(253) = 3 /\ LenencWidth(254) = 8
    BY DEF LenencWidth
  <2>3. CASE n < 65536
    <3>1. serialize_lenenc(n) = <<252>> \o LittleEndian(n, 2)
      BY <1>1, <1>3, <2>3 DEF serialize_lenenc
    <3>2. FitsIn(n, 2)
      BY <1>1, <2>3, FittingNumbers
    <3> QED BY <2>1, <2>2, <3>1, <3>2
  <2>4. CASE n >= 65536 /\ n < 16777216
    <3>1. serialize_lenenc(n) = <<253>> \o LittleEndian(n, 3)
      BY <1>1, <2>4 DEF serialize_lenenc
    <3>2. FitsIn(n, 3)
      BY <1>1, <2>4, FittingNumbers
    <3> QED BY <2>1, <2>2, <3>1, <3>2
  <2>5. CASE n >= 16777216
    <3>1. serialize_lenenc(n) = <<254>> \o LittleEndian(n, 8)
      BY <1>1, <2>5 DEF serialize_lenenc
    <3>2. FitsIn(n, 8)
      BY <1>1, FittingNumbers
    <3> QED BY <2>1, <2>2, <3>1, <3>2
  <2> QED BY <1>1, <2>3, <2>4, <2>5
<1> QED BY <1>1, <1>2, <1>3

LEMMA StringReadsBack ==
  ASSUME NEW string \in ByteString, Len(string) \in Lenenc, NEW more \in ByteString
  PROVE  /\ serialize_string_lenenc(string) \in ByteString
         /\ deserialize_string_lenenc(serialize_string_lenenc(string) \o more) = Got(string, more)
<1> DEFINE head == serialize_lenenc(Len(string))
           after == string \o more
           all == head \o after
<1>1. after \in ByteString /\ Len(after) = Len(string) + Len(more) /\ Len(string) \in Nat /\ Len(more) \in Nat
  BY Concatenation DEF ByteString
<1>2. SubSeq(after, 1, Len(string)) = string /\ SubSeq(after, Len(string) + 1, Len(after)) = more
  BY JoinedParts DEF ByteString
<1> HIDE DEF after
<1>3. head \in ByteString /\ deserialize_lenenc(all) = Got(<<Len(string)>>, after)
  BY <1>1, LenencReadsBack
<1> HIDE DEF head
<1>4. head \o string \in ByteString
  BY <1>3, Concatenation DEF ByteString
<1>5. (head \o string) \o more = all
  <2>1. (head \o string) \o more = head \o (string \o more)
    BY <1>3, ConcatAssociative DEF ByteString
  <2> QED BY <2>1 DEF after
<1> HIDE DEF all
<1>6. deserialize_string_lenenc(all) = Got(string, more)
  <2>1. deserialize_lenenc(all).err = "ok" /\ deserialize_lenenc(all).value = <<Len(string)>>
        /\ deserialize_lenenc(all).rest = after
    BY <1>3 DEF Got
  <2>2. <<Len(string)>>[1] = Len(string)
    OBVIOUS
  <2>3. ~ (Len(after) < Len(string))
    BY <1>1
  <2>4. Skip(after, Len(string)) = more
    BY <1>2 DEF Skip
  <2> QED BY <1>2, <2>1, <2>2, <2>3, <2>4, Zenon DEF deserialize_string_lenenc, Then
<1> QED BY <1>4, <1>5, <1>6, Zenon DEF serialize_string_lenenc, head

LEMMA NullStringReadsBack ==
  ASSUME NEW string \in ByteString, \A i \in 1..Len(string) : string[i] # 0, NEW more \in ByteString
  PROVE  /\ Append(string, 0) \in ByteString
         /\ deserialize_string_null(Append(string, 0) \o more) = Got(string, more)
<1> DEFINE own == Append(string, 0)
           all == own \o more
           end == Len(string) + 1
<1>1. own \in ByteString /\ Len(own) = end /\ end \in Nat
  BY DEF ByteString, Byte
<1>2. \A i \in 1..end : own[i] = IF i = end THEN 0 ELSE string[i]
  BY DEF ByteString
<1> HIDE DEF own
<1>3. /\ all \in ByteString /\ Len(all) = end + Len(more) /\ Len(more) \in Nat
      /\ \A i \in 1..end : all[i] = own[i]
  BY <1>1, ConcatProperties DEF ByteString
<1>4. SubSeq(all, 1, end) = own /\ SubSeq(all, end + 1, Len(all)) = more
  BY <1>1, JoinedParts DEF ByteString
<1> HIDE DEF all
<1>5. DOMAIN all = 1..Len(all) /\ end \in 1..Len(all) /\ all[end] = 0
  BY <1>1, <1>2, <1>3 DEF ByteString
<1>6. \A j \in 1..(end - 1) : all[j] = string[j] /\ all[j] # 0
  <2> SUFFICES ASSUME NEW j \in 1..(end - 1) PROVE all[j] = string[j] /\ all[j] # 0
    OBVIOUS
  <2>1. j \in 1..end /\ j # end /\ j \in 1..Len(string)
    BY <1>1
  <2> QED BY <1>2, <1>3, <2>1
<1> DEFINE first == CHOOSE i \in DOMAIN all : all[i] = 0 /\ \A j \in 1..(i - 1) : all[j] # 0
<1>7. first = end
  <2>1. end \in DOMAIN all /\ all[end] = 0 /\ \A j \in 1..(end - 1) : all[j] # 0
    BY <1>5, <1>6
  <2>2. first \in DOMAIN all /\ all[first] = 0 /\ \A j \in 1..(first - 1) : all[j] # 0
    <3> HIDE DEF end
    <3> QED BY <2>1, Zenon
  <2> HIDE DEF first
  <2>3. first \in 1..Len(all) /\ Len(all) \in Nat
    BY <1>3, <1>5, <2>2
  <2>4. ~ (end < first)
    <3> SUFFICES ASSUME end < first PROVE FALSE
      OBVIOUS
    <3>1. end \in 1..(first - 1)
      BY <1>1, <1>5, <2>3
    <3> QED BY <1>5, <2>2, <3>1
  <2>5. ~ (first < end)
    <3> SUFFICES ASSUME first < end PROVE FALSE
      OBVIOUS
    <3>1. first \in 1..(end - 1)
      BY <1>1, <2>3
    <3> QED BY <2>1, <2>2, <3>1
  <2> QED BY <1>1, <2>3, <2>4, <2>5
<1>8. SubSeq(all, 1, end - 1) = string
  <2>1. \A i \in 1..(end - 1) : all[i] = string[i]
    BY <1>6
  <2>2. end - 1 = Len(string) /\ Len(string) \in Nat
    BY DEF ByteString
  <2>3. string = [i \in 1..Len(string) |-> string[i]]
    BY DEF ByteString
  <2>4. SubSeq(all, 1, Len(string)) = [i \in 1..Len(string) |-> all[i]]
    <3>1. Len(string) <= Len(all)
      BY <1>3, <2>2
    <3> HIDE DEF end
    <3> QED BY <1>3, <2>2, <3>1 DEF ByteString
  <2> HIDE DEF end
  <2> QED BY <2>1, <2>2, <2>3, <2>4
<1>9. Skip(all, end) = more
  BY <1>4 DEF Skip
<1>10. ~ \A i \in DOMAIN all : all[i] # 0
  BY <1>5
<1>11. deserialize_string_null(all) = Got(string, more)
  <2>1. deserialize_string_null(all) = Got(SubSeq(all, 1, first - 1), Skip(all, first))
    <3> HIDE DEF end
    <3> QED BY <1>10, Zenon DEF deserialize_string_null
  <2> HIDE DEF first, end
  <2> QED BY <1>7, <1>8, <1>9, <2>1, Zenon
<1> QED BY <1>1, <1>11 DEF all, own

LEMMA FixedStringReadsBack ==
  ASSUME NEW string \in ByteString, NEW more \in ByteString
  PROVE  deserialize_string_fixed(string \o more, Len(string)) = Got(string, more)
<1> DEFINE all == string \o more
<1>1. Len(all) = Len(string) + Len(more) /\ Len(string) \in Nat /\ Len(more) \in Nat
  BY Concatenation DEF ByteString
<1>2. SubSeq(all, 1, Len(string)) = string /\ SubSeq(all, Len(string) + 1, Len(all)) = more
  BY JoinedParts DEF ByteString
<1> HIDE DEF all
<1>3. ~ (Len(all) < Len(string))
  BY <1>1
<1>4. deserialize_string_fixed(all, Len(string)) = Got(string, more)
  BY <1>2, <1>3, Zenon DEF deserialize_string_fixed, Skip
<1> QED BY <1>4 DEF all

\* The values that a field can have.
Holds(field, value) ==
  CASE field.type = "fixed_size_int" -> field.size \in Nat /\ value \in Nat /\ FitsIn(value, field.size)
    [] field.type = "int_lenenc"     -> value \in Lenenc
    [] field.type = "string_fixed"   -> value \in ByteString /\ Len(value) = field.size
    [] field.type = "string_lenenc"  -> value \in ByteString /\ Len(value) \in Lenenc
    [] field.type = "string_null"    -> value \in ByteString /\ \A i \in 1..Len(value) : value[i] # 0
    [] field.type = "string_eof"     -> value \in ByteString
    [] OTHER                         -> FALSE

\* Nothing follows a string that fills the message.
LEMMA FieldReadsBack ==
  ASSUME NEW field, NEW value, Holds(field, value), NEW more \in ByteString,
         field.type = "string_eof" => more = <<>>
  PROVE  /\ serialize_(field, value) \in ByteString
         /\ deserialize_(field, serialize_(field, value) \o more) = Got(value, more)
<1> USE DEF Holds
<1>1. ASSUME NEW bytes, NEW n, bytes = Got(<<n>>, more) PROVE FirstOf(bytes) = Got(n, more)
  <2>1. bytes.err = "ok" /\ bytes.value = <<n>> /\ bytes.rest = more /\ <<n>>[1] = n
    BY <1>1 DEF Got
  <2> QED BY <2>1, Zenon DEF FirstOf, Then
<1>2. CASE field.type = "fixed_size_int"
  <2>1. serialize_(field, value) = LittleEndian(value, field.size)
    BY <1>2 DEF serialize_
  <2>2. LittleEndian(value, field.size) \in ByteString
    <3>1. field.size \in Nat /\ value \in Nat /\ FitsIn(value, field.size)
      BY <1>2
    <3>2. LittleEndian(value, field.size) \in [1..field.size -> Byte]
      BY <3>1, UnsignedReadsBack DEF Byte
    <3> QED BY <3>1, <3>2 DEF ByteString
  <2>3. deserialize(LittleEndian(value, field.size) \o more, <<field.size>>) = Got(<<value>>, more)
    BY <1>2, IntegerReadsBack
  <2>4. FirstOf(deserialize(LittleEndian(value, field.size) \o more, <<field.size>>)) = Got(value, more)
    BY <1>1, <2>3, Zenon
  <2> QED BY <1>2, <2>1, <2>2, <2>4 DEF deserialize_
<1>3. CASE field.type = "int_lenenc"
  <2>1. serialize_(field, value) = serialize_lenenc(value)
    BY <1>3 DEF serialize_
  <2>2. serialize_lenenc(value) \in ByteString
        /\ deserialize_lenenc(serialize_lenenc(value) \o more) = Got(<<value>>, more)
    BY <1>3, LenencReadsBack
  <2>3. FirstOf(deserialize_lenenc(serialize_lenenc(value) \o more)) = Got(value, more)
    BY <1>1, <2>2, Zenon
  <2> QED BY <1>3, <2>1, <2>2, <2>3 DEF deserialize_
<1>4. CASE field.type = "string_fixed"
  <2>1. serialize_(field, value) = value
    BY <1>4 DEF serialize_
  <2>2. deserialize_string_fixed(value \o more, field.size) = Got(value, more)
    BY <1>4, FixedStringReadsBack
  <2> QED BY <1>4, <2>1, <2>2 DEF deserialize_
<1>5. CASE field.type = "string_lenenc"
  <2>1. serialize_(field, value) = serialize_string_lenenc(value)
    BY <1>5 DEF serialize_
  <2> QED BY <1>5, <2>1, StringReadsBack DEF deserialize_
<1>6. CASE field.type = "string_null"
  <2>1. serialize_(field, value) = Append(value, 0)
    BY <1>6 DEF serialize_
  <2> QED BY <1>6, <2>1, NullStringReadsBack DEF deserialize_
<1>7. CASE field.type = "string_eof"
  <2>1. serialize_(field, value) = value /\ value \in ByteString
    BY <1>7 DEF serialize_
  <2>2. value \o more = value
    BY <1>7, <2>1 DEF ByteString
  <2>3. deserialize_(field, value) = Got(value, <<>>)
    BY <1>7 DEF deserialize_, deserialize_string_eof
  <2> QED BY <1>7, <2>1, <2>2, <2>3
<1> QED BY <1>2, <1>3, <1>4, <1>5, <1>6, <1>7

\* A message, field after field.
ReadField(read, field) ==
  Then(read, LAMBDA values, left :
  Then(deserialize_(field, left), LAMBDA value, left2 : Got(Append(values, value), left2)))

\* What deserialize_struct has read after each field.
ReadsFields(f, D, base, fields) ==
  f = [s \in D |-> IF s = {} THEN base ELSE ReadField(f[s \ {Max(s)}], fields[Max(s)])]

LEMMA ReadsFieldsExists ==
  ASSUME NEW n \in Nat, NEW base, NEW fields
  PROVE  \E f : ReadsFields(f, SUBSET (1..n), base, fields)
<1> DEFINE D(k) == {s \in SUBSET (1..n) : Cardinality(s) <= k}
           G == {k \in Nat : \E f : ReadsFields(f, D(k), base, fields)}
<1>1. IsFiniteSet(1..n) /\ Cardinality(1..n) \in Nat
  BY FiniteInterval, FS_CardinalityType
<1>2. D(0) = {{}}
  BY <1>1, Sizes, FS_EmptySet
<1>3. 0 \in G
  <2> DEFINE f == [s \in D(0) |-> base]
  <2>1. ReadsFields(f, D(0), base, fields)
    BY <1>2 DEF ReadsFields
  <2> QED BY <2>1
<1>4. ASSUME NEW k \in Nat PROVE D(k) \subseteq D(k + 1) /\ {} \in D(k)
  BY <1>1, <1>2, Sizes
<1>5. ASSUME NEW k \in Nat, NEW s \in D(k + 1), s # {} PROVE s \ {Max(s)} \in D(k)
  <2>1. s \in SUBSET (1..n) /\ Cardinality(s) <= k + 1
    OBVIOUS
  <2>2. Max(s) \in s
    BY <1>5, <2>1, MaxOfSet
  <2>3. /\ Cardinality(s) \in Nat /\ Cardinality(s \ {Max(s)}) = Cardinality(s) - 1
    BY <1>1, <2>1, <2>2, Sizes, Zenon
  <2>4. Cardinality(s \ {Max(s)}) <= k
    <3>1. \A c, d : c \in Nat /\ c <= k + 1 /\ d = c - 1 => d <= k
      OBVIOUS
    <3> QED BY <2>1, <2>3, <3>1, Zenon
  <2>5. s \ {Max(s)} \in SUBSET (1..n)
    BY <2>1
  <2> QED BY <2>4, <2>5, Zenon
<1> HIDE DEF D
<1>7. ASSUME NEW k \in Nat, k \in G PROVE k + 1 \in G
  <2>1. PICK f : ReadsFields(f, D(k), base, fields)
    BY <1>7
  <2> DEFINE g == [s \in D(k + 1) |-> IF s = {} THEN base ELSE ReadField(f[s \ {Max(s)}], fields[Max(s)])]
  <2>2. \A s \in D(k) : g[s] = f[s]
    <3> SUFFICES ASSUME NEW s \in D(k) PROVE g[s] = f[s]
      OBVIOUS
    <3>1. s \in D(k + 1)
      BY <1>4
    <3>2. g[s] = IF s = {} THEN base ELSE ReadField(f[s \ {Max(s)}], fields[Max(s)])
      BY <3>1, Zenon
    <3>3. f[s] = IF s = {} THEN base ELSE ReadField(f[s \ {Max(s)}], fields[Max(s)])
      BY <2>1, Zenon DEF ReadsFields
    <3> QED BY <3>2, <3>3, Zenon
  <2>3. \A s \in D(k + 1) :
          g[s] = IF s = {} THEN base ELSE ReadField(g[s \ {Max(s)}], fields[Max(s)])
    <3> SUFFICES ASSUME NEW s \in D(k + 1)
                 PROVE g[s] = IF s = {} THEN base ELSE ReadField(g[s \ {Max(s)}], fields[Max(s)])
      OBVIOUS
    <3>1. g[s] = IF s = {} THEN base ELSE ReadField(f[s \ {Max(s)}], fields[Max(s)])
      BY Zenon
    <3> HIDE DEF g
    <3>2. CASE s = {}
      BY <3>1, <3>2, Zenon
    <3>3. CASE s # {}
      <4>1. g[s \ {Max(s)}] = f[s \ {Max(s)}]
        BY <1>5, <2>2, <3>3, Zenon
      <4> QED BY <3>1, <4>1, Zenon
    <3> QED BY <3>2, <3>3
  <2>4. g = [s \in D(k + 1) |-> g[s]]
    BY Zenon
  <2>5. ReadsFields(g, D(k + 1), base, fields)
    <3> HIDE DEF g
    <3> DEFINE h == [s \in D(k + 1) |-> IF s = {} THEN base ELSE ReadField(g[s \ {Max(s)}], fields[Max(s)])]
    <3>1. h = [s \in D(k + 1) |-> h[s]] /\ \A s \in D(k + 1) : h[s] = g[s]
      BY <2>3, Zenon
    <3>2. h = g
      <4> HIDE DEF h
      <4> QED BY <2>4, <3>1
    <3> QED BY <3>2, Zenon DEF ReadsFields
  <2> QED BY <2>5
<1>8. D(Cardinality(1..n)) = SUBSET (1..n)
  BY <1>1, Sizes DEF D
<1>9. Cardinality(1..n) \in G
  <2> HIDE DEF G
  <2> QED BY <1>1, <1>3, <1>7, SetInduction
<1>10. \E f : ReadsFields(f, D(Cardinality(1..n)), base, fields)
  BY <1>9, Zenon
<1> QED BY <1>8, <1>10, Zenon

FieldByField(f, n, base, fields) ==
  /\ f[1..0] = base
  /\ \A k \in 1..n : f[1..k] = ReadField(f[1..(k - 1)], fields[k])

LEMMA ReadsFieldsSteps ==
  ASSUME NEW n \in Nat, NEW base, NEW fields, NEW f, ReadsFields(f, SUBSET (1..n), base, fields)
  PROVE  FieldByField(f, n, base, fields)
<1>1. f[1..0] = base
  <2>1. 1..0 = {} /\ {} \in SUBSET (1..n)
    OBVIOUS
  <2>2. f[{}] = base
    BY <2>1, Zenon DEF ReadsFields
  <2> QED BY <2>1, <2>2, Zenon
<1>2. ASSUME NEW k \in 1..n PROVE f[1..k] = ReadField(f[1..(k - 1)], fields[k])
  <2>1. 1..k \in SUBSET (1..n) /\ 1..k # {} /\ k \in Nat /\ k # 0
    <3>1. \A i \in 1..k : i \in 1..n
      OBVIOUS
    <3> QED BY <3>1
  <2>2. Max(1..k) = k /\ (1..k) \ {k} = 1..(k - 1)
    BY <2>1, MaxOfInterval
  <2>3. f[1..k] = ReadField(f[(1..k) \ {Max(1..k)}], fields[Max(1..k)])
    BY <2>1, Zenon DEF ReadsFields
  <2> QED BY <2>2, <2>3, Zenon
<1> QED BY <1>1, <1>2, Zenon DEF FieldByField

\* Messages that can be read back: only the last field may fill the message.
ReadableMessage(fields, message) ==
  /\ fields = [i \in 1..Len(fields) |-> fields[i]] /\ Len(fields) \in Nat
  /\ \A i \in 1..Len(fields) :
       /\ Holds(fields[i], message[fields[i].name])
       /\ fields[i].type = "string_eof" => i = Len(fields)

LEMMA StructReadsBack ==
  ASSUME NEW fields, NEW message, ReadableMessage(fields, message)
  PROVE  /\ serialize_struct(<<>>, fields, message) \in ByteString
         /\ deserialize_struct(fields, serialize_struct(<<>>, fields, message))
              = Got([name \in Names(fields) |-> message[name]], <<>>)
<1> DEFINE n == Len(fields)
           values(k) == [i \in 1..k |-> message[fields[i].name]]
           seqs == [i \in DOMAIN fields |-> serialize_(fields[i], message[fields[i].name])]
           bytes == FlattenSeq(seqs)
<1>1. n \in Nat /\ DOMAIN fields = 1..n
  BY DEF ReadableMessage
<1>2. ASSUME NEW i \in 1..n
      PROVE  Holds(fields[i], message[fields[i].name]) /\ (fields[i].type = "string_eof" => i = n)
  BY DEF ReadableMessage
<1>3. seqs = [i \in 1..n |-> serialize_(fields[i], message[fields[i].name])]
  BY <1>1, Zenon
<1> HIDE DEF n, seqs
<1>4. seqs \in [1..n -> ByteString]
  <2>1. ASSUME NEW i \in 1..n PROVE serialize_(fields[i], message[fields[i].name]) \in ByteString
    <3>1. <<>> \in ByteString
      BY DEF ByteString
    <3> QED BY <1>2, <3>1, FieldReadsBack
  <2> QED BY <1>3, <2>1
<1>5. PICK r : Rests(r, n, Byte, seqs)
  <2>1. seqs \in [1..n -> Seq(Byte)]
    BY <1>4 DEF ByteString
  <2> QED BY <1>1, <2>1, FlattenRest, Zenon
<1>r. /\ r \in [0..n -> ByteString] /\ r[0] = bytes /\ r[n] = <<>>
      /\ \A k \in 1..n : r[k - 1] = seqs[k] \o r[k]
  BY <1>5, Zenon DEF Rests, ByteString
<1>6. serialize_struct(<<>>, fields, message) = bytes
  <2>1. serialize_struct(<<>>, fields, message) = <<>> \o bytes
    BY Zenon DEF serialize_struct, seqs
  <2>2. bytes \in Seq(Byte)
    BY <1>1, <1>r DEF ByteString
  <2> QED BY <2>1, <2>2, ConcatEmptySeq
<1> HIDE DEF bytes
<1>b. bytes \in ByteString
  BY <1>1, <1>r
<1>7. ASSUME NEW k \in 1..n PROVE deserialize_(fields[k], r[k - 1]) = Got(message[fields[k].name], r[k])
  <2>1. k \in 0..n
    OBVIOUS
  <2>2. r[k] \in ByteString /\ (fields[k].type = "string_eof" => r[k] = <<>>)
    BY <1>2, <1>r, <2>1
  <2>3. r[k - 1] = serialize_(fields[k], message[fields[k].name]) \o r[k]
    BY <1>3, <1>r
  <2> QED BY <1>2, <2>2, <2>3, FieldReadsBack
<1>8. ASSUME NEW k \in 1..n, NEW read, read = Got(values(k - 1), r[k - 1])
      PROVE  ReadField(read, fields[k]) = Got(values(k), r[k])
  <2>1. read.err = "ok" /\ read.value = values(k - 1) /\ read.rest = r[k - 1]
    BY <1>8 DEF Got
  <2> DEFINE got == deserialize_(fields[k], r[k - 1])
  <2>2. got = Got(message[fields[k].name], r[k])
    BY <1>7, Zenon
  <2> HIDE DEF got
  <2>3. got.err = "ok" /\ got.value = message[fields[k].name] /\ got.rest = r[k]
    BY <2>2 DEF Got
  <2>4. Append(values(k - 1), message[fields[k].name]) = values(k)
    <3> DEFINE value == [i \in 1..n |-> message[fields[i].name]]
               T == {value[i] : i \in 1..n}
    <3>1. values(k - 1) = [i \in 1..(k - 1) |-> value[i]]
      <4>1. \A i \in 1..(k - 1) : i \in 1..n
        BY <1>1
      <4> QED BY <4>1
    <3>2. values(k) = [i \in 1..k |-> value[i]]
      <4>1. \A i \in 1..k : i \in 1..n
        BY <1>1
      <4> QED BY <4>1
    <3>3. message[fields[k].name] = value[k]
      BY Zenon
    <3>4. \A i \in 1..n : value[i] \in T
      BY Zenon
    <3> HIDE DEF value, T
    <3>5. [i \in 1..(k - 1) |-> value[i]] \in Seq(T) /\ Len([i \in 1..(k - 1) |-> value[i]]) = k - 1
      <4>1. \A i \in 1..(k - 1) : i \in 1..n
        BY <1>1
      <4>2. [i \in 1..(k - 1) |-> value[i]] \in [1..(k - 1) -> T] /\ k - 1 \in Nat
        BY <1>1, <3>4, <4>1
      <4> QED BY <4>2
    <3>6. Append([i \in 1..(k - 1) |-> value[i]], value[k]) = [i \in 1..k |-> value[i]]
      BY <1>1, <3>5
    <3> HIDE DEF values
    <3> QED BY <3>1, <3>2, <3>3, <3>6, Zenon
  <2> HIDE DEF values
  <2> QED BY <2>1, <2>3, <2>4, Zenon DEF ReadField, Then, got
<1> DEFINE it == CHOOSE it : it = [s \in SUBSET (1..n) |->
                                     IF s = {} THEN Got(<<>>, bytes)
                                     ELSE ReadField(it[s \ {Max(s)}], fields[Max(s)])]
<1>9. ReadsFields(it, SUBSET (1..n), Got(<<>>, bytes), fields)
  <2>1. \E f : ReadsFields(f, SUBSET (1..n), Got(<<>>, bytes), fields)
    BY <1>1, ReadsFieldsExists, Zenon
  <2> QED BY <2>1, Zenon DEF ReadsFields
<1>10. FoldLeft(ReadField, Got(<<>>, bytes), fields) = it[1..n]
  BY <1>1, Zenon DEF FoldLeft, MapThenFoldSet
<1> HIDE DEF it
<1>s. /\ it[1..0] = Got(<<>>, bytes)
      /\ \A k \in 1..n : it[1..k] = ReadField(it[1..(k - 1)], fields[k])
  <2>1. FieldByField(it, n, Got(<<>>, bytes), fields)
    BY <1>1, <1>9, ReadsFieldsSteps, Zenon
  <2> QED BY <2>1, Zenon DEF FieldByField
<1>11. it[1..n] = Got(values(n), <<>>)
  <2> DEFINE G == {k \in Nat : k <= n => it[1..k] = Got(values(k), r[k])}
  <2>1. 0 \in G
    <3>1. values(0) = <<>>
      OBVIOUS
    <3> HIDE DEF values
    <3> QED BY <1>r, <1>s, <3>1
  <2>2. ASSUME NEW k \in Nat, k \in G PROVE k + 1 \in G
    <3> HIDE DEF values
    <3> SUFFICES ASSUME k + 1 <= n PROVE it[1..(k + 1)] = Got(values(k + 1), r[k + 1])
      OBVIOUS
    <3>1. k + 1 \in 1..n /\ (k + 1) - 1 = k
      BY <1>1
    <3>2. it[1..(k + 1)] = ReadField(it[1..k], fields[k + 1])
      BY <1>s, <3>1
    <3>3. it[1..k] = Got(values((k + 1) - 1), r[(k + 1) - 1])
      BY <1>1, <2>2, <3>1
    <3> QED BY <1>8, <3>1, <3>2, <3>3, Zenon
  <2>3. n \in G
    <3> HIDE DEF G
    <3> QED BY <1>1, <2>1, <2>2, SetInduction
  <2> HIDE DEF values
  <2> QED BY <1>1, <1>r, <2>3
<1>12. [name \in Names(fields) |-> values(n)[CHOOSE i \in DOMAIN fields : fields[i].name = name]]
         = [name \in Names(fields) |-> message[name]]
  <2> SUFFICES ASSUME NEW name \in Names(fields)
               PROVE values(n)[CHOOSE i \in DOMAIN fields : fields[i].name = name] = message[name]
    <3> HIDE DEF values
    <3> QED OBVIOUS
  <2> DEFINE i == CHOOSE j \in DOMAIN fields : fields[j].name = name
  <2>1. \E j \in DOMAIN fields : fields[j].name = name
    BY DEF Names
  <2>2. i \in DOMAIN fields /\ fields[i].name = name
    BY <2>1, Zenon
  <2> HIDE DEF i
  <2>3. values(n)[i] = message[fields[i].name]
    BY <1>1, <2>2, Zenon
  <2> QED BY <2>2, <2>3, Zenon DEF i
<1>13. deserialize_struct(fields, bytes) =
         Then(it[1..n], LAMBDA all, left :
           Got([name \in Names(fields) |-> all[CHOOSE i \in DOMAIN fields : fields[i].name = name]], left))
  <2> HIDE DEF values
  <2> QED BY <1>10, Zenon DEF deserialize_struct, ReadField
<1>14. it[1..n].err = "ok" /\ it[1..n].value = values(n) /\ it[1..n].rest = <<>>
  <2> HIDE DEF values
  <2> QED BY <1>11 DEF Got
<1> HIDE DEF values
<1>15. deserialize_struct(fields, bytes) =
         Got([name \in Names(fields) |-> values(n)[CHOOSE i \in DOMAIN fields : fields[i].name = name]], <<>>)
  <2> DEFINE all == it[1..n].value
  <2>1. deserialize_struct(fields, bytes) =
          Got([name \in Names(fields) |-> all[CHOOSE i \in DOMAIN fields : fields[i].name = name]],
              it[1..n].rest)
    BY <1>13, <1>14, Zenon DEF Then
  <2>2. all = values(n)
    BY <1>14
  <2> HIDE DEF all
  <2>3. [name \in Names(fields) |-> all[CHOOSE i \in DOMAIN fields : fields[i].name = name]]
          = [name \in Names(fields) |-> values(n)[CHOOSE i \in DOMAIN fields : fields[i].name = name]]
    BY <2>2
  <2> QED BY <1>14, <2>1, <2>3, Zenon
<1> QED BY <1>6, <1>b, <1>12, <1>15, Zenon

\* What a message is read back as.
ReadBack(command, fields, message) ==
  deserialize_message(fields, Skip(serialize_message(command, fields, message), Len(command)))
    = Got([name \in Names(fields) |-> message[name]], <<>>)

\* A message that serialize_message writes is read by deserialize_message, after
\* the number of its command, as the same message with nothing left over, for
\* every layout and all values that fit it, whatever their sizes.
THEOREM MessagesReadBack ==
  ASSUME NEW command, command \in ByteString, NEW fields, NEW message, ReadableMessage(fields, message)
  PROVE  ReadBack(command, fields, message)
<1> DEFINE bytes == serialize_struct(<<>>, fields, message)
           seqs == [i \in DOMAIN fields |-> serialize_(fields[i], message[fields[i].name])]
           all == [name \in Names(fields) |-> message[name]]
<1>1. bytes \in ByteString /\ deserialize_struct(fields, bytes) = Got(all, <<>>)
  BY StructReadsBack
<1>2. Layouts(fields, message)
  <2> SUFFICES ASSUME NEW i \in 1..Len(fields) PROVE Fits(fields[i], message[fields[i].name])
    BY DEF Layouts, ReadableMessage
  <2> DEFINE field == fields[i]
             value == message[field.name]
  <2>1. Holds(field, value)
    BY DEF ReadableMessage
  <2> HIDE DEF field, value
  <2>2. Fits(field, value)
    BY <2>1 DEF Holds, Fits, FieldTypes, Lenenc, ByteString, IsSeq
  <2> QED BY <2>2 DEF field, value
<1>3. serialize_message(command, fields, message) = serialize_struct(command, fields, message)
  <2>1. IsSeq(command)
    BY DEF IsSeq, ByteString
  <2> QED BY <1>2, <2>1, MessagesFillTheirBuffers, Zenon DEF Serialized
<1>4. serialize_struct(command, fields, message) = command \o FlattenSeq(seqs) /\ bytes = <<>> \o FlattenSeq(seqs)
  BY Zenon DEF serialize_struct
<1>5. FlattenSeq(seqs) = bytes
  <2>1. IsSeq(FlattenSeq(seqs))
    <3>1. /\ DOMAIN fields = 1..Len(fields) /\ Len(fields) \in Nat
          /\ \A i \in 1..Len(fields) : Fits(fields[i], message[fields[i].name])
      BY <1>2 DEF Layouts
    <3>2. \A i \in 1..Len(fields) : IsSeq(serialize_(fields[i], message[fields[i].name]))
      BY <3>1, FieldSize
    <3>3. /\ seqs = [i \in 1..Len(fields) |-> seqs[i]]
          /\ \A i \in 1..Len(fields) : IsSeq(seqs[i])
      BY <3>1, <3>2
    <3> HIDE DEF seqs
    <3> QED BY <3>1, <3>3, FlattenedSize
  <2> HIDE DEF seqs, bytes
  <2>2. PICK T : FlattenSeq(seqs) \in Seq(T)
    BY <2>1 DEF IsSeq
  <2> QED BY <1>4, <2>2, ConcatEmptySeq
<1> HIDE DEF seqs, bytes, all
<1>6. Skip(command \o bytes, Len(command)) = bytes
  BY <1>1, JoinedParts DEF ByteString, Skip
<1>7. deserialize_message(fields, bytes) = Got(all, <<>>)
  <2> DEFINE got == deserialize_struct(fields, bytes)
  <2>1. got.err = "ok" /\ got.value = all /\ got.rest = <<>>
    <3>1. got = Got(all, <<>>)
      BY <1>1, Zenon
    <3> HIDE DEF got
    <3> QED BY <3>1 DEF Got
  <2> HIDE DEF got
  <2>2. Complete(got) = Got(all, <<>>)
    BY <2>1, Zenon DEF Complete, Then
  <2> QED BY <2>2, Zenon DEF deserialize_message, got
<1> QED BY <1>3, <1>4, <1>5, <1>6, <1>7, Zenon DEF ReadBack, all
=============================================================================
