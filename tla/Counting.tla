------------------------------ MODULE Counting -------------------------------
(***************************************************************************)
(* Facts about numbers that the proofs about recursive definitions rest    *)
(* on: induction, as a fact about sets of numbers; the greatest and the    *)
(* least of a set; and the sums of the first numbers of a function, with   *)
(* which LinePaint measures a line.                                        *)
(***************************************************************************)
EXTENDS Sums, FiniteSetsExt, WellFoundedInduction, TLAPS

-----------------------------------------------------------------------------
\* Every set of natural numbers has a least one.
LEMMA LeastNumber ==
    ASSUME NEW T \in SUBSET Nat, T # {}
    PROVE  \E m \in T : \A n \in T : m <= n
<1>1. PICK m \in T : \A n \in T : ~ (<<n, m>> \in OpToRel(<, Nat))
  BY NatLessThanWellFounded, WFMin
<1>2. \A n, k \in Nat : n < k => <<n, k>> \in OpToRel(<, Nat)
  BY DEF OpToRel
<1>3. ASSUME NEW n \in T PROVE m <= n
  <2>1. ~ (n < m)
    BY <1>1, <1>2
  <2> QED BY <2>1
<1> QED BY <1>3

\* A set of numbers that holds 0, and the successor of every number in it, is Nat.
LEMMA InductionOnSet ==
    ASSUME NEW T \in SUBSET Nat, 0 \in T, \A n \in T : n + 1 \in T
    PROVE  T = Nat
<1> SUFFICES ASSUME Nat \ T # {} PROVE FALSE
  OBVIOUS
<1>1. PICK m \in Nat \ T : \A n \in Nat \ T : m <= n
  BY LeastNumber
<1>2. m # 0 /\ m - 1 \in Nat
  BY <1>1
<1>3. m - 1 \in T
  BY <1>1, <1>2
<1> QED BY <1>1, <1>3

\* Min chooses the least of a set of natural numbers.
LEMMA MinOfNumbers ==
    ASSUME NEW S \in SUBSET Nat, S # {}
    PROVE  Min(S) \in S /\ \A x \in S : Min(S) <= x
<1>1. \E m \in S : \A x \in S : m <= x
  BY LeastNumber
<1> QED BY <1>1 DEF Min

\* Max chooses the greatest of a set of numbers that has one.
LEMMA MaxOfNumbers ==
    ASSUME NEW S \in SUBSET Int, NEW m \in S, \A x \in S : x <= m
    PROVE  Max(S) \in S /\ \A x \in S : x <= Max(S)
<1>1. \E y \in S : \A x \in S : y >= x
  OBVIOUS
<1> QED BY <1>1 DEF Max

\* A set of numbers with a bound has a greatest one.
LEMMA GreatestNumber ==
    ASSUME NEW S \in SUBSET Int, NEW b \in Int, S # {}, \A x \in S : x <= b
    PROVE  \E m \in S : \A x \in S : x <= m
<1> DEFINE T == {n \in Nat : b - n \in S}
<1>1. T # {} /\ T \in SUBSET Nat
  <2>1. PICK x \in S : TRUE
    OBVIOUS
  <2>2. b - x \in T
    BY <2>1
  <2> QED BY <2>2
<1>2. PICK m \in T : \A n \in T : m <= n
  BY <1>1, LeastNumber
<1>3. ASSUME NEW x \in S PROVE x <= b - m
  <2>1. b - x \in T
    OBVIOUS
  <2>2. m <= b - x
    BY <1>2, <2>1
  <2> QED BY <2>2, <1>2
<1> QED BY <1>2, <1>3

\* The greatest of two numbers.
LEMMA MaxOfTwo ==
    ASSUME NEW a \in Int, NEW b \in Int
    PROVE  Max({a, b}) = IF a >= b THEN a ELSE b
<1>1. \E m \in {a, b} : \A x \in {a, b} : x <= m
  OBVIOUS
<1>2. Max({a, b}) \in {a, b} /\ \A x \in {a, b} : x <= Max({a, b})
  BY <1>1, MaxOfNumbers
<1> QED BY <1>2

\* The least of two numbers.
LEMMA MinOfTwo ==
    ASSUME NEW a \in Nat, NEW b \in Nat
    PROVE  Min({a, b}) = IF a <= b THEN a ELSE b
<1>1. Min({a, b}) \in {a, b} /\ \A x \in {a, b} : Min({a, b}) <= x
  BY MinOfNumbers
<1> QED BY <1>1

-----------------------------------------------------------------------------
\* f holds the sums of the first numbers of w, up to k of them.
IsSum(w, k, f) == f = [i \in 0 .. k |-> IF i = 0 THEN 0 ELSE f[i - 1] + w[i]]

\* The sums exist: those up to k + 1 are those up to k and one more.
LEMMA SumExists ==
    ASSUME NEW w, NEW k \in Nat
    PROVE  \E f : IsSum(w, k, f)
<1> DEFINE T == {n \in Nat : \E f : IsSum(w, n, f)}
<1>1. 0 \in T
  <2>1. IsSum(w, 0, [i \in 0 .. 0 |-> 0])
    BY DEF IsSum
  <2> QED BY <2>1
<1>2. ASSUME NEW n \in T PROVE n + 1 \in T
  <2>1. PICK f : IsSum(w, n, f)
    OBVIOUS
  <2> DEFINE g == [i \in 0 .. n + 1 |-> IF i = n + 1 THEN f[n] + w[n + 1] ELSE f[i]]
  <2>2. IsSum(w, n + 1, g)
    <3>1. \A i \in 0 .. n : f[i] = IF i = 0 THEN 0 ELSE f[i - 1] + w[i]
      BY <2>1 DEF IsSum
    <3>2. ASSUME NEW i \in 0 .. n + 1 PROVE g[i] = IF i = 0 THEN 0 ELSE g[i - 1] + w[i]
      <4>1. CASE i = n + 1
        BY <4>1
      <4>2. CASE i \in 0 .. n
        BY <3>1, <4>2
      <4> QED BY <4>1, <4>2
    <3> HIDE DEF g
    <3>3. g = [i \in 0 .. n + 1 |-> g[i]]
      BY DEF g
    <3> QED BY <3>2, <3>3 DEF IsSum
  <2> QED BY <2>2
<1> HIDE DEF T
<1>3. T \in SUBSET Nat
  BY DEF T
<1>4. T = Nat
  BY <1>1, <1>2, <1>3, InductionOnSet
<1> QED BY <1>4 DEF T

\* SumTo is the last of the sums.
LEMMA SumUnfolds ==
    ASSUME NEW w, NEW k \in Nat
    PROVE  \E f : IsSum(w, k, f) /\ SumTo(w, k) = f[k]
<1> DEFINE f == CHOOSE g : g = [i \in 0 .. k |-> IF i = 0 THEN 0 ELSE g[i - 1] + w[i]]
<1>1. \E g : g = [i \in 0 .. k |-> IF i = 0 THEN 0 ELSE g[i - 1] + w[i]]
  BY SumExists DEF IsSum
<1>2. f = [i \in 0 .. k |-> IF i = 0 THEN 0 ELSE f[i - 1] + w[i]]
  BY <1>1, Zenon
<1>3. SumTo(w, k) = f[k]
  BY Zenon DEF SumTo
<1> QED BY <1>2, <1>3, Zenon DEF IsSum

\* w and v have the same first k numbers.
Agree(w, v, k) == \A i \in 1 .. k : w[i] = v[i]

\* Sums of functions that agree are equal, however far they go.
LEMMA SumsAgree ==
    ASSUME NEW w, NEW v, NEW k \in Nat, NEW m \in Nat, NEW f, NEW g,
           IsSum(w, k, f), IsSum(v, m, g), k <= m, Agree(w, v, k)
    PROVE  f[k] = g[k]
<1> DEFINE T == {i \in Nat : i <= k => f[i] = g[i]}
<1>1. /\ \A i \in 0 .. k : f[i] = IF i = 0 THEN 0 ELSE f[i - 1] + w[i]
      /\ \A i \in 0 .. m : g[i] = IF i = 0 THEN 0 ELSE g[i - 1] + v[i]
  BY DEF IsSum
<1>2. 0 \in T
  BY <1>1
<1>3. ASSUME NEW i \in T PROVE i + 1 \in T
  <2> SUFFICES ASSUME i + 1 <= k PROVE f[i + 1] = g[i + 1]
    OBVIOUS
  <2>1. f[i + 1] = f[i] + w[i + 1] /\ g[i + 1] = g[i] + v[i + 1]
    <3>1. PICK j \in Nat : j = i + 1
      OBVIOUS
    <3>2. j \in 0 .. k /\ j \in 0 .. m /\ j # 0 /\ j - 1 = i
      BY <3>1
    <3>3. f[j] = f[j - 1] + w[j] /\ g[j] = g[j - 1] + v[j]
      BY <1>1, <3>2
    <3> QED BY <3>1, <3>2, <3>3
  <2>2. f[i] = g[i] /\ w[i + 1] = v[i + 1]
    BY DEF Agree
  <2> QED BY <2>1, <2>2
<1> HIDE DEF T
<1>4. T \in SUBSET Nat
  BY DEF T
<1>5. T = Nat
  BY <1>2, <1>3, <1>4, InductionOnSet
<1> QED BY <1>5 DEF T

\* Functions that agree have the same sums.
LEMMA SumSame ==
    ASSUME NEW w, NEW v, NEW k \in Nat, \A i \in 1 .. k : w[i] = v[i]
    PROVE  SumTo(w, k) = SumTo(v, k)
<1>1. PICK f : IsSum(w, k, f) /\ SumTo(w, k) = f[k]
  BY SumUnfolds
<1>2. PICK g : IsSum(v, k, g) /\ SumTo(v, k) = g[k]
  BY SumUnfolds
<1>3. Agree(w, v, k)
  BY DEF Agree
<1>4. f[k] = g[k]
  BY <1>1, <1>2, <1>3, SumsAgree
<1> QED BY <1>1, <1>2, <1>4

\* The sum of no numbers, and of one number more.
LEMMA SumZero ==
    ASSUME NEW w
    PROVE  SumTo(w, 0) = 0
<1>1. PICK f : IsSum(w, 0, f) /\ SumTo(w, 0) = f[0]
  BY SumUnfolds
<1> QED BY <1>1 DEF IsSum

LEMMA SumNext ==
    ASSUME NEW w, NEW k \in Nat
    PROVE  SumTo(w, k + 1) = SumTo(w, k) + w[k + 1]
<1>1. PICK f : IsSum(w, k, f) /\ SumTo(w, k) = f[k]
  BY SumUnfolds
<1>2. PICK g : IsSum(w, k + 1, g) /\ SumTo(w, k + 1) = g[k + 1]
  BY SumUnfolds
<1>3. f[k] = g[k]
  <2>1. Agree(w, w, k) /\ k + 1 \in Nat /\ k <= k + 1
    BY DEF Agree
  <2> QED BY <1>1, <1>2, <2>1, SumsAgree
<1>4. g[k + 1] = g[k] + w[k + 1]
  BY <1>2 DEF IsSum
<1> QED BY <1>1, <1>2, <1>3, <1>4

\* Sums of natural numbers are natural numbers.
LEMMA SumNat ==
    ASSUME NEW w, NEW k \in Nat, \A i \in 1 .. k : w[i] \in Nat
    PROVE  SumTo(w, k) \in Nat
<1> DEFINE T == {n \in Nat : n <= k => SumTo(w, n) \in Nat}
<1>1. 0 \in T
  BY SumZero
<1>2. ASSUME NEW n \in T PROVE n + 1 \in T
  <2> SUFFICES ASSUME n + 1 <= k PROVE SumTo(w, n + 1) \in Nat
    OBVIOUS
  <2>1. SumTo(w, n) \in Nat /\ w[n + 1] \in Nat
    OBVIOUS
  <2> QED BY <2>1, SumNext
<1> HIDE DEF T
<1>3. T \in SUBSET Nat
  BY DEF T
<1>4. T = Nat
  BY <1>1, <1>2, <1>3, InductionOnSet
<1> QED BY <1>4 DEF T

\* The numbers from m + 1 to m + k add the sum of a function that holds just those.
LEMMA SumShift ==
    ASSUME NEW w, NEW v, NEW m \in Nat, NEW k \in Nat,
           \A i \in 1 .. m + k : w[i] \in Nat, \A i \in 1 .. k : v[i] = w[m + i]
    PROVE  SumTo(w, m + k) = SumTo(w, m) + SumTo(v, k)
<1> DEFINE T == {n \in Nat : n <= k => SumTo(w, m + n) = SumTo(w, m) + SumTo(v, n)}
<1>1. 0 \in T
  <2>1. SumTo(w, m) \in Nat
    BY SumNat
  <2> QED BY <2>1, SumZero
<1>2. ASSUME NEW n \in T PROVE n + 1 \in T
  <2> SUFFICES ASSUME n + 1 <= k
               PROVE  SumTo(w, m + (n + 1)) = SumTo(w, m) + SumTo(v, n + 1)
    OBVIOUS
  <2>1. SumTo(w, m + n) = SumTo(w, m) + SumTo(v, n)
    OBVIOUS
  <2>2. SumTo(w, (m + n) + 1) = SumTo(w, m + n) + w[(m + n) + 1]
    BY SumNext
  <2>3. SumTo(v, n + 1) = SumTo(v, n) + v[n + 1]
    BY SumNext
  <2>4. v[n + 1] = w[m + (n + 1)] /\ w[m + (n + 1)] \in Nat
    OBVIOUS
  <2>5. SumTo(w, m) \in Nat
    BY SumNat
  <2>6. SumTo(v, n) \in Nat
    <3>1. \A i \in 1 .. n : v[i] \in Nat
      OBVIOUS
    <3> QED BY <3>1, SumNat
  <2>7. m + (n + 1) = (m + n) + 1
    OBVIOUS
  <2> QED BY <2>1, <2>2, <2>3, <2>4, <2>5, <2>6, <2>7
<1> HIDE DEF T
<1>3. T \in SUBSET Nat
  BY DEF T
<1>4. T = Nat
  BY <1>1, <1>2, <1>3, InductionOnSet
<1> QED BY <1>4 DEF T

\* Sums of positive numbers grow.
LEMMA SumGrows ==
    ASSUME NEW w, NEW m \in Nat, NEW k \in Nat, m < k, \A i \in 1 .. k : w[i] \in Nat \ {0}
    PROVE  SumTo(w, m) < SumTo(w, k)
<1> DEFINE T == {n \in Nat : m < n /\ n <= k => SumTo(w, m) < SumTo(w, n)}
<1>1. 0 \in T
  OBVIOUS
<1>2. ASSUME NEW n \in T PROVE n + 1 \in T
  <2> SUFFICES ASSUME m < n + 1, n + 1 <= k PROVE SumTo(w, m) < SumTo(w, n + 1)
    OBVIOUS
  <2>1. SumTo(w, m) \in Nat /\ SumTo(w, n) \in Nat
    <3>1. (\A i \in 1 .. m : w[i] \in Nat) /\ (\A i \in 1 .. n : w[i] \in Nat)
      OBVIOUS
    <3> QED BY <3>1, SumNat
  <2>2. SumTo(w, n + 1) = SumTo(w, n) + w[n + 1]
    BY SumNext
  <2>3. w[n + 1] \in Nat \ {0}
    OBVIOUS
  <2>4. m = n \/ SumTo(w, m) < SumTo(w, n)
    OBVIOUS
  <2> QED BY <2>1, <2>2, <2>3, <2>4
<1> HIDE DEF T
<1>3. T \in SUBSET Nat
  BY DEF T
<1>4. T = Nat
  BY <1>1, <1>2, <1>3, InductionOnSet
<1> QED BY <1>4 DEF T

\* The sum of k ones.
LEMMA SumOfOnes ==
    ASSUME NEW w, NEW k \in Nat, \A i \in 1 .. k : w[i] = 1
    PROVE  SumTo(w, k) = k
<1> DEFINE T == {n \in Nat : n <= k => SumTo(w, n) = n}
<1>1. 0 \in T
  BY SumZero
<1>2. ASSUME NEW n \in T PROVE n + 1 \in T
  <2> SUFFICES ASSUME n + 1 <= k PROVE SumTo(w, n + 1) = n + 1
    OBVIOUS
  <2>1. SumTo(w, n) = n /\ w[n + 1] = 1
    OBVIOUS
  <2> QED BY <2>1, SumNext
<1> HIDE DEF T
<1>3. T \in SUBSET Nat
  BY DEF T
<1>4. T = Nat
  BY <1>1, <1>2, <1>3, InductionOnSet
<1> QED BY <1>4 DEF T

-----------------------------------------------------------------------------
(* Functions on 0 .. n given by their first value and by a step.            *)

\* step[i] gives the i-th value of f from the one before it, and takes no value out of S.
Follows(f, n, a, step) == f[0] = a /\ \A i \in 1 .. n : f[i] = step[i][f[i - 1]]
StaysIn(S, n, step) == \A i \in 1 .. n : \A s \in S : step[i][s] \in S

\* Such a function exists, if the step stays in a set, and has its values there.
LEMMA Recursion ==
    ASSUME NEW n \in Nat, NEW S, NEW a \in S, NEW step, StaysIn(S, n, step)
    PROVE  \E f : f \in [0 .. n -> S] /\ Follows(f, n, a, step)
<1>0. \A i \in 1 .. n : \A s \in S : step[i][s] \in S
  BY DEF StaysIn
<1> DEFINE IsFirst(k, f) == /\ f \in [0 .. k -> S] /\ f[0] = a
                            /\ \A i \in 1 .. k : f[i] = step[i][f[i - 1]]
           T == {k \in Nat : k <= n => \E f : IsFirst(k, f)}
<1>1. 0 \in T
  <2>1. IsFirst(0, [i \in 0 .. 0 |-> a])
    OBVIOUS
  <2> QED BY <2>1
<1>2. ASSUME NEW k \in T PROVE k + 1 \in T
  <2> SUFFICES ASSUME k + 1 <= n PROVE \E f : IsFirst(k + 1, f)
    OBVIOUS
  <2>1. PICK f : IsFirst(k, f)
    OBVIOUS
  <2> DEFINE g == [i \in 0 .. k + 1 |-> IF i = k + 1 THEN step[k + 1][f[k]] ELSE f[i]]
  <2>2. f[k] \in S /\ step[k + 1][f[k]] \in S
    BY <1>0, <2>1
  <2>3. g \in [0 .. k + 1 -> S] /\ g[0] = a
    BY <2>1, <2>2
  <2>4. ASSUME NEW i \in 1 .. k + 1 PROVE g[i] = step[i][g[i - 1]]
    <3>1. CASE i = k + 1
      BY <3>1
    <3>2. CASE i \in 1 .. k
      BY <2>1, <3>2
    <3> QED BY <3>1, <3>2
  <2> QED BY <2>3, <2>4
<1> HIDE DEF T
<1>3. T = Nat
  BY <1>1, <1>2, InductionOnSet DEF T
<1>4. PICK f : IsFirst(n, f)
  BY <1>3 DEF T
<1> QED BY <1>4 DEF Follows
=============================================================================
