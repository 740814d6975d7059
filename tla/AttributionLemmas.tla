------------------------- MODULE AttributionLemmas -------------------------
(***************************************************************************)
(* What distribute_dim hands out, for every amount and all weights: the    *)
(* shares and the residual add up to the amount, and every share fits the  *)
(* counter.  The sums are recursive functions; what they compute is shown  *)
(* by induction, with a set of positions in the place of the predicate.    *)
(***************************************************************************)
EXTENDS Attribution, WellFoundedInduction, SequenceTheorems, FiniteSetTheorems, TLAPS

-----------------------------------------------------------------------------
(***************************************************************************)
(* Induction over the positions of a sequence.                             *)
(***************************************************************************)

\* A set of natural numbers that is not empty has a least member.
LEMMA LeastNat ==
  ASSUME NEW T, T \subseteq Nat, T # {}
  PROVE  \E m \in T : \A k \in T : m <= k
<1> DEFINE R == OpToRel(<, Nat)
<1>1. IsWellFoundedOn(R, Nat)
  BY NatLessThanWellFounded
<1> HIDE DEF R
<1>2. PICK x \in T : \A y \in T : ~ (<<y, x>> \in R)
  BY <1>1, WFMin
<1>3. \A y \in T : ~ (y < x)
  BY <1>2 DEF R, OpToRel
<1> QED BY <1>3

\* Induction up to n, for a set.
LEMMA UpTo ==
  ASSUME NEW n \in Nat, NEW T, 0 \in T, \A i \in 1..n : i - 1 \in T => i \in T
  PROVE  n \in T /\ \A i \in 0..n : i \in T
<1> DEFINE F == {i \in 0..n : i \notin T}
<1> SUFFICES ASSUME F # {} PROVE FALSE
  OBVIOUS
<1>1. PICK m \in F : \A k \in F : m <= k
  <2>1. F \subseteq Nat
    OBVIOUS
  <2> HIDE DEF F
  <2> QED BY <2>1, LeastNat
<1>2. m \in 1..n /\ m - 1 \in 0..n /\ m - 1 \notin F
  BY <1>1
<1> QED BY <1>1, <1>2

\* A function on an initial segment of the positive numbers is a sequence.
LEMMA SeqOf ==
  ASSUME NEW S, NEW n \in Nat, NEW f \in [1..n -> S]
  PROVE  f \in Seq(S)
BY SeqDef

-----------------------------------------------------------------------------
(***************************************************************************)
(* Sums.                                                                   *)
(***************************************************************************)
IsSum(r, s, n) == r = [i \in 0..n |-> IF i = 0 THEN 0 ELSE r[i - 1] + s[i]]

\* The recursive function of SumSeq exists.
LEMMA SumExists ==
  ASSUME NEW s, NEW N \in Nat
  PROVE  \E r : IsSum(r, s, N)
<1> DEFINE T == {n \in Nat : \E r : IsSum(r, s, n)}
<1>1. 0 \in T
  <2>1. IsSum([i \in 0..0 |-> 0], s, 0)
    BY DEF IsSum
  <2> QED BY <2>1
<1>2. ASSUME NEW m \in 1..N, m - 1 \in T
      PROVE  m \in T
  <2>1. PICK r : IsSum(r, s, m - 1)
    BY <1>2
  <2> DEFINE q == [i \in 0..m |-> IF i = m THEN r[m - 1] + s[m] ELSE r[i]]
  <2>2. ASSUME NEW i \in 0..m
        PROVE  q[i] = IF i = 0 THEN 0 ELSE q[i - 1] + s[i]
    <3>1. CASE i = m
      <4>1. m - 1 \in 0..m /\ m - 1 # m
        OBVIOUS
      <4>2. q[m - 1] = r[m - 1] /\ q[m] = r[m - 1] + s[m]
        BY <4>1
      <4> QED BY <3>1, <4>2
    <3>2. CASE i # m /\ i = 0
      BY <2>1, <3>2 DEF IsSum
    <3>3. CASE i # m /\ i # 0
      <4>1. i \in 0..(m - 1) /\ i - 1 \in 0..m /\ i - 1 # m
        BY <3>3
      <4>2. q[i] = r[i] /\ q[i - 1] = r[i - 1]
        BY <3>3, <4>1
      <4>3. r[i] = r[i - 1] + s[i]
        BY <2>1, <3>3, <4>1 DEF IsSum
      <4> QED BY <3>3, <4>2, <4>3
    <3> QED BY <3>1, <3>2, <3>3
  <2>3. IsSum(q, s, m)
    BY <2>2 DEF IsSum
  <2> QED BY <2>3
<1> HIDE DEF T
<1>3. N \in T
  BY <1>1, <1>2, UpTo
<1> QED BY <1>3 DEF T

\* The running sums of n natural numbers.
LEMMA RunningSum ==
  ASSUME NEW n \in Nat, NEW s \in [1..n -> Nat]
  PROVE  \E r \in [0..n -> Nat] :
           /\ r[0] = 0 /\ r[n] = SumSeq(s)
           /\ \A i \in 1..n : r[i] = r[i - 1] + s[i]
<1> DEFINE sum == CHOOSE r : r = [i \in 0..Len(s) |-> IF i = 0 THEN 0 ELSE r[i - 1] + s[i]]
<1>1. Len(s) = n
  BY SeqOf, LenProperties
<1>2. SumSeq(s) = sum[n]
  BY <1>1, Zenon DEF SumSeq
<1>3. IsSum(sum, s, n)
  <2>1. \E r : IsSum(r, s, n)
    BY SumExists
  <2> QED BY <1>1, <2>1, Zenon DEF IsSum
<1> HIDE DEF sum
<1>4. sum[0] = 0 /\ \A i \in 1..n : sum[i] = sum[i - 1] + s[i]
  BY <1>3 DEF IsSum
<1> DEFINE T == {i \in 0..n : sum[i] \in Nat}
<1>5. 0 \in T
  BY <1>4
<1>6. ASSUME NEW i \in 1..n, i - 1 \in T PROVE i \in T
  BY <1>4, <1>6
<1>7. \A i \in 0..n : i \in T
  <2> HIDE DEF T
  <2> QED BY <1>5, <1>6, UpTo
<1>8. sum \in [0..n -> Nat]
  <2>1. DOMAIN sum = 0..n /\ sum = [i \in 0..n |-> sum[i]]
    BY <1>3 DEF IsSum
  <2> QED BY <1>7, <2>1
<1> QED BY <1>2, <1>4, <1>8

\* The sum of natural numbers is one, and no term exceeds it.
LEMMA SumBounds ==
  ASSUME NEW n \in Nat, NEW s \in [1..n -> Nat]
  PROVE  SumSeq(s) \in Nat /\ \A i \in 1..n : s[i] <= SumSeq(s)
<1>1. PICK r \in [0..n -> Nat] :
        /\ r[0] = 0 /\ r[n] = SumSeq(s)
        /\ \A i \in 1..n : r[i] = r[i - 1] + s[i]
  BY RunningSum
<1> DEFINE T == {k \in 0..n : \A i \in 1..k : s[i] <= r[k]}
<1>2. 0 \in T
  OBVIOUS
<1>3. ASSUME NEW k \in 1..n, k - 1 \in T PROVE k \in T
  <2>1. k - 1 \in 0..n /\ r[k - 1] \in Nat /\ r[k] \in Nat /\ s[k] \in Nat
    OBVIOUS
  <2>2. r[k - 1] <= r[k] /\ s[k] <= r[k]
    BY <1>1, <2>1
  <2>3. ASSUME NEW i \in 1..k PROVE s[i] <= r[k]
    <3>1. CASE i = k
      BY <2>2, <3>1
    <3>2. CASE i # k
      <4>1. i \in 1..(k - 1) /\ s[i] \in Nat
        BY <3>2
      <4>2. s[i] <= r[k - 1]
        BY <1>3, <4>1
      <4> QED BY <2>1, <2>2, <4>1, <4>2
    <3> QED BY <3>1, <3>2
  <2> QED BY <2>3
<1>4. n \in T
  <2> HIDE DEF T
  <2> QED BY <1>2, <1>3, UpTo
<1>5. r[n] \in Nat /\ \A i \in 1..n : s[i] <= r[n]
  BY <1>4
<1> QED BY <1>1, <1>5

\* One more term adds itself to a sum.
LEMMA SumAppend ==
  ASSUME NEW n \in Nat, NEW u \in [1..n -> Nat], NEW w \in [1..(n + 1) -> Nat],
         \A i \in 1..n : w[i] = u[i]
  PROVE  SumSeq(w) = SumSeq(u) + w[n + 1]
<1>1. PICK p \in [0..n -> Nat] :
        p[0] = 0 /\ p[n] = SumSeq(u) /\ \A i \in 1..n : p[i] = p[i - 1] + u[i]
  BY RunningSum
<1>2. PICK r \in [0..(n + 1) -> Nat] :
        /\ r[0] = 0 /\ r[n + 1] = SumSeq(w)
        /\ \A i \in 1..(n + 1) : r[i] = r[i - 1] + w[i]
  <2>1. n + 1 \in Nat
    OBVIOUS
  <2> QED BY <2>1, RunningSum
<1> DEFINE T == {k \in 0..n : r[k] = p[k]}
<1>3. 0 \in T
  BY <1>1, <1>2
<1>4. ASSUME NEW k \in 1..n, k - 1 \in T PROVE k \in T
  <2>1. k \in 0..n /\ k \in 1..(n + 1) /\ r[k - 1] = p[k - 1] /\ w[k] = u[k]
    BY <1>4
  <2> QED BY <1>1, <1>2, <2>1
<1>5. n \in T
  <2> HIDE DEF T
  <2> QED BY <1>3, <1>4, UpTo
<1>6. r[n + 1] = r[n] + w[n + 1]
  BY <1>2
<1> QED BY <1>1, <1>2, <1>5, <1>6

\* Sums add up term by term.
LEMMA SumOfSums ==
  ASSUME NEW n \in Nat, NEW u \in [1..n -> Nat], NEW v \in [1..n -> Nat],
         NEW w \in [1..n -> Nat], \A i \in 1..n : w[i] = u[i] + v[i]
  PROVE  SumSeq(w) = SumSeq(u) + SumSeq(v)
<1>1. PICK p \in [0..n -> Nat] :
        p[0] = 0 /\ p[n] = SumSeq(u) /\ \A i \in 1..n : p[i] = p[i - 1] + u[i]
  BY RunningSum
<1>2. PICK q \in [0..n -> Nat] :
        q[0] = 0 /\ q[n] = SumSeq(v) /\ \A i \in 1..n : q[i] = q[i - 1] + v[i]
  BY RunningSum
<1>3. PICK r \in [0..n -> Nat] :
        r[0] = 0 /\ r[n] = SumSeq(w) /\ \A i \in 1..n : r[i] = r[i - 1] + w[i]
  BY RunningSum
<1> DEFINE T == {k \in 0..n : r[k] = p[k] + q[k]}
<1>4. 0 \in T
  BY <1>1, <1>2, <1>3
<1>5. ASSUME NEW k \in 1..n, k - 1 \in T PROVE k \in T
  <2>1. /\ k - 1 \in 0..n /\ k \in 0..n
        /\ p[k - 1] \in Nat /\ q[k - 1] \in Nat /\ u[k] \in Nat /\ v[k] \in Nat
    OBVIOUS
  <2>2. r[k] = (p[k - 1] + q[k - 1]) + (u[k] + v[k])
    BY <1>3, <1>5
  <2>3. p[k] + q[k] = (p[k - 1] + u[k]) + (q[k - 1] + v[k])
    BY <1>1, <1>2
  <2> QED BY <2>1, <2>2, <2>3
<1>6. n \in T
  <2> HIDE DEF T
  <2> QED BY <1>4, <1>5, UpTo
<1> QED BY <1>1, <1>2, <1>3, <1>6

Scaled(n, c, u, w) == \A i \in 1..n : w[i] = c * u[i]
ScaledSum(c, u, w) == SumSeq(w) = c * SumSeq(u)

\* A common factor comes out of a sum.
LEMMA SumScaled ==
  ASSUME NEW n \in Nat, NEW u \in [1..n -> Nat], NEW w \in [1..n -> Nat], NEW c \in Nat,
         Scaled(n, c, u, w)
  PROVE  ScaledSum(c, u, w)
<1>1. PICK p \in [0..n -> Nat] :
        p[0] = 0 /\ p[n] = SumSeq(u) /\ \A i \in 1..n : p[i] = p[i - 1] + u[i]
  BY RunningSum
<1>2. PICK r \in [0..n -> Nat] :
        r[0] = 0 /\ r[n] = SumSeq(w) /\ \A i \in 1..n : r[i] = r[i - 1] + w[i]
  BY RunningSum
<1>3. ASSUME NEW x \in Nat, NEW y \in Nat PROVE c * (x + y) = c * x + c * y
  OBVIOUS
<1> DEFINE T == {k \in 0..n : r[k] = c * p[k]}
<1>4. 0 \in T
  BY <1>1, <1>2
<1>5. ASSUME NEW k \in 1..n, k - 1 \in T PROVE k \in T
  <2>1. k - 1 \in 0..n /\ k \in 0..n /\ p[k - 1] \in Nat /\ u[k] \in Nat
    OBVIOUS
  <2>2. r[k] = c * p[k - 1] + c * u[k]
    BY <1>2, <1>5 DEF Scaled
  <2>3. c * p[k] = c * (p[k - 1] + u[k])
    BY <1>1
  <2> QED BY <1>3, <2>1, <2>2, <2>3
<1>6. n \in T
  <2> HIDE DEF T
  <2> QED BY <1>4, <1>5, UpTo
<1> QED BY <1>1, <1>2, <1>6 DEF ScaledSum

\* A sum of n terms that are each at most c.
LEMMA SumAtMost ==
  ASSUME NEW n \in Nat, NEW u \in [1..n -> Nat], NEW c \in Nat, \A i \in 1..n : u[i] <= c
  PROVE  SumSeq(u) <= c * n
<1>1. PICK p \in [0..n -> Nat] :
        p[0] = 0 /\ p[n] = SumSeq(u) /\ \A i \in 1..n : p[i] = p[i - 1] + u[i]
  BY RunningSum
<1>2. ASSUME NEW k \in Nat PROVE c * (k - 1) + c = c * k /\ c * k \in Nat
  OBVIOUS
<1>3. c * 0 = 0
  OBVIOUS
<1> DEFINE T == {k \in 0..n : p[k] <= c * k}
<1>4. 0 \in T
  BY <1>1, <1>3
<1>5. ASSUME NEW k \in 1..n, k - 1 \in T PROVE k \in T
  <2>1. /\ k \in 0..n /\ k \in Nat /\ k - 1 \in Nat
        /\ p[k - 1] \in Nat /\ u[k] \in Nat /\ u[k] <= c
    OBVIOUS
  <2>2. p[k] = p[k - 1] + u[k] /\ p[k - 1] <= c * (k - 1)
    BY <1>1, <1>5
  <2>3. c * (k - 1) + c = c * k /\ c * k \in Nat /\ c * (k - 1) \in Nat
    BY <1>2, <2>1
  <2>4. \A a, b, x, y, z \in Nat : a <= b /\ x <= z /\ b + z = y => a + x <= y
    OBVIOUS
  <2>5. p[k] <= c * k
    BY <2>1, <2>2, <2>3, <2>4
  <2> QED BY <2>1, <2>5
<1>6. n \in T
  <2> HIDE DEF T
  <2> QED BY <1>4, <1>5, UpTo
<1> QED BY <1>1, <1>6

\* A sum of ones and zeros counts the ones.
LEMMA SumCounts ==
  ASSUME NEW n \in Nat, NEW u \in [1..n -> {0, 1}]
  PROVE  SumSeq(u) = Cardinality({i \in 1..n : u[i] = 1})
<1> DEFINE ones(k) == {i \in 1..k : u[i] = 1}
<1>0. u \in [1..n -> Nat]
  OBVIOUS
<1>1. PICK p \in [0..n -> Nat] :
        p[0] = 0 /\ p[n] = SumSeq(u) /\ \A i \in 1..n : p[i] = p[i - 1] + u[i]
  BY <1>0, RunningSum
<1> DEFINE T == {k \in 0..n : IsFiniteSet(ones(k)) /\ p[k] = Cardinality(ones(k))}
<1>2. 0 \in T
  <2>1. ones(0) = {}
    OBVIOUS
  <2>2. IsFiniteSet(ones(0)) /\ Cardinality(ones(0)) = 0
    BY <2>1, FS_EmptySet, Zenon
  <2> QED BY <1>1, <2>2
<1>3. ASSUME NEW k \in 1..n, k - 1 \in T PROVE k \in T
  <2>1. /\ k \in 0..n /\ IsFiniteSet(ones(k - 1)) /\ p[k - 1] = Cardinality(ones(k - 1))
        /\ p[k] = p[k - 1] + u[k] /\ p[k - 1] \in Nat
    BY <1>1, <1>3
  <2>2. CASE u[k] = 1
    <3>1. ones(k) = ones(k - 1) \cup {k} /\ k \notin ones(k - 1)
      BY <2>2
    <3> HIDE DEF ones
    <3>2. IsFiniteSet(ones(k)) /\ Cardinality(ones(k)) = Cardinality(ones(k - 1)) + 1
      BY <2>1, <3>1, FS_AddElement
    <3> QED BY <2>1, <2>2, <3>2
  <2>3. CASE u[k] = 0
    <3>1. ones(k) = ones(k - 1)
      BY <2>3
    <3> HIDE DEF ones
    <3> QED BY <2>1, <2>3, <3>1
  <2> QED BY <2>2, <2>3
<1>4. n \in T
  <2> HIDE DEF T
  <2> QED BY <1>2, <1>3, UpTo
<1> QED BY <1>1, <1>4

-----------------------------------------------------------------------------
(***************************************************************************)
(* The units left over.  Sorting by remainder and position ranks the n     *)
(* participants 0, ..., n - 1, so handing a unit to every rank below the   *)
(* number of units left hands out exactly those units.                     *)
(***************************************************************************)
FirstRanks(n, amount, weights, total, L) ==
  {i \in 1..n : RemainderRank(amount, weights, total, i) < L}

\* There are as many first ranks as asked for.
LEMMA RankCounts ==
  ASSUME NEW n \in Nat, NEW weights \in [1..n -> Nat], NEW amount \in Nat,
         NEW total \in Nat \ {0}, NEW L \in 0..n
  PROVE  Cardinality(FirstRanks(n, amount, weights, total, L)) = L
<1> DEFINE D == 1..n
           rem == [j \in D |-> (amount * weights[j]) % total]
           Before(i) == {j \in D : rem[j] > rem[i] \/ (rem[j] = rem[i] /\ j < i)}
           rank == [i \in D |-> Cardinality(Before(i))]
           S == {i \in D : rank[i] < L}
<1>1. rem \in [D -> Nat]
  <2>1. ASSUME NEW j \in D PROVE (amount * weights[j]) % total \in Nat
    <3>1. amount * weights[j] \in Nat
      OBVIOUS
    <3>2. ASSUME NEW x \in Nat PROVE x % total \in Nat
      OBVIOUS
    <3> QED BY <3>1, <3>2
  <2> QED BY <2>1
<1>2. \A i \in D : RemainderRank(amount, weights, total, i) = rank[i]
  <2>1. ASSUME NEW i \in D
        PROVE  RemainderRank(amount, weights, total, i) = Cardinality(Before(i))
    <3>1. {j \in DOMAIN weights :
             \/ (amount * weights[j]) % total > (amount * weights[i]) % total
             \/ (amount * weights[j]) % total = (amount * weights[i]) % total /\ j < i}
            = Before(i)
      <4>1. \A j \in D : rem[j] = (amount * weights[j]) % total
        OBVIOUS
      <4>2. DOMAIN weights = D
        OBVIOUS
      <4> HIDE DEF rem, D
      <4> QED BY <4>1, <4>2
    <3> HIDE DEF Before
    <3> QED BY <3>1, Zenon DEF RemainderRank
  <2> HIDE DEF Before
  <2> QED BY <2>1
<1> HIDE DEF rem
<1>3. IsFiniteSet(D) /\ Cardinality(D) = n
  BY FS_Interval
<1>4. \A i \in D : i \notin Before(i) /\ Before(i) \subseteq D
  BY <1>1
<1>5. \A i, j \in D : i # j => i \in Before(j) \/ j \in Before(i)
  BY <1>1
<1>6. \A i, j \in D : i \in Before(j) => Before(i) \subseteq Before(j)
  BY <1>1
<1> HIDE DEF Before
<1>7. \A i \in D : IsFiniteSet(Before(i)) /\ rank[i] = Cardinality(Before(i)) /\ rank[i] \in 0..(n - 1)
  <2> SUFFICES ASSUME NEW i \in D
               PROVE  IsFiniteSet(Before(i)) /\ Cardinality(Before(i)) \in 0..(n - 1)
    OBVIOUS
  <2>1. IsFiniteSet(D \ {i}) /\ Cardinality(D \ {i}) = n - 1
    BY <1>3, FS_RemoveElement
  <2>2. Before(i) \in SUBSET (D \ {i})
    BY <1>4
  <2>3. IsFiniteSet(Before(i)) /\ Cardinality(Before(i)) <= n - 1
    BY <2>1, <2>2, FS_Subset
  <2>4. Cardinality(Before(i)) \in Nat
    BY <2>3, FS_CardinalityType
  <2> QED BY <2>3, <2>4
<1> HIDE DEF D
<1>8. ASSUME NEW i \in D, NEW j \in D, i \in Before(j)
      PROVE  rank[i] # rank[j]
  <2>1. Before(i) \in SUBSET Before(j) /\ Before(i) # Before(j)
    BY <1>4, <1>6, <1>8
  <2>2. Cardinality(Before(j)) # Cardinality(Before(i))
    BY <1>7, <2>1, FS_Subset
  <2> QED BY <1>7, <2>2
<1>9. DOMAIN rank = D
  OBVIOUS
<1>10. rank = [i \in D |-> rank[i]]
  OBVIOUS
<1> HIDE DEF rank
<1>11. \A i, j \in D : rank[i] = rank[j] => i = j
  BY <1>5, <1>8
<1>12. rank \in Injection(D, 0..(n - 1))
  <2>1. rank \in [D -> 0..(n - 1)]
    BY <1>7, <1>10
  <2> QED BY <1>9, <1>11, <2>1 DEF Injection, IsInjective
<1>13. IsFiniteSet(0..(n - 1)) /\ Cardinality(0..(n - 1)) = n
  <2>1. 0 \in Int /\ n - 1 \in Int /\ (IF 0 > n - 1 THEN 0 ELSE n - 1 - 0 + 1) = n
    OBVIOUS
  <2>2. /\ IsFiniteSet(0..(n - 1))
        /\ Cardinality(0..(n - 1)) = IF 0 > n - 1 THEN 0 ELSE n - 1 - 0 + 1
    BY <2>1, FS_Interval
  <2> QED BY <2>1, <2>2
<1>14. rank \in Surjection(D, 0..(n - 1))
  BY <1>3, <1>12, <1>13, FS_Injection
<1> DEFINE K == 0..(L - 1)
           g == [i \in S |-> rank[i]]
<1>15. IsFiniteSet(K) /\ Cardinality(K) = L
  BY FS_Interval
<1>16. IsFiniteSet(S)
  <2>1. S \in SUBSET D
    OBVIOUS
  <2> QED BY <1>3, <2>1, FS_Subset
<1>17. g \in [S -> K]
  BY <1>7
<1>18. g \in Surjection(S, K)
  <2>1. ASSUME NEW k \in K PROVE \E i \in S : g[i] = k
    <3>1. k \in 0..(n - 1)
      OBVIOUS
    <3>2. PICK i \in D : rank[i] = k
      BY <1>14, <3>1 DEF Surjection
    <3>3. i \in S
      BY <3>2
    <3> QED BY <3>2, <3>3
  <2> HIDE DEF g
  <2> QED BY <1>17, <2>1 DEF Surjection
<1>19. g \in Injection(S, K)
  <2>1. \A i, j \in S : g[i] = g[j] => i = j
    BY <1>11
  <2> HIDE DEF g
  <2> QED BY <1>17, <2>1 DEF Injection, IsInjective
<1>20. Cardinality(S) = L
  <2> HIDE DEF g, S, K
  <2> QED BY <1>15, <1>16, <1>18, <1>19, FS_Surjection
<1>21. FirstRanks(n, amount, weights, total, L) = S
  BY <1>2 DEF D, FirstRanks
<1> HIDE DEF S
<1> QED BY <1>20, <1>21

\* Rounding every exact share down takes nothing too much, and leaves at most
\* one unit for each participant.
LEMMA FloorsLeave ==
  ASSUME NEW n \in Nat, NEW weights \in [1..n -> Nat], NEW amount \in Nat,
         SumSeq(weights) \in Nat \ {0}
  PROVE  LET floors == Floors(amount, weights, SumSeq(weights))
         IN  floors \in [1..n -> Nat] /\ amount - SumSeq(floors) \in 0..n
<1> DEFINE total == SumSeq(weights)
           floors == Floors(amount, weights, total)
           scaled == [i \in 1..n |-> amount * weights[i]]
           whole == [i \in 1..n |-> total * floors[i]]
           rem == [i \in 1..n |-> (amount * weights[i]) % total]
<1>1. total \in Nat /\ total > 0
  OBVIOUS
<1> HIDE DEF total
<1>2. ASSUME NEW i \in 1..n
      PROVE  /\ amount * weights[i] \in Nat
             /\ (amount * weights[i]) \div total \in Nat
             /\ (amount * weights[i]) % total \in Nat
             /\ (amount * weights[i]) % total <= total
             /\ total * ((amount * weights[i]) \div total) \in Nat
             /\ amount * weights[i] = total * ((amount * weights[i]) \div total)
                                        + ((amount * weights[i]) % total)
  <2>1. amount * weights[i] \in Nat
    OBVIOUS
  <2>2. ASSUME NEW x \in Nat
        PROVE  /\ x \div total \in Nat /\ x % total \in Nat /\ x % total <= total
               /\ x = total * (x \div total) + (x % total)
    BY <1>1
  <2>3. \A a, b \in Nat : a * b \in Nat
    OBVIOUS
  <2> QED BY <1>1, <2>1, <2>2, <2>3
<1>3. floors \in [1..n -> Nat] /\ \A i \in 1..n : floors[i] = (amount * weights[i]) \div total
  <2>1. DOMAIN weights = 1..n
    OBVIOUS
  <2>2. floors = [i \in 1..n |-> (amount * weights[i]) \div total]
    BY <2>1 DEF Floors
  <2> HIDE DEF floors
  <2> QED BY <1>2, <2>2
<1> HIDE DEF floors
<1>4. scaled \in [1..n -> Nat] /\ SumSeq(scaled) = amount * total
  <2>1. scaled \in [1..n -> Nat] /\ Scaled(n, amount, weights, scaled)
    BY <1>2 DEF Scaled
  <2> HIDE DEF scaled
  <2>2. ScaledSum(amount, weights, scaled)
    BY <2>1, SumScaled
  <2> QED BY <2>1, <2>2 DEF total, ScaledSum
<1>5. whole \in [1..n -> Nat] /\ SumSeq(whole) = total * SumSeq(floors)
  <2>1. whole \in [1..n -> Nat] /\ Scaled(n, total, floors, whole)
    BY <1>2, <1>3 DEF Scaled
  <2> HIDE DEF whole
  <2>2. total \in Nat /\ floors \in [1..n -> Nat]
    BY <1>1, <1>3
  <2>3. ScaledSum(total, floors, whole)
    BY <2>1, <2>2, SumScaled
  <2> QED BY <2>1, <2>3 DEF ScaledSum
<1>6. rem \in [1..n -> Nat] /\ SumSeq(rem) <= total * n
  <2>1. rem \in [1..n -> Nat] /\ \A i \in 1..n : rem[i] <= total
    BY <1>2
  <2> HIDE DEF rem
  <2> QED BY <1>1, <2>1, SumAtMost
<1>7. SumSeq(scaled) = SumSeq(whole) + SumSeq(rem)
  <2>1. \A i \in 1..n : scaled[i] = whole[i] + rem[i]
    BY <1>2, <1>3
  <2> HIDE DEF scaled, whole, rem
  <2> QED BY <1>4, <1>5, <1>6, <2>1, SumOfSums
<1>8. SumSeq(floors) \in Nat /\ SumSeq(rem) \in Nat
  BY <1>3, <1>6, SumBounds
<1> HIDE DEF scaled, whole, rem
<1>9. \A a, f, r, t \in Nat : /\ t > 0 /\ a * t = t * f + r /\ r <= t * n
                              => a - f \in 0..n
  <2> SUFFICES ASSUME NEW a \in Nat, NEW f \in Nat, NEW r \in Nat, NEW t \in Nat,
                      t > 0, a * t = t * f + r, r <= t * n
               PROVE  a - f >= 0 /\ a - f <= n
    OBVIOUS
  <2>1. t * (a - f) = r
    OBVIOUS
  <2>2. ~(a - f < 0)
    <3>1. ASSUME a - f <= -1 PROVE t * (a - f) <= -t
      BY <3>1
    <3> QED BY <2>1, <3>1
  <2>3. ~(a - f > n)
    <3>1. ASSUME a - f >= n + 1 PROVE t * (a - f) >= t * (n + 1)
      BY <3>1
    <3>2. t * (n + 1) = t * n + t
      OBVIOUS
    <3>3. t * (a - f) \in Int /\ t * n \in Int
      OBVIOUS
    <3> QED BY <2>1, <3>1, <3>2, <3>3
  <2> QED BY <2>2, <2>3
<1>10. amount - SumSeq(floors) \in 0..n
  BY <1>1, <1>4, <1>5, <1>6, <1>7, <1>8, <1>9
<1> QED BY <1>3, <1>10 DEF floors, total

\* distribute_dim: the shares and the residual are natural numbers that add up
\* to the amount.
LEMMA DistributeConserves ==
  ASSUME NEW amount \in Nat, NEW n \in Nat, NEW weights \in [1..n -> Nat]
  PROVE  LET r == distribute_dim(amount, weights)
         IN  /\ r.out \in [1..n -> Nat] /\ r.residual \in Nat
             /\ SumSeq(r.out) + r.residual = amount
             /\ \A i \in 1..n : r.out[i] <= amount
             /\ amount = 0 => r.residual = 0
<1> DEFINE total == SumSeq(weights)
           zeros == [i \in 1..n |-> 0]
<1>0. DOMAIN weights = 1..n
  OBVIOUS
<1>1. CASE amount = 0 \/ total \notin 1..MaxU64
  <2>1. distribute_dim(amount, weights) = [out |-> zeros, residual |-> amount]
    BY <1>0, <1>1 DEF distribute_dim
  <2>2. zeros \in [1..n -> Nat] /\ \A i \in 1..n : zeros[i] <= 0
    OBVIOUS
  <2> HIDE DEF zeros
  <2>3. SumSeq(zeros) <= 0 * n /\ SumSeq(zeros) \in Nat
    BY <2>2, SumAtMost, SumBounds
  <2>4. SumSeq(zeros) = 0
    BY <2>3
  <2>5. \A i \in 1..n : zeros[i] <= amount
    BY <2>2
  <2> QED BY <2>1, <2>2, <2>4, <2>5
<1>2. CASE ~(amount = 0 \/ total \notin 1..MaxU64)
  <2> DEFINE floors == Floors(amount, weights, total)
             left == amount - SumSeq(floors)
             bonus == [i \in 1..n |-> Bonus(amount, weights, total, i)]
             out == [i \in 1..n |-> floors[i] + bonus[i]]
  <2>1. total \in Nat \ {0}
    BY <1>2, WidthAssumption
  <2>2. floors \in [1..n -> Nat] /\ left \in 0..n
    BY <2>1, FloorsLeave
  <2>3. distribute_dim(amount, weights) =
          [out |-> [i \in DOMAIN weights |-> floors[i] + Bonus(amount, weights, total, i)],
           residual |-> 0]
    BY <1>2, Zenon DEF distribute_dim
  <2> HIDE DEF total
  <2>4. /\ bonus \in [1..n -> {0, 1}]
        /\ \A i \in 1..n : bonus[i] = 1 <=> RemainderRank(amount, weights, total, i) < left
    <3>1. \A i \in 1..n : bonus[i] = IF RemainderRank(amount, weights, total, i) < left
                                     THEN 1 ELSE 0
      BY Zenon DEF Bonus
    <3> HIDE DEF left
    <3> QED BY <3>1
  <2>5. distribute_dim(amount, weights) = [out |-> out, residual |-> 0]
    BY <1>0, <2>3
  <2> HIDE DEF floors, bonus
  <2>6. /\ bonus \in [1..n -> Nat] /\ out \in [1..n -> Nat]
        /\ \A i \in 1..n : out[i] = floors[i] + bonus[i]
    <3>1. bonus \in [1..n -> Nat]
      BY <2>4
    <3>2. \A i \in 1..n : floors[i] + bonus[i] \in Nat
      BY <2>2, <3>1
    <3> QED BY <3>1, <3>2
  <2> HIDE DEF out
  <2>7. SumSeq(bonus) = left
    <3>1. SumSeq(bonus) = Cardinality({i \in 1..n : bonus[i] = 1})
      BY <2>4, SumCounts
    <3>2. {i \in 1..n : bonus[i] = 1} = FirstRanks(n, amount, weights, total, left)
      BY <2>4 DEF FirstRanks
    <3> HIDE DEF left
    <3>3. Cardinality(FirstRanks(n, amount, weights, total, left)) = left
      BY <2>1, <2>2, RankCounts
    <3> QED BY <3>1, <3>2, <3>3
  <2>8. SumSeq(out) = SumSeq(floors) + SumSeq(bonus)
    BY <2>2, <2>6, SumOfSums
  <2>9. SumSeq(floors) \in Nat
    BY <2>2, SumBounds
  <2>10. SumSeq(out) = amount
    BY <2>7, <2>8, <2>9
  <2>11. \A i \in 1..n : out[i] <= amount
    BY <2>6, <2>10, SumBounds
  <2> QED BY <1>2, <2>5, <2>6, <2>10, <2>11
<1> QED BY <1>1, <1>2
=============================================================================
