------------------------- MODULE AttributionProofs -------------------------
(***************************************************************************)
(* Nothing is lost in a split, and no whole-number split is closer to the  *)
(* exact proportions: the theorems about every amount and every sequence   *)
(* of weights, from the lemmas on distribute_dim.                          *)
(***************************************************************************)
EXTENDS MCAttribution, AttributionLemmas

\* The inputs are an amount the counter holds and natural weights.
InputsOK == amount \in U64 /\ weights \in Seq(Nat)

\* What distribute_dim conserves, for the inputs of a state.
LEMMA SplitConserves == InputsOK => Conserved
<1> SUFFICES ASSUME InputsOK PROVE Conserved
  OBVIOUS
<1> DEFINE n == Len(weights)
<1>1. amount \in Nat /\ amount <= MaxU64 /\ n \in Nat /\ weights \in [1..n -> Nat]
  BY WidthAssumption, LenProperties DEF InputsOK, U64
<1> HIDE DEF n
<1>2. /\ Split.out \in [1..n -> Nat]
      /\ SumSeq(Split.out) + Split.residual = amount
      /\ \A i \in 1..n : Split.out[i] <= amount
  BY <1>1, DistributeConserves DEF Split
<1>3. DOMAIN weights = 1..n
  BY <1>1
<1>4. \A i \in 1..n : Split.out[i] \in U64
  BY <1>1, <1>2, WidthAssumption DEF U64
<1> QED BY <1>2, <1>3, <1>4 DEF Conserved

\* AddParticipant keeps the inputs such.
LEMMA InputsInvariant == Spec => []InputsOK
<1>1. Init => InputsOK
  BY DEF Init, InputsOK
<1>2. InputsOK /\ [Next]_vars => InputsOK'
  <2> SUFFICES ASSUME InputsOK, [Next]_vars PROVE InputsOK'
    OBVIOUS
  <2>1. ASSUME NEW w \in 0..MaxWeight, AddParticipant(w) PROVE InputsOK'
    <3>1. w \in Nat
      OBVIOUS
    <3> QED BY <2>1, <3>1 DEF AddParticipant, InputsOK
  <2>2. CASE UNCHANGED vars
    BY <2>2 DEF vars, InputsOK
  <2> QED BY <2>1, <2>2 DEF Next
<1> QED BY <1>1, <1>2, PTL DEF Spec

\* Shared attribution conserves: for every amount, every number of participants
\* and all weights, zero weights and a weight total that overflows included, the
\* shares and the residual add up to the amount and no share wraps.
THEOREM AttributionConserves == Spec => []Conserved
BY InputsInvariant, SplitConserves, PTL

-----------------------------------------------------------------------------
(***************************************************************************)
(* The split is a closest one.  The remainder of the last participant that *)
(* gets a unit separates those that get one from those that do not; with   *)
(* it as a price per unit, every participant's share is the cheapest one   *)
(* for that participant alone, and the prices cancel in the sum because    *)
(* all splits hand out the same amount.                                    *)
(***************************************************************************)

\* A sum grows with its terms, and stays equal only if all of them do.
LEMMA SumMonotone ==
  ASSUME NEW n \in Nat, NEW u \in [1..n -> Nat], NEW v \in [1..n -> Nat],
         \A i \in 1..n : u[i] <= v[i]
  PROVE  /\ SumSeq(u) <= SumSeq(v)
         /\ SumSeq(u) = SumSeq(v) => \A i \in 1..n : u[i] = v[i]
<1> DEFINE d == [i \in 1..n |-> v[i] - u[i]]
<1>1. d \in [1..n -> Nat] /\ \A i \in 1..n : v[i] = u[i] + d[i]
  OBVIOUS
<1> HIDE DEF d
<1>2. SumSeq(v) = SumSeq(u) + SumSeq(d)
  BY <1>1, SumOfSums
<1>3. SumSeq(u) \in Nat /\ SumSeq(v) \in Nat
  BY SumBounds
<1>4. SumSeq(d) \in Nat /\ \A i \in 1..n : d[i] <= SumSeq(d)
  BY <1>1, SumBounds
<1>5. ASSUME SumSeq(u) = SumSeq(v), NEW i \in 1..n PROVE u[i] = v[i]
  <2>1. d[i] <= 0 /\ d[i] \in Nat /\ u[i] \in Nat /\ v[i] = u[i] + d[i]
    BY <1>1, <1>2, <1>3, <1>4, <1>5
  <2> QED BY <2>1
<1> QED BY <1>2, <1>3, <1>4, <1>5

\* How far a share of a is from the exact one x / total, scaled by the total.
Away(a, total, x) == IF a * total - x < 0 THEN - (a * total - x) ELSE a * total - x

\* Does a unit go to a participant with remainder r?  At the price p it does
\* above p and does not below.
Fair(b, r, p) == b \in {0, 1} /\ (b = 1 => p <= r) /\ (b = 0 => r <= p)

\* What a share costs at the price p when another split gives the share o; the
\* last term keeps both costs natural numbers.
Cost(a, o, total, x, p) == Away(a, total, x) + (2 * p) * a + total * o

\* The share f + b costs lhs and the share a costs rhs: the first is no more, and
\* both are the same for neighbouring shares only if the remainder is the price.
Cheapest(lhs, rhs, a, f, b, r, p) ==
  /\ lhs \in Nat /\ rhs \in Nat /\ lhs <= rhs
  /\ lhs = rhs /\ a = f + 1 /\ b = 0 => r = p
  /\ lhs = rhs /\ a = f /\ b = 1 => r = p

\* At the price p no number a of units costs one participant less than the one
\* it gets, and where another number costs the same its remainder is the price.
LEMMA CheapestShare ==
  ASSUME NEW total \in Nat, NEW p \in Nat, p <= total, NEW f \in Nat, NEW r \in Nat,
         r < total, NEW b, Fair(b, r, p), NEW a \in Nat, NEW x \in Nat, x = total * f + r
  PROVE  Cheapest(Cost(f + b, a, total, x, p), Cost(a, f + b, total, x, p), a, f, b, r, p)
<1> DEFINE lhs == Cost(f + b, a, total, x, p)
           rhs == Cost(a, f + b, total, x, p)
           k == a - f
           tk == total * k
           pk == p * k
           tf == total * f
           pf == p * f
<1>1. k \in Int /\ tk \in Int /\ pk \in Int /\ tf \in Nat /\ pf \in Nat /\ b \in {0, 1}
  BY DEF Fair
<1>2. a * total = tf + tk /\ total * a = tf + tk /\ (2 * p) * a = 2 * pf + 2 * pk
  <2>1. a = f + k
    OBVIOUS
  <2> HIDE DEF k
  <2> QED BY <1>1, <2>1
<1>3. /\ (f + b) * total = tf + b * total /\ total * (f + b) = tf + b * total
      /\ (2 * p) * (f + b) = 2 * pf + 2 * (p * b)
  BY <1>1
<1>4. k >= 1 => tk >= total /\ pk >= p
  <2> HIDE DEF k
  <2> QED BY <1>1
<1>5. k <= 0 => tk <= pk /\ pk <= 0
  <2> HIDE DEF k
  <2> SUFFICES ASSUME k <= 0 PROVE total * k <= p * k /\ p * k <= 0
    OBVIOUS
  <2>1. (total - p) * k <= 0 /\ p * k <= 0
    BY <1>1
  <2>2. (total - p) * k = total * k - p * k
    BY <1>1
  <2> QED BY <1>1, <2>1, <2>2
<1>6. (k = 1 <=> a = f + 1) /\ (k = 0 <=> a = f) /\ (k >= 1 \/ k <= 0)
  OBVIOUS
<1>7. (k = 1 => tk = total /\ pk = p) /\ (k = 0 => tk = 0 /\ pk = 0)
  <2> HIDE DEF k
  <2> QED BY <1>1
<1>8. (2 * p) * a \in Nat /\ (2 * p) * (f + b) \in Nat /\ total * a \in Nat /\ total * (f + b) \in Nat
  BY <1>1
<1>9. /\ Away(a, total, x) = IF tk - r < 0 THEN r - tk ELSE tk - r
      /\ Away(f + b, total, x) = IF b = 1 THEN total - r ELSE r
  <2>1. a * total - x = tk - r /\ (f + b) * total - x = b * total - r
    <3> HIDE DEF k
    <3> QED BY <1>1, <1>2, <1>3
  <2>2. tk - r \in Int /\ (tk - r < 0 => -(tk - r) = r - tk)
    <3> HIDE DEF tk
    <3> QED BY <1>1
  <2>3. b * total = IF b = 1 THEN total ELSE 0
    BY <1>1
  <2>4. (IF b * total - r < 0 THEN -(b * total - r) ELSE b * total - r) = IF b = 1 THEN total - r ELSE r
    BY <1>1, <2>3
  <2> QED BY <2>1, <2>2, <2>4, Zenon DEF Away
<1>10. p * b = (IF b = 1 THEN p ELSE 0) /\ b * total = IF b = 1 THEN total ELSE 0
  BY <1>1
<1>11. /\ lhs = (IF b = 1 THEN total - r ELSE r) + (2 * pf + 2 * (IF b = 1 THEN p ELSE 0)) + (tf + tk)
       /\ rhs = (IF tk - r < 0 THEN r - tk ELSE tk - r) + (2 * pf + 2 * pk)
                 + (tf + (IF b = 1 THEN total ELSE 0))
  <2>0. /\ lhs = Away(f + b, total, x) + (2 * p) * (f + b) + total * a
        /\ rhs = Away(a, total, x) + (2 * p) * a + total * (f + b)
    BY DEF Cost
  <2> HIDE DEF tk, pk, tf, pf, k, lhs, rhs
  <2> QED BY <1>2, <1>3, <1>9, <1>10, <2>0
<1>12. lhs \in Nat /\ rhs \in Nat
  <2>0. /\ lhs = Away(f + b, total, x) + (2 * p) * (f + b) + total * a
        /\ rhs = Away(a, total, x) + (2 * p) * a + total * (f + b)
    BY DEF Cost
  <2>1. Away(a, total, x) \in Nat /\ Away(f + b, total, x) \in Nat
    <3> HIDE DEF tk
    <3> QED BY <1>1, <1>9
  <2> QED BY <1>8, <2>0, <2>1
<1> HIDE DEF tk, pk, tf, pf, k, lhs, rhs
<1>13. Cheapest(lhs, rhs, a, f, b, r, p)
  BY ONLY <1>1, <1>4, <1>5, <1>6, <1>7, <1>11, <1>12, Fair(b, r, p),
          total \in Nat, p \in Nat, r \in Nat, r < total, p <= total DEF Fair, Cheapest
<1> QED BY <1>13 DEF lhs, rhs

Priced(n, w, a, c, o, t, s) == \A i \in 1..n : w[i] = a[i] + c * o[i] + t * s[i]
PricedTotal(w, a, c, o, t, s) == SumSeq(w) = SumSeq(a) + c * SumSeq(o) + t * SumSeq(s)

\* A sum of priced terms: the prices come out of it.
LEMMA PricedSum ==
  ASSUME NEW n \in Nat, NEW a \in [1..n -> Nat], NEW o \in [1..n -> Nat],
         NEW s \in [1..n -> Nat], NEW w \in [1..n -> Nat], NEW c \in Nat, NEW t \in Nat,
         Priced(n, w, a, c, o, t, s)
  PROVE  PricedTotal(w, a, c, o, t, s)
<1> DEFINE co == [i \in 1..n |-> c * o[i]]
           ts == [i \in 1..n |-> t * s[i]]
           ac == [i \in 1..n |-> a[i] + co[i]]
<1>0. \A x, y \in Nat : x * y \in Nat
  OBVIOUS
<1>1. co \in [1..n -> Nat] /\ ts \in [1..n -> Nat] /\ Scaled(n, c, o, co) /\ Scaled(n, t, s, ts)
  BY <1>0 DEF Scaled
<1>2. \A i \in 1..n : w[i] = (a[i] + co[i]) + ts[i]
  BY Zenon DEF Priced
<1> HIDE DEF co, ts
<1>3. /\ ac \in [1..n -> Nat] /\ \A i \in 1..n : ac[i] = a[i] + co[i]
      /\ \A i \in 1..n : w[i] = ac[i] + ts[i]
  <2>1. ASSUME NEW i \in 1..n PROVE a[i] + co[i] \in Nat
    <3>1. a[i] \in Nat /\ co[i] \in Nat
      BY <1>1
    <3>2. \A y, z \in Nat : y + z \in Nat
      OBVIOUS
    <3> QED BY <3>1, <3>2, Zenon
  <2>2. \A i \in 1..n : ac[i] = a[i] + co[i]
    BY Zenon
  <2>3. ac \in [1..n -> Nat]
    BY <2>1, Zenon
  <2> QED BY <1>2, <2>2, <2>3, Zenon
<1> HIDE DEF ac
<1>4. SumSeq(w) = SumSeq(ac) + SumSeq(ts)
  BY <1>1, <1>3, SumOfSums
<1>5. SumSeq(ac) = SumSeq(a) + SumSeq(co)
  <2>1. \A i \in 1..n : ac[i] = a[i] + co[i]
    BY <1>3
  <2>2. ac \in [1..n -> Nat] /\ co \in [1..n -> Nat] /\ a \in [1..n -> Nat] /\ n \in Nat
    BY <1>1, <1>3
  <2> QED BY ONLY <2>1, <2>2, SumOfSums
<1>6. ScaledSum(c, o, co)
  BY <1>1, SumScaled
<1>7. ScaledSum(t, s, ts)
  BY <1>1, SumScaled
<1> QED BY <1>4, <1>5, <1>6, <1>7, Zenon DEF ScaledSum, PricedTotal

\* The units go to the largest remainders, to the earlier participant first
\* among equal ones.
Ordered(n, b, rem) ==
  \A i, j \in 1..n : b[i] = 1 /\ b[j] = 0 => rem[j] < rem[i] \/ (rem[j] = rem[i] /\ i < j)

\* Then some remainder is a fair price.
LEMMA FairPrice ==
  ASSUME NEW n \in Nat, NEW total \in Nat, NEW rem \in [1..n -> Nat],
         \A i \in 1..n : rem[i] < total, NEW b \in [1..n -> {0, 1}], Ordered(n, b, rem)
  PROVE  \E p \in Nat : p <= total /\ \A i \in 1..n : Fair(b[i], rem[i], p)
<1> DEFINE R == {rem[i] : i \in {k \in 1..n : b[k] = 1}}
<1>1. CASE R = {}
  <2>1. ASSUME NEW i \in 1..n PROVE b[i] = 0
    <3>1. b[i] = 1 => rem[i] \in R
      OBVIOUS
    <3> HIDE DEF R
    <3> QED BY <1>1, <3>1
  <2>2. \A i \in 1..n : Fair(b[i], rem[i], total)
    BY <2>1 DEF Fair
  <2> QED BY <2>2
<1>2. CASE R # {}
  <2>1. R \subseteq Nat
    OBVIOUS
  <2>2. PICK p \in R : \A q \in R : p <= q
    <3> HIDE DEF R
    <3> QED BY <1>2, <2>1, LeastNat
  <2>3. PICK m \in 1..n : b[m] = 1 /\ p = rem[m]
    OBVIOUS
  <2>4. ASSUME NEW i \in 1..n PROVE Fair(b[i], rem[i], p)
    <3>1. CASE b[i] = 1
      BY <2>2, <3>1 DEF Fair
    <3>2. CASE b[i] = 0
      <4>1. rem[i] <= rem[m]
        BY <2>3, <3>2 DEF Ordered
      <4> QED BY <2>3, <3>2, <4>1 DEF Fair
    <3> QED BY <3>1, <3>2
  <2> QED BY <2>1, <2>3, <2>4
<1> QED BY <1>1, <1>2

\* The scaled distances of the n shares of a split from the exact ones.
Distances(n, split, total, x) == [i \in 1..n |-> Away(split[i], total, x[i])]

Exact(n, x, total, floors, rem) == \A i \in 1..n : x[i] = total * floors[i] + rem[i]

\* The split out is at least as near to the exact shares as the split s; if both
\* are as near and s rounds every share by less than a unit, s does not give more
\* to the first participant they differ on.
Closer(n, out, s, total, x, floors) ==
  /\ SumSeq(Distances(n, out, total, x)) <= SumSeq(Distances(n, s, total, x))
  /\ SumSeq(Distances(n, out, total, x)) = SumSeq(Distances(n, s, total, x))
       /\ (\A i \in 1..n : floors[i] <= s[i] /\ s[i] <= floors[i] + 1)
     => ~ \E i \in 1..n : s[i] > out[i] /\ \A j \in 1..(i - 1) : s[j] = out[j]

\* No split that hands out as much is nearer to the exact shares, and one that is
\* as near and rounds every share by less than a unit does not favour an earlier
\* participant.
LEMMA ClosestShares ==
  ASSUME NEW n \in Nat, NEW total \in Nat, NEW rem \in [1..n -> Nat],
         \A i \in 1..n : rem[i] < total, NEW b \in [1..n -> {0, 1}], Ordered(n, b, rem),
         NEW floors \in [1..n -> Nat], NEW x \in [1..n -> Nat],
         Exact(n, x, total, floors, rem),
         NEW out \in [1..n -> Nat], \A i \in 1..n : out[i] = floors[i] + b[i],
         NEW s \in [1..n -> Nat], SumSeq(s) = SumSeq(out)
  PROVE  Closer(n, out, s, total, x, floors)
<1>1. PICK p \in Nat : p <= total /\ \A i \in 1..n : Fair(b[i], rem[i], p)
  BY FairPrice
<1> DEFINE do == Distances(n, out, total, x)
           ds == Distances(n, s, total, x)
           lhs == [i \in 1..n |-> do[i] + (2 * p) * out[i] + total * s[i]]
           rhs == [i \in 1..n |-> ds[i] + (2 * p) * s[i] + total * out[i]]
<1>2. do \in [1..n -> Nat] /\ ds \in [1..n -> Nat]
  <2>1. ASSUME NEW a \in Nat, NEW y \in Nat PROVE Away(a, total, y) \in Nat
    <3>1. a * total - y \in Int
      OBVIOUS
    <3>2. \A z \in Int : (IF z < 0 THEN - z ELSE z) \in Nat
      OBVIOUS
    <3> QED BY <3>1, <3>2 DEF Away
  <2> QED BY <2>1 DEF Distances
<1>3. ASSUME NEW i \in 1..n
      PROVE  /\ lhs[i] \in Nat /\ rhs[i] \in Nat /\ lhs[i] <= rhs[i]
             /\ lhs[i] = rhs[i] /\ s[i] = floors[i] + 1 /\ b[i] = 0 => rem[i] = p
             /\ lhs[i] = rhs[i] /\ s[i] = floors[i] /\ b[i] = 1 => rem[i] = p
  <2>1. /\ total \in Nat /\ p \in Nat /\ p <= total /\ floors[i] \in Nat /\ rem[i] \in Nat
        /\ rem[i] < total /\ Fair(b[i], rem[i], p) /\ s[i] \in Nat /\ x[i] \in Nat
        /\ x[i] = total * floors[i] + rem[i]
    BY <1>1 DEF Exact
  <2>2. lhs[i] = Cost(floors[i] + b[i], s[i], total, x[i], p)
    BY Zenon DEF Distances, Cost
  <2>3. rhs[i] = Cost(s[i], floors[i] + b[i], total, x[i], p)
    BY Zenon DEF Distances, Cost
  <2> HIDE DEF lhs, rhs
  <2>4. Cheapest(Cost(floors[i] + b[i], s[i], total, x[i], p),
                 Cost(s[i], floors[i] + b[i], total, x[i], p), s[i], floors[i], b[i], rem[i], p)
    BY ONLY <2>1, CheapestShare
  <2> QED BY <2>2, <2>3, <2>4, Zenon DEF Cheapest
<1>4. /\ lhs \in [1..n -> Nat] /\ rhs \in [1..n -> Nat] /\ \A i \in 1..n : lhs[i] <= rhs[i]
      /\ Priced(n, lhs, do, 2 * p, out, total, s) /\ Priced(n, rhs, ds, 2 * p, s, total, out)
  <2>1. /\ lhs = [i \in 1..n |-> lhs[i]] /\ rhs = [i \in 1..n |-> rhs[i]]
        /\ Priced(n, lhs, do, 2 * p, out, total, s) /\ Priced(n, rhs, ds, 2 * p, s, total, out)
    BY Zenon DEF Priced
  <2> HIDE DEF lhs, rhs, do, ds
  <2> QED BY <1>3, <2>1
<1> HIDE DEF lhs, rhs, do, ds
<1>5. 2 * p \in Nat
  OBVIOUS
<1>6. PricedTotal(lhs, do, 2 * p, out, total, s)
  BY <1>2, <1>4, <1>5, PricedSum
<1>7. PricedTotal(rhs, ds, 2 * p, s, total, out)
  BY <1>2, <1>4, <1>5, PricedSum
<1>8. /\ SumSeq(do) \in Nat /\ SumSeq(ds) \in Nat /\ SumSeq(s) \in Nat
      /\ SumSeq(lhs) \in Nat /\ SumSeq(rhs) \in Nat
  BY <1>2, <1>4, SumBounds
<1>9. SumSeq(rhs) - SumSeq(lhs) = SumSeq(ds) - SumSeq(do)
  <2> DEFINE y == (2 * p) * SumSeq(s)
             z == total * SumSeq(s)
  <2>1. y \in Nat /\ z \in Nat
    <3>1. \A c, d \in Nat : c * d \in Nat
      OBVIOUS
    <3> QED BY <1>5, <1>8, <3>1
  <2>2. SumSeq(lhs) = SumSeq(do) + y + z /\ SumSeq(rhs) = SumSeq(ds) + y + z
    BY <1>6, <1>7, Zenon DEF PricedTotal
  <2> HIDE DEF y, z
  <2> QED BY <1>8, <2>1, <2>2
<1>10. /\ SumSeq(lhs) <= SumSeq(rhs)
       /\ SumSeq(lhs) = SumSeq(rhs) => \A i \in 1..n : lhs[i] = rhs[i]
  BY <1>4, SumMonotone
<1>11. SumSeq(do) <= SumSeq(ds)
  BY <1>8, <1>9, <1>10
<1>12. ASSUME SumSeq(do) = SumSeq(ds), \A i \in 1..n : floors[i] <= s[i] /\ s[i] <= floors[i] + 1,
              NEW i \in 1..n, s[i] > out[i], \A j \in 1..(i - 1) : s[j] = out[j]
       PROVE  FALSE
  <2>1. \A j \in 1..n : lhs[j] = rhs[j]
    <3>1. SumSeq(lhs) = SumSeq(rhs)
      BY <1>8, <1>9, <1>12
    <3> QED BY <1>10, <3>1
  <2>2. ASSUME NEW j \in 1..n
        PROVE  b[j] \in {0, 1} /\ s[j] \in {floors[j], floors[j] + 1} /\ floors[j] \in Nat
    <3>1. b[j] \in {0, 1} /\ floors[j] \in Nat /\ s[j] \in Nat
      OBVIOUS
    <3>2. floors[j] <= s[j] /\ s[j] <= floors[j] + 1
      BY <1>12
    <3>3. \A y, z \in Nat : y <= z /\ z <= y + 1 => z \in {y, y + 1}
      OBVIOUS
    <3> QED BY <3>1, <3>2, <3>3, Zenon
  <2>3. s[i] = floors[i] + 1 /\ b[i] = 0
    <3>1. /\ s[i] > out[i] /\ out[i] = floors[i] + b[i] /\ floors[i] \in Nat
          /\ b[i] \in {0, 1} /\ s[i] \in {floors[i], floors[i] + 1}
      BY <1>12, <2>2
    <3> QED BY ONLY <3>1
  <2>4. rem[i] = p
    BY <1>3, <2>1, <2>3
  <2>5. ASSUME NEW j \in 1..n PROVE out[j] <= s[j]
    <3>1. CASE j < i
      BY <1>12, <3>1
    <3>2. CASE j = i
      BY <1>12, <3>2
    <3>3. CASE j > i /\ b[j] = 1
      <4>1. rem[i] < rem[j]
        BY <2>3, <3>3 DEF Ordered
      <4>2. s[j] # floors[j]
        BY <1>3, <2>1, <2>4, <3>3, <4>1
      <4> QED BY <2>2, <3>3, <4>2
    <3>4. CASE j > i /\ b[j] = 0
      BY <1>12, <3>4
    <3> QED BY <2>2, <3>1, <3>2, <3>3, <3>4
  <2>6. \A j \in 1..n : out[j] = s[j]
    BY <2>5, SumMonotone
  <2> QED BY <1>12, <2>6
<1> QED BY <1>11, <1>12, Zenon DEF do, ds, Closer

\* A participant sorted before another has a rank that is no higher.
LEMMA SortedRanks ==
  ASSUME NEW n \in Nat, NEW w \in [1..n -> Nat], NEW a \in Nat, NEW total \in Nat,
         NEW rem \in [1..n -> Nat], \A i \in 1..n : rem[i] = (a * w[i]) % total,
         NEW i \in 1..n, NEW j \in 1..n, rem[j] > rem[i] \/ (rem[j] = rem[i] /\ j < i)
  PROVE  /\ RemainderRank(a, w, total, i) \in Nat /\ RemainderRank(a, w, total, j) \in Nat
         /\ RemainderRank(a, w, total, j) <= RemainderRank(a, w, total, i)
<1> DEFINE Before(k) == {m \in 1..n : rem[m] > rem[k] \/ (rem[m] = rem[k] /\ m < k)}
<1>1. ASSUME NEW k \in 1..n PROVE RemainderRank(a, w, total, k) = Cardinality(Before(k))
  <2>1. {m \in DOMAIN w : \/ (a * w[m]) % total > (a * w[k]) % total
                          \/ (a * w[m]) % total = (a * w[k]) % total /\ m < k} = Before(k)
    <3>1. DOMAIN w = 1..n
      OBVIOUS
    <3>2. ASSUME NEW m \in 1..n
          PROVE  ((a * w[m]) % total > (a * w[k]) % total <=> rem[m] > rem[k])
                 /\ ((a * w[m]) % total = (a * w[k]) % total <=> rem[m] = rem[k])
      BY Zenon
    <3> QED BY <3>1, <3>2, Zenon
  <2> HIDE DEF Before
  <2> QED BY <2>1, Zenon DEF RemainderRank
<1>2. IsFiniteSet(1..n)
  BY FS_Interval
<1>3. Before(i) \in SUBSET (1..n) /\ Before(j) \in SUBSET Before(i)
  BY ONLY n \in Nat, rem \in [1..n -> Nat], i \in 1..n, j \in 1..n,
          rem[j] > rem[i] \/ (rem[j] = rem[i] /\ j < i)
<1> HIDE DEF Before
<1>4. IsFiniteSet(Before(i))
  BY <1>2, <1>3, FS_Subset
<1>5. IsFiniteSet(Before(j)) /\ Cardinality(Before(j)) <= Cardinality(Before(i))
  BY <1>3, <1>4, FS_Subset
<1>6. Cardinality(Before(i)) \in Nat /\ Cardinality(Before(j)) \in Nat
  BY <1>4, <1>5, FS_CardinalityType
<1> QED BY <1>1, <1>5, <1>6

\* The distance of ClosestSplit, as the sum of the distances of the shares.
LEMMA DeviationIsDistance ==
  ASSUME NEW n \in Nat, DOMAIN weights = 1..n, NEW s
  PROVE  Deviation(s) = SumSeq(Distances(n, s, SumSeq(weights), [i \in 1..n |-> amount * weights[i]]))
<1> DEFINE total == SumSeq(weights)
           x == [i \in 1..n |-> amount * weights[i]]
<1>1. \A i \in 1..n : Away(s[i], total, x[i]) =
        IF s[i] * total - amount * weights[i] < 0
        THEN - (s[i] * total - amount * weights[i]) ELSE s[i] * total - amount * weights[i]
  BY Zenon DEF Away
<1>2. Distances(n, s, total, x) =
        [i \in DOMAIN weights |->
           IF s[i] * total - amount * weights[i] < 0
           THEN - (s[i] * total - amount * weights[i]) ELSE s[i] * total - amount * weights[i]]
  BY <1>1, Zenon DEF Distances
<1> HIDE DEF x
<1> QED BY <1>2, Zenon DEF Deviation, x

\* distribute_dim returns a closest split.
LEMMA SplitClosest == InputsOK => ClosestSplit
<1> SUFFICES ASSUME InputsOK, Split.residual = 0, amount > 0,
                    NEW s \in [1..Len(weights) -> 0..amount], SumSeq(s) = amount
             PROVE  /\ Deviation(s) >= Deviation(Split.out)
                    /\ Deviation(s) = Deviation(Split.out)
                         /\ (\A i \in 1..Len(weights) :
                               /\ s[i] >= Floors(amount, weights, SumSeq(weights))[i]
                               /\ s[i] <= Floors(amount, weights, SumSeq(weights))[i] + 1)
                       => ~ \E i \in 1..Len(weights) : /\ s[i] > Split.out[i]
                                                       /\ \A j \in 1..(i - 1) : s[j] = Split.out[j]
  BY Zenon DEF ClosestSplit
<1> DEFINE n == Len(weights)
           total == SumSeq(weights)
           floors == Floors(amount, weights, total)
           left == amount - SumSeq(floors)
           b == [i \in 1..n |-> Bonus(amount, weights, total, i)]
           rem == [i \in 1..n |-> (amount * weights[i]) % total]
           x == [i \in 1..n |-> amount * weights[i]]
<1>1. amount \in Nat /\ amount <= MaxU64 /\ n \in Nat /\ weights \in [1..n -> Nat]
  BY WidthAssumption, LenProperties DEF InputsOK, U64
<1>2. DOMAIN weights = 1..n
  BY <1>1
<1> HIDE DEF n
<1>3. total \in Nat \ {0}
  <2>1. ~(amount = 0 \/ total \notin 1..MaxU64)
    <3>1. (amount = 0 \/ total \notin 1..MaxU64) => Split.residual = amount
      BY DEF Split, distribute_dim
    <3> QED BY <1>1, <3>1
  <2> QED BY <2>1, WidthAssumption
<1>4. Split.out = [i \in 1..n |-> floors[i] + b[i]]
  <2>1. total \in 1..MaxU64 /\ amount # 0
    <3>1. (amount = 0 \/ total \notin 1..MaxU64) => Split.residual = amount
      BY DEF Split, distribute_dim
    <3> QED BY <1>1, <3>1
  <2>2. Split = [out |-> [i \in DOMAIN weights |-> floors[i] + Bonus(amount, weights, total, i)],
                 residual |-> 0]
    BY <2>1, Zenon DEF Split, distribute_dim
  <2>3. Split.out = [i \in 1..n |-> floors[i] + Bonus(amount, weights, total, i)]
    BY <1>2, <2>2
  <2> HIDE DEF floors
  <2> QED BY <2>3, Zenon
<1>5. floors \in [1..n -> Nat] /\ left \in 0..n
  BY <1>1, <1>3, FloorsLeave
<1>6. /\ Split.out \in [1..n -> Nat] /\ SumSeq(Split.out) + Split.residual = amount
  BY <1>1, DistributeConserves DEF Split
<1>7. SumSeq(Split.out) = amount
  <2>1. SumSeq(Split.out) \in Nat
    BY <1>1, <1>6, SumBounds
  <2> QED BY <1>6, <2>1
<1>8. /\ b \in [1..n -> {0, 1}]
      /\ \A i \in 1..n : b[i] = 1 <=> RemainderRank(amount, weights, total, i) < left
  <2>1. \A i \in 1..n : b[i] = IF RemainderRank(amount, weights, total, i) < left THEN 1 ELSE 0
    BY Zenon DEF Bonus
  <2>2. b = [i \in 1..n |-> b[i]]
    BY Zenon
  <2> HIDE DEF left, b
  <2> QED BY <2>1, <2>2
<1> HIDE DEF total
<1>9. /\ rem \in [1..n -> Nat] /\ x \in [1..n -> Nat] /\ Exact(n, x, total, floors, rem)
      /\ \A i \in 1..n : rem[i] < total
  <2>1. ASSUME NEW i \in 1..n
        PROVE  /\ amount * weights[i] \in Nat /\ (amount * weights[i]) % total \in Nat
               /\ (amount * weights[i]) % total < total
               /\ amount * weights[i] = total * ((amount * weights[i]) \div total)
                                          + ((amount * weights[i]) % total)
    <3>1. amount * weights[i] \in Nat
      BY <1>1
    <3>2. ASSUME NEW y \in Nat
          PROVE  /\ y % total \in Nat /\ y % total < total
                 /\ y = total * (y \div total) + (y % total)
      BY <1>3
    <3> QED BY <3>1, <3>2
  <2>2. \A i \in 1..n : floors[i] = (amount * weights[i]) \div total
    BY <1>2, Zenon DEF Floors
  <2> HIDE DEF floors
  <2> QED BY <2>1, <2>2, Zenon DEF Exact
<1>10. Ordered(n, b, rem)
  <2> SUFFICES ASSUME NEW i \in 1..n, NEW j \in 1..n, b[i] = 1, b[j] = 0
               PROVE  rem[j] < rem[i] \/ (rem[j] = rem[i] /\ i < j)
    BY Zenon DEF Ordered
  <2>1. \A k \in 1..n : rem[k] = (amount * weights[k]) % total
    BY Zenon
  <2>2. ~(rem[j] > rem[i] \/ (rem[j] = rem[i] /\ j < i))
    <3> SUFFICES ASSUME rem[j] > rem[i] \/ (rem[j] = rem[i] /\ j < i) PROVE FALSE
      OBVIOUS
    <3> HIDE DEF rem, b, left
    <3>1. total \in Nat
      BY <1>3
    <3>2. /\ RemainderRank(amount, weights, total, i) \in Nat
          /\ RemainderRank(amount, weights, total, j) \in Nat
          /\ RemainderRank(amount, weights, total, j) <= RemainderRank(amount, weights, total, i)
      BY ONLY <1>1, <1>9, <2>1, <3>1, SortedRanks, i \in 1..n, j \in 1..n,
              rem[j] > rem[i] \/ (rem[j] = rem[i] /\ j < i)
    <3>3. RemainderRank(amount, weights, total, i) < left /\ ~(RemainderRank(amount, weights, total, j) < left)
      BY <1>8
    <3>4. left \in Int
      BY <1>5
    <3> QED BY ONLY <3>2, <3>3, <3>4
  <2>3. i # j
    OBVIOUS
  <2> HIDE DEF rem, b
  <2> QED BY <1>9, <2>2, <2>3
<1>11. s \in [1..n -> Nat]
  BY <1>1 DEF n
<1>12. \A i \in 1..n : Split.out[i] = floors[i] + b[i]
  BY <1>4, Zenon
<1>13. /\ Deviation(s) = SumSeq(Distances(n, s, total, x))
       /\ Deviation(Split.out) = SumSeq(Distances(n, Split.out, total, x))
  BY <1>1, <1>2, DeviationIsDistance DEF total
<1> HIDE DEF floors, left, b, rem, x
<1> DEFINE out == Split.out
<1>14. /\ out \in [1..n -> Nat] /\ SumSeq(s) = SumSeq(out) /\ total \in Nat
       /\ \A i \in 1..n : out[i] = floors[i] + b[i]
  BY <1>3, <1>6, <1>7, <1>12
<1> HIDE DEF out
<1>15. Closer(n, out, s, total, x, floors)
  BY ONLY <1>1, <1>5, <1>8, <1>9, <1>10, <1>11, <1>14, ClosestShares
<1>16. \A y, z : y >= z <=> z <= y
  OBVIOUS
<1> QED BY <1>13, <1>15, <1>16, Zenon DEF Closer, out, n, floors, total

\* The split is a closest one: for every amount, every number of participants
\* and all weights whose total the counter holds, no other whole-number split of
\* the amount is nearer to the exact proportions, and none that is as near and
\* rounds each share to a neighbouring number favours an earlier participant.
THEOREM SplitIsClosest == Spec => []ClosestSplit
<1>1. Spec => []InputsOK
  BY InputsInvariant
<1> QED BY <1>1, SplitClosest, PTL
=============================================================================
