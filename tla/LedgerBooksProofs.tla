------------------------- MODULE LedgerBooksProofs -------------------------
(***************************************************************************)
(* Type correctness of the ledger and the invariant that no account is     *)
(* ever classified beyond its physical consumption, for every number of    *)
(* dimensions, every counter width and all traffic.                        *)
(***************************************************************************)
EXTENDS LedgerProperties, AttributionLemmas

-----------------------------------------------------------------------------
(***************************************************************************)
(* Attribution: every share is a natural number, in an account of the      *)
(* ledger.                                                                 *)
(***************************************************************************)
NatUsage == [Dim -> Nat]
Share == [account: AllAccounts, physical: NatUsage, avoided: NatUsage,
          stranded: NatUsage]

\* distribute_dim gives natural numbers to the participants and leaves one.
LEMMA DistributeType ==
  ASSUME NEW amount \in Nat, NEW weights \in Seq(Nat)
  PROVE  LET r == distribute_dim(amount, weights)
         IN  /\ \A i \in DOMAIN weights : r.out[i] \in Nat
             /\ r.residual \in Nat
<1> DEFINE n == Len(weights)
<1>1. n \in Nat /\ weights \in [1..n -> Nat] /\ DOMAIN weights = 1..n
  BY LenProperties
<1> HIDE DEF n
<1>2. LET r == distribute_dim(amount, weights)
      IN  r.out \in [1..n -> Nat] /\ r.residual \in Nat
  BY <1>1, DistributeConserves
<1> QED BY <1>1, <1>2

\* A 64-bit usage counts natural numbers.
LEMMA UsageIsNat == \A u \in Usage : u \in NatUsage
BY WidthAssumption DEF Usage, NatUsage, U64

\* The id 0 names no account.
LEMMA NoIdOutside == NoId \notin AllAccounts
BY AccountAssumption DEF AllAccounts, NoId

\* Who takes part: accounts of the ledger with natural weights.
LEMMA ParticipantsType ==
  ASSUME NEW e \in Entry, validate(e)
  PROVE  Participants(e) \in Seq([account: AllAccounts, weight: Nat])
<1>1. e \in EntryRecord
  BY DEF Entry
<1>2. /\ e.participants \in Seq(Participant)
      /\ e.account \in AllAccounts \cup {NoId}
  BY <1>1 DEF EntryRecord
<1>3. CASE e.participants # <<>>
  <2>1. e.hasShared
    BY <1>3 DEF Entry
  <2>2. \A i \in DOMAIN e.participants : e.participants[i].account # NoId
    BY <2>1 DEF validate, SharedValid
  <2>3. \A i \in 1..Len(e.participants) :
          e.participants[i] \in [account: AllAccounts, weight: Nat]
    <3>1. \A i \in 1..Len(e.participants) : e.participants[i] \in Participant
      BY <1>2, LenProperties
    <3>2. \A p \in Participant : p.account # NoId
                                => p \in [account: AllAccounts, weight: Nat]
      BY WidthAssumption DEF Participant, U64
    <3>3. DOMAIN e.participants = 1..Len(e.participants)
      BY <1>2, LenProperties
    <3> QED BY <2>2, <3>1, <3>2, <3>3
  <2>4. /\ Len(e.participants) \in Nat
        /\ e.participants \in [1..Len(e.participants) -> [account: AllAccounts, weight: Nat]]
    BY <1>2, <2>3, LenProperties
  <2> QED BY <1>3, <2>4, SeqOf DEF Participants
<1>4. CASE e.participants = <<>> /\ e.account # NoId
  <2>1. [account |-> e.account, weight |-> 1] \in [account: AllAccounts, weight: Nat]
    BY <1>2, <1>4
  <2> QED BY <1>4, <2>1 DEF Participants
<1>5. CASE e.participants = <<>> /\ e.account = NoId
  BY <1>5 DEF Participants
<1> QED BY <1>3, <1>4, <1>5

\* compute_attribution yields shares.
LEMMA AttributionType ==
  ASSUME NEW e \in Entry, validate(e)
  PROVE  compute_attribution(e) \in Seq(Share)
<1> DEFINE ps == Participants(e)
           weights == [i \in DOMAIN ps |-> ps[i].weight]
           part(u, i) == [d \in Dim |-> distribute_dim(u[d], weights).out[i]]
           rest(u) == [d \in Dim |-> distribute_dim(u[d], weights).residual]
           shares == [i \in DOMAIN ps |->
                        [account  |-> ps[i].account,
                         physical |-> part(e.usage, i),
                         avoided  |-> part(e.avoided, i),
                         stranded |-> part(e.stranded, i)]]
           residual == [account  |-> ResidualAccount,
                        physical |-> rest(e.usage),
                        avoided  |-> rest(e.avoided),
                        stranded |-> rest(e.stranded)]
<1>1. ps \in Seq([account: AllAccounts, weight: Nat])
  BY ParticipantsType
<1> HIDE DEF ps
<1>2. weights \in Seq(Nat) /\ DOMAIN weights = DOMAIN ps
  <2>1. /\ Len(ps) \in Nat /\ DOMAIN ps = 1..Len(ps)
        /\ ps \in [1..Len(ps) -> [account: AllAccounts, weight: Nat]]
    BY <1>1, LenProperties
  <2>2. weights \in [1..Len(ps) -> Nat]
    BY <2>1
  <2> QED BY <2>1, <2>2, SeqOf
<1> HIDE DEF weights
<1>3. ASSUME NEW u \in NatUsage
      PROVE  rest(u) \in NatUsage /\ \A i \in DOMAIN ps : part(u, i) \in NatUsage
  BY <1>2, DistributeType DEF NatUsage
<1>4. e.usage \in NatUsage /\ e.avoided \in NatUsage /\ e.stranded \in NatUsage
  BY UsageIsNat DEF Entry, EntryRecord
<1> HIDE DEF part, rest
<1>5. \A i \in DOMAIN ps : shares[i] \in Share
  <2>1. \A i \in DOMAIN ps : ps[i].account \in AllAccounts
    <3>1. ps \in [1..Len(ps) -> [account: AllAccounts, weight: Nat]]
      BY <1>1, LenProperties
    <3> QED BY <3>1
  <2> QED BY <1>3, <1>4, <2>1 DEF Share
<1>6. residual \in Share
  BY <1>3, <1>4 DEF Share, AllAccounts
<1>7. shares \in Seq(Share)
  <2>1. Len(ps) \in Nat /\ DOMAIN ps = 1..Len(ps)
    BY <1>1, LenProperties
  <2>2. shares \in [1..Len(ps) -> Share]
    BY <1>5, <2>1
  <2> QED BY <2>1, <2>2, SeqOf
<1> HIDE DEF shares, residual
<1>8. compute_attribution(e) \in {shares, Append(shares, residual)}
  BY Zenon DEF compute_attribution, shares, residual, part, rest, weights, ps
<1> QED BY <1>6, <1>7, <1>8

-----------------------------------------------------------------------------
(***************************************************************************)
(* The books of one account.                                               *)
(***************************************************************************)
Within(agg) == \A d \in Dim : ClassifiedIn(agg, d) <= agg["physical"][d]

\* What one posted entry adds to an account: one bucket, with the physical
\* usage, or none.
PostingShape(agg) ==
  \A d \in Dim :
    \/ \A b \in Bucket : agg[b][d] = 0
    \/ \E c \in Bucket : /\ agg[c][d] = agg["physical"][d]
                         /\ \A b \in Bucket \ {c} : agg[b][d] = 0

\* Adding an entry, also when an addition fails on the way, keeps an account
\* within its physical total: physical is added before any bucket.
LEMMA AddAggregateWithin ==
  ASSUME NEW dst \in Aggregate, NEW agg \in Aggregate, Within(dst), PostingShape(agg)
  PROVE  AddAggregate(dst, agg) \in Aggregate /\ Within(AddAggregate(dst, agg))
<1> DEFINE new == AddAggregate(dst, agg)
<1>1. ASSUME NEW f \in Field, NEW d \in Dim
      PROVE  /\ dst[f][d] \in U64 /\ agg[f][d] \in U64
             /\ Reached(dst, agg, f, d) => dst[f][d] + agg[f][d] <= MaxU64
  <2>1. dst[f][d] \in U64 /\ agg[f][d] \in U64
    BY DEF Aggregate, Usage
  <2>2. FieldRank[f] <= FieldRank[f]
    BY DEF Field, FieldRank
  <2>3. d \in 1..d
    BY DimAssumption DEF Dim
  <2> QED BY <2>1, <2>2, <2>3 DEF Reached, AddFits
<1>2. new \in Aggregate
  <2>1. \A f \in Field, d \in Dim : new[f][d] \in U64
    BY <1>1, WidthAssumption DEF AddAggregate, U64
  <2> QED BY <2>1 DEF AddAggregate, Aggregate, Usage
<1>3. ASSUME NEW d \in Dim, NEW b \in Bucket, Reached(dst, agg, b, d)
      PROVE  Reached(dst, agg, "physical", d)
  <2>1. \A g \in Field : FieldRank[g] <= FieldRank["physical"]
                           => FieldRank[g] <= FieldRank[b]
    BY DEF Field, Bucket, FieldRank
  <2> QED BY <1>3, <2>1 DEF Reached
<1>4. ASSUME NEW d \in Dim
      PROVE  ClassifiedIn(new, d) <= new["physical"][d]
  <2>1. ClassifiedIn(dst, d) <= dst["physical"][d]
    BY DEF Within
  <2>2. \A f \in Field : /\ dst[f][d] \in Nat /\ agg[f][d] \in Nat
                         /\ new[f][d] = IF Reached(dst, agg, f, d)
                                        THEN dst[f][d] + agg[f][d] ELSE dst[f][d]
    BY <1>1, WidthAssumption DEF AddAggregate, U64
  <2>3. CASE \A b \in Bucket : agg[b][d] = 0
    BY <2>1, <2>2, <2>3 DEF ClassifiedIn, Field, Bucket
  <2>4. ASSUME NEW c \in Bucket, agg[c][d] = agg["physical"][d],
               \A b \in Bucket \ {c} : agg[b][d] = 0
        PROVE  ClassifiedIn(new, d) <= new["physical"][d]
    <3>1. CASE Reached(dst, agg, "physical", d)
      BY <2>1, <2>2, <2>4, <3>1 DEF ClassifiedIn, Field, Bucket
    <3>2. CASE ~Reached(dst, agg, "physical", d)
      <4>1. \A b \in Bucket : new[b][d] = dst[b][d]
        BY <1>3, <2>2, <3>2 DEF Field, Bucket
      <4> QED BY <2>1, <2>2, <3>2, <4>1 DEF ClassifiedIn, Field, Bucket
    <3> QED BY <3>1, <3>2
  <2> QED BY <2>3, <2>4 DEF PostingShape
<1> QED BY <1>2, <1>4 DEF Within

-----------------------------------------------------------------------------
(***************************************************************************)
(* Reclassification.                                                       *)
(***************************************************************************)
MoveState == [accounts: [AllAccounts -> Aggregate], ok: BOOLEAN]
AllWithin(totals) == \A a \in AllAccounts : Within(totals[a])

\* move_out, complete or stopped half way, leaves a usage no larger than before.
LEMMA MoveOutType ==
  ASSUME NEW bucket \in Usage, NEW amount \in NatUsage
  PROVE  /\ MoveOut(bucket, amount) \in Usage
         /\ \A d \in Dim : MoveOut(bucket, amount)[d] <= bucket[d]
         /\ (\A d \in Dim : SubFits(bucket[d], amount[d]))
              => \A d \in Dim : MoveOut(bucket, amount)[d] = bucket[d] - amount[d]
<1>1. ASSUME NEW d \in Dim
      PROVE  /\ MoveOut(bucket, amount)[d] \in U64
             /\ MoveOut(bucket, amount)[d] <= bucket[d]
             /\ (\A k \in Dim : SubFits(bucket[k], amount[k]))
                  => MoveOut(bucket, amount)[d] = bucket[d] - amount[d]
  <2>1. bucket[d] \in U64 /\ amount[d] \in Nat
    BY DEF Usage, NatUsage
  <2>2. d \in 1..d /\ \A k \in 1..d : k \in Dim
    BY DimAssumption DEF Dim
  <2> QED BY <2>1, <2>2, WidthAssumption DEF MoveOut, SubFits, U64
<1> QED BY <1>1 DEF MoveOut, Usage

\* move_in, complete or stopped half way, leaves a 64-bit usage.
LEMMA MoveInType ==
  ASSUME NEW bucket \in Usage, NEW amount \in NatUsage
  PROVE  /\ MoveIn(bucket, amount) \in Usage
         /\ \A d \in Dim : MoveIn(bucket, amount)[d] <= bucket[d] + amount[d]
<1>1. ASSUME NEW d \in Dim
      PROVE  /\ MoveIn(bucket, amount)[d] \in U64
             /\ MoveIn(bucket, amount)[d] <= bucket[d] + amount[d]
  <2>1. bucket[d] \in U64 /\ amount[d] \in Nat
    BY DEF Usage, NatUsage
  <2>2. d \in 1..d
    BY DimAssumption DEF Dim
  <2> QED BY <2>1, <2>2, WidthAssumption DEF MoveIn, AddFits, U64
<1> QED BY <1>1 DEF MoveIn, Usage

\* One share moved, wholly or as far as it goes, keeps every account within
\* its physical total.
LEMMA MoveShareWithin ==
  ASSUME NEW st \in MoveState, NEW share \in Share,
         NEW old \in Bucket, NEW new \in Bucket, AllWithin(st.accounts)
  PROVE  /\ MoveShare(st, share, old, new) \in MoveState
         /\ AllWithin(MoveShare(st, share, old, new).accounts)
<1> DEFINE agg == st.accounts[share.account]
           taken == [agg EXCEPT ![old] = MoveOut(@, share.physical)]
           moved == [taken EXCEPT ![new] = MoveIn(@, share.physical)]
           outOk == \A d \in Dim : SubFits(agg[old][d], share.physical[d])
           inOk == \A d \in Dim : AddFits(taken[new][d], share.physical[d])
           after == IF outOk THEN moved ELSE taken
<1>1. /\ agg \in Aggregate /\ Within(agg)
      /\ share.account \in AllAccounts /\ share.physical \in NatUsage
  BY DEF MoveState, Share, AllWithin
<1> HIDE DEF agg
<1>2. old \in Field /\ new \in Field /\ old # "physical" /\ new # "physical"
  BY DEF Bucket, Field
<1>3. agg[old] \in Usage
  BY <1>1, <1>2 DEF Aggregate
<1>4. taken \in Aggregate
  BY <1>1, <1>2, <1>3, MoveOutType DEF Aggregate
<1>5. \A f \in Field : taken[f] = IF f = old THEN MoveOut(agg[old], share.physical) ELSE agg[f]
  BY <1>1, <1>2 DEF Aggregate
<1> HIDE DEF taken
<1>6. taken[new] \in Usage
  BY <1>2, <1>4 DEF Aggregate
<1>7. moved \in Aggregate
  BY <1>1, <1>2, <1>4, <1>6, MoveInType DEF Aggregate
<1>8. \A f \in Field : moved[f] = IF f = new THEN MoveIn(taken[new], share.physical) ELSE taken[f]
  BY <1>2, <1>4 DEF Aggregate
<1> HIDE DEF moved
<1>9. Within(after)
  <2> SUFFICES ASSUME NEW d \in Dim
               PROVE  ClassifiedIn(after, d) <= after["physical"][d]
    BY DEF Within
  <2>1. \A f \in Field : agg[f][d] \in Nat /\ taken[f][d] \in Nat /\ moved[f][d] \in Nat
    BY <1>1, <1>4, <1>7, WidthAssumption DEF Aggregate, Usage, U64
  <2>2. ClassifiedIn(agg, d) <= agg["physical"][d]
    BY <1>1 DEF Within
  <2>3. /\ \A f \in Field \ {old} : taken[f][d] = agg[f][d]
        /\ taken[old][d] <= agg[old][d]
        /\ outOk => taken[old][d] = agg[old][d] - share.physical[d]
    BY <1>1, <1>2, <1>3, <1>5, MoveOutType
  <2>4. /\ \A f \in Field \ {new} : moved[f][d] = taken[f][d]
        /\ moved[new][d] <= taken[new][d] + share.physical[d]
    BY <1>1, <1>2, <1>6, <1>8, MoveInType
  <2>5. share.physical[d] \in Nat
    BY <1>1 DEF NatUsage
  <2> HIDE DEF outOk
  <2>6. CASE outOk
    <3>1. ClassifiedIn(moved, d) <= ClassifiedIn(agg, d)
      <4>1. CASE old = new
        <5>1. moved[old][d] <= agg[old][d]
          BY <1>2, <2>1, <2>3, <2>4, <2>5, <2>6, <4>1
        <5>2. \A f \in Bucket \ {old} : moved[f][d] = agg[f][d]
          BY <2>3, <2>4, <4>1 DEF Bucket, Field
        <5> QED BY <2>1, <5>1, <5>2 DEF ClassifiedIn, Bucket, Field
      <4>2. CASE old # new
        <5>1. /\ moved[old][d] = agg[old][d] - share.physical[d]
              /\ moved[new][d] <= agg[new][d] + share.physical[d]
          BY <1>2, <2>1, <2>3, <2>4, <2>5, <2>6, <4>2
        <5>2. \A f \in Bucket \ {old, new} : moved[f][d] = agg[f][d]
          BY <2>3, <2>4 DEF Bucket, Field
        <5>3. \A f \in Bucket : agg[f][d] \in Nat /\ moved[f][d] \in Nat
          BY <2>1 DEF Bucket, Field
        <5>4. CASE old = "useful"
          BY <2>5, <4>2, <5>1, <5>2, <5>3, <5>4 DEF ClassifiedIn, Bucket
        <5>5. CASE old = "overhead"
          BY <2>5, <4>2, <5>1, <5>2, <5>3, <5>5 DEF ClassifiedIn, Bucket
        <5>6. CASE old = "waste"
          BY <2>5, <4>2, <5>1, <5>2, <5>3, <5>6 DEF ClassifiedIn, Bucket
        <5>7. CASE old = "unknown"
          BY <2>5, <4>2, <5>1, <5>2, <5>3, <5>7 DEF ClassifiedIn, Bucket
        <5> QED BY <5>4, <5>5, <5>6, <5>7 DEF Bucket
      <4> QED BY <4>1, <4>2
    <3>2. moved["physical"][d] = agg["physical"][d]
      BY <1>2, <2>3, <2>4 DEF Field
    <3>3. ClassifiedIn(agg, d) \in Nat /\ ClassifiedIn(moved, d) \in Nat
      BY <2>1 DEF ClassifiedIn, Field
    <3> QED BY <2>1, <2>2, <2>6, <3>1, <3>2, <3>3 DEF Field
  <2>7. CASE ~outOk
    <3>1. ClassifiedIn(taken, d) <= ClassifiedIn(agg, d)
      BY <2>1, <2>3 DEF ClassifiedIn, Bucket, Field
    <3>2. taken["physical"][d] = agg["physical"][d]
      BY <1>2, <2>3 DEF Field
    <3>3. ClassifiedIn(agg, d) \in Nat /\ ClassifiedIn(taken, d) \in Nat
      BY <2>1 DEF ClassifiedIn, Field
    <3> QED BY <2>1, <2>2, <2>7, <3>1, <3>2, <3>3 DEF Field
  <2> QED BY <2>6, <2>7
<1>10. after \in Aggregate
  BY <1>4, <1>7
<1> HIDE DEF after, outOk, inOk
<1>11. MoveShare(st, share, old, new) =
         IF ~st.ok THEN st
         ELSE [accounts |-> [st.accounts EXCEPT ![share.account] = after],
               ok |-> outOk /\ inOk]
  BY Zenon DEF MoveShare, after, outOk, inOk, moved, taken, agg
<1>12. (outOk /\ inOk) \in BOOLEAN
  BY Zenon DEF outOk, inOk
<1>13. /\ [st.accounts EXCEPT ![share.account] = after] \in [AllAccounts -> Aggregate]
       /\ AllWithin([st.accounts EXCEPT ![share.account] = after])
  BY <1>1, <1>9, <1>10 DEF MoveState, AllWithin
<1> QED BY <1>11, <1>12, <1>13 DEF MoveState

(***************************************************************************)
(* The shares are moved by a recursion over their positions.  A recursive  *)
(* function is a CHOOSE, so it is first shown to exist; both this and what *)
(* it computes go by the least number at which they would fail.            *)
(***************************************************************************)
IsMoveRun(r, totals, shares, old, new, n) ==
  r = [i \in 0..n |-> IF i = 0 THEN [accounts |-> totals, ok |-> TRUE]
                      ELSE MoveShare(r[i - 1], shares[i], old, new)]

\* The loop over the shares has a run: the recursive function exists.
LEMMA MoveRunExists ==
  ASSUME NEW totals, NEW shares, NEW old, NEW new, NEW N \in Nat
  PROVE  \E r : IsMoveRun(r, totals, shares, old, new, N)
<1> DEFINE IsRun(r, n) == IsMoveRun(r, totals, shares, old, new, n)
           T == {n \in Nat : ~ \E r : IsRun(r, n)}
<1>1. SUFFICES ASSUME N \in T PROVE FALSE
  OBVIOUS
<1>2. PICK m \in T : \A k \in T : m <= k
  <2> HIDE DEF T
  <2> QED BY <1>1, LeastNat DEF T
<1>3. m # 0
  <2>1. IsRun([i \in 0..0 |-> [accounts |-> totals, ok |-> TRUE]], 0)
    BY DEF IsMoveRun
  <2> QED BY <2>1
<1>4. m - 1 \in Nat /\ m - 1 \notin T
  BY <1>2, <1>3
<1>5. PICK r : IsRun(r, m - 1)
  BY <1>4
<1> DEFINE s == [i \in 0..m |-> IF i = m THEN MoveShare(r[m - 1], shares[m], old, new)
                                ELSE r[i]]
<1>6. IsRun(s, m)
  <2>1. ASSUME NEW i \in 0..m
        PROVE  s[i] = IF i = 0 THEN [accounts |-> totals, ok |-> TRUE]
                      ELSE MoveShare(s[i - 1], shares[i], old, new)
    <3>1. CASE i = m
      <4>1. m - 1 \in 0..m /\ m - 1 # m
        BY <1>3, <1>4
      <4>2. s[m - 1] = r[m - 1] /\ s[m] = MoveShare(r[m - 1], shares[m], old, new)
        BY <3>1, <4>1
      <4> QED BY <1>3, <3>1, <4>2
    <3>2. CASE i # m /\ i = 0
      BY <1>4, <1>5, <3>2 DEF IsMoveRun
    <3>3. CASE i # m /\ i # 0
      <4>1. i \in 0..(m - 1) /\ i - 1 \in 0..m /\ i - 1 # m
        BY <1>4, <3>3
      <4>2. s[i] = r[i] /\ s[i - 1] = r[i - 1]
        BY <3>3, <4>1
      <4>3. r[i] = MoveShare(r[i - 1], shares[i], old, new)
        BY <1>5, <3>3, <4>1 DEF IsMoveRun
      <4> QED BY <3>3, <4>2, <4>3
    <3> QED BY <3>1, <3>2, <3>3
  <2> QED BY <2>1 DEF IsMoveRun
<1> QED BY <1>6

\* A revision, also one that fails half way, keeps every account within its
\* physical total.
LEMMA MoveSharesWithin ==
  ASSUME NEW totals \in [AllAccounts -> Aggregate], AllWithin(totals),
         NEW shares \in Seq(Share), NEW old \in Bucket, NEW new \in Bucket
  PROVE  LET st == MoveShares(totals, shares, old, new)
         IN  st \in MoveState /\ AllWithin(st.accounts)
<1> DEFINE run == CHOOSE r : r = [i \in 0..Len(shares) |->
                      IF i = 0 THEN [accounts |-> totals, ok |-> TRUE]
                      ELSE MoveShare(r[i - 1], shares[i], old, new)]
           Good(i) == run[i] \in MoveState /\ AllWithin(run[i].accounts)
           T == {i \in 0..Len(shares) : ~Good(i)}
<1>1. Len(shares) \in Nat /\ shares \in [1..Len(shares) -> Share]
  BY LenProperties
<1>2. MoveShares(totals, shares, old, new) = run[Len(shares)]
  BY Zenon DEF MoveShares
<1>3. IsMoveRun(run, totals, shares, old, new, Len(shares))
  <2>1. \E r : IsMoveRun(r, totals, shares, old, new, Len(shares))
    BY <1>1, MoveRunExists
  <2> QED BY <2>1, Zenon DEF IsMoveRun
<1> HIDE DEF run
<1>4. Good(0)
  <2>1. run[0] = [accounts |-> totals, ok |-> TRUE]
    BY <1>1, <1>3 DEF IsMoveRun
  <2> QED BY <2>1 DEF MoveState
<1>5. ASSUME NEW i \in 1..Len(shares), Good(i - 1)
      PROVE  Good(i)
  <2>1. run[i] = MoveShare(run[i - 1], shares[i], old, new)
    <3>1. i \in 0..Len(shares) /\ i # 0
      BY <1>1
    <3> QED BY <1>3, <3>1 DEF IsMoveRun
  <2>2. shares[i] \in Share
    BY <1>1
  <2> QED BY <1>5, <2>1, <2>2, MoveShareWithin
<1> HIDE DEF Good
<1>6. T = {}
  <2> SUFFICES ASSUME T # {} PROVE FALSE
    OBVIOUS
  <2>1. T \subseteq Nat
    BY <1>1
  <2>2. PICK m \in T : \A k \in T : m <= k
    <3> HIDE DEF T
    <3> QED BY <2>1, LeastNat
  <2>3. m \in 0..Len(shares) /\ ~Good(m)
    BY <2>2
  <2>4. m # 0
    BY <1>4, <2>3
  <2>5. m - 1 \in 0..Len(shares) /\ m - 1 \notin T /\ m \in 1..Len(shares)
    BY <1>1, <2>2, <2>3, <2>4
  <2>6. Good(m - 1)
    BY <2>5
  <2> QED BY <1>5, <2>3, <2>5, <2>6
<1>7. Good(Len(shares))
  BY <1>1, <1>6
<1> QED BY <1>2, <1>7 DEF Good

-----------------------------------------------------------------------------
(***************************************************************************)
(* append_locked.                                                          *)
(***************************************************************************)

\* A posting goes to at most one bucket, with the physical share.
LEMMA PendingShape ==
  ASSUME NEW e, NEW a \in AllAccounts
  PROVE  PostingShape(Pending(e)[a])
<1> DEFINE shares == compute_attribution(e)
           of(b, f, d) == SumSeq([i \in DOMAIN shares |->
                                    IF shares[i].account = b THEN shares[i][f][d] ELSE 0])
<1>1. ASSUME NEW f \in Field, NEW d \in Dim
      PROVE  Pending(e)[a][f][d] =
               IF f \notin Bucket THEN of(a, f, d)
               ELSE IF e.class \in ConsumptionClass /\ f = BucketOf(e.class)
               THEN of(a, "physical", d) ELSE 0
  BY Zenon DEF Pending
<1> HIDE DEF of
<1>2. "physical" \in Field /\ "physical" \notin Bucket /\ Bucket \subseteq Field
  BY DEF Field, Bucket
<1>3. BucketOf(e.class) \in Bucket
  BY DEF BucketOf, Bucket
<1> SUFFICES ASSUME NEW d \in Dim
             PROVE  \/ \A b \in Bucket : Pending(e)[a][b][d] = 0
                    \/ \E c \in Bucket :
                         /\ Pending(e)[a][c][d] = Pending(e)[a]["physical"][d]
                         /\ \A b \in Bucket \ {c} : Pending(e)[a][b][d] = 0
  BY DEF PostingShape
<1>4. CASE e.class \notin ConsumptionClass
  BY <1>1, <1>2, <1>4
<1>5. CASE e.class \in ConsumptionClass
  <2>1. Pending(e)[a][BucketOf(e.class)][d] = Pending(e)[a]["physical"][d]
    BY <1>1, <1>2, <1>3, <1>5
  <2>2. \A b \in Bucket \ {BucketOf(e.class)} : Pending(e)[a][b][d] = 0
    BY <1>1, <1>2
  <2> QED BY <1>3, <2>1, <2>2
<1> QED BY <1>4, <1>5

\* apply_attribution, in whatever order it visits the accounts and wherever it
\* stops, leaves every account within its physical total.
LEMMA ApplyWithin ==
  ASSUME accounts \in [AllAccounts -> Aggregate], AllWithin(accounts),
         NEW e, NEW outcome \in apply_attribution(e)
  PROVE  outcome \in MoveState /\ AllWithin(outcome.accounts)
<1> DEFINE pending == Pending(e)
           added(as) == AddTo(as, pending)
<1>1. \/ outcome = [accounts |-> accounts, ok |-> FALSE]
      \/ /\ pending \in [AllAccounts -> Aggregate]
         /\ \E as, ok : /\ ok \in BOOLEAN
                        /\ outcome = [accounts |-> added(as), ok |-> ok]
  BY DEF apply_attribution
<1>2. CASE outcome = [accounts |-> accounts, ok |-> FALSE]
  BY <1>2 DEF MoveState
<1>3. ASSUME pending \in [AllAccounts -> Aggregate],
             NEW as, NEW ok \in BOOLEAN,
             outcome = [accounts |-> added(as), ok |-> ok]
      PROVE  outcome \in MoveState /\ AllWithin(outcome.accounts)
  <2>1. ASSUME NEW a \in AllAccounts
        PROVE  added(as)[a] \in Aggregate /\ Within(added(as)[a])
    <3>1. accounts[a] \in Aggregate /\ pending[a] \in Aggregate /\ Within(accounts[a])
      BY <1>3 DEF AllWithin
    <3>2. PostingShape(pending[a])
      BY PendingShape
    <3> HIDE DEF pending
    <3> QED BY <3>1, <3>2, AddAggregateWithin DEF AddTo
  <2>2. added(as) \in [AllAccounts -> Aggregate]
    BY <2>1 DEF AddTo
  <2> QED BY <1>3, <2>1, <2>2 DEF MoveState, AllWithin
<1> HIDE DEF pending, added
<1> QED BY <1>1, <1>2, <1>3

\* Beside the type: committed entries are valid, which is what makes the
\* attribution a revision recomputes well defined, and a loop has entries left.
HistoryValid == \A i \in DOMAIN history : validate(history[i])
LoopBusy == loop.kind # "idle" => loop.rest # <<>>

\* The inductive invariant.
BooksInv == TypeOK /\ HistoryValid /\ LoopBusy /\ NeverOverclassified

\* NeverOverclassified, account by account.
LEMMA WithinAccounts == NeverOverclassified <=> AllWithin(accounts)
BY Zenon DEF NeverOverclassified, AllWithin, Within, Classified

\* What an entry that is committed is known to satisfy.
LEMMA EntryOfType ==
  ASSUME history \in Seq(Entry), HistoryValid, NEW id, Committed(id)
  PROVE  EntryOf(id) \in Entry /\ validate(EntryOf(id))
<1>1. PICK i \in DOMAIN history : history[i].id = id
  BY DEF Committed
<1> DEFINE c == CHOOSE j \in DOMAIN history : history[j].id = id
<1>2. c \in DOMAIN history
  BY <1>1
<1> HIDE DEF c
<1>3. EntryOf(id) = history[c]
  BY DEF EntryOf, c
<1> QED BY <1>2, <1>3 DEF HistoryValid

\* Every check answers with one of the ledger's codes.
LEMMA VerdictType ==
  ASSUME NEW e PROVE Verdict(e) \in ErrorCode
<1>1. check_classification_consistency(e) \in {"OK", "INVALID_INPUT", "NOT_AUTHORITATIVE"}
  BY Zenon DEF check_classification_consistency
<1>2. PostingVerdict(e) \in ErrorCode
  BY <1>1 DEF PostingVerdict, ErrorCode
<1>3. RevisionVerdict(e) \in ErrorCode
  BY DEF RevisionVerdict, ErrorCode
<1> QED BY <1>2, <1>3 DEF Verdict, ErrorCode

\* An entry the checks let through is valid, and a revision's target is there.
LEMMA VerdictOk ==
  ASSUME NEW e, Verdict(e) = "OK"
  PROVE  /\ validate(e)
         /\ e.event = "kReclassify" =>
              /\ Committed(e.target)
              /\ EntryOf(e.target).class \in ConsumptionClass => e.class \in ConsumptionClass
BY DEF Verdict, RevisionVerdict

\* A valid entry appended to a valid history keeps it valid.
LEMMA AppendHistory ==
  ASSUME history \in Seq(Entry), HistoryValid, NEW e \in Entry, validate(e)
  PROVE  LET h == Append(history, e)
         IN  h \in Seq(Entry) /\ \A i \in DOMAIN h : validate(h[i])
<1>1. Append(history, e) \in Seq(Entry)
  OBVIOUS
<1>2. ASSUME NEW i \in 1..(Len(history) + 1)
      PROVE  validate(Append(history, e)[i])
  BY <1>2 DEF HistoryValid
<1>3. DOMAIN Append(history, e) = 1..(Len(history) + 1)
  OBVIOUS
<1> QED BY <1>1, <1>2, <1>3

\* An attempt that takes in an entry is still an attempt state.
LEMMA AttemptAfterType ==
  ASSUME NEW e \in Entry, NEW st \in AttemptState
  PROVE  AttemptAfter(st, e) \in AttemptState
<1>1. /\ e.outcome \in AttemptOutcome /\ e.attemptGen \in Nat
      /\ e.fences.publication \in Nat
  BY DEF Entry, EntryRecord, Fences
<1>2. st.outcome \in AttemptOutcome /\ st.generation \in Nat /\ st.lastPublication \in Nat
  BY DEF AttemptState
<1> QED BY <1>1, <1>2, Zenon DEF AttemptAfter, AttemptState

(***************************************************************************)
(* The part of the invariant that append_locked can disturb.               *)
(***************************************************************************)
BookTypes ==
  /\ history \in Seq(Entry)
  /\ accounts \in [AllAccounts -> Aggregate]
  /\ attempts \in [AttemptIds -> AttemptState]
  /\ completed \in [Gate -> SUBSET OwnerIds]
  /\ reply \in ErrorCode
BookState == BookTypes /\ HistoryValid /\ AllWithin(accounts)

\* What is answered is one of the ledger's codes, in a load too.
LEMMA AnswerType ==
  ASSUME NEW status \in ErrorCode, Answer(status)
  PROVE  reply' \in ErrorCode
BY DEF Answer, ErrorCode

\* A refusal changes nothing but the answer.
LEMMA RefusePreserves ==
  ASSUME BookState, NEW e, Refuse(e)
  PROVE  BookState'
<1>1. reply' \in ErrorCode
  BY VerdictType, AnswerType DEF Refuse
<1> QED BY <1>1 DEF BookState, BookTypes, HistoryValid, AllWithin, Refuse, books

\* A posting, committed or stopped by an overflow, keeps the books in order.
LEMMA PostPreserves ==
  ASSUME BookState, NEW e \in Entry, Post(e)
  PROVE  BookState'
<1>1. PICK outcome \in apply_attribution(e) :
       /\ accounts' = outcome.accounts
       /\ Answer(IF outcome.ok THEN "OK" ELSE "OVERFLOW")
       /\ completed' = IF outcome.ok /\ Gated(e)
                       THEN [completed EXCEPT ![GateOf(e.event)] = @ \cup {e.owner}]
                       ELSE completed
       /\ attempts' = IF outcome.ok /\ e.attempt # NoId
                      THEN [attempts EXCEPT ![e.attempt] = AttemptAfter(@, e)]
                      ELSE attempts
       /\ history' = IF outcome.ok THEN Append(history, e) ELSE history
  BY Zenon DEF Post
<1>2. outcome \in MoveState /\ AllWithin(outcome.accounts)
  BY ApplyWithin DEF BookState, BookTypes
<1>3. accounts' \in [AllAccounts -> Aggregate] /\ AllWithin(accounts')
  BY <1>1, <1>2 DEF MoveState
<1>4. reply' \in ErrorCode
  BY <1>1, AnswerType DEF ErrorCode
<1>5. completed' \in [Gate -> SUBSET OwnerIds]
  <2>1. completed \in [Gate -> SUBSET OwnerIds]
    BY DEF BookState, BookTypes
  <2>2. ASSUME Gated(e) PROVE e.owner \in OwnerIds /\ GateOf(e.event) \in Gate
    BY <2>2 DEF Gated, Entry, EntryRecord, GateOf, Gate
  <2> QED BY <1>1, <2>1, <2>2
<1>6. attempts' \in [AttemptIds -> AttemptState]
  <2>1. attempts \in [AttemptIds -> AttemptState]
    BY DEF BookState, BookTypes
  <2>2. e.attempt # NoId => e.attempt \in AttemptIds
    BY DEF Entry, EntryRecord
  <2>3. e.attempt # NoId => AttemptAfter(attempts[e.attempt], e) \in AttemptState
    BY <2>1, <2>2, AttemptAfterType
  <2> QED BY <1>1, <2>1, <2>2, <2>3
<1>7. history' \in Seq(Entry) /\ HistoryValid'
  <2>1. history \in Seq(Entry) /\ HistoryValid
    BY DEF BookState, BookTypes
  <2>2. validate(e)
    BY VerdictOk DEF Post
  <2> QED BY <1>1, <2>1, <2>2, AppendHistory DEF HistoryValid
<1> QED BY <1>3, <1>4, <1>5, <1>6, <1>7 DEF BookState, BookTypes, AllWithin

\* A revision moves the shares of a valid target between two buckets.
LEMMA ReclassifyWithin ==
  ASSUME BookState, NEW e, Committed(e.target)
  PROVE  LET outcome == apply_reclassify_locked(e)
         IN  outcome \in MoveState /\ AllWithin(outcome.accounts)
<1> DEFINE target == EntryOf(e.target)
           old == BucketOf(target.class)
           new == BucketOf(e.class)
<1>1. /\ history \in Seq(Entry) /\ HistoryValid
      /\ accounts \in [AllAccounts -> Aggregate] /\ AllWithin(accounts)
  BY DEF BookState, BookTypes
<1>2. target \in Entry /\ validate(target)
  BY <1>1, EntryOfType
<1> HIDE DEF target
<1>3. compute_attribution(target) \in Seq(Share)
  BY <1>2, AttributionType
<1>4. old \in Bucket /\ new \in Bucket
  BY DEF BucketOf, Bucket
<1> HIDE DEF old, new
<1>5. LET st == MoveShares(accounts, compute_attribution(target), old, new)
      IN  st \in MoveState /\ AllWithin(st.accounts)
  BY <1>1, <1>3, <1>4, MoveSharesWithin
<1>6. apply_reclassify_locked(e) =
        IF target.class \in ConsumptionClass
        THEN MoveShares(accounts, compute_attribution(target), old, new)
        ELSE [accounts |-> accounts, ok |-> TRUE]
  BY Zenon DEF apply_reclassify_locked, target, old, new
<1>7. CASE target.class \in ConsumptionClass
  BY <1>5, <1>6, <1>7
<1>8. CASE target.class \notin ConsumptionClass
  BY <1>1, <1>6, <1>8 DEF MoveState
<1> QED BY <1>7, <1>8

\* A revision, committed or failed half way, keeps the books in order.
LEMMA RevisePreserves ==
  ASSUME BookState, NEW e \in Entry, Revise(e)
  PROVE  BookState'
<1> DEFINE outcome == apply_reclassify_locked(e)
<1>1. /\ accounts' = outcome.accounts
      /\ Answer(IF outcome.ok THEN "OK" ELSE "RECONCILIATION_FAILURE")
      /\ history' = IF outcome.ok THEN Append(history, e) ELSE history
      /\ UNCHANGED <<attempts, completed>>
  BY DEF Revise
<1>2. validate(e) /\ Committed(e.target)
  BY VerdictOk DEF Revise
<1>3. outcome \in MoveState /\ AllWithin(outcome.accounts)
  BY <1>2, ReclassifyWithin
<1> HIDE DEF outcome
<1>4. accounts' \in [AllAccounts -> Aggregate] /\ AllWithin(accounts')
  BY <1>1, <1>3 DEF MoveState
<1>5. reply' \in ErrorCode
  BY <1>1, AnswerType DEF ErrorCode
<1>6. history' \in Seq(Entry) /\ HistoryValid'
  <2>1. history \in Seq(Entry) /\ HistoryValid
    BY DEF BookState, BookTypes
  <2> QED BY <1>1, <1>2, <2>1, AppendHistory DEF HistoryValid
<1> QED BY <1>1, <1>4, <1>5, <1>6 DEF BookState, BookTypes, AllWithin

\* append_locked, for any entry in any state of the books.
LEMMA AppendLockedPreserves ==
  ASSUME BookState, NEW e \in Entry, append_locked(e)
  PROVE  BookState'
BY RefusePreserves, PostPreserves, RevisePreserves DEF append_locked

-----------------------------------------------------------------------------
(***************************************************************************)
(* The operations.                                                         *)
(***************************************************************************)

\* What is left of the invariant beside the books.
ControlState ==
  /\ epoch \in Nat /\ ledgerGen \in Nat /\ accountGen \in Nat
  /\ shuttingDown \in BOOLEAN
  /\ liveWorkers \subseteq Boots
  /\ loop \in [kind: LoopKind, rest: Seq(Entry)]
  /\ saved \subseteq Snapshot
  /\ LoopBusy

\* The invariant splits into what append_locked touches and what it does not.
LEMMA InvariantParts == BooksInv <=> BookState /\ ControlState
<1>1. NeverOverclassified <=> AllWithin(accounts)
  BY WithinAccounts
<1> QED BY <1>1, Zenon DEF BooksInv, TypeOK, BookState, BookTypes, ControlState

\* The same split after a step.
LEMMA InvariantPartsPrime == BooksInv' <=> BookState' /\ ControlState'
BY InvariantParts, PTL

\* No usage is a usage.
LEMMA ZeroUsageType == ZeroUsage \in Usage
BY WidthAssumption DEF ZeroUsage, Usage, U64

\* A default-constructed entry is well formed.
LEMMA BlankEntryType == BlankEntry \in Entry
<1>1. NoId \in Nat /\ <<>> \in Seq(Participant)
  BY DEF NoId
<1>2. BlankEntry \in EntryRecord
  BY <1>1, ZeroUsageType DEF BlankEntry, EntryRecord, EfficiencyClass, ConsumptionClass,
     EventType, SignalEvent, Fences, NoFences, AttemptOutcome
<1> QED BY <1>2 DEF Entry, BlankEntry

\* A revision is a well-formed entry, whatever account and attempt it is given.
LEMMA RevisionForm ==
  ASSUME NEW req \in Request, NEW a \in AllAccounts \cup {NoId},
         NEW x \in AttemptIds \cup {NoId}, NEW g \in Nat
  PROVE  /\ BlankRevision(req) \in Entry
         /\ [BlankRevision(req) EXCEPT !.account = a, !.attempt = x, !.attemptGen = g] \in Entry
<1> DEFINE blank == BlankRevision(req)
           rev == [blank EXCEPT !.account = a, !.attempt = x, !.attemptGen = g]
<1>1. /\ req.revision \in EntryIds \cup {NoId} /\ req.target \in EntryIds \cup {NoId}
      /\ req.class \in EfficiencyClass /\ req.fences \in Fences
      /\ req.noteFits \in BOOLEAN
  BY DEF Request
<1>2. "kReclassify" \in EventType /\ "kPending" \in AttemptOutcome /\ NoId \in Nat
  BY DEF EventType, AttemptOutcome, NoId
<1>3. <<>> \in Seq(Participant)
  OBVIOUS
<1>4. BlankEntry \in EntryRecord
  BY <1>2, <1>3, ZeroUsageType DEF BlankEntry, EntryRecord, EfficiencyClass,
     ConsumptionClass, EventType, SignalEvent, Fences, NoFences
<1>5. blank \in EntryRecord
  BY <1>1, <1>2, <1>4 DEF EntryRecord, BlankRevision
<1>6. /\ blank.hasAvoided = FALSE /\ blank.avoided = ZeroUsage
      /\ blank.hasStranded = FALSE /\ blank.stranded = ZeroUsage
      /\ blank.hasShared = FALSE /\ blank.participants = <<>>
  BY DEF BlankEntry, BlankRevision
<1> HIDE DEF blank
<1>7. rev \in EntryRecord
  BY <1>5 DEF EntryRecord
<1>8. /\ rev.hasAvoided = FALSE /\ rev.avoided = ZeroUsage
      /\ rev.hasStranded = FALSE /\ rev.stranded = ZeroUsage
      /\ rev.hasShared = FALSE /\ rev.participants = <<>>
  BY <1>5, <1>6 DEF EntryRecord
<1>9. blank \in Entry /\ rev \in Entry
  <2> HIDE DEF rev
  <2> QED BY <1>5, <1>6, <1>7, <1>8 DEF Entry
<1> QED BY <1>9 DEF blank

\* reclassify hands append_locked a well-formed entry.
LEMMA RevisionType ==
  ASSUME BookState, NEW req \in Request
  PROVE  Revision(req) \in Entry
<1> DEFINE t == EntryOf(req.target)
           acc == IF t.account # NoId THEN t.account ELSE ResidualAccount
<1>1. NoId \in AllAccounts \cup {NoId} /\ NoId \in AttemptIds \cup {NoId} /\ NoId \in Nat
  BY DEF NoId
<1>2. CASE ~Committed(req.target)
  <2>1. Revision(req) = BlankRevision(req)
    BY <1>2 DEF Revision
  <2> QED BY <1>1, <2>1, RevisionForm
<1>3. CASE Committed(req.target)
  <2>1. t \in Entry
    BY <1>3, EntryOfType DEF BookState, BookTypes
  <2>2. /\ acc \in AllAccounts \cup {NoId} /\ t.attempt \in AttemptIds \cup {NoId}
        /\ t.attemptGen \in Nat
    BY <2>1 DEF Entry, EntryRecord, AllAccounts
  <2>3. Revision(req) = [BlankRevision(req) EXCEPT !.account = acc, !.attempt = t.attempt,
                                                   !.attemptGen = t.attemptGen]
    BY <1>3, Zenon DEF Revision
  <2> HIDE DEF acc, t
  <2>4. [BlankRevision(req) EXCEPT !.account = acc, !.attempt = t.attempt,
                                   !.attemptGen = t.attemptGen] \in Entry
    BY <2>2, RevisionForm, Zenon
  <2> QED BY <2>3, <2>4
<1> QED BY <1>2, <1>3

\* The loop of a free mutex.
LEMMA IdleType == Idle \in [kind: LoopKind, rest: Seq(Entry)] /\ Idle.kind = "idle"
BY DEF Idle, LoopKind

\* A loop that is started is well formed.
LEMMA StartLoopType ==
  ASSUME NEW kind \in LoopKind, NEW entries \in Seq(Entry), StartLoop(kind, entries)
  PROVE  loop' \in [kind: LoopKind, rest: Seq(Entry)] /\ LoopBusy' /\ reply' \in ErrorCode
BY IdleType DEF StartLoop, LoopBusy, ErrorCode

\* Empty books are within every bound.
LEMMA EmptyBooks ==
  /\ NoTotals \in [AllAccounts -> Aggregate]
  /\ AllWithin(NoTotals)
  /\ NoAttempts \in [AttemptIds -> AttemptState]
  /\ [g \in Gate |-> {}] \in [Gate -> SUBSET OwnerIds]
<1>1. NoTotals \in [AllAccounts -> Aggregate]
  BY ZeroUsageType DEF NoTotals, Aggregate
<1>2. ASSUME NEW a \in AllAccounts, NEW f \in Field, NEW d \in Dim
      PROVE  NoTotals[a][f][d] = 0
  BY DEF NoTotals, ZeroUsage
<1>3. AllWithin(NoTotals)
  BY <1>2 DEF AllWithin, Within, ClassifiedIn, Field
<1>4. NoAttempts \in [AttemptIds -> AttemptState]
  BY DEF NoAttempts, AttemptState, AttemptOutcome, NoId
<1> QED BY <1>1, <1>3, <1>4

\* What load_history clears is in order.
LEMMA ClearedBooks ==
  ASSUME ClearBooks, reply' \in ErrorCode
  PROVE  BookState'
BY EmptyBooks DEF ClearBooks, BookState, BookTypes, HistoryValid, AllWithin

\* A new ledger satisfies the invariant.
LEMMA BooksInvInit == Init => BooksInv
<1> SUFFICES ASSUME Init PROVE BookState /\ ControlState
  BY InvariantParts
<1>1. BookState
  BY EmptyBooks DEF Init, BookState, BookTypes, HistoryValid, AllWithin, ErrorCode
<1>2. ControlState
  BY IdleType DEF Init, ControlState, LoopBusy
<1> QED BY <1>1, <1>2

\* Books an operation does not touch stay as they are.
LEMMA SameBooks ==
  ASSUME BookState, UNCHANGED books, reply' \in ErrorCode
  PROVE  BookState'
BY DEF books, BookState, BookTypes, HistoryValid, AllWithin

\* Control state an operation does not touch stays as it is.
LEMMA SameControl ==
  ASSUME ControlState, UNCHANGED <<authority, shuttingDown, loop, saved>>
  PROVE  ControlState'
BY DEF authority, ControlState, LoopBusy

\* A turn of a loop hands append_locked the next entry and shortens the rest.
LEMMA LoopStepPreserves ==
  ASSUME BookState, ControlState, LoopStep
  PROVE  BookState' /\ ControlState'
<1>1. /\ loop.rest \in Seq(Entry) /\ loop.rest # <<>>
      /\ loop \in [kind: LoopKind, rest: Seq(Entry)]
  BY DEF ControlState, LoopStep, LockFree, LoopBusy
<1>2. Head(loop.rest) \in Entry /\ Tail(loop.rest) \in Seq(Entry)
  BY <1>1
<1>3. BookState'
  BY <1>2, AppendLockedPreserves DEF LoopStep
<1>4. Len(loop.rest) > 1 => Tail(loop.rest) # <<>>
  <2> DEFINE r == loop.rest
  <2>1. r \in Seq(Entry) /\ r # <<>>
    BY <1>1
  <2> HIDE DEF r
  <2>2. Len(Tail(r)) = Len(r) - 1 /\ Len(r) \in Nat
    BY <2>1
  <2>3. Len(<<>>) = 0
    OBVIOUS
  <2>4. Len(r) > 1 => Tail(r) # <<>>
    BY <2>2, <2>3
  <2> QED BY <2>4 DEF r
<1>5. loop' \in [kind: LoopKind, rest: Seq(Entry)] /\ LoopBusy'
  <2>1. CASE reply' = "OK" /\ Len(loop.rest) > 1
    <3>1. loop' = [loop EXCEPT !.rest = Tail(@)]
      BY <2>1 DEF LoopStep
    <3> QED BY <1>1, <1>2, <1>4, <2>1, <3>1 DEF LoopBusy
  <2>2. CASE ~(reply' = "OK" /\ Len(loop.rest) > 1)
    <3>1. loop' = Idle
      BY <2>2 DEF LoopStep
    <3> QED BY <3>1, IdleType DEF LoopBusy
  <2> QED BY <2>1, <2>2
<1> QED BY <1>3, <1>5 DEF ControlState, LoopStep, authority

\* Every step of the ledger keeps the invariant.
LEMMA BooksInvStep == BooksInv /\ [Next]_vars => BooksInv'
<1> SUFFICES ASSUME BookState, ControlState, [Next]_vars
             PROVE  BookState' /\ ControlState'
  BY InvariantParts, InvariantPartsPrime
<1>0. reply \in ErrorCode
  BY DEF BookState, BookTypes
<1>1. ASSUME NEW e \in Submissions, AppendEntry(e)
      PROVE  BookState' /\ ControlState'
  <2>1. e \in Entry
    BY SubmissionAssumption
  <2> QED BY <1>1, <2>1, AppendLockedPreserves, SameControl DEF AppendEntry
<1>2. ASSUME NEW es \in Batches, AppendBatch(es)
      PROVE  BookState' /\ ControlState'
  <2>1. es \in Seq(Entry)
    BY SubmissionAssumption
  <2>2. "batch" \in LoopKind
    BY DEF LoopKind
  <2>3. loop' \in [kind: LoopKind, rest: Seq(Entry)] /\ LoopBusy' /\ reply' \in ErrorCode
    BY <1>2, <2>1, <2>2, StartLoopType DEF AppendBatch
  <2> QED BY <1>2, <2>3, SameBooks DEF AppendBatch, ControlState, authority
<1>3. ASSUME NEW req \in Requests, Reclassify(req)
      PROVE  BookState' /\ ControlState'
  <2>1. Revision(req) \in Entry
    BY SubmissionAssumption, RevisionType
  <2> QED BY <1>3, <2>1, AppendLockedPreserves, SameControl DEF Reclassify
<1>4. CASE LoopStep
  BY <1>4, LoopStepPreserves
<1>5. ASSUME NEW s \in saved \cup Records, LoadHistory(s)
      PROVE  BookState' /\ ControlState'
  <2>1. s.history \in Seq(Entry)
    BY RecordAssumption DEF ControlState, Snapshot
  <2>2. "replay" \in LoopKind
    BY DEF LoopKind
  <2>3. loop' \in [kind: LoopKind, rest: Seq(Entry)] /\ LoopBusy' /\ reply' \in ErrorCode
    BY <1>5, <2>1, <2>2, StartLoopType DEF LoadHistory
  <2> QED BY <1>5, <2>3, ClearedBooks DEF LoadHistory, ControlState, authority
<1>6. ASSUME NEW s \in saved \cup Records, LoadFromString(s)
      PROVE  BookState' /\ ControlState'
  <2>1. /\ s.history \in Seq(Entry)
        /\ s.epoch \in Nat /\ s.ledgerGen \in Nat /\ s.accountGen \in Nat
    BY RecordAssumption DEF ControlState, Snapshot
  <2>2. "load" \in LoopKind
    BY DEF LoopKind
  <2>3. loop' \in [kind: LoopKind, rest: Seq(Entry)] /\ LoopBusy' /\ reply' \in ErrorCode
    BY <1>6, <2>1, <2>2, StartLoopType DEF LoadFromString
  <2> QED BY <1>6, <2>1, <2>3, ClearedBooks DEF LoadFromString, ControlState
<1>6a. ASSUME NEW s \in saved \cup Records, LoadRefused(s)
       PROVE  BookState' /\ ControlState'
  <2>1. reply' \in ErrorCode
    BY <1>6a DEF LoadRefused, ErrorCode
  <2> QED BY <1>6a, <2>1, SameBooks, SameControl DEF LoadRefused
<1>7. CASE SaveToString
  <2>1. history \in Seq(Entry)
    BY DEF BookState, BookTypes
  <2>2. saved' \subseteq Snapshot
    BY <1>7, <2>1 DEF SaveToString, Snapshot, ControlState
  <2>3. reply' \in ErrorCode
    BY <1>7 DEF SaveToString, ErrorCode
  <2> QED BY <1>7, <2>2, <2>3, SameBooks DEF SaveToString, ControlState, authority, LoopBusy
<1>8. CASE Construct
  <2>1. reply' \in ErrorCode
    BY <1>8 DEF Construct, Fresh, ErrorCode
  <2> QED BY <1>8, <2>1, ClearedBooks, IdleType DEF Construct, Fresh, ControlState, LoopBusy
<1>9. CASE AdvanceEpoch
  <2>1. epoch' \in Nat
    BY <1>9 DEF AdvanceEpoch, ControlState
  <2> QED BY <1>0, <1>9, <2>1, SameBooks DEF AdvanceEpoch, ControlState, LoopBusy
<1>10. ASSUME NEW v \in Epochs, SetEpoch(v)
       PROVE  BookState' /\ ControlState'
  <2>1. epoch' \in Nat
    BY <1>10, BoundAssumption DEF SetEpoch
  <2> QED BY <1>0, <1>10, <2>1, SameBooks DEF SetEpoch, ControlState, LoopBusy
<1>11. ASSUME NEW lg \in Generations, NEW ag \in Generations, SetGenerations(lg, ag)
       PROVE  BookState' /\ ControlState'
  <2>1. ledgerGen' \in Nat /\ accountGen' \in Nat
    BY <1>11, BoundAssumption DEF SetGenerations
  <2> QED BY <1>0, <1>11, <2>1, SameBooks DEF SetGenerations, ControlState, LoopBusy
<1>12. ASSUME NEW b \in Boots, RegisterWorker(b) \/ UnregisterWorker(b)
       PROVE  BookState' /\ ControlState'
  <2>1. liveWorkers' \subseteq Boots
    BY <1>12 DEF RegisterWorker, UnregisterWorker, ControlState
  <2> QED BY <1>0, <1>12, <2>1, SameBooks
          DEF RegisterWorker, UnregisterWorker, ControlState, LoopBusy
<1>13. CASE SetShuttingDown
  BY <1>0, <1>13, SameBooks DEF SetShuttingDown, authority, ControlState, LoopBusy
<1>14. CASE UNCHANGED vars
  BY <1>0, <1>14, SameBooks DEF vars, books, ControlState, LoopBusy
<1> QED BY <1>1, <1>2, <1>3, <1>4, <1>5, <1>6, <1>7, <1>8, <1>9, <1>10, <1>11, <1>12,
          <1>13, <1>14, <1>6a DEF Next

-----------------------------------------------------------------------------
\* The invariant holds in every state the ledger reaches.
THEOREM BooksInvariant == Spec => []BooksInv
BY BooksInvInit, BooksInvStep, PTL DEF Spec

\* Type correctness: no counter of any account leaves its 64-bit range through
\* apply_attribution, move_out or move_in, and every record stays well formed.
THEOREM TypeCorrect == Spec => []TypeOK
<1>1. BooksInv => TypeOK
  BY DEF BooksInv
<1> QED BY <1>1, BooksInvariant, PTL

\* No account is ever classified beyond its physical consumption: not by an
\* append that overflows half way, not by a revision that fails half way, not
\* while history is replayed.
THEOREM Overclassification == Spec => []NeverOverclassified
<1>1. BooksInv => NeverOverclassified
  BY DEF BooksInv
<1> QED BY <1>1, BooksInvariant, PTL
=============================================================================
