----------------------- MODULE LedgerReconcileProofs -----------------------
(***************************************************************************)
(* What the totals say.  reconcile() is exact, only a revision that fails  *)
(* half way opens books that were closed, and the physical totals cover    *)
(* the history.  Under hypotheses that leave out what the code gets wrong, *)
(* and nothing else, the totals are those of the history, a revision never *)
(* fails half way, and what was committed once is accepted by a replay.    *)
(***************************************************************************)
EXTENDS LedgerAuthorityProofs

\* An account whose classes add up to its physical total; all accounts so.
Closed(agg) == \A d \in Dim : ClassifiedIn(agg, d) = agg["physical"][d]
AllClosed(totals) == \A a \in AllAccounts : Closed(totals[a])

-----------------------------------------------------------------------------
(***************************************************************************)
(* reconcile().  An account within its physical total has a classified sum *)
(* that fits the counter, so no sum over its classes wraps; and where all  *)
(* accounts close, the two sums over the accounts are sums of the same     *)
(* terms and wrap alike.                                                   *)
(***************************************************************************)
LEMMA ReconcileByAccount ==
  ASSUME BooksInv, NEW d \in Dim
  PROVE  DimensionClosed(d) <=> \A a \in AllAccounts : Classified(a, d) = accounts[a]["physical"][d]
<1>1. ASSUME NEW a \in AllAccounts
      PROVE  Closes(a, d) <=> Classified(a, d) = accounts[a]["physical"][d]
  <2>1. \A f \in Field : accounts[a][f][d] \in U64
    BY DEF BooksInv, TypeOK, Aggregate, Usage
  <2>2. Classified(a, d) \in Nat /\ accounts[a]["physical"][d] \in 0..MaxU64
    BY <2>1, WidthAssumption DEF Classified, ClassifiedIn, Field, U64
  <2>3. Classified(a, d) <= accounts[a]["physical"][d]
    BY DEF BooksInv, NeverOverclassified
  <2>4. \A n \in Nat : n <= MaxU64 => n % (MaxU64 + 1) = n
    BY WidthAssumption
  <2>5. Wrap(Classified(a, d)) = Classified(a, d)
    BY <2>2, <2>3, <2>4, WidthAssumption DEF Wrap
  <2> QED BY <2>5 DEF Closes
<1>2. ASSUME \A a \in AllAccounts : Classified(a, d) = accounts[a]["physical"][d]
      PROVE  LedgerPhysical(d) = LedgerClassified(d)
  <2>1. [a \in AllAccounts |-> accounts[a]["physical"][d]]
          = [a \in AllAccounts |-> Classified(a, d)]
    BY <1>2
  <2> QED BY <2>1, Zenon DEF LedgerPhysical, LedgerClassified
<1> QED BY <1>1, <1>2, Zenon DEF DimensionClosed

\* reconcile() calls a dimension closed exactly when every account's classes
\* add up to its physical total, whatever wraps in the sums over the accounts.
THEOREM ReconcileIsExact == Spec => []ReconcileExact
<1>1. BooksInv => ReconcileExact
  BY ReconcileByAccount, Zenon DEF ReconcileExact
<1> QED BY <1>1, BooksInvariant, PTL

\* So the books are closed exactly when every account is.
LEMMA BooksClosedByAccount == BooksInv => (BooksClosed <=> AllClosed(accounts))
BY ReconcileByAccount, Zenon DEF BooksClosed, AllClosed, Closed, Classified

\* The same after a step.
LEMMA BooksClosedByAccountPrime == BooksInv' => (BooksClosed' <=> AllClosed(accounts)')
BY BooksClosedByAccount, PTL

-----------------------------------------------------------------------------
(***************************************************************************)
(* Posting.                                                                *)
(***************************************************************************)

\* A sum of zeros.
LEMMA SumOfZeros ==
  ASSUME NEW n \in Nat, NEW u \in [1..n -> Nat], \A i \in 1..n : u[i] = 0
  PROVE  SumSeq(u) = 0
<1>1. \A i \in 1..n : u[i] <= 0
  OBVIOUS
<1>2. SumSeq(u) <= 0 * n /\ SumSeq(u) \in Nat
  BY <1>1, SumAtMost, SumBounds
<1> QED BY <1>2

\* A usage that is zero is shared out as zeros.
LEMMA ZeroShares ==
  ASSUME NEW e \in Entry, validate(e), NEW i \in DOMAIN compute_attribution(e), NEW d \in Dim
  PROVE  LET share == compute_attribution(e)[i]
         IN  /\ IsZero(e.usage) => share.physical[d] = 0
             /\ IsZero(e.avoided) => share.avoided[d] = 0
             /\ IsZero(e.stranded) => share.stranded[d] = 0
<1> DEFINE ps == Participants(e)
           weights == [k \in DOMAIN ps |-> ps[k].weight]
           part(u, k) == [x \in Dim |-> distribute_dim(u[x], weights).out[k]]
           rest(u) == [x \in Dim |-> distribute_dim(u[x], weights).residual]
           shares == [k \in DOMAIN ps |->
                        [account  |-> ps[k].account,
                         physical |-> part(e.usage, k),
                         avoided  |-> part(e.avoided, k),
                         stranded |-> part(e.stranded, k)]]
           residual == [account  |-> ResidualAccount,
                        physical |-> rest(e.usage),
                        avoided  |-> rest(e.avoided),
                        stranded |-> rest(e.stranded)]
<1>1. compute_attribution(e) \in {shares, Append(shares, residual)}
  BY Zenon DEF compute_attribution
<1>2. ps \in Seq([account: AllAccounts, weight: Nat])
  BY ParticipantsType
<1> HIDE DEF ps
<1>3. DOMAIN weights = DOMAIN ps
  OBVIOUS
<1> HIDE DEF weights
<1>4. ASSUME NEW u, IsZero(u)
      PROVE  rest(u)[d] = 0 /\ \A k \in DOMAIN ps : part(u, k)[d] = 0
  <2>1. u[d] = 0
    BY <1>4 DEF IsZero
  <2>2. distribute_dim(u[d], weights) = [out |-> [k \in DOMAIN weights |-> 0], residual |-> u[d]]
    BY <2>1 DEF distribute_dim
  <2> QED BY <1>3, <2>1, <2>2
<1> HIDE DEF part, rest
<1>5. shares \in Seq(UNION {{shares[k]} : k \in DOMAIN ps}) /\ DOMAIN shares = DOMAIN ps
  <2>1. Len(ps) \in Nat /\ DOMAIN ps = 1..Len(ps)
    BY <1>2, LenProperties
  <2>2. shares \in [1..Len(ps) -> UNION {{shares[k]} : k \in DOMAIN ps}]
    BY <2>1
  <2> QED BY <2>1, <2>2, SeqOf
<1>6. compute_attribution(e)[i] = residual \/ \E k \in DOMAIN ps : compute_attribution(e)[i] = shares[k]
  <2>1. CASE compute_attribution(e) = shares
    BY <1>5, <2>1
  <2>2. CASE compute_attribution(e) = Append(shares, residual)
    <3> HIDE DEF shares, residual
    <3>1. i \in 1..(Len(shares) + 1) /\ Len(shares) \in Nat /\ DOMAIN shares = 1..Len(shares)
      BY <1>5, <2>2
    <3>2. CASE i = Len(shares) + 1
      BY <1>5, <2>2, <3>2
    <3>3. CASE i \in 1..Len(shares)
      BY <1>5, <2>2, <3>1, <3>3
    <3> QED BY <3>1, <3>2, <3>3
  <2> QED BY <1>1, <2>1, <2>2
<1> DEFINE zeroed(s) == /\ IsZero(e.usage) => s.physical[d] = 0
                        /\ IsZero(e.avoided) => s.avoided[d] = 0
                        /\ IsZero(e.stranded) => s.stranded[d] = 0
<1>7. zeroed(residual)
  BY <1>4
<1>8. \A k \in DOMAIN ps : zeroed(shares[k])
  BY <1>4
<1> HIDE DEF shares, residual
<1> QED BY <1>6, <1>7, <1>8

\* What is zero in the entry is zero in what the entry adds to an account.
LEMMA ZeroPending ==
  ASSUME NEW e \in Entry, validate(e), NEW a \in AllAccounts, NEW d \in Dim
  PROVE  /\ IsZero(e.usage) => Pending(e)[a]["physical"][d] = 0
         /\ IsZero(e.avoided) => Pending(e)[a]["avoided"][d] = 0
         /\ IsZero(e.stranded) => Pending(e)[a]["stranded"][d] = 0
<1> DEFINE shares == compute_attribution(e)
           terms(f) == [i \in DOMAIN shares |->
                          IF shares[i].account = a THEN shares[i][f][d] ELSE 0]
<1>1. shares \in Seq(Share)
  BY AttributionType
<1>2. \A f \in {"physical", "avoided", "stranded"} : Pending(e)[a][f][d] = SumSeq(terms(f))
  <2>1. \A f \in {"physical", "avoided", "stranded"} : f \in Field /\ f \notin Bucket
    BY DEF Field, Bucket
  <2>2. ASSUME NEW f \in Field, f \notin Bucket PROVE Pending(e)[a][f][d] = SumSeq(terms(f))
    BY <2>2, Zenon DEF Pending
  <2> HIDE DEF terms
  <2> QED BY <2>1, <2>2
<1>3. ASSUME NEW i \in DOMAIN shares
      PROVE  /\ IsZero(e.usage) => shares[i]["physical"][d] = 0
             /\ IsZero(e.avoided) => shares[i]["avoided"][d] = 0
             /\ IsZero(e.stranded) => shares[i]["stranded"][d] = 0
  BY <1>3, ZeroShares
<1> HIDE DEF shares
<1>4. ASSUME NEW f, \A i \in DOMAIN shares : shares[i][f][d] = 0
      PROVE  SumSeq(terms(f)) = 0
  <2>1. Len(shares) \in Nat /\ DOMAIN shares = 1..Len(shares)
    BY <1>1, LenProperties
  <2>2. /\ terms(f) \in [1..Len(shares) -> Nat]
        /\ \A i \in 1..Len(shares) : terms(f)[i] = 0
    BY <1>4, <2>1
  <2> HIDE DEF terms
  <2> QED BY <2>1, <2>2, SumOfZeros
<1> HIDE DEF terms
<1> QED BY <1>2, <1>3, <1>4

\* What a posting adds to an account: consumption goes to one bucket and comes
\* without avoided or stranded amounts; anything else consumes nothing.
ClosedPosting(agg) ==
  \A d \in Dim :
    \/ agg["physical"][d] = 0 /\ \A b \in Bucket : agg[b][d] = 0
    \/ /\ agg["avoided"][d] = 0 /\ agg["stranded"][d] = 0
       /\ \E c \in Bucket : /\ agg[c][d] = agg["physical"][d]
                            /\ \A b \in Bucket \ {c} : agg[b][d] = 0

\* check_classification_consistency makes every posting such.
LEMMA ConsistentPosting ==
  ASSUME NEW e \in Entry, validate(e), check_classification_consistency(e) = "OK",
         NEW a \in AllAccounts
  PROVE  ClosedPosting(Pending(e)[a])
<1> DEFINE agg == Pending(e)[a]
<1>1. PostingShape(agg)
  BY PendingShape
<1>2. \A d \in Dim : /\ IsZero(e.usage) => agg["physical"][d] = 0
                     /\ IsZero(e.avoided) => agg["avoided"][d] = 0
                     /\ IsZero(e.stranded) => agg["stranded"][d] = 0
  BY ZeroPending
<1>3. IsZero(ZeroUsage)
  BY DEF IsZero, ZeroUsage
<1>4. CASE e.class \in ConsumptionClass
  <2>1. ~e.hasAvoided /\ ~e.hasStranded
    BY <1>4 DEF check_classification_consistency
  <2>2. IsZero(e.avoided) /\ IsZero(e.stranded)
    BY <1>3, <2>1 DEF Entry
  <2>3. \A d \in Dim : \E c \in Bucket : /\ agg[c][d] = agg["physical"][d]
                                         /\ \A b \in Bucket \ {c} : agg[b][d] = 0
    <3>1. BucketOf(e.class) \in Bucket /\ Bucket \subseteq Field
          /\ "physical" \in Field /\ "physical" \notin Bucket
      BY DEF BucketOf, Bucket, Field
    <3> DEFINE of(f, d) == SumSeq([i \in DOMAIN compute_attribution(e) |->
                             IF compute_attribution(e)[i].account = a
                             THEN compute_attribution(e)[i][f][d] ELSE 0])
    <3>2. ASSUME NEW f \in Field, NEW d \in Dim
          PROVE  agg[f][d] = IF f \notin Bucket THEN of(f, d)
                             ELSE IF e.class \in ConsumptionClass /\ f = BucketOf(e.class)
                             THEN of("physical", d) ELSE 0
      BY Zenon DEF Pending
    <3> HIDE DEF of, agg
    <3>3. \A d \in Dim : agg[BucketOf(e.class)][d] = agg["physical"][d]
      BY <1>4, <3>1, <3>2
    <3>4. \A d \in Dim : \A b \in Bucket \ {BucketOf(e.class)} : agg[b][d] = 0
      BY <3>1, <3>2
    <3> QED BY <3>1, <3>3, <3>4
  <2> HIDE DEF agg
  <2>4. ClosedPosting(agg)
    BY <1>2, <2>2, <2>3 DEF ClosedPosting
  <2> QED BY <2>4 DEF agg
<1>5. CASE e.class \notin ConsumptionClass
  <2>1. e.class \in {"kAvoidedWork", "kStrandedCapacity"}
    BY <1>5 DEF Entry, EntryRecord, EfficiencyClass
  <2>2. IsZero(e.usage)
    BY <2>1 DEF check_classification_consistency
  <2> HIDE DEF agg
  <2>3. \A d \in Dim : agg["physical"][d] = 0
    BY <1>2, <2>2
  <2>4. \A d \in Dim : \A b \in Bucket : agg[b][d] = 0
    BY <1>1, <2>3 DEF PostingShape
  <2>5. ClosedPosting(agg)
    BY <2>3, <2>4 DEF ClosedPosting
  <2> QED BY <2>5 DEF agg
<1> QED BY <1>4, <1>5

\* Adding such a posting keeps a closed account closed, also when an addition
\* fails on the way: once the physical sum fits, the bucket's does.
LEMMA AddAggregateClosed ==
  ASSUME NEW dst \in Aggregate, NEW agg \in Aggregate, Closed(dst), ClosedPosting(agg)
  PROVE  Closed(AddAggregate(dst, agg))
<1> DEFINE new == AddAggregate(dst, agg)
<1> SUFFICES ASSUME NEW d \in Dim PROVE ClassifiedIn(new, d) = new["physical"][d]
  BY DEF Closed
<1>1. \A f \in Field : /\ dst[f][d] \in Nat /\ agg[f][d] \in Nat
                       /\ dst[f][d] <= MaxU64
                       /\ new[f][d] = IF Reached(dst, agg, f, d)
                                      THEN dst[f][d] + agg[f][d] ELSE dst[f][d]
  BY WidthAssumption DEF AddAggregate, Aggregate, Usage, U64
<1>2. ClassifiedIn(dst, d) = dst["physical"][d]
  BY DEF Closed
<1> HIDE DEF new
<1>3. CASE agg["physical"][d] = 0 /\ \A b \in Bucket : agg[b][d] = 0
  <2>1. \A f \in Bucket \cup {"physical"} : new[f][d] = dst[f][d]
    BY <1>1, <1>3 DEF Field, Bucket
  <2> QED BY <1>2, <2>1 DEF ClassifiedIn, Bucket
<1>4. ASSUME agg["avoided"][d] = 0, agg["stranded"][d] = 0,
             NEW c \in Bucket, agg[c][d] = agg["physical"][d],
             \A b \in Bucket \ {c} : agg[b][d] = 0
      PROVE  ClassifiedIn(new, d) = new["physical"][d]
  <2>1. c \in Field /\ "physical" \in Field /\ d \in Nat /\ d \in 1..d
    BY DimAssumption DEF Field, Bucket, Dim
  <2>2. Reached(dst, agg, c, d) <=> Reached(dst, agg, "physical", d)
    <3>1. ASSUME Reached(dst, agg, c, d) PROVE Reached(dst, agg, "physical", d)
      <4>1. \A g \in Field : FieldRank[g] <= FieldRank["physical"]
                               => FieldRank[g] <= FieldRank[c]
        BY DEF Field, Bucket, FieldRank
      <4> QED BY <3>1, <4>1 DEF Reached
    <3>2. ASSUME Reached(dst, agg, "physical", d) PROVE Reached(dst, agg, c, d)
      <4>1. dst["physical"][d] + agg["physical"][d] <= MaxU64
        <5>1. FieldRank["physical"] <= FieldRank["physical"]
          BY DEF FieldRank
        <5> QED BY <2>1, <3>2, <5>1 DEF Reached, AddFits
      <4>2. dst[c][d] <= dst["physical"][d]
        BY <1>1, <1>2 DEF ClassifiedIn, Field, Bucket
      <4>3. \A g \in Field : AddFits(dst[g][d], agg[g][d])
        <5>1. AddFits(dst["physical"][d], agg["physical"][d])
          BY <4>1 DEF AddFits
        <5>2. AddFits(dst[c][d], agg[c][d])
          BY <1>1, <1>4, <2>1, <4>1, <4>2, WidthAssumption DEF AddFits
        <5>3. \A g \in Field : agg[g][d] = 0 => AddFits(dst[g][d], agg[g][d])
          BY <1>1 DEF AddFits
        <5> QED BY <1>4, <5>1, <5>2, <5>3 DEF Field, Bucket
      <4>4. \A k \in 1..d : k < d \/ k = d
        BY <2>1
      <4> QED BY <3>2, <4>3, <4>4 DEF Reached
    <3> QED BY <3>1, <3>2
  <2>3. \A b \in Bucket \ {c} : new[b][d] = dst[b][d]
    BY <1>1, <1>4 DEF Field, Bucket
  <2>4. CASE Reached(dst, agg, "physical", d)
    <3>1. /\ new[c][d] = dst[c][d] + agg["physical"][d]
          /\ new["physical"][d] = dst["physical"][d] + agg["physical"][d]
      BY <1>1, <1>4, <2>1, <2>2, <2>4
    <3> QED BY <1>1, <1>2, <2>1, <2>3, <3>1 DEF ClassifiedIn, Bucket, Field
  <2>5. CASE ~Reached(dst, agg, "physical", d)
    <3>1. new[c][d] = dst[c][d] /\ new["physical"][d] = dst["physical"][d]
      BY <1>1, <2>1, <2>2, <2>5
    <3> QED BY <1>2, <2>3, <3>1 DEF ClassifiedIn, Bucket
  <2> QED BY <2>4, <2>5
<1> QED BY <1>3, <1>4 DEF ClosedPosting

\* apply_attribution, wherever it stops, keeps closed books closed.
LEMMA ApplyClosed ==
  ASSUME accounts \in [AllAccounts -> Aggregate], AllClosed(accounts),
         NEW e \in Entry, validate(e), check_classification_consistency(e) = "OK",
         NEW outcome \in apply_attribution(e)
  PROVE  AllClosed(outcome.accounts)
<1> DEFINE pending == Pending(e)
           added(as) == AddTo(as, pending)
<1>1. \/ outcome = [accounts |-> accounts, ok |-> FALSE]
      \/ /\ pending \in [AllAccounts -> Aggregate]
         /\ \E as, ok : outcome = [accounts |-> added(as), ok |-> ok]
  BY DEF apply_attribution
<1>2. CASE outcome = [accounts |-> accounts, ok |-> FALSE]
  BY <1>2
<1>3. ASSUME pending \in [AllAccounts -> Aggregate], NEW as, NEW ok,
             outcome = [accounts |-> added(as), ok |-> ok]
      PROVE  AllClosed(outcome.accounts)
  <2>1. ASSUME NEW a \in AllAccounts PROVE Closed(added(as)[a])
    <3>1. accounts[a] \in Aggregate /\ pending[a] \in Aggregate /\ Closed(accounts[a])
      BY <1>3 DEF AllClosed
    <3>2. ClosedPosting(pending[a])
      BY ConsistentPosting
    <3> HIDE DEF pending
    <3> QED BY <3>1, <3>2, AddAggregateClosed DEF AddTo
  <2> HIDE DEF added
  <2> QED BY <1>3, <2>1 DEF AllClosed
<1> HIDE DEF pending, added
<1> QED BY <1>1, <1>2, <1>3

-----------------------------------------------------------------------------
(***************************************************************************)
(* Revising.                                                               *)
(***************************************************************************)

\* move_in that completes adds the whole amount.
LEMMA MoveInAll ==
  ASSUME NEW bucket, NEW amount, \A d \in Dim : AddFits(bucket[d], amount[d]), NEW d \in Dim
  PROVE  MoveIn(bucket, amount)[d] = bucket[d] + amount[d]
<1>1. \A k \in 1..d : k \in Dim
  BY DimAssumption DEF Dim
<1> QED BY <1>1 DEF MoveIn

\* A share that is moved whole keeps closed books closed.
LEMMA MoveShareClosed ==
  ASSUME NEW st \in MoveState, NEW share \in Share, NEW old \in Bucket, NEW new \in Bucket,
         st.ok => AllClosed(st.accounts), MoveShare(st, share, old, new).ok
  PROVE  AllClosed(MoveShare(st, share, old, new).accounts)
<1> DEFINE agg == st.accounts[share.account]
           taken == [agg EXCEPT ![old] = MoveOut(@, share.physical)]
           moved == [taken EXCEPT ![new] = MoveIn(@, share.physical)]
           outOk == \A d \in Dim : SubFits(agg[old][d], share.physical[d])
           inOk == \A d \in Dim : AddFits(taken[new][d], share.physical[d])
           after == IF outOk THEN moved ELSE taken
<1>1. /\ agg \in Aggregate /\ share.account \in AllAccounts /\ share.physical \in NatUsage
      /\ st.accounts \in [AllAccounts -> Aggregate] /\ st.ok \in BOOLEAN
  BY DEF MoveState, Share
<1>2. MoveShare(st, share, old, new) =
        IF ~st.ok THEN st
        ELSE [accounts |-> [st.accounts EXCEPT ![share.account] = after],
              ok |-> outOk /\ inOk]
  BY Zenon DEF MoveShare
<1>3. st.ok /\ outOk /\ inOk
  <2> DEFINE result == MoveShare(st, share, old, new)
  <2> HIDE DEF after, outOk, inOk
  <2>1. st.ok
    BY <1>2
  <2>2. result = [accounts |-> [st.accounts EXCEPT ![share.account] = after],
                  ok |-> outOk /\ inOk]
    BY <1>2, <2>1
  <2> HIDE DEF result
  <2>3. result.ok = (outOk /\ inOk)
    BY <2>2, Zenon
  <2>4. result.ok
    BY DEF result
  <2> QED BY <2>1, <2>3, <2>4, Zenon
<1>4. AllClosed(st.accounts) /\ Closed(agg)
  BY <1>1, <1>3 DEF AllClosed
<1>5. old \in Field /\ new \in Field /\ old # "physical" /\ new # "physical"
  BY DEF Bucket, Field
<1> HIDE DEF agg
<1>6. Closed(moved)
  <2> SUFFICES ASSUME NEW d \in Dim PROVE ClassifiedIn(moved, d) = moved["physical"][d]
    BY DEF Closed
  <2>1. share.physical[d] \in Nat /\ agg[old] \in Usage
        /\ \A f \in Field : agg[f][d] \in Nat
    BY <1>1, <1>5, WidthAssumption DEF NatUsage, Aggregate, Usage, U64
  <2>2. /\ \A f \in Field \ {old} : taken[f] = agg[f]
        /\ taken[old][d] = agg[old][d] - share.physical[d]
    <3>1. MoveOut(agg[old], share.physical)[d] = agg[old][d] - share.physical[d]
      BY <1>1, <1>3, <2>1, MoveOutType
    <3> QED BY <1>1, <1>5, <3>1 DEF Aggregate
  <2>3. DOMAIN taken = Field
    BY <1>1 DEF Aggregate
  <2> HIDE DEF taken
  <2>4. /\ \A f \in Field \ {new} : moved[f] = taken[f]
        /\ moved[new][d] = taken[new][d] + share.physical[d]
    <3>1. MoveIn(taken[new], share.physical)[d] = taken[new][d] + share.physical[d]
      BY <1>3, MoveInAll
    <3> QED BY <1>5, <2>3, <3>1
  <2> HIDE DEF moved
  <2>5. moved["physical"][d] = agg["physical"][d]
    BY <1>5, <2>2, <2>4 DEF Field
  <2>6. ClassifiedIn(agg, d) = agg["physical"][d]
    BY <1>4 DEF Closed
  <2>7. ClassifiedIn(moved, d) = ClassifiedIn(agg, d)
    <3>1. CASE old = new
      <4>1. \A f \in Bucket : moved[f][d] = agg[f][d]
        BY <1>5, <2>1, <2>2, <2>4, <3>1 DEF Bucket, Field
      <4> QED BY <4>1 DEF ClassifiedIn, Bucket
    <3>2. CASE old # new
      <4>1. /\ moved[old][d] = agg[old][d] - share.physical[d]
            /\ moved[new][d] = agg[new][d] + share.physical[d]
            /\ \A f \in Bucket \ {old, new} : moved[f][d] = agg[f][d]
        BY <1>5, <2>2, <2>4, <3>2 DEF Bucket, Field
      <4>2. \A f \in Bucket : agg[f][d] \in Nat
        BY <2>1 DEF Bucket, Field
      <4>3. CASE old = "useful"
        BY <2>1, <3>2, <4>1, <4>2, <4>3 DEF ClassifiedIn, Bucket
      <4>4. CASE old = "overhead"
        BY <2>1, <3>2, <4>1, <4>2, <4>4 DEF ClassifiedIn, Bucket
      <4>5. CASE old = "waste"
        BY <2>1, <3>2, <4>1, <4>2, <4>5 DEF ClassifiedIn, Bucket
      <4>6. CASE old = "unknown"
        BY <2>1, <3>2, <4>1, <4>2, <4>6 DEF ClassifiedIn, Bucket
      <4> QED BY <4>3, <4>4, <4>5, <4>6 DEF Bucket
    <3> QED BY <3>1, <3>2
  <2> QED BY <2>5, <2>6, <2>7
<1>7. MoveShare(st, share, old, new).accounts = [st.accounts EXCEPT ![share.account] = moved]
  <2> HIDE DEF moved, taken, inOk, outOk
  <2> QED BY <1>2, <1>3
<1> HIDE DEF moved
<1> QED BY <1>1, <1>4, <1>6, <1>7 DEF AllClosed

\* A revision that moves all its target's shares keeps closed books closed.
LEMMA MoveSharesClosed ==
  ASSUME NEW totals \in [AllAccounts -> Aggregate], AllWithin(totals), AllClosed(totals),
         NEW shares \in Seq(Share), NEW old \in Bucket, NEW new \in Bucket,
         MoveShares(totals, shares, old, new).ok
  PROVE  AllClosed(MoveShares(totals, shares, old, new).accounts)
<1> DEFINE n == Len(shares)
           run == CHOOSE r : r = [i \in 0..Len(shares) |->
                      IF i = 0 THEN [accounts |-> totals, ok |-> TRUE]
                      ELSE MoveShare(r[i - 1], shares[i], old, new)]
           T == {i \in 0..n : /\ run[i] \in MoveState /\ AllWithin(run[i].accounts)
                              /\ run[i].ok => AllClosed(run[i].accounts)}
<1>1. n \in Nat /\ shares \in [1..n -> Share]
  BY LenProperties
<1>2. MoveShares(totals, shares, old, new) = run[n]
  BY Zenon DEF MoveShares
<1>3. IsMoveRun(run, totals, shares, old, new, n)
  <2>1. \E r : IsMoveRun(r, totals, shares, old, new, Len(shares))
    BY <1>1, MoveRunExists
  <2> QED BY <2>1, Zenon DEF IsMoveRun
<1> HIDE DEF run, n
<1>4. 0 \in T
  <2>1. run[0] = [accounts |-> totals, ok |-> TRUE]
    BY <1>1, <1>3 DEF IsMoveRun
  <2>2. run[0] \in MoveState /\ run[0].accounts = totals
    BY <2>1 DEF MoveState
  <2>3. 0 \in 0..n
    BY <1>1
  <2> QED BY <2>2, <2>3
<1>5. ASSUME NEW i \in 1..n, i - 1 \in T PROVE i \in T
  <2>1. run[i] = MoveShare(run[i - 1], shares[i], old, new)
    <3>1. i \in 0..n /\ i # 0
      BY <1>1
    <3> QED BY <1>3, <3>1 DEF IsMoveRun
  <2>2. shares[i] \in Share /\ i \in 0..n
    BY <1>1
  <2>3. /\ run[i - 1] \in MoveState /\ AllWithin(run[i - 1].accounts)
        /\ run[i - 1].ok => AllClosed(run[i - 1].accounts)
    BY <1>5
  <2>4. run[i] \in MoveState /\ AllWithin(run[i].accounts)
    BY <2>1, <2>2, <2>3, MoveShareWithin
  <2>5. run[i].ok => AllClosed(run[i].accounts)
    BY <2>1, <2>2, <2>3, MoveShareClosed
  <2> QED BY <2>2, <2>4, <2>5
<1>6. n \in T
  <2> HIDE DEF T
  <2> QED BY <1>1, <1>4, <1>5, UpTo
<1> QED BY <1>2, <1>6

\* append_locked keeps closed books closed unless a revision fails half way.
LEMMA AppendLockedClosed ==
  ASSUME BookState, AllClosed(accounts), NEW e \in Entry, append_locked(e),
         Revise(e) => apply_reclassify_locked(e).ok
  PROVE  AllClosed(accounts')
<1>0. /\ history \in Seq(Entry) /\ HistoryValid
      /\ accounts \in [AllAccounts -> Aggregate] /\ AllWithin(accounts)
  BY DEF BookState, BookTypes
<1>1. CASE Refuse(e)
  BY <1>1 DEF Refuse, books
<1>2. CASE Post(e)
  <2>1. PICK outcome \in apply_attribution(e) : accounts' = outcome.accounts
    BY <1>2, Zenon DEF Post
  <2>2. Verdict(e) = "OK" /\ e.event # "kReclassify"
    BY <1>2 DEF Post
  <2>3. validate(e) /\ check_classification_consistency(e) = "OK"
    BY <2>2 DEF Verdict, PostingVerdict
  <2> QED BY <1>0, <2>1, <2>3, ApplyClosed
<1>3. CASE Revise(e)
  <2> DEFINE target == EntryOf(e.target)
             outcome == apply_reclassify_locked(e)
  <2>1. accounts' = outcome.accounts /\ Verdict(e) = "OK" /\ e.event = "kReclassify"
    BY <1>3, Zenon DEF Revise
  <2>2. Committed(e.target)
    BY <2>1, VerdictOk
  <2>3. target \in Entry /\ validate(target)
    BY <1>0, <2>2, EntryOfType
  <2>4. BucketOf(target.class) \in Bucket /\ BucketOf(e.class) \in Bucket
    BY DEF BucketOf, Bucket
  <2>5. outcome = IF target.class \in ConsumptionClass
                  THEN MoveShares(accounts, compute_attribution(target),
                                  BucketOf(target.class), BucketOf(e.class))
                  ELSE [accounts |-> accounts, ok |-> TRUE]
    BY Zenon DEF apply_reclassify_locked
  <2>6. outcome.ok
    BY <1>3
  <2> HIDE DEF outcome, target
  <2>7. compute_attribution(target) \in Seq(Share)
    BY <2>3, AttributionType
  <2>8. CASE target.class \in ConsumptionClass
    <3>1. outcome = MoveShares(accounts, compute_attribution(target),
                               BucketOf(target.class), BucketOf(e.class))
      BY <2>5, <2>8
    <3>2. AllClosed(outcome.accounts)
      BY <1>0, <2>4, <2>6, <2>7, <3>1, MoveSharesClosed
    <3> QED BY <2>1, <3>2
  <2>9. CASE target.class \notin ConsumptionClass
    BY <2>1, <2>5, <2>9
  <2> QED BY <2>8, <2>9
<1> QED BY <1>1, <1>2, <1>3 DEF append_locked

-----------------------------------------------------------------------------
\* Closed books stay closed through every operation, an append stopped by an
\* overflow, a batch, a replay and a restart included; only a revision that
\* failed half way, or a load that reports a failure, may leave them open.
THEOREM BooksStayClosed == Spec => ClosedUnlessRevisionFails
<1>1. ASSUME BooksInv, BooksInv', [Next]_vars
      PROVE  [BooksClosed /\ reply' \notin {"RECONCILIATION_FAILURE", "PERSISTENCE_CORRUPT"}
                => BooksClosed']_vars
  <2> SUFFICES ASSUME AllClosed(accounts),
                      reply' \notin {"RECONCILIATION_FAILURE", "PERSISTENCE_CORRUPT"}
               PROVE  AllClosed(accounts)'
    BY <1>1, BooksClosedByAccount, BooksClosedByAccountPrime
  <2>1. BookState /\ ControlState
    BY <1>1, InvariantParts
  <2>2. CASE UNCHANGED books
    BY <2>2 DEF books, AllClosed
  <2>3. CASE ClearBooks
    <3>1. \A a \in AllAccounts, f \in Field, d \in Dim : NoTotals[a][f][d] = 0
      BY DEF NoTotals, ZeroUsage
    <3>2. AllClosed(NoTotals)
      BY <3>1 DEF AllClosed, Closed, ClassifiedIn, Field
    <3>3. accounts' = NoTotals
      BY <2>3 DEF ClearBooks
    <3> QED BY <3>2, <3>3 DEF AllClosed
  <2>4. ASSUME NEW e \in Entry, append_locked(e) PROVE AllClosed(accounts)'
    <3>1. Revise(e) => apply_reclassify_locked(e).ok
      <4> DEFINE ok == apply_reclassify_locked(e).ok
      <4>1. Revise(e) => Answer(IF ok THEN "OK" ELSE "RECONCILIATION_FAILURE")
        BY Zenon DEF Revise
      <4> HIDE DEF ok
      <4>2. Revise(e) => ok
        BY <4>1 DEF Answer
      <4> QED BY <4>2 DEF ok
    <3>2. AllClosed(accounts')
      BY <2>1, <2>4, <3>1, AppendLockedClosed
    <3> QED BY <3>2 DEF AllClosed
  <2> QED BY <1>1, <2>1, <2>2, <2>3, <2>4, BookSteps
<1> QED BY <1>1, BooksInvariant, PTL DEF Spec, ClosedUnlessRevisionFails

-----------------------------------------------------------------------------
(***************************************************************************)
(* The physical totals cover the history.                                  *)
(***************************************************************************)

\* Where a posted entry comes from: it was submitted, or came with a record.
KnownPost(e) == e.event # "kReclassify" => e \in Submissions \cup RecordEntries
KnownSeq(q) == \A i \in DOMAIN q : KnownPost(q[i])
KnownPosts ==
  KnownSeq(history) /\ KnownSeq(loop.rest) /\ \A s \in saved : KnownSeq(s.history)

\* Every record that can be loaded holds such entries.
LEMMA KnownRecords ==
  ASSUME KnownPosts, NEW s \in saved \cup Records
  PROVE  KnownSeq(s.history)
BY DEF KnownPosts, KnownSeq, KnownPost, RecordEntries

\* append_locked commits the entry it is given, and no other.
LEMMA KnownAppend ==
  ASSUME BookState, KnownSeq(history), NEW e \in Entry, KnownPost(e), append_locked(e)
  PROVE  KnownSeq(history)'
<1>1. history \in Seq(Entry)
  BY DEF BookState, BookTypes
<1>2. CASE CommitsNothing
  BY <1>2 DEF CommitsNothing, KnownSeq
<1>3. CASE Commits(e)
  <2>1. history' = Append(history, e)
    BY <1>3 DEF Commits
  <2> QED BY <1>1, <2>1, Appended DEF KnownSeq
<1> QED BY <1>2, <1>3, AppendCommits

\* What append_locked is called with, by every operation that calls it.
LEMMA KnownCalls ==
  ASSUME BookState, ControlState, KnownPosts, [Next]_vars
  PROVE  UNCHANGED books \/ ClearBooks \/ \E e \in Entry : KnownPost(e) /\ append_locked(e)
<1>1. ASSUME NEW e \in Submissions, AppendEntry(e)
      PROVE  \E x \in Entry : KnownPost(x) /\ append_locked(x)
  BY <1>1, SubmissionAssumption DEF AppendEntry, KnownPost
<1>2. ASSUME NEW req \in Requests, Reclassify(req)
      PROVE  \E x \in Entry : KnownPost(x) /\ append_locked(x)
  <2>1. Revision(req) \in Entry
    BY SubmissionAssumption, RevisionType
  <2>2. Revision(req).event = "kReclassify"
    BY DEF Revision, BlankRevision, BlankEntry
  <2> QED BY <1>2, <2>1, <2>2 DEF Reclassify, KnownPost
<1>3. ASSUME LoopStep
      PROVE  \E x \in Entry : KnownPost(x) /\ append_locked(x)
  <2>1. loop.rest \in Seq(Entry) /\ loop.rest # <<>>
    BY <1>3 DEF ControlState, LoopStep, LockFree, LoopBusy
  <2>2. Head(loop.rest) \in Entry /\ 1 \in DOMAIN loop.rest /\ Head(loop.rest) = loop.rest[1]
    BY <2>1
  <2> QED BY <1>3, <2>2 DEF LoopStep, KnownPosts, KnownSeq
<1>4. ASSUME NEW s, LoadHistory(s) \/ LoadFromString(s) \/ LoadRefused(s)
      PROVE  UNCHANGED books \/ ClearBooks
  BY <1>4, Zenon DEF LoadHistory, LoadFromString, LoadRefused, books
<1>5. ASSUME NEW es, AppendBatch(es)
      PROVE  UNCHANGED books
  BY <1>5 DEF AppendBatch, books
<1>6. CASE Construct
  BY <1>6 DEF Construct, Fresh
<1>7. ASSUME NEW v, NEW lg, NEW ag, NEW b,
             \/ SaveToString \/ AdvanceEpoch \/ SetEpoch(v) \/ SetGenerations(lg, ag)
             \/ RegisterWorker(b) \/ UnregisterWorker(b) \/ SetShuttingDown
             \/ UNCHANGED vars
      PROVE  UNCHANGED books
  BY <1>7 DEF SaveToString, AdvanceEpoch, SetEpoch, SetGenerations, RegisterWorker,
     UnregisterWorker, SetShuttingDown, books, vars
<1> QED BY <1>1, <1>2, <1>3, <1>4, <1>5, <1>6, <1>7 DEF Next

\* The record is left alone, or is the ledger's state when it is saved.
LEMMA SavedMoves ==
  ASSUME [Next]_vars
  PROVE  saved' = saved \/ saved' = {[epoch |-> epoch, ledgerGen |-> ledgerGen,
                                      accountGen |-> accountGen, history |-> history]}
BY Zenon DEF Next, vars, AppendEntry, AppendBatch, Reclassify, LoopStep, LoadHistory,
   LoadFromString, LoadRefused, SaveToString, Construct, AdvanceEpoch, SetEpoch,
   SetGenerations, RegisterWorker, UnregisterWorker, SetShuttingDown

\* No operation invents an entry.
LEMMA KnownStep ==
  ASSUME BookState, ControlState, KnownPosts, [Next]_vars
  PROVE  KnownPosts'
<1>1. KnownSeq(history)'
  <2>1. CASE UNCHANGED books
    BY <2>1 DEF books, KnownPosts, KnownSeq
  <2>2. CASE ClearBooks
    BY <2>2 DEF ClearBooks, KnownSeq
  <2>3. ASSUME NEW e \in Entry, KnownPost(e), append_locked(e) PROVE KnownSeq(history)'
    BY <2>3, KnownAppend DEF KnownPosts
  <2> QED BY <2>1, <2>2, <2>3, KnownCalls
<1>2. \A s \in saved' : KnownSeq(s.history)
  <2>1. saved' = saved \/ saved' = {[epoch |-> epoch, ledgerGen |-> ledgerGen,
                                     accountGen |-> accountGen, history |-> history]}
    BY SavedMoves
  <2> QED BY <2>1 DEF KnownPosts
<1>3. KnownSeq(loop.rest)'
  <2>1. CASE loop' = loop
    BY <2>1 DEF KnownPosts, KnownSeq
  <2>2. CASE loop' = Idle
    BY <2>2 DEF Idle, KnownSeq
  <2>3. ASSUME NEW es, KnownSeq(es), NEW kind, loop' = [kind |-> kind, rest |-> es]
        PROVE  KnownSeq(loop.rest)'
    BY <2>3 DEF KnownSeq
  <2>4. CASE LoopStep
    <3>1. loop.rest \in Seq(Entry) /\ loop.rest # <<>> /\ loop \in [kind: LoopKind, rest: Seq(Entry)]
      BY <2>4 DEF ControlState, LoopStep, LockFree, LoopBusy
    <3>2. KnownSeq(Tail(loop.rest))
      <4> DEFINE r == loop.rest
      <4>1. r \in Seq(Entry) /\ r # <<>> /\ KnownSeq(r)
        BY <3>1 DEF KnownPosts
      <4> HIDE DEF r
      <4>2. DOMAIN Tail(r) = 1..(Len(r) - 1) /\ Len(r) \in Nat /\ DOMAIN r = 1..Len(r)
        BY <4>1
      <4>3. \A i \in 1..(Len(r) - 1) : Tail(r)[i] = r[i + 1]
        BY <4>1
      <4>4. KnownSeq(Tail(r))
        BY <4>1, <4>2, <4>3 DEF KnownSeq
      <4> QED BY <4>4 DEF r
    <3>3. loop' = Idle \/ loop' = [loop EXCEPT !.rest = Tail(@)]
      BY <2>4 DEF LoopStep
    <3>4. CASE loop' = [loop EXCEPT !.rest = Tail(@)]
      BY <3>1, <3>2, <3>4 DEF KnownSeq
    <3> QED BY <2>2, <3>3, <3>4
  <2>5. ASSUME NEW es \in Batches, AppendBatch(es) PROVE KnownSeq(loop.rest)'
    <3>1. KnownSeq(es)
      BY SubmissionAssumption DEF KnownSeq, KnownPost
    <3> QED BY <2>2, <2>3, <2>5, <3>1 DEF AppendBatch, StartLoop
  <2>6. ASSUME NEW s \in saved \cup Records, LoadHistory(s) \/ LoadFromString(s)
        PROVE  KnownSeq(loop.rest)'
    <3>1. KnownSeq(s.history)
      BY KnownRecords
    <3> QED BY <2>2, <2>3, <2>6, <3>1 DEF LoadHistory, LoadFromString, StartLoop
  <2>7. CASE Construct
    BY <2>2, <2>7 DEF Construct, Fresh
  <2>8. ASSUME NEW e, NEW v, NEW lg, NEW ag, NEW b,
               \/ AppendEntry(e) \/ Reclassify(e) \/ LoadRefused(e)
               \/ SaveToString \/ AdvanceEpoch \/ SetEpoch(v) \/ SetGenerations(lg, ag)
               \/ RegisterWorker(b) \/ UnregisterWorker(b) \/ SetShuttingDown
               \/ UNCHANGED vars
        PROVE  loop' = loop
    BY <2>8, Zenon DEF AppendEntry, Reclassify, LoadRefused, SaveToString, AdvanceEpoch,
       SetEpoch, SetGenerations, RegisterWorker, UnregisterWorker, SetShuttingDown, vars
  <2> QED BY <2>1, <2>4, <2>5, <2>6, <2>7, <2>8 DEF Next
<1> QED BY <1>1, <1>2, <1>3 DEF KnownPosts, KnownSeq

\* What an entry adds to a physical total is a natural number.
LEMMA PendingPhysical ==
  ASSUME NEW e \in Entry, validate(e), NEW a \in AllAccounts, NEW d \in Dim
  PROVE  Pending(e)[a]["physical"][d] \in Nat
<1> DEFINE shares == compute_attribution(e)
           terms == [i \in DOMAIN shares |->
                       IF shares[i].account = a THEN shares[i]["physical"][d] ELSE 0]
<1>1. shares \in Seq(Share)
  BY AttributionType
<1>2. "physical" \in Field /\ "physical" \notin Bucket
  BY DEF Field, Bucket
<1>3. Pending(e)[a]["physical"][d] = SumSeq(terms)
  BY <1>2, Zenon DEF Pending
<1> HIDE DEF shares
<1>4. Len(shares) \in Nat /\ shares \in [1..Len(shares) -> Share] /\ DOMAIN shares = 1..Len(shares)
  BY <1>1, LenProperties
<1>5. \A i \in 1..Len(shares) : shares[i].physical[d] \in Nat
  BY <1>4 DEF Share, NatUsage
<1>6. terms \in [1..Len(shares) -> Nat]
  BY <1>4, <1>5
<1> HIDE DEF terms
<1> QED BY <1>3, <1>4, <1>6, SumBounds

\* What the posted entries of a history add up to, and that the totals cover it.
Terms(h, a, d) ==
  [i \in DOMAIN h |-> IF i \in PostsOf(h) THEN Part[h[i]][a]["physical"][d] ELSE 0]
Covers(totals, h) ==
  \A a \in AllAccounts, d \in Dim : totals[a]["physical"][d] >= SumSeq(Terms(h, a, d))

\* PhysicalCoversHistory says so.
LEMMA CoverParts == PhysicalCoversHistory <=> Covers(accounts, history)
<1>1. \A a, d : Contribution(Posted, a, "physical", d) = SumSeq(Terms(history, a, d))
  BY Zenon DEF Contribution, Terms, Posted, PostsOf
<1> QED BY <1>1, Zenon DEF PhysicalCoversHistory, Covers

\* The terms of a history of known and valid entries.
LEMMA TermsType ==
  ASSUME NEW h \in Seq(Entry), KnownSeq(h), \A i \in DOMAIN h : validate(h[i]),
         NEW a \in AllAccounts, NEW d \in Dim
  PROVE  /\ Terms(h, a, d) \in [1..Len(h) -> Nat]
         /\ \A i \in PostsOf(h) : Part[h[i]] = Pending(h[i])
<1>1. Len(h) \in Nat /\ DOMAIN h = 1..Len(h) /\ \A i \in DOMAIN h : h[i] \in Entry
  OBVIOUS
<1>2. ASSUME NEW i \in PostsOf(h)
      PROVE  /\ Part[h[i]] = Pending(h[i])
             /\ Pending(h[i])[a]["physical"][d] \in Nat
  <2>1. i \in DOMAIN h /\ h[i] \in Submissions \cup RecordEntries
    BY DEF PostsOf, KnownSeq, KnownPost
  <2>2. Part[h[i]] = Pending(h[i])
    BY <2>1, Zenon DEF Part
  <2> QED BY <1>1, <2>1, <2>2, PendingPhysical
<1>3. \A i \in DOMAIN h : Terms(h, a, d)[i] \in Nat
  BY <1>2 DEF Terms
<1>4. Terms(h, a, d) = [i \in 1..Len(h) |-> Terms(h, a, d)[i]]
  BY <1>1 DEF Terms
<1> QED BY <1>1, <1>2, <1>3, <1>4

\* An entry that is appended contributes itself; a revision contributes nothing.
LEMMA TermsAppend ==
  ASSUME NEW h \in Seq(Entry), NEW e \in Entry, KnownSeq(h), KnownPost(e),
         \A i \in DOMAIN h : validate(h[i]), validate(e),
         NEW a \in AllAccounts, NEW d \in Dim
  PROVE  /\ SumSeq(Terms(h, a, d)) \in Nat
         /\ SumSeq(Terms(Append(h, e), a, d)) =
              SumSeq(Terms(h, a, d)) +
                (IF e.event # "kReclassify" THEN Pending(e)[a]["physical"][d] ELSE 0)
<1> DEFINE g == Append(h, e)
           n == Len(h)
           u == Terms(h, a, d)
           w == Terms(g, a, d)
<1>1. /\ n \in Nat /\ DOMAIN g = DOMAIN h \cup {n + 1} /\ g[n + 1] = e
      /\ \A i \in DOMAIN h : i < n + 1 /\ g[i] = h[i]
  BY Appended
<1>2. g \in Seq(Entry) /\ Len(g) = n + 1 /\ DOMAIN h = 1..n
  OBVIOUS
<1> HIDE DEF g, n
<1>3. KnownSeq(g) /\ \A i \in DOMAIN g : validate(g[i])
  BY <1>1 DEF KnownSeq
<1>4. u \in [1..n -> Nat] /\ w \in [1..(n + 1) -> Nat]
      /\ \A i \in PostsOf(g) : Part[g[i]] = Pending(g[i])
  BY <1>2, <1>3, TermsType DEF n
<1>5. \A i \in 1..n : w[i] = u[i]
  <2>1. \A i \in DOMAIN h : i \in DOMAIN g /\ (i \in PostsOf(g) <=> i \in PostsOf(h))
    BY <1>1 DEF PostsOf
  <2> QED BY <1>1, <1>2, <2>1 DEF Terms
<1>6. w[n + 1] = IF e.event # "kReclassify" THEN Pending(e)[a]["physical"][d] ELSE 0
  <2>1. n + 1 \in DOMAIN g /\ (n + 1 \in PostsOf(g) <=> e.event # "kReclassify")
    BY <1>1 DEF PostsOf
  <2>2. w[n + 1] = IF n + 1 \in PostsOf(g) THEN Part[g[n + 1]][a]["physical"][d] ELSE 0
    BY <2>1 DEF Terms
  <2> HIDE DEF w
  <2> QED BY <1>1, <1>4, <2>1, <2>2
<1> HIDE DEF u, w
<1>7. SumSeq(w) = SumSeq(u) + w[n + 1] /\ SumSeq(u) \in Nat
  BY <1>1, <1>4, <1>5, SumAppend, SumBounds
<1> QED BY <1>6, <1>7 DEF u, w, g

\* Adding an entry to an account never lowers a total; when every sum fits, the
\* whole amount is added.
LEMMA AddNeverLowers ==
  ASSUME NEW dst \in Aggregate, NEW agg \in Aggregate, NEW f \in Field, NEW d \in Dim
  PROVE  /\ AddAggregate(dst, agg)[f][d] >= dst[f][d]
         /\ (\A g \in Field, k \in Dim : AddFits(dst[g][k], agg[g][k])) =>
              AddAggregate(dst, agg)[f][d] = dst[f][d] + agg[f][d]
<1>1. /\ dst[f][d] \in Nat /\ agg[f][d] \in Nat
      /\ AddAggregate(dst, agg)[f][d] =
           IF Reached(dst, agg, f, d) THEN dst[f][d] + agg[f][d] ELSE dst[f][d]
  BY WidthAssumption DEF AddAggregate, Aggregate, Usage, U64
<1>2. \A k \in 1..d : k \in Dim
  BY DimAssumption DEF Dim
<1>3. (\A g \in Field, k \in Dim : AddFits(dst[g][k], agg[g][k])) => Reached(dst, agg, f, d)
  BY <1>2 DEF Reached
<1> QED BY <1>1, <1>3

\* apply_attribution never lowers a total, and what it reports as done is done in
\* every field of every account.
LEMMA ApplyNeverLowers ==
  ASSUME accounts \in [AllAccounts -> Aggregate], NEW e, NEW outcome \in apply_attribution(e),
         NEW a \in AllAccounts, NEW f \in Field, NEW d \in Dim
  PROVE  /\ outcome.accounts[a][f][d] >= accounts[a][f][d]
         /\ outcome.ok => outcome.accounts[a][f][d] = accounts[a][f][d] + Pending(e)[a][f][d]
<1> DEFINE pending == Pending(e)
           added(as) == AddTo(as, pending)
<1>0. accounts[a][f][d] \in Nat
  BY WidthAssumption DEF Aggregate, Usage, U64
<1>1. \/ outcome = [accounts |-> accounts, ok |-> FALSE]
      \/ /\ pending \in [AllAccounts -> Aggregate]
         /\ \/ /\ Overflowing(pending) = {}
               /\ outcome = [accounts |-> added(AllAccounts), ok |-> TRUE]
            \/ \E as : outcome = [accounts |-> added(as), ok |-> FALSE]
  BY DEF apply_attribution
<1> HIDE DEF pending
<1>2. ASSUME NEW as, pending \in [AllAccounts -> Aggregate]
      PROVE  added(as)[a][f][d] >= accounts[a][f][d]
  <2>1. accounts[a] \in Aggregate /\ pending[a] \in Aggregate
    BY <1>2
  <2>2. added(as)[a] = IF a \in as THEN AddAggregate(accounts[a], pending[a]) ELSE accounts[a]
    BY DEF AddTo
  <2>3. CASE a \in as
    <3>1. added(as)[a] = AddAggregate(accounts[a], pending[a])
      BY <2>2, <2>3
    <3> HIDE DEF added
    <3> QED BY <2>1, <3>1, AddNeverLowers
  <2>4. CASE a \notin as
    <3>1. added(as)[a] = accounts[a]
      BY <2>2, <2>4
    <3> HIDE DEF added
    <3> QED BY <1>0, <3>1
  <2> QED BY <2>3, <2>4
<1>3. ASSUME Overflowing(pending) = {}, pending \in [AllAccounts -> Aggregate]
      PROVE  added(AllAccounts)[a][f][d] = accounts[a][f][d] + pending[a][f][d]
  <2>1. accounts[a] \in Aggregate /\ pending[a] \in Aggregate
    BY <1>3
  <2>2. added(AllAccounts)[a] = AddAggregate(accounts[a], pending[a])
    BY DEF AddTo
  <2>3. \A g \in Field, k \in Dim : AddFits(accounts[a][g][k], pending[a][g][k])
    BY <1>3 DEF Overflowing
  <2> QED BY <2>1, <2>2, <2>3, AddNeverLowers
<1> HIDE DEF added
<1>4. CASE outcome = [accounts |-> accounts, ok |-> FALSE]
  BY <1>0, <1>4
<1>5. ASSUME pending \in [AllAccounts -> Aggregate], NEW as,
             outcome = [accounts |-> added(as), ok |-> FALSE]
      PROVE  outcome.accounts[a][f][d] >= accounts[a][f][d] /\ ~outcome.ok
  BY <1>2, <1>5
<1>6. ASSUME pending \in [AllAccounts -> Aggregate], Overflowing(pending) = {},
             outcome = [accounts |-> added(AllAccounts), ok |-> TRUE]
      PROVE  /\ outcome.accounts[a][f][d] >= accounts[a][f][d]
             /\ outcome.accounts[a][f][d] = accounts[a][f][d] + pending[a][f][d]
  BY <1>2, <1>3, <1>6
<1> QED BY <1>1, <1>4, <1>5, <1>6 DEF pending

\* A revision leaves every physical total alone.
LEMMA MoveSharePhysical ==
  ASSUME NEW st \in MoveState, NEW share \in Share, NEW old \in Bucket, NEW new \in Bucket,
         NEW a \in AllAccounts
  PROVE  MoveShare(st, share, old, new).accounts[a]["physical"] = st.accounts[a]["physical"]
<1> DEFINE agg == st.accounts[share.account]
           taken == [agg EXCEPT ![old] = MoveOut(@, share.physical)]
           moved == [taken EXCEPT ![new] = MoveIn(@, share.physical)]
           outOk == \A d \in Dim : SubFits(agg[old][d], share.physical[d])
           inOk == \A d \in Dim : AddFits(taken[new][d], share.physical[d])
           after == IF outOk THEN moved ELSE taken
<1>1. MoveShare(st, share, old, new) =
        IF ~st.ok THEN st
        ELSE [accounts |-> [st.accounts EXCEPT ![share.account] = after],
              ok |-> outOk /\ inOk]
  BY Zenon DEF MoveShare
<1>2. /\ agg \in Aggregate /\ share.account \in AllAccounts
      /\ st.accounts \in [AllAccounts -> Aggregate]
  BY DEF MoveState, Share
<1>3. "physical" \in Field /\ old # "physical" /\ new # "physical"
  BY DEF Bucket, Field
<1>4. taken["physical"] = agg["physical"] /\ moved["physical"] = agg["physical"]
  BY <1>2, <1>3 DEF Aggregate
<1>5. after["physical"] = agg["physical"]
  BY <1>4
<1> HIDE DEF after, outOk, inOk
<1> QED BY <1>1, <1>2, <1>5

\* All shares of a revision together.
LEMMA MoveSharesPhysical ==
  ASSUME NEW totals \in [AllAccounts -> Aggregate], AllWithin(totals),
         NEW shares \in Seq(Share), NEW old \in Bucket, NEW new \in Bucket,
         NEW a \in AllAccounts
  PROVE  MoveShares(totals, shares, old, new).accounts[a]["physical"] = totals[a]["physical"]
<1> DEFINE n == Len(shares)
           run == CHOOSE r : r = [i \in 0..Len(shares) |->
                      IF i = 0 THEN [accounts |-> totals, ok |-> TRUE]
                      ELSE MoveShare(r[i - 1], shares[i], old, new)]
           T == {i \in 0..n : /\ run[i] \in MoveState /\ AllWithin(run[i].accounts)
                              /\ run[i].accounts[a]["physical"] = totals[a]["physical"]}
<1>1. n \in Nat /\ shares \in [1..n -> Share]
  BY LenProperties
<1>2. MoveShares(totals, shares, old, new) = run[n]
  BY Zenon DEF MoveShares
<1>3. IsMoveRun(run, totals, shares, old, new, n)
  <2>1. \E r : IsMoveRun(r, totals, shares, old, new, Len(shares))
    BY <1>1, MoveRunExists
  <2> QED BY <2>1, Zenon DEF IsMoveRun
<1> HIDE DEF run, n
<1>4. 0 \in T
  <2>1. run[0] = [accounts |-> totals, ok |-> TRUE]
    BY <1>1, <1>3 DEF IsMoveRun
  <2>2. run[0] \in MoveState /\ run[0].accounts = totals
    BY <2>1 DEF MoveState
  <2>3. 0 \in 0..n
    BY <1>1
  <2> QED BY <2>2, <2>3
<1>5. ASSUME NEW i \in 1..n, i - 1 \in T PROVE i \in T
  <2>1. run[i] = MoveShare(run[i - 1], shares[i], old, new)
    <3>1. i \in 0..n /\ i # 0
      BY <1>1
    <3> QED BY <1>3, <3>1 DEF IsMoveRun
  <2>2. shares[i] \in Share /\ i \in 0..n
    BY <1>1
  <2>3. /\ run[i - 1] \in MoveState /\ AllWithin(run[i - 1].accounts)
        /\ run[i - 1].accounts[a]["physical"] = totals[a]["physical"]
    BY <1>5
  <2>4. run[i] \in MoveState /\ AllWithin(run[i].accounts)
    BY <2>1, <2>2, <2>3, MoveShareWithin
  <2>5. run[i].accounts[a]["physical"] = totals[a]["physical"]
    BY <2>1, <2>2, <2>3, MoveSharePhysical
  <2> QED BY <2>2, <2>4, <2>5
<1>6. n \in T
  <2> HIDE DEF T
  <2> QED BY <1>1, <1>4, <1>5, UpTo
<1> QED BY <1>2, <1>6

\* append_locked keeps the totals above what the history adds up to: what it
\* commits it has added in full, and it never takes physical usage away.
LEMMA AppendLockedCovers ==
  ASSUME BookState, KnownSeq(history), Covers(accounts, history),
         NEW e \in Entry, KnownPost(e), append_locked(e)
  PROVE  Covers(accounts', history')
<1>0. /\ history \in Seq(Entry) /\ HistoryValid /\ \A i \in DOMAIN history : validate(history[i])
      /\ accounts \in [AllAccounts -> Aggregate] /\ AllWithin(accounts)
  BY DEF BookState, BookTypes, HistoryValid
<1> SUFFICES ASSUME NEW a \in AllAccounts, NEW d \in Dim
             PROVE  accounts'[a]["physical"][d] >= SumSeq(Terms(history', a, d))
  BY DEF Covers
<1> DEFINE total == accounts[a]["physical"][d]
           sum == SumSeq(Terms(history, a, d))
           more == Pending(e)[a]["physical"][d]
<1>1. total \in Nat /\ total >= sum
  BY <1>0, WidthAssumption DEF Covers, Aggregate, Usage, U64, Field
<1>2. ASSUME validate(e)
      PROVE  /\ sum \in Nat /\ more \in Nat
             /\ e.event # "kReclassify" => SumSeq(Terms(Append(history, e), a, d)) = sum + more
             /\ e.event = "kReclassify" => SumSeq(Terms(Append(history, e), a, d)) = sum
  <2>1. /\ sum \in Nat
        /\ SumSeq(Terms(Append(history, e), a, d)) =
             sum + (IF e.event # "kReclassify" THEN more ELSE 0)
    BY <1>0, <1>2, TermsAppend
  <2>2. more \in Nat
    BY <1>2, PendingPhysical
  <2> HIDE DEF sum, more
  <2> QED BY <2>1, <2>2
<1>3. CASE Refuse(e)
  <2>1. accounts' = accounts /\ history' = history
    BY <1>3 DEF Refuse, books
  <2> QED BY <1>1, <2>1
<1>4. CASE Post(e)
  <2>1. PICK outcome \in apply_attribution(e) :
          /\ accounts' = outcome.accounts
          /\ history' = IF outcome.ok THEN Append(history, e) ELSE history
    BY <1>4, Zenon DEF Post
  <2>2. validate(e) /\ e.event # "kReclassify"
    BY <1>4, VerdictOk DEF Post
  <2>3. /\ outcome.accounts[a]["physical"][d] >= total
        /\ outcome.ok => outcome.accounts[a]["physical"][d] = total + more
    <3>1. "physical" \in Field
      BY DEF Field
    <3> QED BY <1>0, <3>1, ApplyNeverLowers
  <2>4. CASE outcome.ok
    <3>1. history' = Append(history, e) /\ accounts'[a]["physical"][d] = total + more
      BY <2>1, <2>3, <2>4
    <3>2. SumSeq(Terms(history', a, d)) = sum + more /\ sum \in Nat /\ more \in Nat
      BY <1>2, <2>2, <3>1
    <3> HIDE DEF total, sum, more
    <3> QED BY <1>1, <3>1, <3>2
  <2>5. CASE ~outcome.ok
    <3>1. history' = history /\ accounts'[a]["physical"][d] >= total
      BY <2>1, <2>3, <2>5
    <3>2. accounts'[a]["physical"][d] \in Nat
      <4>1. BookState'
        BY AppendLockedPreserves
      <4>2. accounts' \in [AllAccounts -> Aggregate]
        BY <4>1 DEF BookState, BookTypes
      <4> QED BY <4>2, WidthAssumption DEF Aggregate, Usage, U64, Field
    <3>3. sum \in Nat /\ SumSeq(Terms(history', a, d)) = sum
      BY <1>2, <2>2, <3>1
    <3> HIDE DEF total, sum, more
    <3> QED BY <1>1, <3>1, <3>2, <3>3
  <2> QED BY <2>4, <2>5
<1>5. CASE Revise(e)
  <2> DEFINE target == EntryOf(e.target)
             outcome == apply_reclassify_locked(e)
  <2>1. /\ accounts' = outcome.accounts
        /\ history' = IF outcome.ok THEN Append(history, e) ELSE history
        /\ Verdict(e) = "OK" /\ e.event = "kReclassify"
    BY <1>5, Zenon DEF Revise
  <2>2. Committed(e.target) /\ validate(e)
    BY <2>1, VerdictOk
  <2>3. target \in Entry /\ validate(target)
    BY <1>0, <2>2, EntryOfType
  <2>4. BucketOf(target.class) \in Bucket /\ BucketOf(e.class) \in Bucket
    BY DEF BucketOf, Bucket
  <2>5. outcome = IF target.class \in ConsumptionClass
                  THEN MoveShares(accounts, compute_attribution(target),
                                  BucketOf(target.class), BucketOf(e.class))
                  ELSE [accounts |-> accounts, ok |-> TRUE]
    BY Zenon DEF apply_reclassify_locked
  <2>6. compute_attribution(target) \in Seq(Share)
    BY <2>3, AttributionType
  <2> HIDE DEF outcome, target
  <2>7. outcome.accounts[a]["physical"] = accounts[a]["physical"]
    <3>1. CASE target.class \in ConsumptionClass
      <4>1. outcome = MoveShares(accounts, compute_attribution(target),
                                 BucketOf(target.class), BucketOf(e.class))
        BY <2>5, <3>1
      <4> QED BY <1>0, <2>4, <2>6, <4>1, MoveSharesPhysical
    <3>2. CASE target.class \notin ConsumptionClass
      BY <2>5, <3>2
    <3> QED BY <3>1, <3>2
  <2>8. SumSeq(Terms(history', a, d)) = sum
    <3>1. CASE outcome.ok
      BY <1>2, <2>1, <2>2, <3>1
    <3>2. CASE ~outcome.ok
      BY <2>1, <3>2
    <3> QED BY <3>1, <3>2
  <2>9. accounts'[a]["physical"][d] = total
    BY <2>1, <2>7
  <2> HIDE DEF total, sum
  <2> QED BY <1>1, <2>8, <2>9
<1> QED BY <1>3, <1>4, <1>5 DEF append_locked

\* Empty books cover an empty history.
LEMMA EmptyCovers == Covers(NoTotals, <<>>)
<1> SUFFICES ASSUME NEW a \in AllAccounts, NEW d \in Dim
             PROVE  NoTotals[a]["physical"][d] >= SumSeq(Terms(<<>>, a, d))
  BY DEF Covers
<1>1. NoTotals[a]["physical"][d] = 0
  BY DEF NoTotals, ZeroUsage, Field
<1>2. Terms(<<>>, a, d) \in [1..0 -> Nat]
  BY DEF Terms
<1>3. SumSeq(Terms(<<>>, a, d)) = 0
  <2> DEFINE u == Terms(<<>>, a, d)
  <2>1. u \in [1..0 -> Nat] /\ \A i \in 1..0 : u[i] = 0
    BY <1>2
  <2> HIDE DEF u
  <2>2. SumSeq(u) = 0
    BY <2>1, SumOfZeros
  <2> QED BY <2>2 DEF u
<1> QED BY <1>1, <1>3

\* The inductive invariant: besides the totals, where the entries come from.
CoverInv == BooksInv /\ KnownPosts /\ Covers(accounts, history)

\* Every step of the ledger keeps the totals at or above the history.
LEMMA CoverStep == CoverInv /\ [Next]_vars => CoverInv'
<1> SUFFICES ASSUME CoverInv, [Next]_vars PROVE CoverInv'
  OBVIOUS
<1>1. BooksInv'
  BY BooksInvStep DEF CoverInv
<1>2. BookState /\ ControlState /\ KnownPosts /\ Covers(accounts, history)
  BY InvariantParts DEF CoverInv
<1>3. KnownPosts'
  BY <1>2, KnownStep
<1>4. Covers(accounts', history')
  <2>1. CASE UNCHANGED books
    BY <1>2, <2>1 DEF books
  <2>2. CASE ClearBooks
    BY <2>2, EmptyCovers DEF ClearBooks
  <2>3. ASSUME NEW e \in Entry, KnownPost(e), append_locked(e)
        PROVE  Covers(accounts', history')
    <3>1. KnownSeq(history)
      BY <1>2 DEF KnownPosts
    <3> QED BY <1>2, <2>3, <3>1, AppendLockedCovers
  <2> QED BY <1>2, <2>1, <2>2, <2>3, KnownCalls
<1>5. Covers(accounts, history)'
  <2>1. Part' = Part /\ \A h : PostsOf(h)' = PostsOf(h)
    BY Zenon DEF Part, PostsOf
  <2> QED BY <1>4, Zenon DEF Covers, Terms, PostsOf, Part
<1> QED BY <1>1, <1>3, <1>5 DEF CoverInv

\* The physical totals cover the history: no committed consumption is ever
\* lost from an account, whatever was appended, revised, refused half way,
\* replayed or saved since, for any entries, records and 64-bit or other width.
THEOREM PhysicalTotalsCover == Spec => []PhysicalCoversHistory
<1>1. Init => CoverInv
  <2> SUFFICES ASSUME Init PROVE CoverInv
    OBVIOUS
  <2>1. KnownPosts
    BY DEF Init, KnownPosts, KnownSeq, Idle
  <2>2. Covers(accounts, history)
    BY EmptyCovers DEF Init
  <2> QED BY <2>1, <2>2, BooksInvInit DEF CoverInv
<1>2. CoverInv => PhysicalCoversHistory
  BY CoverParts DEF CoverInv
<1> QED BY <1>1, <1>2, CoverStep, PTL DEF Spec

-----------------------------------------------------------------------------
(***************************************************************************)
(* The totals are the ones the history determines, as long as the two      *)
(* things that can put them off do not happen: a call that fails half way  *)
(* and leaves what it had already written, and a second revision of one    *)
(* entry, which moves the usage out of the class it was first posted in.   *)
(***************************************************************************)

OneMore(n, u, w, m, x) == w[m] = u[m] + x /\ \A i \in 1..n : i # m => w[i] = u[i]

\* Changing one term changes the sum by as much.
LEMMA SumOneMore ==
  ASSUME NEW n \in Nat, NEW u \in [1..n -> Nat], NEW w \in [1..n -> Nat], NEW x \in Nat,
         NEW m \in 1..n, OneMore(n, u, w, m, x)
  PROVE  SumSeq(w) = SumSeq(u) + x
<1>0. w[m] = u[m] + x /\ \A i \in 1..n : i # m => w[i] = u[i]
  BY DEF OneMore
<1>1. PICK p \in [0..n -> Nat] :
        p[0] = 0 /\ p[n] = SumSeq(u) /\ \A i \in 1..n : p[i] = p[i - 1] + u[i]
  BY RunningSum
<1>2. PICK r \in [0..n -> Nat] :
        r[0] = 0 /\ r[n] = SumSeq(w) /\ \A i \in 1..n : r[i] = r[i - 1] + w[i]
  BY RunningSum
<1> DEFINE T == {k \in 0..n : (k < m => r[k] = p[k]) /\ (m <= k => r[k] = p[k] + x)}
<1>3. 0 \in T
  BY <1>1, <1>2
<1>4. ASSUME NEW k \in 1..n, k - 1 \in T PROVE k \in T
  <2>1. k - 1 \in 0..n /\ k \in 0..n /\ p[k - 1] \in Nat /\ u[k] \in Nat
    OBVIOUS
  <2>2. p[k] = p[k - 1] + u[k] /\ r[k] = r[k - 1] + w[k]
    BY <1>1, <1>2
  <2>3. (k - 1 < m => r[k - 1] = p[k - 1]) /\ (m <= k - 1 => r[k - 1] = p[k - 1] + x)
    BY <1>4
  <2>4. CASE k < m
    <3>1. w[k] = u[k] /\ r[k - 1] = p[k - 1]
      BY <1>0, <2>3, <2>4
    <3> QED BY <2>1, <2>2, <2>4, <3>1
  <2>5. CASE k = m
    <3>1. w[k] = u[k] + x /\ r[k - 1] = p[k - 1]
      BY <1>0, <2>3, <2>5
    <3> QED BY <2>1, <2>2, <2>5, <3>1
  <2>6. CASE k > m
    <3>1. w[k] = u[k] /\ r[k - 1] = p[k - 1] + x
      BY <1>0, <2>3, <2>6
    <3> QED BY <2>1, <2>2, <2>6, <3>1
  <2> QED BY <2>4, <2>5, <2>6
<1>5. n \in T
  <2> HIDE DEF T
  <2> QED BY <1>3, <1>4, UpTo
<1>6. r[n] = p[n] + x
  BY <1>5
<1> QED BY <1>1, <1>2, <1>6

\* RevisionsOf, EffectiveClass and the entries of a class, of any history.
RevsOf(h, i) ==
  {j \in DOMAIN h : h[j].event = "kReclassify" /\ h[j].target = h[i].id}
ClassOf(h, i) ==
  IF RevsOf(h, i) = {} THEN h[i].class
  ELSE h[CHOOSE j \in RevsOf(h, i) : \A k \in RevsOf(h, i) : k <= j].class
OfClass(h, c) == {i \in PostsOf(h) : ClassOf(h, i) = c}

\* What the entries at the positions S add to one total.
Sums(h, S, a, f, d) == [i \in DOMAIN h |-> IF i \in S THEN Part[h[i]][a][f][d] ELSE 0]

\* The totals are the sums of the history.
TotalMatches(totals, h, a, d) ==
  /\ \A f \in Field \ Bucket : totals[a][f][d] = SumSeq(Sums(h, PostsOf(h), a, f, d))
  /\ \A c \in ConsumptionClass :
       totals[a][BucketOf(c)][d] = SumSeq(Sums(h, OfClass(h, c), a, "physical", d))
Matches(totals, h) == \A a \in AllAccounts, d \in Dim : TotalMatches(totals, h, a, d)

\* BooksMatchHistory says so.
LEMMA MatchParts == BooksMatchHistory <=> Matches(accounts, history)
<1>1. \A S, a, f, d : Contribution(S, a, f, d) = SumSeq(Sums(history, S, a, f, d))
  BY Zenon DEF Contribution, Sums
<1>2. Posted = PostsOf(history)
  BY DEF Posted, PostsOf
<1>3. \A i : EffectiveClass(i) = ClassOf(history, i)
  BY Zenon DEF EffectiveClass, ClassOf, RevisionsOf, RevsOf
<1>4. \A c : {i \in Posted : EffectiveClass(i) = c} = OfClass(history, c)
  BY <1>2, <1>3, Zenon DEF OfClass
<1> QED BY <1>1, <1>2, <1>4, Zenon DEF BooksMatchHistory, Matches, TotalMatches

\* What an entry adds to a total is a natural number.
LEMMA PendingNat ==
  ASSUME NEW e \in Entry, validate(e), NEW a \in AllAccounts, NEW f \in Field \ Bucket,
         NEW d \in Dim
  PROVE  Pending(e)[a][f][d] \in Nat
<1> DEFINE shares == compute_attribution(e)
           terms == [i \in DOMAIN shares |->
                       IF shares[i].account = a THEN shares[i][f][d] ELSE 0]
<1>1. shares \in Seq(Share)
  BY AttributionType
<1>3. Pending(e)[a][f][d] = SumSeq(terms)
  BY Zenon DEF Pending
<1> HIDE DEF shares
<1>4. Len(shares) \in Nat /\ shares \in [1..Len(shares) -> Share] /\ DOMAIN shares = 1..Len(shares)
  BY <1>1, LenProperties
<1>5. f \in {"physical", "avoided", "stranded"}
  BY DEF Field, Bucket
<1>6. \A i \in 1..Len(shares) : shares[i][f][d] \in Nat
  <2>1. CASE f = "physical"
    BY <1>4, <2>1 DEF Share, NatUsage
  <2>2. CASE f = "avoided"
    BY <1>4, <2>2 DEF Share, NatUsage
  <2>3. CASE f = "stranded"
    BY <1>4, <2>3 DEF Share, NatUsage
  <2> QED BY <1>5, <2>1, <2>2, <2>3
<1>7. terms \in [1..Len(shares) -> Nat]
  BY <1>4, <1>6
<1> HIDE DEF terms
<1> QED BY <1>3, <1>4, <1>7, SumBounds

\* A history of entries that were submitted or came with a record, all valid.
KnownHistory(h) == h \in Seq(Entry) /\ KnownSeq(h) /\ \A i \in DOMAIN h : validate(h[i])

\* The terms of the sums over posted entries are natural numbers.
LEMMA SumsType ==
  ASSUME NEW h, KnownHistory(h), NEW S \in SUBSET PostsOf(h),
         NEW a \in AllAccounts, NEW f \in Field \ Bucket, NEW d \in Dim
  PROVE  /\ Len(h) \in Nat /\ DOMAIN h = 1..Len(h)
         /\ Sums(h, S, a, f, d) \in [1..Len(h) -> Nat]
         /\ SumSeq(Sums(h, S, a, f, d)) \in Nat
         /\ \A i \in PostsOf(h) : /\ Part[h[i]] = Pending(h[i])
                                  /\ Pending(h[i])[a][f][d] \in Nat
<1>1. Len(h) \in Nat /\ DOMAIN h = 1..Len(h) /\ \A i \in DOMAIN h : h[i] \in Entry
  BY DEF KnownHistory
<1>2. ASSUME NEW i \in PostsOf(h)
      PROVE  Part[h[i]] = Pending(h[i]) /\ Pending(h[i])[a][f][d] \in Nat
  <2>1. i \in DOMAIN h /\ h[i] \in Submissions \cup RecordEntries /\ validate(h[i])
    BY DEF PostsOf, KnownSeq, KnownPost, KnownHistory
  <2>2. Part[h[i]] = Pending(h[i])
    BY <2>1, Zenon DEF Part
  <2> QED BY <1>1, <2>1, <2>2, PendingNat
<1>3. \A i \in DOMAIN h : Sums(h, S, a, f, d)[i] \in Nat
  BY <1>2 DEF Sums
<1>4. Sums(h, S, a, f, d) = [i \in 1..Len(h) |-> Sums(h, S, a, f, d)[i]]
  BY <1>1 DEF Sums
<1>5. Sums(h, S, a, f, d) \in [1..Len(h) -> Nat]
  BY <1>1, <1>3, <1>4
<1>6. SumSeq(Sums(h, S, a, f, d)) \in Nat
  BY <1>1, <1>5, SumBounds
<1> QED BY <1>1, <1>2, <1>5, <1>6

\* An entry that is appended contributes itself, if it belongs to the positions
\* that count.
LEMMA SumsAppend ==
  ASSUME NEW h, NEW e, KnownHistory(h), KnownHistory(Append(h, e)),
         NEW S \in SUBSET PostsOf(h), NEW Q \in SUBSET PostsOf(Append(h, e)),
         Q \cap DOMAIN h = S, NEW a \in AllAccounts, NEW f \in Field \ Bucket, NEW d \in Dim
  PROVE  /\ Len(h) + 1 \in Q =>
              /\ Pending(e)[a][f][d] \in Nat
              /\ SumSeq(Sums(Append(h, e), Q, a, f, d)) =
                   SumSeq(Sums(h, S, a, f, d)) + Pending(e)[a][f][d]
         /\ Len(h) + 1 \notin Q =>
              SumSeq(Sums(Append(h, e), Q, a, f, d)) = SumSeq(Sums(h, S, a, f, d))
<1> DEFINE g == Append(h, e)
           n == Len(h)
           u == Sums(h, S, a, f, d)
           w == Sums(g, Q, a, f, d)
<1>0. h \in Seq(Entry)
  BY DEF KnownHistory
<1>1. /\ n \in Nat /\ DOMAIN g = DOMAIN h \cup {n + 1} /\ g[n + 1] = e
      /\ \A i \in DOMAIN h : i < n + 1 /\ g[i] = h[i]
  BY <1>0, Appended
<1>2. Len(g) = n + 1 /\ DOMAIN h = 1..n
  BY <1>0
<1> HIDE DEF g, n
<1>3. u \in [1..n -> Nat] /\ SumSeq(u) \in Nat
  BY SumsType DEF n
<1>4. /\ w \in [1..(n + 1) -> Nat]
      /\ \A i \in PostsOf(g) : Part[g[i]] = Pending(g[i]) /\ Pending(g[i])[a][f][d] \in Nat
  BY <1>2, SumsType DEF g
<1>5. \A i \in 1..n : w[i] = u[i]
  BY <1>1, <1>2 DEF Sums
<1>6. w[n + 1] = IF n + 1 \in Q THEN Part[e][a][f][d] ELSE 0
  BY <1>1 DEF Sums
<1>7. n + 1 \in Q => Part[e] = Pending(e) /\ Pending(e)[a][f][d] \in Nat
  BY <1>1, <1>4 DEF g
<1> HIDE DEF u, w
<1>8. SumSeq(w) = SumSeq(u) + w[n + 1]
  BY <1>1, <1>3, <1>4, <1>5, SumAppend
<1>9. CASE n + 1 \in Q
  <2>1. w[n + 1] = Pending(e)[a][f][d] /\ Pending(e)[a][f][d] \in Nat
    BY <1>6, <1>7, <1>9
  <2> QED BY <1>8, <1>9, <2>1 DEF u, w, g, n
<1>10. CASE n + 1 \notin Q
  <2>1. SumSeq(w) = SumSeq(u)
    BY <1>3, <1>6, <1>8, <1>10
  <2> QED BY <1>10, <2>1 DEF u, w, g, n
<1> QED BY <1>9, <1>10

MoreBy(w, u, x) == x \in Nat /\ w = u + x

\* One more position that counts contributes its entry.
LEMMA SumsMore ==
  ASSUME NEW h, KnownHistory(h), NEW S \in SUBSET PostsOf(h), NEW m \in PostsOf(h), m \notin S,
         NEW a \in AllAccounts, NEW f \in Field \ Bucket, NEW d \in Dim
  PROVE  MoreBy(SumSeq(Sums(h, S \cup {m}, a, f, d)), SumSeq(Sums(h, S, a, f, d)),
                Pending(h[m])[a][f][d])
<1> DEFINE n == Len(h)
           u == Sums(h, S, a, f, d)
           w == Sums(h, S \cup {m}, a, f, d)
           x == Pending(h[m])[a][f][d]
<1>1. /\ n \in Nat /\ DOMAIN h = 1..n /\ u \in [1..n -> Nat]
      /\ Part[h[m]] = Pending(h[m]) /\ x \in Nat
  BY SumsType
<1>2. w \in [1..n -> Nat]
  <2>1. S \cup {m} \in SUBSET PostsOf(h)
    OBVIOUS
  <2> QED BY <2>1, SumsType
<1>3. m \in 1..n
  BY <1>1 DEF PostsOf
<1>4. w[m] = Part[h[m]][a][f][d] /\ u[m] = 0 /\ \A i \in 1..n : i # m => w[i] = u[i]
  BY <1>1, <1>3 DEF Sums
<1>5. w[m] = u[m] + x
  <2>1. w[m] = x
    BY <1>1, <1>4
  <2> HIDE DEF w, u, x
  <2> QED BY <1>1, <1>4, <2>1
<1> HIDE DEF n, u, w, x
<1>6. SumSeq(w) = SumSeq(u) + x
  <2>1. n \in Nat /\ u \in [1..n -> Nat] /\ x \in Nat /\ OneMore(n, u, w, m, x)
    BY <1>1, <1>4, <1>5 DEF OneMore
  <2> QED BY ONLY <1>2, <1>3, <2>1, SumOneMore
<1> QED BY <1>1, <1>6 DEF u, w, x, MoreBy

\* The bucket of a class gets the physical usage of the entries of that class.
LEMMA PendingBucket ==
  ASSUME NEW e, NEW a \in AllAccounts, NEW d \in Dim, NEW c \in ConsumptionClass
  PROVE  Pending(e)[a][BucketOf(c)][d] = IF e.class = c THEN Pending(e)[a]["physical"][d] ELSE 0
<1> DEFINE shares == compute_attribution(e)
           of == SumSeq([i \in DOMAIN shares |->
                           IF shares[i].account = a THEN shares[i]["physical"][d] ELSE 0])
<1>1. BucketOf(c) \in Bucket /\ BucketOf(c) \in Field
  BY DEF BucketOf, Bucket, Field
<1>2. "physical" \in Field /\ "physical" \notin Bucket
  BY DEF Field, Bucket
<1>3. Pending(e)[a]["physical"][d] = of
  BY <1>2, Zenon DEF Pending
<1>4. Pending(e)[a][BucketOf(c)][d] =
        IF e.class \in ConsumptionClass /\ BucketOf(c) = BucketOf(e.class) THEN of ELSE 0
  BY <1>1, Zenon DEF Pending
<1>5. e.class \in ConsumptionClass /\ BucketOf(c) = BucketOf(e.class) <=> e.class = c
  BY DEF ConsumptionClass, BucketOf
<1> HIDE DEF of
<1> QED BY <1>3, <1>4, <1>5

-----------------------------------------------------------------------------
\* A share that is moved whole leaves its account's old bucket and is in the new
\* one; nothing else changes.
LEMMA MoveShareEffect ==
  ASSUME NEW st \in MoveState, NEW share \in Share, NEW old \in Bucket, NEW new \in Bucket,
         MoveShare(st, share, old, new).ok,
         NEW a \in AllAccounts, NEW f \in Field, NEW d \in Dim
  PROVE  /\ st.ok
         /\ MoveShare(st, share, old, new).accounts[a][f][d]
              + (IF a = share.account /\ f = old THEN share.physical[d] ELSE 0)
            = st.accounts[a][f][d]
              + (IF a = share.account /\ f = new THEN share.physical[d] ELSE 0)
<1> DEFINE agg == st.accounts[share.account]
           taken == [agg EXCEPT ![old] = MoveOut(@, share.physical)]
           moved == [taken EXCEPT ![new] = MoveIn(@, share.physical)]
           outOk == \A k \in Dim : SubFits(agg[old][k], share.physical[k])
           inOk == \A k \in Dim : AddFits(taken[new][k], share.physical[k])
           after == IF outOk THEN moved ELSE taken
           result == MoveShare(st, share, old, new)
<1>1. /\ agg \in Aggregate /\ share.account \in AllAccounts /\ share.physical \in NatUsage
      /\ st.accounts \in [AllAccounts -> Aggregate] /\ st.ok \in BOOLEAN
  BY DEF MoveState, Share
<1>2. result = IF ~st.ok THEN st
               ELSE [accounts |-> [st.accounts EXCEPT ![share.account] = after],
                     ok |-> outOk /\ inOk]
  BY Zenon DEF MoveShare
<1>3. /\ st.ok /\ outOk /\ inOk
      /\ result.accounts = [st.accounts EXCEPT ![share.account] = moved]
  <2>0. result.ok
    OBVIOUS
  <2> HIDE DEF moved, taken, outOk, inOk, result
  <2>1. st.ok
    BY <1>2, <2>0
  <2>2. result = [accounts |-> [st.accounts EXCEPT ![share.account] = after],
                  ok |-> outOk /\ inOk]
    BY <1>2, <2>1
  <2> HIDE DEF after
  <2>3. result.ok = (outOk /\ inOk) /\ result.accounts = [st.accounts EXCEPT ![share.account] = after]
    BY <2>2, Zenon
  <2>4. outOk /\ inOk
    BY <2>0, <2>3, Zenon
  <2>5. after = moved
    BY <2>4 DEF after
  <2> QED BY <2>1, <2>3, <2>4, <2>5
<1>4. old \in Field /\ new \in Field
  BY DEF Bucket, Field
<1>5. share.physical[d] \in Nat /\ agg[old] \in Usage /\ agg[f][d] \in Nat
      /\ st.accounts[a][f][d] \in Nat /\ agg[new][d] \in Nat /\ agg[old][d] \in Nat
  BY <1>1, <1>4, WidthAssumption DEF NatUsage, Aggregate, Usage, U64
<1> HIDE DEF agg, result
<1>6. /\ \A g \in Field \ {old} : taken[g] = agg[g]
      /\ taken[old][d] = agg[old][d] - share.physical[d]
      /\ DOMAIN taken = Field
  <2>1. MoveOut(agg[old], share.physical)[d] = agg[old][d] - share.physical[d]
    BY <1>1, <1>3, <1>5, MoveOutType
  <2> QED BY <1>1, <1>4, <2>1 DEF Aggregate
<1> HIDE DEF taken
<1>7. /\ \A g \in Field \ {new} : moved[g] = taken[g]
      /\ moved[new][d] = taken[new][d] + share.physical[d]
  <2>1. MoveIn(taken[new], share.physical)[d] = taken[new][d] + share.physical[d]
    BY <1>3, MoveInAll
  <2> QED BY <1>4, <1>6, <2>1
<1> HIDE DEF moved
<1>8. moved[f][d] + (IF f = old THEN share.physical[d] ELSE 0)
        = agg[f][d] + (IF f = new THEN share.physical[d] ELSE 0)
  <2>1. CASE f = old /\ f = new
    BY <1>5, <1>6, <1>7, <2>1
  <2>2. CASE f = old /\ f # new
    BY <1>5, <1>6, <1>7, <2>2
  <2>3. CASE f # old /\ f = new
    BY <1>5, <1>6, <1>7, <2>3
  <2>4. CASE f # old /\ f # new
    BY <1>5, <1>6, <1>7, <2>4
  <2> QED BY <2>1, <2>2, <2>3, <2>4
<1>9. CASE a = share.account
  <2>1. result.accounts[a] = moved /\ st.accounts[a] = agg
    BY <1>1, <1>3, <1>9 DEF agg
  <2> QED BY <1>3, <1>8, <1>9, <2>1 DEF result
<1>10. CASE a # share.account
  <2>1. result.accounts[a] = st.accounts[a]
    BY <1>1, <1>3, <1>10
  <2> QED BY <1>3, <1>10, <2>1 DEF result
<1> QED BY <1>9, <1>10

\* The usage of one dimension that the shares give to one account.
ShareTerms(shares, a, d) ==
  [i \in DOMAIN shares |-> IF shares[i].account = a THEN shares[i]["physical"][d] ELSE 0]

\* It is what the entry posts.
LEMMA PendingIsShares ==
  ASSUME NEW e \in Entry, validate(e), NEW a \in AllAccounts, NEW d \in Dim
  PROVE  Pending(e)[a]["physical"][d] = SumSeq(ShareTerms(compute_attribution(e), a, d))
<1>1. "physical" \in Field /\ "physical" \notin Bucket
  BY DEF Field, Bucket
<1> QED BY <1>1, Zenon DEF Pending, ShareTerms

\* The terms are natural numbers.
LEMMA ShareTermsType ==
  ASSUME NEW shares \in Seq(Share), NEW a, NEW d \in Dim
  PROVE  /\ Len(shares) \in Nat /\ shares \in [1..Len(shares) -> Share]
         /\ ShareTerms(shares, a, d) \in [1..Len(shares) -> Nat]
         /\ \A i \in 1..Len(shares) :
              ShareTerms(shares, a, d)[i] = IF shares[i].account = a THEN shares[i].physical[d] ELSE 0
<1>1. Len(shares) \in Nat /\ shares \in [1..Len(shares) -> Share] /\ DOMAIN shares = 1..Len(shares)
  BY LenProperties
<1>2. \A i \in 1..Len(shares) : shares[i].physical[d] \in Nat
  BY <1>1 DEF Share, NatUsage
<1> QED BY <1>1, <1>2 DEF ShareTerms

\* The amount that has changed bucket.
Moved(before, after, x, f, old, new) ==
  after + (IF f = old THEN x ELSE 0) = before + (IF f = new THEN x ELSE 0)

\* A revision that succeeds has moved exactly what its target's shares give to an
\* account, from one bucket of it to the other.
LEMMA MoveSharesEffect ==
  ASSUME NEW totals \in [AllAccounts -> Aggregate], AllWithin(totals),
         NEW shares \in Seq(Share), NEW old \in Bucket, NEW new \in Bucket,
         MoveShares(totals, shares, old, new).ok,
         NEW a \in AllAccounts, NEW f \in Field, NEW d \in Dim
  PROVE  Moved(totals[a][f][d], MoveShares(totals, shares, old, new).accounts[a][f][d],
               SumSeq(ShareTerms(shares, a, d)), f, old, new)
<1> DEFINE n == Len(shares)
           s == ShareTerms(shares, a, d)
           run == CHOOSE r : r = [i \in 0..Len(shares) |->
                      IF i = 0 THEN [accounts |-> totals, ok |-> TRUE]
                      ELSE MoveShare(r[i - 1], shares[i], old, new)]
<1>1. /\ n \in Nat /\ shares \in [1..n -> Share] /\ s \in [1..n -> Nat]
      /\ \A i \in 1..n : s[i] = IF shares[i].account = a THEN shares[i].physical[d] ELSE 0
  BY ShareTermsType
<1>2. MoveShares(totals, shares, old, new) = run[n]
  BY Zenon DEF MoveShares
<1>3. IsMoveRun(run, totals, shares, old, new, n)
  <2>1. \E r : IsMoveRun(r, totals, shares, old, new, Len(shares))
    BY <1>1, MoveRunExists
  <2> QED BY <2>1, Zenon DEF IsMoveRun
<1> HIDE DEF run, n, s
<1>4. PICK p \in [0..n -> Nat] :
        p[0] = 0 /\ p[n] = SumSeq(s) /\ \A i \in 1..n : p[i] = p[i - 1] + s[i]
  BY <1>1, RunningSum
<1> DEFINE T == {i \in 0..n : /\ run[i] \in MoveState /\ AllWithin(run[i].accounts)
                              /\ run[i].ok => Moved(totals[a][f][d], run[i].accounts[a][f][d],
                                                    p[i], f, old, new)}
<1>5. 0 \in T
  <2>1. run[0] = [accounts |-> totals, ok |-> TRUE]
    BY <1>1, <1>3 DEF IsMoveRun
  <2>2. run[0] \in MoveState /\ run[0].accounts = totals
    BY <2>1 DEF MoveState
  <2>3. 0 \in 0..n
    BY <1>1
  <2>4. Moved(totals[a][f][d], run[0].accounts[a][f][d], p[0], f, old, new)
    BY <1>4, <2>2 DEF Moved
  <2> QED BY <2>2, <2>3, <2>4
<1>6. ASSUME NEW i \in 1..n, i - 1 \in T PROVE i \in T
  <2>1. run[i] = MoveShare(run[i - 1], shares[i], old, new)
    <3>1. i \in 0..n /\ i # 0
      BY <1>1
    <3> QED BY <1>3, <3>1 DEF IsMoveRun
  <2>2. shares[i] \in Share /\ i \in 0..n /\ i - 1 \in 0..n
    BY <1>1
  <2>3. /\ run[i - 1] \in MoveState /\ AllWithin(run[i - 1].accounts)
        /\ run[i - 1].ok => Moved(totals[a][f][d], run[i - 1].accounts[a][f][d], p[i - 1], f, old, new)
    BY <1>6
  <2>4. run[i] \in MoveState /\ AllWithin(run[i].accounts)
    BY <2>1, <2>2, <2>3, MoveShareWithin
  <2>5. ASSUME run[i].ok
        PROVE  Moved(totals[a][f][d], run[i].accounts[a][f][d], p[i], f, old, new)
    <3> DEFINE z == totals[a][f][d]
               x == run[i - 1].accounts[a][f][d]
               y == run[i].accounts[a][f][d]
               q == p[i - 1]
               v == shares[i].physical[d]
    <3>1. /\ run[i - 1].ok
          /\ y + (IF a = shares[i].account /\ f = old THEN v ELSE 0)
               = x + (IF a = shares[i].account /\ f = new THEN v ELSE 0)
      BY <2>1, <2>2, <2>3, <2>5, MoveShareEffect
    <3>2. Moved(z, x, q, f, old, new)
      BY <2>3, <3>1
    <3>3. x \in Nat /\ y \in Nat /\ z \in Nat /\ q \in Nat /\ v \in Nat
      <4>1. \A t \in [AllAccounts -> Aggregate] : t[a][f][d] \in Nat
        BY WidthAssumption DEF Aggregate, Usage, U64
      <4>2. run[i - 1].accounts \in [AllAccounts -> Aggregate] /\ run[i].accounts \in [AllAccounts -> Aggregate]
        BY <2>3, <2>4 DEF MoveState
      <4>3. x \in Nat /\ y \in Nat /\ z \in Nat
        BY <4>1, <4>2, Zenon
      <4>4. q \in Nat
        BY <1>4, <2>2
      <4>5. v \in Nat
        BY <2>2 DEF Share, NatUsage
      <4> QED BY <4>3, <4>4, <4>5
    <3>4. p[i] = q + IF a = shares[i].account THEN v ELSE 0
      BY <1>1, <1>4
    <3> HIDE DEF x, y, z, q, v
    <3>5. Moved(z, y, p[i], f, old, new)
      <4>1. CASE a = shares[i].account
        BY ONLY <3>1, <3>2, <3>3, <3>4, <4>1 DEF Moved
      <4>2. CASE a # shares[i].account
        BY ONLY <3>1, <3>2, <3>3, <3>4, <4>2 DEF Moved
      <4> QED BY <4>1, <4>2
    <3> QED BY <3>5 DEF z, y
  <2> QED BY <2>2, <2>4, <2>5
<1>7. n \in T
  <2> HIDE DEF T
  <2> QED BY <1>1, <1>5, <1>6, UpTo
<1> QED BY <1>2, <1>4, <1>7 DEF s

-----------------------------------------------------------------------------
\* No entry of a history is revised twice.
RevisedOnceIn(h) ==
  \A j, k \in DOMAIN h : /\ h[j].event = "kReclassify" /\ h[k].event = "kReclassify"
                         /\ h[j].target = h[k].target
                         => j = k

\* A revision consumes nothing, and revises an entry before it.
Grounded(h) ==
  \A j \in DOMAIN h :
    h[j].event = "kReclassify" =>
      IsZero(h[j].usage) /\ \E i \in DOMAIN h : i < j /\ h[i].id = h[j].target

\* The only revision of an entry decides its class.
LEMMA ClassByRevision ==
  ASSUME NEW h, RevisedOnceIn(h), NEW i, NEW j \in RevsOf(h, i), DOMAIN h \subseteq Nat
  PROVE  ClassOf(h, i) = h[j].class
<1>1. \A k \in RevsOf(h, i) : k = j
  BY DEF RevisedOnceIn, RevsOf
<1>2. j \in Nat
  BY DEF RevsOf
<1>3. (CHOOSE k \in RevsOf(h, i) : \A l \in RevsOf(h, i) : l <= k) = j
  <2>1. \A l \in RevsOf(h, i) : l <= j
    BY <1>1, <1>2
  <2>2. \E k \in RevsOf(h, i) : \A l \in RevsOf(h, i) : l <= k
    BY <2>1
  <2> DEFINE c == CHOOSE k \in RevsOf(h, i) : \A l \in RevsOf(h, i) : l <= k
  <2>3. c \in RevsOf(h, i)
    BY <2>2
  <2> HIDE DEF c
  <2>4. c = j
    BY <1>1, <2>3
  <2> QED BY <2>4 DEF c
<1>4. RevsOf(h, i) # {}
  OBVIOUS
<1> QED BY <1>3, <1>4, Zenon DEF ClassOf

\* An entry that does not revise the entry at i leaves its class alone; one that
\* does gives it its own.
LEMMA ClassAfter ==
  ASSUME NEW h \in Seq(Entry), NEW e \in Entry, RevisedOnceIn(Append(h, e)), NEW i \in DOMAIN h
  PROVE  /\ ~(e.event = "kReclassify" /\ e.target = h[i].id) =>
              ClassOf(Append(h, e), i) = ClassOf(h, i)
         /\ e.event = "kReclassify" /\ e.target = h[i].id =>
              ClassOf(Append(h, e), i) = e.class /\ ClassOf(h, i) = h[i].class
<1> DEFINE g == Append(h, e)
           n == Len(h) + 1
<1>1. /\ n \in Nat /\ DOMAIN g = DOMAIN h \cup {n} /\ g[n] = e
      /\ \A j \in DOMAIN h : j \in Nat /\ j < n /\ g[j] = h[j]
  BY Appended
<1>2. RevisedOnceIn(g)
  OBVIOUS
<1> HIDE DEF g, n
<1>3. RevisedOnceIn(h)
  BY <1>1, <1>2 DEF RevisedOnceIn
<1>4. DOMAIN h \subseteq Nat /\ DOMAIN g \subseteq Nat /\ n \notin DOMAIN h
  BY <1>1
<1>5. ASSUME ~(e.event = "kReclassify" /\ e.target = h[i].id)
      PROVE  ClassOf(g, i) = ClassOf(h, i)
  <2>1. RevsOf(g, i) = RevsOf(h, i)
    BY <1>1, <1>5 DEF RevsOf
  <2>2. CASE RevsOf(h, i) = {}
    BY <1>1, <2>1, <2>2 DEF ClassOf
  <2>3. ASSUME NEW j \in RevsOf(h, i) PROVE ClassOf(g, i) = ClassOf(h, i)
    <3>1. ClassOf(h, i) = h[j].class
      BY <1>3, <1>4, ClassByRevision
    <3>2. ClassOf(g, i) = g[j].class
      BY <1>2, <1>4, <2>1, ClassByRevision
    <3>3. j \in DOMAIN h
      BY DEF RevsOf
    <3> QED BY <1>1, <3>1, <3>2, <3>3
  <2> QED BY <2>2, <2>3
<1>6. ASSUME e.event = "kReclassify", e.target = h[i].id
      PROVE  ClassOf(g, i) = e.class /\ ClassOf(h, i) = h[i].class
  <2>1. n \in RevsOf(g, i)
    BY <1>1, <1>6 DEF RevsOf
  <2>2. ClassOf(g, i) = e.class
    BY <1>1, <1>2, <1>4, <2>1, ClassByRevision
  <2>3. RevsOf(h, i) = {}
    <3> SUFFICES ASSUME NEW j \in RevsOf(h, i) PROVE FALSE
      OBVIOUS
    <3>1. j \in DOMAIN g /\ n \in DOMAIN g /\ j # n /\ g[j] = h[j] /\ g[n] = e
          /\ h[j].event = "kReclassify" /\ h[j].target = h[i].id
      BY <1>1, <1>4 DEF RevsOf
    <3> QED BY <1>2, <1>6, <3>1 DEF RevisedOnceIn
  <2> QED BY <2>2, <2>3 DEF ClassOf
<1> QED BY <1>5, <1>6 DEF g

\* Posting an entry and adding it to every total keeps them matching.
LEMMA PostMatches ==
  ASSUME NEW h, NEW e \in Entry, KnownHistory(h), KnownHistory(Append(h, e)),
         e.event # "kReclassify", Grounded(h), RevisedOnceIn(Append(h, e)),
         \A i \in DOMAIN h : h[i].id # e.id,
         NEW totals, NEW after, Matches(totals, h),
         \A a \in AllAccounts, f \in Field, d \in Dim :
           after[a][f][d] = totals[a][f][d] + Pending(e)[a][f][d]
  PROVE  Matches(after, Append(h, e))
<1> DEFINE g == Append(h, e)
           n == Len(h) + 1
<1>0. h \in Seq(Entry)
  BY DEF KnownHistory
<1>1. /\ n \in Nat /\ DOMAIN g = DOMAIN h \cup {n} /\ g[n] = e
      /\ \A j \in DOMAIN h : j \in Nat /\ j < n /\ g[j] = h[j]
  BY <1>0, Appended
<1>2. n \notin DOMAIN h
  BY <1>1
<1>3. \A i \in DOMAIN h : ClassOf(g, i) = ClassOf(h, i)
  BY <1>0, ClassAfter
<1> HIDE DEF g
<1>4. PostsOf(g) = PostsOf(h) \cup {n} /\ PostsOf(h) \subseteq DOMAIN h
  BY <1>1 DEF PostsOf
<1>5. ClassOf(g, n) = e.class
  <2>1. RevsOf(g, n) = {}
    <3> SUFFICES ASSUME NEW j \in RevsOf(g, n) PROVE FALSE
      OBVIOUS
    <3>1. j \in DOMAIN h /\ h[j].event = "kReclassify" /\ h[j].target = e.id
      BY <1>1 DEF RevsOf
    <3> QED BY <3>1 DEF Grounded
  <2> QED BY <1>1, <2>1 DEF ClassOf
<1>6. \A c : OfClass(g, c) \cap DOMAIN h = OfClass(h, c) /\ (n \in OfClass(g, c) <=> e.class = c)
             /\ OfClass(g, c) \in SUBSET PostsOf(g) /\ OfClass(h, c) \in SUBSET PostsOf(h)
  <2> SUFFICES ASSUME NEW c
               PROVE  OfClass(g, c) \cap DOMAIN h = OfClass(h, c) /\ (n \in OfClass(g, c) <=> e.class = c)
                      /\ OfClass(g, c) \in SUBSET PostsOf(g) /\ OfClass(h, c) \in SUBSET PostsOf(h)
    BY Zenon
  <2> QED BY <1>1, <1>2, <1>3, <1>4, <1>5 DEF OfClass
<1>7. KnownHistory(g) /\ "physical" \in Field \ Bucket
  BY DEF g, Field, Bucket
<1> SUFFICES ASSUME NEW a \in AllAccounts, NEW d \in Dim PROVE TotalMatches(after, g, a, d)
  BY DEF Matches, g
<1>8. TotalMatches(totals, h, a, d)
  BY DEF Matches
<1>9. ASSUME NEW f \in Field \ Bucket
      PROVE  after[a][f][d] = SumSeq(Sums(g, PostsOf(g), a, f, d))
  <2>1. totals[a][f][d] = SumSeq(Sums(h, PostsOf(h), a, f, d))
    BY <1>8 DEF TotalMatches
  <2>2. PostsOf(g) \cap DOMAIN h = PostsOf(h) /\ n \in PostsOf(g)
    BY <1>2, <1>4
  <2>3. SumSeq(Sums(g, PostsOf(g), a, f, d)) =
          SumSeq(Sums(h, PostsOf(h), a, f, d)) + Pending(e)[a][f][d]
    BY <2>2, SumsAppend DEF g
  <2>4. after[a][f][d] = totals[a][f][d] + Pending(e)[a][f][d]
    OBVIOUS
  <2> QED BY <2>1, <2>3, <2>4
<1>10. ASSUME NEW c \in ConsumptionClass
       PROVE  after[a][BucketOf(c)][d] = SumSeq(Sums(g, OfClass(g, c), a, "physical", d))
  <2>1. totals[a][BucketOf(c)][d] = SumSeq(Sums(h, OfClass(h, c), a, "physical", d))
    BY <1>8 DEF TotalMatches
  <2>2. /\ n \in OfClass(g, c) =>
             /\ Pending(e)[a]["physical"][d] \in Nat
             /\ SumSeq(Sums(g, OfClass(g, c), a, "physical", d)) =
                  SumSeq(Sums(h, OfClass(h, c), a, "physical", d)) + Pending(e)[a]["physical"][d]
        /\ n \notin OfClass(g, c) =>
             SumSeq(Sums(g, OfClass(g, c), a, "physical", d)) =
               SumSeq(Sums(h, OfClass(h, c), a, "physical", d))
    BY <1>6, <1>7, SumsAppend DEF g
  <2>3. BucketOf(c) \in Field
    BY DEF BucketOf, Field
  <2>4. after[a][BucketOf(c)][d] = totals[a][BucketOf(c)][d] + Pending(e)[a][BucketOf(c)][d]
    BY <2>3
  <2>5. Pending(e)[a][BucketOf(c)][d] = IF e.class = c THEN Pending(e)[a]["physical"][d] ELSE 0
    BY PendingBucket
  <2>6. SumSeq(Sums(h, OfClass(h, c), a, "physical", d)) \in Nat
    BY <1>6, <1>7, SumsType
  <2>7. CASE e.class = c
    BY <1>6, <2>1, <2>2, <2>4, <2>5, <2>7
  <2>8. CASE e.class # c
    BY <1>6, <2>1, <2>2, <2>4, <2>5, <2>6, <2>8
  <2> QED BY <2>7, <2>8
<1> QED BY <1>9, <1>10 DEF TotalMatches

\* The part of a sum that one position makes up.
LEMMA SumsSplit ==
  ASSUME NEW h, KnownHistory(h), NEW S \in SUBSET PostsOf(h), NEW m \in PostsOf(h),
         NEW a \in AllAccounts, NEW f \in Field \ Bucket, NEW d \in Dim
  PROVE  /\ SumSeq(Sums(h, S \ {m}, a, f, d)) \in Nat /\ Pending(h[m])[a][f][d] \in Nat
         /\ SumSeq(Sums(h, S, a, f, d)) =
              SumSeq(Sums(h, S \ {m}, a, f, d)) + IF m \in S THEN Pending(h[m])[a][f][d] ELSE 0
<1> DEFINE R == S \ {m}
<1>1. R \in SUBSET PostsOf(h) /\ m \notin R
  OBVIOUS
<1>2. (m \in S => S = R \cup {m}) /\ (m \notin S => S = R)
  OBVIOUS
<1> HIDE DEF R
<1>3. SumSeq(Sums(h, R, a, f, d)) \in Nat
  BY <1>1, SumsType
<1>4. /\ Pending(h[m])[a][f][d] \in Nat
      /\ SumSeq(Sums(h, R \cup {m}, a, f, d)) = SumSeq(Sums(h, R, a, f, d)) + Pending(h[m])[a][f][d]
  <2>1. MoreBy(SumSeq(Sums(h, R \cup {m}, a, f, d)), SumSeq(Sums(h, R, a, f, d)),
               Pending(h[m])[a][f][d])
    BY <1>1, SumsMore
  <2> QED BY <2>1 DEF MoreBy
<1>5. CASE m \in S
  <2>1. SumSeq(Sums(h, S, a, f, d)) = SumSeq(Sums(h, R, a, f, d)) + Pending(h[m])[a][f][d]
    BY <1>2, <1>4, <1>5
  <2> QED BY <1>3, <1>4, <1>5, <2>1, Zenon DEF R
<1>6. CASE m \notin S
  <2>1. SumSeq(Sums(h, S, a, f, d)) = SumSeq(Sums(h, R, a, f, d)) + 0
    BY <1>2, <1>3, <1>6
  <2> QED BY <1>3, <1>4, <1>6, <2>1, Zenon DEF R
<1> QED BY <1>5, <1>6

\* What the revision e of the entry t does to the totals when it succeeds.
RevisedTotals(totals, after, t, e) ==
  \A a \in AllAccounts, f \in Field, d \in Dim :
    IF t.class \in ConsumptionClass
    THEN Moved(totals[a][f][d], after[a][f][d], Pending(t)[a]["physical"][d], f,
               BucketOf(t.class), BucketOf(e.class))
    ELSE after[a][f][d] = totals[a][f][d]

\* Committing the first revision of an entry and moving its usage keeps the
\* totals matching.
LEMMA ReviseMatches ==
  ASSUME NEW h, NEW e \in Entry, KnownHistory(h), KnownHistory(Append(h, e)),
         e.event = "kReclassify", RevisedOnceIn(Append(h, e)),
         NEW m \in DOMAIN h, h[m].id = e.target, \A i \in DOMAIN h : h[i].id = h[m].id => i = m,
         (h[m].class \in ConsumptionClass) = (e.class \in ConsumptionClass),
         h[m].event = "kReclassify" => IsZero(h[m].usage),
         NEW totals \in [AllAccounts -> Aggregate], NEW after \in [AllAccounts -> Aggregate],
         Matches(totals, h), RevisedTotals(totals, after, h[m], e)
  PROVE  Matches(after, Append(h, e))
<1> DEFINE g == Append(h, e)
           n == Len(h) + 1
           t == h[m]
<1>0. h \in Seq(Entry) /\ t \in Entry /\ validate(t)
  BY DEF KnownHistory
<1>1. /\ n \in Nat /\ DOMAIN g = DOMAIN h \cup {n} /\ g[n] = e
      /\ \A j \in DOMAIN h : j \in Nat /\ j < n /\ g[j] = h[j]
  BY <1>0, Appended
<1>2. n \notin DOMAIN h
  BY <1>1
<1>3. /\ \A i \in DOMAIN h : i # m => ClassOf(g, i) = ClassOf(h, i)
      /\ ClassOf(g, m) = e.class /\ ClassOf(h, m) = t.class
  BY <1>0, ClassAfter
<1> HIDE DEF g
<1>4. PostsOf(g) = PostsOf(h) /\ PostsOf(h) \subseteq DOMAIN h /\ n \notin PostsOf(g)
  BY <1>1, <1>2 DEF PostsOf
<1>5. KnownHistory(g) /\ "physical" \in Field \ Bucket
  BY DEF g, Field, Bucket
<1>6. \A c : /\ OfClass(g, c) \in SUBSET PostsOf(g) /\ OfClass(h, c) \in SUBSET PostsOf(h)
             /\ OfClass(g, c) \cap DOMAIN h = OfClass(g, c) /\ n \notin OfClass(g, c)
             /\ OfClass(g, c) \ {m} = OfClass(h, c) \ {m}
             /\ m \in OfClass(g, c) <=> m \in PostsOf(h) /\ e.class = c
             /\ m \in OfClass(h, c) <=> m \in PostsOf(h) /\ t.class = c
  <2> SUFFICES ASSUME NEW c
               PROVE  /\ OfClass(g, c) \in SUBSET PostsOf(g) /\ OfClass(h, c) \in SUBSET PostsOf(h)
                      /\ OfClass(g, c) \cap DOMAIN h = OfClass(g, c) /\ n \notin OfClass(g, c)
                      /\ OfClass(g, c) \ {m} = OfClass(h, c) \ {m}
                      /\ m \in OfClass(g, c) <=> m \in PostsOf(h) /\ e.class = c
                      /\ m \in OfClass(h, c) <=> m \in PostsOf(h) /\ t.class = c
    BY Zenon
  <2> HIDE DEF n, t
  <2> QED BY <1>3, <1>4 DEF OfClass
<1> SUFFICES ASSUME NEW a \in AllAccounts, NEW d \in Dim PROVE TotalMatches(after, g, a, d)
  BY DEF Matches, g
<1>7. TotalMatches(totals, h, a, d)
  BY DEF Matches
<1> DEFINE x == Pending(t)[a]["physical"][d]
<1>8. x \in Nat /\ (m \notin PostsOf(h) => x = 0)
  <2>1. x \in Nat
    BY <1>0, <1>5, PendingNat
  <2>2. m \notin PostsOf(h) => IsZero(t.usage)
    BY DEF PostsOf
  <2> QED BY <1>0, <2>1, <2>2, ZeroPending
<1>9. ASSUME NEW f \in Field
      PROVE  /\ t.class \in ConsumptionClass =>
                  Moved(totals[a][f][d], after[a][f][d], x, f, BucketOf(t.class), BucketOf(e.class))
             /\ t.class \notin ConsumptionClass => after[a][f][d] = totals[a][f][d]
             /\ totals[a][f][d] \in Nat /\ after[a][f][d] \in Nat
  <2>1. totals[a][f][d] \in Nat /\ after[a][f][d] \in Nat
    BY WidthAssumption DEF Aggregate, Usage, U64
  <2>2. IF t.class \in ConsumptionClass
        THEN Moved(totals[a][f][d], after[a][f][d], x, f, BucketOf(t.class), BucketOf(e.class))
        ELSE after[a][f][d] = totals[a][f][d]
    BY Zenon DEF RevisedTotals
  <2> HIDE DEF x, t
  <2> QED BY <2>1, <2>2
<1>10. ASSUME NEW f \in Field \ Bucket
       PROVE  after[a][f][d] = SumSeq(Sums(g, PostsOf(g), a, f, d))
  <2>1. totals[a][f][d] = SumSeq(Sums(h, PostsOf(h), a, f, d))
    BY <1>7 DEF TotalMatches
  <2>2. PostsOf(g) \cap DOMAIN h = PostsOf(h)
    BY <1>4
  <2>3. SumSeq(Sums(g, PostsOf(g), a, f, d)) = SumSeq(Sums(h, PostsOf(h), a, f, d))
    BY <1>4, <2>2, SumsAppend DEF g
  <2>4. after[a][f][d] = totals[a][f][d]
    <3>1. f # BucketOf(t.class) /\ f # BucketOf(e.class)
      BY DEF BucketOf, Bucket
    <3> HIDE DEF x, t
    <3> QED BY <1>9, <3>1 DEF Moved
  <2> QED BY <2>1, <2>3, <2>4
<1>11. ASSUME NEW c \in ConsumptionClass
       PROVE  after[a][BucketOf(c)][d] = SumSeq(Sums(g, OfClass(g, c), a, "physical", d))
  <2> DEFINE b == BucketOf(c)
             was == SumSeq(Sums(h, OfClass(h, c), a, "physical", d))
             now == SumSeq(Sums(h, OfClass(g, c), a, "physical", d))
  <2>1. totals[a][b][d] = was
    BY <1>7 DEF TotalMatches
  <2>2. SumSeq(Sums(g, OfClass(g, c), a, "physical", d)) = now
    <3>1. OfClass(g, c) \in SUBSET PostsOf(h) /\ OfClass(g, c) \in SUBSET PostsOf(g)
      BY <1>4, <1>6
    <3> QED BY <1>5, <1>6, <3>1, SumsAppend DEF g
  <2>3. b \in Field /\ b \in Bucket
    BY DEF BucketOf, Field, Bucket
  <2>4. /\ b = BucketOf(t.class) /\ t.class \in ConsumptionClass <=> t.class = c
        /\ b = BucketOf(e.class) /\ e.class \in ConsumptionClass <=> e.class = c
    BY DEF BucketOf, ConsumptionClass
  <2>5. /\ t.class \in ConsumptionClass =>
             Moved(totals[a][b][d], after[a][b][d], x, b, BucketOf(t.class), BucketOf(e.class))
        /\ t.class \notin ConsumptionClass => after[a][b][d] = totals[a][b][d]
        /\ totals[a][b][d] \in Nat /\ after[a][b][d] \in Nat
    BY <1>9, <2>3
  <2>6. t.class \in ConsumptionClass <=> e.class \in ConsumptionClass
    OBVIOUS
  <2>7. CASE m \in PostsOf(h)
    <3> DEFINE base == SumSeq(Sums(h, OfClass(h, c) \ {m}, a, "physical", d))
    <3>1. base \in Nat /\ was = base + IF m \in OfClass(h, c) THEN x ELSE 0
      BY <1>5, <1>6, <2>7, SumsSplit
    <3>2. now = base + IF m \in OfClass(g, c) THEN x ELSE 0
      <4>1. OfClass(g, c) \in SUBSET PostsOf(h) /\ OfClass(g, c) \ {m} = OfClass(h, c) \ {m}
        BY <1>4, <1>6
      <4>2. now = SumSeq(Sums(h, OfClass(g, c) \ {m}, a, "physical", d))
                    + IF m \in OfClass(g, c) THEN x ELSE 0
        BY <1>5, <2>7, <4>1, SumsSplit
      <4> QED BY <4>1, <4>2
    <3>3. was = (base + IF t.class = c THEN x ELSE 0) /\ now = base + IF e.class = c THEN x ELSE 0
      BY <1>6, <2>7, <3>1, <3>2
    <3> HIDE DEF base, was, now, x, b, t
    <3>4. after[a][b][d] = now
      <4>1. CASE t.class \in ConsumptionClass
        BY <1>8, <2>1, <2>4, <2>5, <2>6, <3>1, <3>3, <4>1 DEF Moved
      <4>2. CASE t.class \notin ConsumptionClass
        BY <1>8, <2>1, <2>4, <2>5, <2>6, <3>1, <3>3, <4>2
      <4> QED BY <4>1, <4>2
    <3> QED BY <2>2, <3>4 DEF b
  <2>8. CASE m \notin PostsOf(h)
    <3>1. OfClass(g, c) = OfClass(h, c)
      BY <1>6, <2>8
    <3>2. now = was
      BY <3>1
    <3> HIDE DEF was, now, x, b, t
    <3>3. after[a][b][d] = totals[a][b][d]
      BY <1>8, <2>5, <2>8 DEF Moved
    <3> QED BY <2>1, <2>2, <3>2, <3>3 DEF b
  <2> QED BY <2>7, <2>8
<1> QED BY <1>10, <1>11 DEF TotalMatches

-----------------------------------------------------------------------------
\* What a successful revision does to the totals.
LEMMA ReviseTotals ==
  ASSUME BookState, NEW e \in Entry, NEW t \in Entry, validate(t), t = EntryOf(e.target),
         apply_reclassify_locked(e).ok
  PROVE  RevisedTotals(accounts, apply_reclassify_locked(e).accounts, t, e)
<1> DEFINE outcome == apply_reclassify_locked(e)
           shares == compute_attribution(t)
<1>0. accounts \in [AllAccounts -> Aggregate] /\ AllWithin(accounts)
  BY DEF BookState, BookTypes
<1>1. outcome = IF t.class \in ConsumptionClass
                THEN MoveShares(accounts, shares, BucketOf(t.class), BucketOf(e.class))
                ELSE [accounts |-> accounts, ok |-> TRUE]
  BY Zenon DEF apply_reclassify_locked
<1>2. BucketOf(t.class) \in Bucket /\ BucketOf(e.class) \in Bucket
  BY DEF BucketOf, Bucket
<1>3. shares \in Seq(Share)
  BY AttributionType
<1>4. outcome.ok
  OBVIOUS
<1> SUFFICES ASSUME NEW a \in AllAccounts, NEW f \in Field, NEW d \in Dim
             PROVE  IF t.class \in ConsumptionClass
                    THEN Moved(accounts[a][f][d], outcome.accounts[a][f][d],
                               Pending(t)[a]["physical"][d], f, BucketOf(t.class), BucketOf(e.class))
                    ELSE outcome.accounts[a][f][d] = accounts[a][f][d]
  BY Zenon DEF RevisedTotals
<1>5. Pending(t)[a]["physical"][d] = SumSeq(ShareTerms(shares, a, d))
  BY PendingIsShares
<1> HIDE DEF outcome, shares
<1>6. CASE t.class \in ConsumptionClass
  <2>1. outcome = MoveShares(accounts, shares, BucketOf(t.class), BucketOf(e.class))
    BY <1>1, <1>6
  <2>2. Moved(accounts[a][f][d], outcome.accounts[a][f][d],
              SumSeq(ShareTerms(shares, a, d)), f, BucketOf(t.class), BucketOf(e.class))
    BY <1>0, <1>2, <1>3, <1>4, <2>1, MoveSharesEffect
  <2> QED BY <1>5, <1>6, <2>2
<1>7. CASE t.class \notin ConsumptionClass
  BY <1>1, <1>7
<1> QED BY <1>6, <1>7

\* Hypothesis: a call that is not answered with OK leaves the totals as they were.
\* apply_attribution stopped by an overflow and apply_reclassify_locked stopped
\* half way do not (finding bad_totals).
RefusedLeavesNoTrace == [][reply' # "OK" => accounts' = accounts]_vars

\* Hypothesis: no committed entry is revised twice.  A second revision takes from
\* the class the entry was posted with (finding bad_second_revision).
RevisedOnce == RevisedOnceIn(history)

\* The inductive invariant.
MatchInv == AuthorityInv /\ KnownPosts /\ Grounded(history) /\ Matches(accounts, history)

\* Empty books match an empty history.
LEMMA EmptyMatches == Matches(NoTotals, <<>>)
<1>1. ASSUME NEW a \in AllAccounts, NEW f \in Field, NEW d \in Dim
      PROVE  NoTotals[a][f][d] = 0
  BY DEF NoTotals, ZeroUsage
<1>2. ASSUME NEW S, NEW a, NEW f, NEW d PROVE SumSeq(Sums(<<>>, S, a, f, d)) = 0
  <2> DEFINE u == Sums(<<>>, S, a, f, d)
  <2>1. u \in [1..0 -> Nat] /\ \A i \in 1..0 : u[i] = 0
    BY DEF Sums
  <2> HIDE DEF u
  <2>2. SumSeq(u) = 0
    BY <2>1, SumOfZeros
  <2> QED BY <2>2 DEF u
<1>3. \A c : BucketOf(c) \in Field
  BY DEF BucketOf, Field
<1> QED BY <1>1, <1>2, <1>3 DEF Matches, TotalMatches

\* append_locked keeps the totals matching under the hypotheses.
LEMMA AppendLockedMatches ==
  ASSUME BookState, BookState', UniqueIds, KnownSeq(history), KnownSeq(history'),
         Grounded(history), Matches(accounts, history), NEW e \in Entry, append_locked(e),
         RevisedOnceIn(history'), reply' # "OK" => accounts' = accounts
  PROVE  Grounded(history') /\ Matches(accounts', history')
<1>1. /\ KnownHistory(history) /\ KnownHistory(history')
      /\ accounts \in [AllAccounts -> Aggregate] /\ accounts' \in [AllAccounts -> Aggregate]
  BY DEF BookState, BookTypes, HistoryValid, KnownHistory
<1>2. CASE accounts' = accounts /\ history' = history
  BY <1>2
<1>3. CASE Refuse(e)
  BY <1>2, <1>3 DEF Refuse, books
<1>4. CASE Post(e)
  <2>1. PICK outcome \in apply_attribution(e) :
          /\ accounts' = outcome.accounts
          /\ Answer(IF outcome.ok THEN "OK" ELSE "OVERFLOW")
          /\ history' = IF outcome.ok THEN Append(history, e) ELSE history
    BY <1>4, Zenon DEF Post
  <2>2. Verdict(e) = "OK" /\ e.event # "kReclassify"
    BY <1>4 DEF Post
  <2>3. CASE ~outcome.ok
    <3>1. history' = history /\ reply' # "OK"
      BY <2>1, <2>3 DEF Answer
    <3> QED BY <1>2, <3>1
  <2>4. CASE outcome.ok
    <3>1. history' = Append(history, e)
      BY <2>1, <2>4
    <3>2. \A i \in DOMAIN history : history[i].id # e.id
      BY <2>2 DEF Verdict, Committed
    <3>3. \A a \in AllAccounts, f \in Field, d \in Dim :
            accounts'[a][f][d] = accounts[a][f][d] + Pending(e)[a][f][d]
      BY <1>1, <2>1, <2>4, ApplyNeverLowers
    <3>4. Matches(accounts', Append(history, e))
      BY <1>1, <2>2, <3>1, <3>2, <3>3, PostMatches
    <3>5. Grounded(history')
      <4>1. history \in Seq(Entry)
        BY <1>1 DEF KnownHistory
      <4> QED BY <2>2, <3>1, <4>1, Appended DEF Grounded
    <3> QED BY <3>1, <3>4, <3>5
  <2> QED BY <2>3, <2>4
<1>5. CASE Revise(e)
  <2> DEFINE outcome == apply_reclassify_locked(e)
             m == CHOOSE i \in DOMAIN history : history[i].id = e.target
             t == history[m]
  <2>1. /\ accounts' = outcome.accounts
        /\ Answer(IF outcome.ok THEN "OK" ELSE "RECONCILIATION_FAILURE")
        /\ history' = IF outcome.ok THEN Append(history, e) ELSE history
        /\ Verdict(e) = "OK" /\ e.event = "kReclassify"
    BY <1>5, Zenon DEF Revise
  <2>2. /\ Committed(e.target) /\ IsZero(e.usage)
        /\ (EntryOf(e.target).class \in ConsumptionClass) = (e.class \in ConsumptionClass)
    BY <2>1 DEF Verdict, RevisionVerdict
  <2>3. m \in DOMAIN history /\ history[m].id = e.target /\ EntryOf(e.target) = t
    BY <2>2 DEF Committed, EntryOf
  <2> HIDE DEF outcome, m
  <2>4. t \in Entry /\ validate(t)
    BY <1>1, <2>3 DEF KnownHistory
  <2>5. CASE ~outcome.ok
    <3>1. history' = history /\ reply' # "OK"
      BY <2>1, <2>5 DEF Answer
    <3> QED BY <1>2, <3>1
  <2>6. CASE outcome.ok
    <3>1. history' = Append(history, e)
      BY <2>1, <2>6
    <3>2. RevisedTotals(accounts, accounts', t, e)
      BY <2>1, <2>3, <2>4, <2>6, ReviseTotals DEF outcome
    <3>3. \A i \in DOMAIN history : history[i].id = history[m].id => i = m
      BY <2>3 DEF UniqueIds
    <3>4. history[m].event = "kReclassify" => IsZero(history[m].usage)
      BY <2>3 DEF Grounded
    <3>5. (history[m].class \in ConsumptionClass) = (e.class \in ConsumptionClass)
      BY <2>2, <2>3
    <3>6. Matches(accounts', Append(history, e))
      BY <1>1, <2>1, <2>3, <3>1, <3>2, <3>3, <3>4, <3>5, ReviseMatches
    <3>7. Grounded(history')
      <4>1. history \in Seq(Entry)
        BY <1>1 DEF KnownHistory
      <4> QED BY <2>2, <2>3, <3>1, <4>1, Appended DEF Grounded
    <3> QED BY <3>1, <3>6, <3>7
  <2> QED BY <2>5, <2>6
<1> QED BY <1>3, <1>4, <1>5 DEF append_locked

\* A step the hypotheses allow keeps the invariant.
LEMMA MatchStep ==
  MatchInv /\ [Next]_vars /\ RevisedOnce' /\ [reply' # "OK" => accounts' = accounts]_vars
    => MatchInv'
<1> SUFFICES ASSUME MatchInv, [Next]_vars, RevisedOnce',
                    [reply' # "OK" => accounts' = accounts]_vars
             PROVE  MatchInv'
  OBVIOUS
<1>1. AuthorityInv'
  BY AuthorityStep DEF MatchInv
<1>2. /\ BookState /\ ControlState /\ UniqueIds
      /\ KnownPosts /\ Grounded(history) /\ Matches(accounts, history)
  BY InvariantParts, Zenon DEF MatchInv, AuthorityInv, HistoryPromises
<1>3. BookState'
  BY <1>1, InvariantPartsPrime DEF AuthorityInv
<1>4. KnownPosts'
  BY <1>2, KnownStep
<1>5. reply' # "OK" => accounts' = accounts
  BY DEF vars
<1>6. RevisedOnceIn(history')
  BY Zenon DEF RevisedOnce, RevisedOnceIn
<1>7. Grounded(history') /\ Matches(accounts', history')
  <2>1. CASE UNCHANGED books
    BY <1>2, <2>1 DEF books
  <2>2. CASE ClearBooks
    <3>1. Grounded(<<>>)
      BY DEF Grounded
    <3> QED BY <2>2, <3>1, EmptyMatches DEF ClearBooks
  <2>3. ASSUME NEW e \in Entry, KnownPost(e), append_locked(e)
        PROVE  Grounded(history') /\ Matches(accounts', history')
    <3>1. KnownSeq(history)
      BY <1>2 DEF KnownPosts
    <3>2. KnownSeq(history')
      BY <1>4, Zenon DEF KnownPosts, KnownSeq, KnownPost
    <3> QED BY <1>2, <1>3, <1>5, <1>6, <2>3, <3>1, <3>2, AppendLockedMatches
  <2> QED BY <1>2, <2>1, <2>2, <2>3, KnownCalls
<1>8. Grounded(history)'
  BY <1>7, Zenon DEF Grounded, IsZero
<1>9. Matches(accounts, history)'
  BY <1>7, Zenon DEF Matches, TotalMatches, Sums, OfClass, ClassOf, RevsOf, PostsOf, Part
<1> QED BY <1>1, <1>4, <1>8, <1>9 DEF MatchInv

\* The totals are the ones the history determines: every total of every account
\* is the sum of what the committed entries contribute, each in the class its
\* revision gave it, across appends, batches, revisions, saves, crashes and
\* replays, of any entries and any width, as long as no call fails half way and
\* no entry is revised twice.
THEOREM BooksFollowHistory ==
  Spec /\ RefusedLeavesNoTrace /\ []RevisedOnce => []BooksMatchHistory
<1>1. Init => MatchInv
  <2> SUFFICES ASSUME Init PROVE MatchInv
    OBVIOUS
  <2>1. KnownPosts
    BY DEF Init, KnownPosts, KnownSeq, Idle
  <2>2. Matches(accounts, history)
    BY EmptyMatches DEF Init
  <2>3. Grounded(history)
    BY DEF Init, Grounded
  <2> QED BY <2>1, <2>2, <2>3, AuthorityInit DEF MatchInv
<1>2. MatchInv => BooksMatchHistory
  BY MatchParts DEF MatchInv
<1> QED BY <1>1, <1>2, MatchStep, PTL DEF Spec, RefusedLeavesNoTrace

-----------------------------------------------------------------------------
(***************************************************************************)
(* A first revision goes through, and the books stay balanced.  Appends    *)
(* that overflow leave more in the totals than the history accounts for,   *)
(* never less: the totals bound a set of totals that match the history.    *)
(* As long as no entry is revised twice, a bucket therefore holds what a   *)
(* revision takes out of it, no revision fails half way, and nothing ever  *)
(* opens the books.                                                        *)
(***************************************************************************)

\* A share that its bucket holds is moved.  move_in cannot overflow, because
\* what is moved in was counted in the account's classes before.
LEMMA MoveShareFits ==
  ASSUME NEW st \in MoveState, st.ok, AllWithin(st.accounts), NEW share \in Share,
         NEW old \in Bucket, NEW new \in Bucket,
         \A d \in Dim : SubFits(st.accounts[share.account][old][d], share.physical[d])
  PROVE  MoveShare(st, share, old, new).ok
<1> DEFINE agg == st.accounts[share.account]
           taken == [agg EXCEPT ![old] = MoveOut(@, share.physical)]
           moved == [taken EXCEPT ![new] = MoveIn(@, share.physical)]
           outOk == \A d \in Dim : SubFits(agg[old][d], share.physical[d])
           inOk == \A d \in Dim : AddFits(taken[new][d], share.physical[d])
           after == IF outOk THEN moved ELSE taken
           result == MoveShare(st, share, old, new)
<1>1. /\ agg \in Aggregate /\ Within(agg)
      /\ share.account \in AllAccounts /\ share.physical \in NatUsage
  BY DEF MoveState, Share, AllWithin
<1>2. outOk
  OBVIOUS
<1>3. old \in Field /\ new \in Field /\ "physical" \in Field
  BY DEF Bucket, Field
<1>4. result = IF ~st.ok THEN st
               ELSE [accounts |-> [st.accounts EXCEPT ![share.account] = after],
                     ok |-> outOk /\ inOk]
  BY Zenon DEF MoveShare
<1> HIDE DEF agg
<1>5. ASSUME NEW d \in Dim PROVE AddFits(taken[new][d], share.physical[d])
  <2>1. /\ share.physical[d] \in Nat /\ agg[old] \in Usage
        /\ \A f \in Field : agg[f][d] \in Nat /\ agg[f][d] <= MaxU64
    BY <1>1, <1>3, WidthAssumption DEF NatUsage, Aggregate, Usage, U64
  <2>2. MoveOut(agg[old], share.physical)[d] = agg[old][d] - share.physical[d]
    BY <1>1, <1>2, <2>1, MoveOutType
  <2>3. taken[new] = IF new = old THEN MoveOut(agg[old], share.physical) ELSE agg[new]
    BY <1>1, <1>3 DEF Aggregate
  <2>4. share.physical[d] <= agg[old][d]
    BY <1>2 DEF SubFits
  <2> HIDE DEF taken
  <2>5. CASE new = old
    BY <1>3, <2>1, <2>2, <2>3, <2>4, <2>5, WidthAssumption DEF AddFits
  <2>6. CASE new # old
    <3>1. agg[new][d] + agg[old][d] <= ClassifiedIn(agg, d)
      BY <2>1, <2>6 DEF ClassifiedIn, Bucket, Field
    <3>2. ClassifiedIn(agg, d) <= agg["physical"][d] /\ ClassifiedIn(agg, d) \in Nat
      BY <1>1, <2>1 DEF Within, ClassifiedIn, Field
    <3> QED BY <1>3, <2>1, <2>3, <2>4, <2>6, <3>1, <3>2, WidthAssumption DEF AddFits
  <2> QED BY <2>5, <2>6
<1>6. inOk
  BY <1>5
<1> HIDE DEF taken, moved, outOk, inOk, after, result
<1>7. result.ok = (outOk /\ inOk)
  BY <1>4, Zenon
<1> QED BY <1>2, <1>6, <1>7, Zenon DEF result

\* A running sum never falls.
LEMMA RunningSumRises ==
  ASSUME NEW n \in Nat, NEW s \in [1..n -> Nat], NEW p \in [0..n -> Nat],
         \A i \in 1..n : p[i] = p[i - 1] + s[i]
  PROVE  \A i \in 0..n : p[i] <= p[n]
<1> DEFINE T == {k \in 0..n : \A j \in 0..k : p[j] <= p[k]}
<1>1. 0 \in T
  OBVIOUS
<1>2. ASSUME NEW k \in 1..n, k - 1 \in T PROVE k \in T
  <2>1. k \in 0..n /\ k - 1 \in 0..n /\ p[k - 1] \in Nat /\ s[k] \in Nat /\ p[k] \in Nat
    OBVIOUS
  <2>2. p[k - 1] <= p[k]
    BY <2>1
  <2> SUFFICES ASSUME NEW j \in 0..k PROVE p[j] <= p[k]
    BY <2>1
  <2>3. p[j] \in Nat
    OBVIOUS
  <2>4. CASE j = k
    BY <2>3, <2>4
  <2>5. CASE j # k
    <3>1. j \in 0..(k - 1)
      BY <2>5
    <3>2. p[j] <= p[k - 1]
      BY <1>2, <3>1
    <3> QED BY <2>1, <2>2, <2>3, <3>2
  <2> QED BY <2>4, <2>5
<1>3. n \in T
  <2> HIDE DEF T
  <2> QED BY <1>1, <1>2, UpTo
<1> QED BY <1>3

\* What a share's account holds in the bucket, less what earlier shares took.
Holds(total, left, taken) == left + taken >= total

\* Shares that the buckets hold together are all moved.
LEMMA MoveSharesFit ==
  ASSUME NEW totals \in [AllAccounts -> Aggregate], AllWithin(totals),
         NEW shares \in Seq(Share), NEW old \in Bucket, NEW new \in Bucket,
         \A a \in AllAccounts, d \in Dim : SumSeq(ShareTerms(shares, a, d)) <= totals[a][old][d]
  PROVE  MoveShares(totals, shares, old, new).ok
<1> DEFINE n == Len(shares)
           Sum(a, d) == CHOOSE p \in [0..n -> Nat] :
                          /\ p[0] = 0 /\ p[n] = SumSeq(ShareTerms(shares, a, d))
                          /\ \A i \in 1..n : p[i] = p[i - 1] + ShareTerms(shares, a, d)[i]
           run == CHOOSE r : r = [i \in 0..Len(shares) |->
                      IF i = 0 THEN [accounts |-> totals, ok |-> TRUE]
                      ELSE MoveShare(r[i - 1], shares[i], old, new)]
<1>1. n \in Nat /\ shares \in [1..n -> Share] /\ old \in Field
  BY LenProperties DEF Bucket, Field
<1>2. MoveShares(totals, shares, old, new) = run[n]
  BY Zenon DEF MoveShares
<1>3. IsMoveRun(run, totals, shares, old, new, n)
  <2>1. \E r : IsMoveRun(r, totals, shares, old, new, Len(shares))
    BY <1>1, MoveRunExists
  <2> QED BY <2>1, Zenon DEF IsMoveRun
<1> HIDE DEF run
<1>4. ASSUME NEW a \in AllAccounts, NEW d \in Dim
      PROVE  /\ Sum(a, d) \in [0..n -> Nat] /\ Sum(a, d)[0] = 0
             /\ Sum(a, d)[n] = SumSeq(ShareTerms(shares, a, d))
             /\ \A i \in 1..n : Sum(a, d)[i] = Sum(a, d)[i - 1] +
                                  IF shares[i].account = a THEN shares[i].physical[d] ELSE 0
             /\ \A i \in 0..n : Sum(a, d)[i] <= Sum(a, d)[n]
  <2> DEFINE s == ShareTerms(shares, a, d)
             p == Sum(a, d)
  <2>1. /\ s \in [1..n -> Nat]
        /\ \A i \in 1..n : s[i] = IF shares[i].account = a THEN shares[i].physical[d] ELSE 0
    BY ShareTermsType
  <2> HIDE DEF n, s
  <2>2. \E q \in [0..n -> Nat] :
          q[0] = 0 /\ q[n] = SumSeq(s) /\ \A i \in 1..n : q[i] = q[i - 1] + s[i]
    BY <1>1, <2>1, RunningSum
  <2>3. /\ p \in [0..n -> Nat] /\ p[0] = 0 /\ p[n] = SumSeq(s)
        /\ \A i \in 1..n : p[i] = p[i - 1] + s[i]
    BY <2>2, Zenon DEF s
  <2> HIDE DEF Sum, p
  <2>4. \A i \in 0..n : p[i] <= p[n]
    BY <1>1, <2>1, <2>3, RunningSumRises
  <2> QED BY <2>1, <2>3, <2>4 DEF p, s
<1> HIDE DEF n, Sum
<1>5. \A t \in [AllAccounts -> Aggregate], a \in AllAccounts, d \in Dim : t[a][old][d] \in Nat
  BY <1>1, WidthAssumption DEF Aggregate, Usage, U64
<1> DEFINE T == {i \in 0..n : /\ run[i] \in MoveState /\ AllWithin(run[i].accounts) /\ run[i].ok
                              /\ \A a \in AllAccounts, d \in Dim :
                                   Holds(totals[a][old][d], run[i].accounts[a][old][d],
                                         Sum(a, d)[i])}
<1>6. 0 \in T
  <2>1. run[0] = [accounts |-> totals, ok |-> TRUE]
    BY <1>1, <1>3 DEF IsMoveRun
  <2>2. run[0] \in MoveState /\ run[0].accounts = totals /\ run[0].ok
    BY <2>1 DEF MoveState
  <2>3. 0 \in 0..n
    BY <1>1
  <2>4. ASSUME NEW a \in AllAccounts, NEW d \in Dim
        PROVE  Holds(totals[a][old][d], run[0].accounts[a][old][d], Sum(a, d)[0])
    BY <1>4, <1>5, <2>2 DEF Holds
  <2> QED BY <2>2, <2>3, <2>4
<1>7. ASSUME NEW i \in 1..n, i - 1 \in T PROVE i \in T
  <2> DEFINE before == run[i - 1].accounts
             after == run[i].accounts
             share == shares[i]
  <2>1. run[i] = MoveShare(run[i - 1], share, old, new)
    <3>1. i \in 0..n /\ i # 0
      BY <1>1
    <3> QED BY <1>3, <3>1 DEF IsMoveRun
  <2>2. /\ share \in Share /\ i \in 0..n /\ i - 1 \in 0..n /\ share.account \in AllAccounts
        /\ \A d \in Dim : share.physical[d] \in Nat
    BY <1>1 DEF Share, NatUsage
  <2>3. /\ run[i - 1] \in MoveState /\ AllWithin(before) /\ run[i - 1].ok
        /\ \A a \in AllAccounts, d \in Dim :
             Holds(totals[a][old][d], before[a][old][d], Sum(a, d)[i - 1])
    BY <1>7
  <2>4. run[i] \in MoveState /\ AllWithin(after)
    BY <2>1, <2>2, <2>3, MoveShareWithin
  <2>5. \A t \in {before, after}, a \in AllAccounts, d \in Dim : t[a][old][d] \in Nat
    BY <1>5, <2>3, <2>4 DEF MoveState
  <2>6. \A d \in Dim : SubFits(before[share.account][old][d], share.physical[d])
    <3> SUFFICES ASSUME NEW d \in Dim
                 PROVE  SubFits(before[share.account][old][d], share.physical[d])
      OBVIOUS
    <3> DEFINE p == Sum(share.account, d)
               x == before[share.account][old][d]
               z == totals[share.account][old][d]
               v == share.physical[d]
    <3>0. /\ p \in [0..n -> Nat] /\ \A j \in 0..n : p[j] <= p[n]
          /\ \A j \in 1..n : p[j] = p[j - 1] +
                               IF shares[j].account = share.account THEN shares[j].physical[d] ELSE 0
          /\ p[n] = SumSeq(ShareTerms(shares, share.account, d))
      BY <1>4, <2>2
    <3>1. p[i] = p[i - 1] + v /\ p[i] <= p[n] /\ p[i - 1] \in Nat /\ p[n] \in Nat
      <4> HIDE DEF p
      <4> QED BY <1>1, <2>2, <3>0
    <3>2. p[n] <= z
      BY <2>2, <3>0
    <3>3. Holds(z, x, p[i - 1])
      BY <2>2, <2>3
    <3>4. x \in Nat /\ z \in Nat /\ v \in Nat
      BY <1>5, <2>2, <2>5
    <3> HIDE DEF p, x, z, v
    <3>5. v <= x
      BY ONLY <3>1, <3>2, <3>3, <3>4 DEF Holds
    <3> QED BY <3>5 DEF x, v, SubFits
  <2>7. run[i].ok
    BY <2>1, <2>2, <2>3, <2>6, MoveShareFits
  <2>8. ASSUME NEW a \in AllAccounts, NEW d \in Dim
        PROVE  Holds(totals[a][old][d], after[a][old][d], Sum(a, d)[i])
    <3> DEFINE p == Sum(a, d)
               x == before[a][old][d]
               y == after[a][old][d]
               z == totals[a][old][d]
               v == IF share.account = a THEN share.physical[d] ELSE 0
    <3>0. /\ p \in [0..n -> Nat]
          /\ \A j \in 1..n : p[j] = p[j - 1] +
                               IF shares[j].account = a THEN shares[j].physical[d] ELSE 0
      BY <1>4
    <3>1. p[i] = p[i - 1] + v /\ p[i - 1] \in Nat /\ p[i] \in Nat
      <4> HIDE DEF p
      <4> QED BY <2>2, <3>0
    <3>2. y + (IF a = share.account /\ old = old THEN share.physical[d] ELSE 0)
            = x + (IF a = share.account /\ old = new THEN share.physical[d] ELSE 0)
      BY <1>1, <2>1, <2>2, <2>3, <2>7, MoveShareEffect
    <3>3. y + v >= x
      BY <2>2, <2>5, <3>2
    <3>4. Holds(z, x, p[i - 1])
      BY <2>3
    <3>5. x \in Nat /\ y \in Nat /\ z \in Nat /\ v \in Nat
      BY <1>5, <2>2, <2>5
    <3> HIDE DEF p, x, y, z, v
    <3>6. Holds(z, y, p[i])
      BY ONLY <3>1, <3>3, <3>4, <3>5 DEF Holds
    <3> QED BY <3>6 DEF p, y, z
  <2> QED BY <2>2, <2>4, <2>7, <2>8
<1>8. n \in T
  <2> HIDE DEF T
  <2> QED BY <1>1, <1>6, <1>7, UpTo
<1> QED BY <1>2, <1>8

-----------------------------------------------------------------------------
\* The totals bound totals that match the history.
Bounds(ghost, totals) ==
  \A a \in AllAccounts, f \in Field, d \in Dim : ghost[a][f][d] <= totals[a][f][d]
Backed(totals, h) ==
  \E ghost \in [AllAccounts -> Aggregate] : Matches(ghost, h) /\ Bounds(ghost, totals)

\* Numbers that the totals bound are totals.
LEMMA GhostType ==
  ASSUME NEW totals \in [AllAccounts -> Aggregate], NEW ghost,
         ghost = [a \in AllAccounts |-> [f \in Field |-> [d \in Dim |-> ghost[a][f][d]]]],
         \A a \in AllAccounts, f \in Field, d \in Dim :
           ghost[a][f][d] \in Nat /\ ghost[a][f][d] <= totals[a][f][d]
  PROVE  ghost \in [AllAccounts -> Aggregate]
<1>1. ASSUME NEW a \in AllAccounts, NEW f \in Field, NEW d \in Dim
      PROVE  ghost[a][f][d] \in U64
  <2>1. totals[a][f][d] \in Nat /\ totals[a][f][d] <= MaxU64
    BY WidthAssumption DEF Aggregate, Usage, U64
  <2> QED BY <2>1, WidthAssumption DEF U64
<1>2. ASSUME NEW a \in AllAccounts, NEW f \in Field
      PROVE  [d \in Dim |-> ghost[a][f][d]] \in Usage
  BY <1>1 DEF Usage
<1>3. ASSUME NEW a \in AllAccounts
      PROVE  [f \in Field |-> [d \in Dim |-> ghost[a][f][d]]] \in Aggregate
  BY <1>2 DEF Aggregate
<1>4. [a \in AllAccounts |-> [f \in Field |-> [d \in Dim |-> ghost[a][f][d]]]]
        \in [AllAccounts -> Aggregate]
  BY <1>3
<1> QED BY <1>4, Zenon

\* Totals that match the history hold an entry that was not revised in the bucket
\* of its class.
LEMMA EntryHeld ==
  ASSUME NEW h, KnownHistory(h), NEW m \in DOMAIN h, RevsOf(h, m) = {},
         h[m].event = "kReclassify" => IsZero(h[m].usage), h[m].class \in ConsumptionClass,
         NEW totals \in [AllAccounts -> Aggregate], Matches(totals, h),
         NEW a \in AllAccounts, NEW d \in Dim
  PROVE  /\ Pending(h[m])[a]["physical"][d] \in Nat
         /\ Pending(h[m])[a]["physical"][d] <= totals[a][BucketOf(h[m].class)][d]
<1> DEFINE x == Pending(h[m])[a]["physical"][d]
           c == h[m].class
           z == totals[a][BucketOf(c)][d]
<1>1. "physical" \in Field \ Bucket /\ BucketOf(c) \in Field
  BY DEF Field, Bucket, BucketOf
<1>2. h[m] \in Entry /\ validate(h[m])
  BY DEF KnownHistory
<1>3. x \in Nat
  BY <1>1, <1>2, PendingNat
<1>4. z \in Nat
  BY <1>1, WidthAssumption DEF Aggregate, Usage, U64
<1>5. CASE m \in PostsOf(h)
  <2> DEFINE rest == SumSeq(Sums(h, OfClass(h, c) \ {m}, a, "physical", d))
  <2>1. z = SumSeq(Sums(h, OfClass(h, c), a, "physical", d))
    BY DEF Matches, TotalMatches
  <2>2. m \in OfClass(h, c) /\ OfClass(h, c) \in SUBSET PostsOf(h)
    BY <1>5 DEF OfClass, ClassOf
  <2>3. /\ rest \in Nat
        /\ SumSeq(Sums(h, OfClass(h, c), a, "physical", d)) =
             rest + IF m \in OfClass(h, c) THEN x ELSE 0
    BY <1>1, <1>5, <2>2, SumsSplit
  <2> HIDE DEF rest, x, z, c
  <2>4. z = rest + x
    BY <2>1, <2>2, <2>3
  <2>5. x <= z
    BY <1>3, <2>3, <2>4
  <2> QED BY <1>3, <2>5 DEF x, z, c
<1>6. CASE m \notin PostsOf(h)
  <2>1. IsZero(h[m].usage)
    BY <1>6 DEF PostsOf
  <2>2. x = 0
    BY <1>2, <2>1, ZeroPending
  <2> HIDE DEF x, z, c
  <2>3. x <= z
    BY <1>4, <2>2
  <2> QED BY <1>3, <2>3 DEF x, z, c
<1> QED BY <1>5, <1>6

\* A revision succeeds if the bucket of its target's class holds the target in
\* every account.
LEMMA RevisionFits ==
  ASSUME BookState, NEW e, NEW t \in Entry, validate(t), EntryOf(e.target) = t,
         t.class \in ConsumptionClass =>
           \A a \in AllAccounts, d \in Dim :
             Pending(t)[a]["physical"][d] <= accounts[a][BucketOf(t.class)][d]
  PROVE  apply_reclassify_locked(e).ok
<1> DEFINE shares == compute_attribution(t)
           old == BucketOf(t.class)
           new == BucketOf(e.class)
           outcome == apply_reclassify_locked(e)
<1>1. accounts \in [AllAccounts -> Aggregate] /\ AllWithin(accounts)
  BY DEF BookState, BookTypes
<1>2. outcome = IF t.class \in ConsumptionClass THEN MoveShares(accounts, shares, old, new)
                ELSE [accounts |-> accounts, ok |-> TRUE]
  BY Zenon DEF apply_reclassify_locked
<1>3. old \in Bucket /\ new \in Bucket
  BY DEF BucketOf, Bucket
<1>4. shares \in Seq(Share)
  BY AttributionType
<1>5. CASE t.class \in ConsumptionClass
  <2>1. \A a \in AllAccounts, d \in Dim : SumSeq(ShareTerms(shares, a, d)) <= accounts[a][old][d]
    BY <1>5, PendingIsShares
  <2> HIDE DEF outcome, shares, old, new
  <2>2. MoveShares(accounts, shares, old, new).ok
    BY <1>1, <1>3, <1>4, <2>1, MoveSharesFit
  <2>3. outcome.ok
    BY <1>2, <1>5, <2>2
  <2> QED BY <2>3 DEF outcome
<1>6. CASE t.class \notin ConsumptionClass
  <2> HIDE DEF outcome
  <2>1. outcome.ok
    BY <1>2, <1>6
  <2> QED BY <2>1 DEF outcome
<1> QED BY <1>5, <1>6

\* The first revision of an entry succeeds on books that back the history.
LEMMA FirstRevisionOk ==
  ASSUME BookState, KnownSeq(history), Grounded(history), Backed(accounts, history), UniqueIds,
         NEW e, Verdict(e) = "OK", e.event = "kReclassify", ~Revised(e.target)
  PROVE  apply_reclassify_locked(e).ok
<1> DEFINE m == CHOOSE i \in DOMAIN history : history[i].id = e.target
           t == history[m]
           old == BucketOf(t.class)
<1>1. /\ KnownHistory(history) /\ accounts \in [AllAccounts -> Aggregate]
  BY DEF BookState, BookTypes, HistoryValid, KnownHistory
<1>2. Committed(e.target)
  BY VerdictOk
<1>3. m \in DOMAIN history /\ history[m].id = e.target /\ EntryOf(e.target) = t
  BY <1>2 DEF Committed, EntryOf
<1>4. old \in Field
  BY DEF BucketOf, Field
<1> HIDE DEF m
<1>5. t \in Entry /\ validate(t)
  BY <1>1, <1>3 DEF KnownHistory
<1>6. RevsOf(history, m) = {} /\ (t.event = "kReclassify" => IsZero(t.usage))
  BY <1>3 DEF Revised, RevsOf, Grounded
<1>7. PICK ghost \in [AllAccounts -> Aggregate] : Matches(ghost, history) /\ Bounds(ghost, accounts)
  BY DEF Backed
<1>8. ASSUME t.class \in ConsumptionClass, NEW a \in AllAccounts, NEW d \in Dim
      PROVE  Pending(t)[a]["physical"][d] <= accounts[a][old][d]
  <2> DEFINE x == Pending(t)[a]["physical"][d]
  <2>1. x \in Nat /\ x <= ghost[a][old][d]
    BY <1>1, <1>3, <1>6, <1>7, <1>8, EntryHeld
  <2>2. ghost[a][old][d] <= accounts[a][old][d]
    BY <1>4, <1>7 DEF Bounds
  <2>3. ghost[a][old][d] \in Nat /\ accounts[a][old][d] \in Nat
    BY <1>1, <1>4, WidthAssumption DEF Aggregate, Usage, U64
  <2> HIDE DEF x, old, t
  <2> QED BY <2>1, <2>2, <2>3 DEF x
<1> HIDE DEF t
<1> QED BY <1>3, <1>5, <1>8, RevisionFits

\* What an entry posts to any field is a natural number.
LEMMA PendingAnyNat ==
  ASSUME NEW e \in Entry, validate(e), NEW a \in AllAccounts, NEW f \in Field, NEW d \in Dim
  PROVE  Pending(e)[a][f][d] \in Nat
<1>1. CASE f \in Field \ Bucket
  BY <1>1, PendingNat
<1>2. CASE f \in Bucket
  <2>1. \E c \in ConsumptionClass : f = BucketOf(c)
    BY <1>2 DEF Bucket, BucketOf, ConsumptionClass
  <2>2. PICK c \in ConsumptionClass : f = BucketOf(c)
    BY <2>1
  <2>3. Pending(e)[a][f][d] = IF e.class = c THEN Pending(e)[a]["physical"][d] ELSE 0
    BY <2>2, PendingBucket
  <2>4. Pending(e)[a]["physical"][d] \in Nat
    BY PendingPhysical
  <2> QED BY <2>3, <2>4
<1> QED BY <1>1, <1>2

\* Posting an entry keeps the history backed.
LEMMA PostBacked ==
  ASSUME NEW h, NEW e \in Entry, KnownHistory(h), KnownHistory(Append(h, e)),
         e.event # "kReclassify", Grounded(h), RevisedOnceIn(Append(h, e)),
         \A i \in DOMAIN h : h[i].id # e.id,
         NEW totals \in [AllAccounts -> Aggregate], NEW after \in [AllAccounts -> Aggregate],
         Backed(totals, h),
         \A a \in AllAccounts, f \in Field, d \in Dim :
           after[a][f][d] = totals[a][f][d] + Pending(e)[a][f][d]
  PROVE  Backed(after, Append(h, e))
<1>1. PICK ghost \in [AllAccounts -> Aggregate] : Matches(ghost, h) /\ Bounds(ghost, totals)
  BY DEF Backed
<1> DEFINE more == [a \in AllAccounts |-> [f \in Field |-> [d \in Dim |->
                      ghost[a][f][d] + Pending(e)[a][f][d]]]]
<1>2. \A a \in AllAccounts, f \in Field, d \in Dim :
        more[a][f][d] = ghost[a][f][d] + Pending(e)[a][f][d]
  OBVIOUS
<1>3. more = [a \in AllAccounts |-> [f \in Field |-> [d \in Dim |-> more[a][f][d]]]]
  BY Zenon
<1> HIDE DEF more
<1>4. ASSUME NEW a \in AllAccounts, NEW f \in Field, NEW d \in Dim
      PROVE  more[a][f][d] \in Nat /\ more[a][f][d] <= after[a][f][d]
  <2> DEFINE g == ghost[a][f][d]
             t == totals[a][f][d]
             w == after[a][f][d]
             x == Pending(e)[a][f][d]
  <2>1. g \in Nat /\ t \in Nat /\ w \in Nat
    BY WidthAssumption DEF Aggregate, Usage, U64
  <2>2. g <= t
    BY <1>1 DEF Bounds
  <2>3. w = t + x /\ more[a][f][d] = g + x
    BY <1>2
  <2>4. x \in Nat
    <3>1. DOMAIN Append(h, e) = DOMAIN h \cup {Len(h) + 1} /\ Append(h, e)[Len(h) + 1] = e
      BY Appended DEF KnownHistory
    <3>2. validate(e)
      BY <3>1 DEF KnownHistory
    <3> QED BY <3>2, PendingAnyNat
  <2> HIDE DEF g, t, w, x
  <2>5. g + x \in Nat /\ g + x <= w
    BY <2>1, <2>2, <2>3, <2>4
  <2> QED BY <2>3, <2>5 DEF w
<1>5. more \in [AllAccounts -> Aggregate]
  BY <1>3, <1>4, GhostType
<1>6. Matches(more, Append(h, e))
  BY <1>1, <1>2, PostMatches
<1> QED BY <1>4, <1>5, <1>6 DEF Backed, Bounds

\* Committing the first revision of an entry and moving its usage keeps the
\* history backed.
LEMMA ReviseBacked ==
  ASSUME NEW h, NEW e \in Entry, KnownHistory(h), KnownHistory(Append(h, e)),
         e.event = "kReclassify", RevisedOnceIn(Append(h, e)),
         NEW m \in DOMAIN h, h[m].id = e.target, \A i \in DOMAIN h : h[i].id = h[m].id => i = m,
         RevsOf(h, m) = {},
         (h[m].class \in ConsumptionClass) = (e.class \in ConsumptionClass),
         h[m].event = "kReclassify" => IsZero(h[m].usage),
         NEW totals \in [AllAccounts -> Aggregate], NEW after \in [AllAccounts -> Aggregate],
         Backed(totals, h), RevisedTotals(totals, after, h[m], e)
  PROVE  Backed(after, Append(h, e))
<1>1. PICK ghost \in [AllAccounts -> Aggregate] : Matches(ghost, h) /\ Bounds(ghost, totals)
  BY DEF Backed
<1> DEFINE t == h[m]
           old == BucketOf(t.class)
           new == BucketOf(e.class)
           X(a, d) == Pending(t)[a]["physical"][d]
           next(a, f, d) == IF t.class \in ConsumptionClass /\ old # new
                            THEN IF f = new THEN ghost[a][f][d] + X(a, d)
                                 ELSE IF f = old THEN ghost[a][f][d] - X(a, d)
                                 ELSE ghost[a][f][d]
                            ELSE ghost[a][f][d]
           more == [a \in AllAccounts |-> [f \in Field |-> [d \in Dim |-> next(a, f, d)]]]
<1> HIDE DEF next
<1>2. \A a \in AllAccounts, f \in Field, d \in Dim : more[a][f][d] = next(a, f, d)
  OBVIOUS
<1>3. more = [a \in AllAccounts |-> [f \in Field |-> [d \in Dim |-> more[a][f][d]]]]
  BY Zenon
<1>4. t \in Entry /\ validate(t) /\ "physical" \in Field \ Bucket
  BY DEF KnownHistory, Field, Bucket
<1> HIDE DEF more
<1>5. ASSUME NEW a \in AllAccounts, NEW f \in Field, NEW d \in Dim
      PROVE  /\ more[a][f][d] \in Nat /\ more[a][f][d] <= after[a][f][d]
             /\ IF t.class \in ConsumptionClass
                THEN Moved(ghost[a][f][d], more[a][f][d], Pending(t)[a]["physical"][d], f, old, new)
                ELSE more[a][f][d] = ghost[a][f][d]
  <2> DEFINE g == ghost[a][f][d]
             z == totals[a][f][d]
             w == after[a][f][d]
             x == X(a, d)
             y == more[a][f][d]
  <2>1. g \in Nat /\ z \in Nat /\ w \in Nat
    BY WidthAssumption DEF Aggregate, Usage, U64
  <2>2. g <= z
    BY <1>1 DEF Bounds
  <2>3. x \in Nat
    BY <1>4, PendingNat
  <2>4. IF t.class \in ConsumptionClass THEN Moved(z, w, x, f, old, new) ELSE w = z
    BY Zenon DEF RevisedTotals
  <2>5. t.class \in ConsumptionClass /\ f = old => x <= g
    BY <1>1, EntryHeld
  <2>6. y = next(a, f, d)
    BY <1>2
  <2>7. y = IF t.class \in ConsumptionClass /\ old # new
            THEN IF f = new THEN g + x ELSE IF f = old THEN g - x ELSE g
            ELSE g
    BY <2>6, Zenon DEF next
  <2> HIDE DEF g, z, w, x, y, old, new, t
  <2>8. CASE t.class \notin ConsumptionClass
    <3>1. y = g /\ w = z
      BY <2>4, <2>7, <2>8
    <3>2. y \in Nat /\ y <= w
      BY <2>1, <2>2, <3>1
    <3> QED BY <2>8, <3>1, <3>2 DEF g, w, y
  <2>9. CASE t.class \in ConsumptionClass /\ old # new
    <3>1. y = IF f = new THEN g + x ELSE IF f = old THEN g - x ELSE g
      BY <2>7, <2>9
    <3>2. Moved(z, w, x, f, old, new) /\ (f = old => x <= g)
      BY <2>4, <2>5, <2>9
    <3>3. y \in Nat /\ y <= w /\ Moved(g, y, x, f, old, new)
      <4>1. CASE f = new
        BY ONLY <2>1, <2>2, <2>3, <2>9, <3>1, <3>2, <4>1 DEF Moved
      <4>2. CASE f = old
        BY ONLY <2>1, <2>2, <2>3, <2>9, <3>1, <3>2, <4>2 DEF Moved
      <4>3. CASE f # new /\ f # old
        BY ONLY <2>1, <2>2, <2>3, <2>9, <3>1, <3>2, <4>3 DEF Moved
      <4> QED BY <4>1, <4>2, <4>3
    <3> QED BY <2>9, <3>3 DEF g, w, y, x
  <2>10. CASE t.class \in ConsumptionClass /\ old = new
    <3>1. y = g /\ Moved(z, w, x, f, old, new)
      BY <2>4, <2>7, <2>10
    <3>2. y \in Nat /\ y <= w /\ Moved(g, y, x, f, old, new)
      BY ONLY <2>1, <2>2, <2>3, <2>10, <3>1 DEF Moved
    <3> QED BY <2>10, <3>2 DEF g, w, y, x
  <2> QED BY <2>8, <2>9, <2>10
<1> HIDE DEF t, old, new
<1>6. more \in [AllAccounts -> Aggregate]
  <2>1. \A a \in AllAccounts, f \in Field, d \in Dim :
          more[a][f][d] \in Nat /\ more[a][f][d] <= after[a][f][d]
    BY <1>5
  <2> QED BY ONLY after \in [AllAccounts -> Aggregate], <1>3, <2>1, GhostType
<1>7. RevisedTotals(ghost, more, t, e)
  BY <1>5, Zenon DEF RevisedTotals, old, new
<1>8. Matches(more, Append(h, e))
  BY <1>1, <1>6, <1>7, ReviseMatches DEF t
<1> QED BY <1>5, <1>6, <1>8 DEF Backed, Bounds

\* A history whose first revisions are its only ones, and one more of those.
LEMMA OneMoreRevision ==
  ASSUME NEW h \in Seq(Entry), NEW e \in Entry, RevisedOnceIn(h),
         e.event = "kReclassify" =>
           \A j \in DOMAIN h : ~(h[j].event = "kReclassify" /\ h[j].target = e.target)
  PROVE  RevisedOnceIn(Append(h, e))
<1>1. /\ DOMAIN Append(h, e) = DOMAIN h \cup {Len(h) + 1} /\ Append(h, e)[Len(h) + 1] = e
      /\ \A i \in DOMAIN h : Append(h, e)[i] = h[i]
  BY Appended
<1> QED BY <1>1 DEF RevisedOnceIn

\* Empty books back an empty history, and are closed.
LEMMA EmptyBacked ==
  /\ Grounded(<<>>) /\ RevisedOnceIn(<<>>) /\ Backed(NoTotals, <<>>) /\ AllClosed(NoTotals)
<1>1. \A a \in AllAccounts, f \in Field, d \in Dim : NoTotals[a][f][d] = 0
  BY DEF NoTotals, ZeroUsage
<1>2. AllClosed(NoTotals)
  BY <1>1 DEF AllClosed, Closed, ClassifiedIn, Field
<1>3. NoTotals \in [AllAccounts -> Aggregate]
  BY ZeroUsageType DEF NoTotals, Aggregate
<1>4. Bounds(NoTotals, NoTotals)
  BY <1>1 DEF Bounds
<1>5. Backed(NoTotals, <<>>)
  BY <1>3, <1>4, EmptyMatches DEF Backed
<1> QED BY <1>2, <1>5 DEF Grounded, RevisedOnceIn

-----------------------------------------------------------------------------
\* append_locked keeps the history backed, and closed books closed, when it is
\* not given a second revision.
LEMMA AppendLockedBacked ==
  ASSUME BookState, BookState', UniqueIds, KnownSeq(history), KnownSeq(history'),
         Grounded(history), RevisedOnceIn(history), Backed(accounts, history),
         AllClosed(accounts), NEW e \in Entry, append_locked(e),
         Revise(e) => ~Revised(e.target)
  PROVE  /\ Grounded(history') /\ RevisedOnceIn(history') /\ Backed(accounts', history')
         /\ AllClosed(accounts')
<1>1. /\ KnownHistory(history) /\ KnownHistory(history')
      /\ accounts \in [AllAccounts -> Aggregate] /\ accounts' \in [AllAccounts -> Aggregate]
      /\ history \in Seq(Entry)
  BY DEF BookState, BookTypes, HistoryValid, KnownHistory
<1>2. Revise(e) => apply_reclassify_locked(e).ok
  <2>1. Revise(e) => Verdict(e) = "OK" /\ e.event = "kReclassify"
    BY DEF Revise
  <2> QED BY <2>1, FirstRevisionOk
<1>3. AllClosed(accounts')
  BY <1>2, AppendLockedClosed
<1>4. CASE Refuse(e)
  BY <1>3, <1>4 DEF Refuse, books
<1>5. CASE Post(e)
  <2>1. PICK outcome \in apply_attribution(e) :
          /\ accounts' = outcome.accounts
          /\ history' = IF outcome.ok THEN Append(history, e) ELSE history
    BY <1>5, Zenon DEF Post
  <2>2. Verdict(e) = "OK" /\ e.event # "kReclassify"
    BY <1>5 DEF Post
  <2>3. CASE ~outcome.ok
    <3>1. history' = history
      BY <2>1, <2>3
    <3>2. PICK ghost \in [AllAccounts -> Aggregate] :
            Matches(ghost, history) /\ Bounds(ghost, accounts)
      BY DEF Backed
    <3>3. Bounds(ghost, accounts')
      <4> SUFFICES ASSUME NEW a \in AllAccounts, NEW f \in Field, NEW d \in Dim
                   PROVE  ghost[a][f][d] <= accounts'[a][f][d]
        BY DEF Bounds
      <4>1. accounts'[a][f][d] >= accounts[a][f][d]
        BY <1>1, <2>1, ApplyNeverLowers
      <4>2. ghost[a][f][d] <= accounts[a][f][d]
        BY <3>2 DEF Bounds
      <4>3. ghost[a][f][d] \in Nat /\ accounts[a][f][d] \in Nat /\ accounts'[a][f][d] \in Nat
        BY <1>1, <3>2, WidthAssumption DEF Aggregate, Usage, U64
      <4> QED BY <4>1, <4>2, <4>3
    <3>4. Backed(accounts', history)
      BY <3>2, <3>3 DEF Backed
    <3> QED BY <1>3, <3>1, <3>4
  <2>4. CASE outcome.ok
    <3>1. history' = Append(history, e)
      BY <2>1, <2>4
    <3>2. \A i \in DOMAIN history : history[i].id # e.id
      BY <2>2 DEF Verdict, Committed
    <3>3. \A a \in AllAccounts, f \in Field, d \in Dim :
            accounts'[a][f][d] = accounts[a][f][d] + Pending(e)[a][f][d]
      BY <1>1, <2>1, <2>4, ApplyNeverLowers
    <3>4. RevisedOnceIn(Append(history, e))
      BY <1>1, <2>2, OneMoreRevision
    <3>5. Backed(accounts', Append(history, e))
      BY <1>1, <2>2, <3>1, <3>2, <3>3, <3>4, PostBacked
    <3>6. Grounded(history')
      BY <1>1, <2>2, <3>1, Appended DEF Grounded
    <3> QED BY <1>3, <3>1, <3>4, <3>5, <3>6
  <2> QED BY <2>3, <2>4
<1>6. CASE Revise(e)
  <2> DEFINE outcome == apply_reclassify_locked(e)
             m == CHOOSE i \in DOMAIN history : history[i].id = e.target
             t == history[m]
  <2>1. /\ accounts' = outcome.accounts
        /\ history' = IF outcome.ok THEN Append(history, e) ELSE history
        /\ Verdict(e) = "OK" /\ e.event = "kReclassify"
    BY <1>6, Zenon DEF Revise
  <2>2. /\ Committed(e.target) /\ IsZero(e.usage)
        /\ (EntryOf(e.target).class \in ConsumptionClass) = (e.class \in ConsumptionClass)
    BY <2>1 DEF Verdict, RevisionVerdict
  <2>3. m \in DOMAIN history /\ history[m].id = e.target /\ EntryOf(e.target) = t
    BY <2>2 DEF Committed, EntryOf
  <2> HIDE DEF m
  <2>4. t \in Entry /\ validate(t)
    BY <1>1, <2>3 DEF KnownHistory
  <2>5. outcome.ok
    BY <1>2, <1>6
  <2>6. RevisedTotals(accounts, accounts', t, e)
    BY <2>1, <2>3, <2>4, <2>5, ReviseTotals
  <2> HIDE DEF outcome
  <2>7. history' = Append(history, e)
    BY <2>1, <2>5
  <2>8. RevisedOnceIn(Append(history, e))
    BY <1>1, <1>6, OneMoreRevision DEF Revised
  <2>9. RevsOf(history, m) = {}
    BY <1>6, <2>3 DEF Revised, RevsOf
  <2>10. \A i \in DOMAIN history : history[i].id = history[m].id => i = m
    BY <2>3 DEF UniqueIds
  <2>11. history[m].event = "kReclassify" => IsZero(history[m].usage)
    BY <2>3 DEF Grounded
  <2>12. (history[m].class \in ConsumptionClass) = (e.class \in ConsumptionClass)
    BY <2>2, <2>3
  <2>13. Backed(accounts', Append(history, e))
    BY <1>1, <2>1, <2>3, <2>6, <2>7, <2>8, <2>9, <2>10, <2>11, <2>12, ReviseBacked
  <2>14. Grounded(history')
    BY <1>1, <2>2, <2>3, <2>7, Appended DEF Grounded
  <2> QED BY <1>3, <2>7, <2>8, <2>13, <2>14
<1> QED BY <1>4, <1>5, <1>6 DEF append_locked

\* Hypothesis: no entry is given a second revision that passes the checks, by a
\* caller or by a record that is replayed.
RevisionsAreFirst == [][\A e \in Entry : Revise(e) => ~Revised(e.target)]_vars

\* The inductive invariant.
BalancedInv ==
  /\ AuthorityInv /\ KnownPosts
  /\ Grounded(history) /\ RevisedOnce
  /\ Backed(accounts, history) /\ AllClosed(accounts)

\* Whoever calls the ledger: books that are left alone, cleared or appended to
\* stay balanced, if the append is not a second revision.
LEMMA BalancedKept ==
  ASSUME BalancedInv, BookState', KnownSeq(history)',
         [\A e \in Entry : Revise(e) => ~Revised(e.target)]_vars,
         UNCHANGED books \/ ClearBooks \/ \E e \in Entry : KnownPost(e) /\ append_locked(e)
  PROVE  /\ Grounded(history)' /\ RevisedOnce' /\ Backed(accounts, history)'
         /\ AllClosed(accounts)'
<1>1. /\ BookState /\ UniqueIds /\ KnownPosts /\ Grounded(history)
      /\ RevisedOnceIn(history) /\ Backed(accounts, history) /\ AllClosed(accounts)
  BY InvariantParts, Zenon DEF BalancedInv, AuthorityInv, HistoryPromises, RevisedOnce
<1>2. /\ Grounded(history') /\ RevisedOnceIn(history') /\ Backed(accounts', history')
      /\ AllClosed(accounts')
  <2>1. CASE UNCHANGED books
    BY <1>1, <2>1 DEF books
  <2>2. CASE ClearBooks
    <3>1. history' = <<>> /\ accounts' = NoTotals
      BY <2>2 DEF ClearBooks
    <3> QED BY <3>1, EmptyBacked
  <2>3. ASSUME NEW e \in Entry, KnownPost(e), append_locked(e), ~UNCHANGED vars
        PROVE  /\ Grounded(history') /\ RevisedOnceIn(history') /\ Backed(accounts', history')
               /\ AllClosed(accounts')
    <3>1. KnownSeq(history)
      BY <1>1 DEF KnownPosts
    <3>2. KnownSeq(history')
      BY Zenon DEF KnownSeq, KnownPost
    <3>3. Revise(e) => ~Revised(e.target)
      BY <2>3
    <3> QED BY <1>1, <2>3, <3>1, <3>2, <3>3, AppendLockedBacked
  <2>4. CASE UNCHANGED vars
    <3>1. UNCHANGED books
      BY <2>4 DEF vars, books
    <3> QED BY <2>1, <3>1
  <2> QED BY <2>1, <2>2, <2>3, <2>4
<1>3. Grounded(history)'
  BY <1>2, Zenon DEF Grounded, IsZero
<1>4. RevisedOnce'
  BY <1>2, Zenon DEF RevisedOnce, RevisedOnceIn
<1>5. AllClosed(accounts)'
  BY <1>2 DEF AllClosed
<1>6. Backed(accounts, history)'
  BY <1>2, Zenon DEF Backed, Bounds, Matches, TotalMatches, Sums, OfClass, ClassOf, RevsOf,
     PostsOf, Part
<1> QED BY <1>3, <1>4, <1>5, <1>6

\* A step without a second revision keeps the invariant.
LEMMA BalancedStep ==
  BalancedInv /\ [Next]_vars /\ [\A e \in Entry : Revise(e) => ~Revised(e.target)]_vars
    => BalancedInv'
<1> SUFFICES ASSUME BalancedInv, [Next]_vars,
                    [\A e \in Entry : Revise(e) => ~Revised(e.target)]_vars
             PROVE  BalancedInv'
  OBVIOUS
<1>1. AuthorityInv' /\ BookState /\ ControlState /\ KnownPosts
  BY AuthorityStep, InvariantParts DEF BalancedInv, AuthorityInv
<1>2. BookState'
  BY <1>1, InvariantPartsPrime DEF AuthorityInv
<1>3. KnownPosts' /\ KnownSeq(history)'
  BY <1>1, KnownStep DEF KnownPosts
<1>4. UNCHANGED books \/ ClearBooks \/ \E e \in Entry : KnownPost(e) /\ append_locked(e)
  BY <1>1, KnownCalls
<1> QED BY <1>1, <1>2, <1>3, <1>4, BalancedKept DEF BalancedInv

\* The invariant holds as long as no entry is revised twice.
LEMMA BalancedInvariant == Spec /\ RevisionsAreFirst => []BalancedInv
<1>1. Init => BalancedInv
  <2> SUFFICES ASSUME Init PROVE BalancedInv
    OBVIOUS
  <2>1. KnownPosts
    BY DEF Init, KnownPosts, KnownSeq, Idle
  <2>2. history = <<>> /\ accounts = NoTotals
    BY DEF Init
  <2> QED BY <2>1, <2>2, EmptyBacked, AuthorityInit DEF BalancedInv, RevisedOnce
<1> QED BY <1>1, BalancedStep, PTL DEF Spec, RevisionsAreFirst

\* A revision of an entry that was not revised before goes through.
EveryFirstRevisionFits ==
  \A req \in Requests :
    LET e == Revision(req)
    IN  Verdict(e) = "OK" /\ ~Revised(e.target) => apply_reclassify_locked(e).ok

\* Only second revisions fail: as long as no entry is revised twice, the bucket
\* of an entry's class holds its usage in every account it was shared among, also
\* after appends that were stopped by an overflow, saves, restarts and replays,
\* for any entries, records and width.
THEOREM OnlySecondRevisionsFail == Spec /\ RevisionsAreFirst => []EveryFirstRevisionFits
<1>1. BalancedInv => EveryFirstRevisionFits
  <2> SUFFICES ASSUME BalancedInv, NEW req \in Requests, Verdict(Revision(req)) = "OK",
                      ~Revised(Revision(req).target)
               PROVE  apply_reclassify_locked(Revision(req)).ok
    BY Zenon DEF EveryFirstRevisionFits
  <2>1. Revision(req).event = "kReclassify"
    BY DEF Revision, BlankRevision, BlankEntry
  <2>2. /\ BookState /\ UniqueIds /\ KnownSeq(history) /\ Grounded(history)
        /\ Backed(accounts, history)
    BY InvariantParts, Zenon DEF BalancedInv, AuthorityInv, HistoryPromises, KnownPosts
  <2> QED BY <2>1, <2>2, FirstRevisionOk
<1> QED BY <1>1, BalancedInvariant, PTL

\* The books always reconcile, unless an entry is revised twice: reconcile()
\* reports every dimension closed in every state, whatever was appended, stopped
\* by an overflow, revised once, saved, replayed or killed.  A second revision of
\* one entry is the only thing in the ledger that can ever open them.
THEOREM BooksAlwaysBalance == Spec /\ RevisionsAreFirst => []BooksClosed
<1>1. BalancedInv => BooksClosed
  BY BooksClosedByAccount DEF BalancedInv, AuthorityInv
<1> QED BY <1>1, BalancedInvariant, PTL

-----------------------------------------------------------------------------
(***************************************************************************)
(* The first revision of a class, whatever happened to the other classes.  *)
(* Only revisions take from a bucket, and only from the bucket of their    *)
(* target's class: as long as no entry of a class was revised, its bucket  *)
(* holds all of them.  A revision that fails half way does so in a class   *)
(* that was revised before.                                                *)
(***************************************************************************)

\* No entry of the class was revised; the entries that were posted to it.
UntouchedIn(h, c) == \A i \in DOMAIN h : h[i].class = c => RevsOf(h, i) = {}
PostedAs(h, c) == {i \in PostsOf(h) : h[i].class = c}

\* The buckets of the classes that were not revised hold their entries.
HeldIn(totals, h) ==
  \A c \in ConsumptionClass :
    UntouchedIn(h, c) =>
      \A a \in AllAccounts, d \in Dim :
        SumSeq(Sums(h, PostedAs(h, c), a, "physical", d)) <= totals[a][BucketOf(c)][d]

\* Each entry of such a class is in the bucket.
LEMMA UntouchedHeld ==
  ASSUME NEW h, KnownHistory(h), Grounded(h), NEW m \in DOMAIN h, h[m].class \in ConsumptionClass,
         UntouchedIn(h, h[m].class), NEW totals \in [AllAccounts -> Aggregate], HeldIn(totals, h),
         NEW a \in AllAccounts, NEW d \in Dim
  PROVE  Pending(h[m])[a]["physical"][d] <= totals[a][BucketOf(h[m].class)][d]
<1> DEFINE x == Pending(h[m])[a]["physical"][d]
           c == h[m].class
           z == totals[a][BucketOf(c)][d]
<1>1. "physical" \in Field \ Bucket /\ BucketOf(c) \in Field
  BY DEF Field, Bucket, BucketOf
<1>2. h[m] \in Entry /\ validate(h[m])
  BY DEF KnownHistory
<1>3. z \in Nat
  BY <1>1, WidthAssumption DEF Aggregate, Usage, U64
<1>4. CASE m \in PostsOf(h)
  <2> DEFINE S == PostedAs(h, c)
             rest == SumSeq(Sums(h, S \ {m}, a, "physical", d))
             all == SumSeq(Sums(h, S, a, "physical", d))
  <2>1. all <= z
    BY DEF HeldIn
  <2>2. m \in S /\ S \in SUBSET PostsOf(h)
    BY <1>4 DEF PostedAs
  <2> HIDE DEF S
  <2>3. rest \in Nat /\ x \in Nat /\ all = rest + IF m \in S THEN x ELSE 0
    BY <1>1, <1>4, <2>2, SumsSplit
  <2> HIDE DEF rest, all, x, z, c
  <2>4. x <= z
    BY <1>3, <2>1, <2>2, <2>3
  <2> QED BY <2>4 DEF x, z, c
<1>5. CASE m \notin PostsOf(h)
  <2>1. IsZero(h[m].usage)
    BY <1>5 DEF PostsOf, Grounded
  <2>2. x = 0
    BY <1>2, <2>1, ZeroPending
  <2> HIDE DEF x, z, c
  <2>3. x <= z
    BY <1>3, <2>2
  <2> QED BY <2>3 DEF x, z, c
<1> QED BY <1>4, <1>5

\* The first revision in a class succeeds.
LEMMA UntouchedRevisionOk ==
  ASSUME BookState, KnownSeq(history), Grounded(history), HeldIn(accounts, history),
         NEW e, Verdict(e) = "OK", e.event = "kReclassify",
         UntouchedIn(history, EntryOf(e.target).class)
  PROVE  apply_reclassify_locked(e).ok
<1> DEFINE m == CHOOSE i \in DOMAIN history : history[i].id = e.target
           t == history[m]
<1>1. KnownHistory(history) /\ accounts \in [AllAccounts -> Aggregate]
  BY DEF BookState, BookTypes, HistoryValid, KnownHistory
<1>2. Committed(e.target)
  BY VerdictOk
<1>3. m \in DOMAIN history /\ EntryOf(e.target) = t
  BY <1>2 DEF Committed, EntryOf
<1> HIDE DEF m
<1>4. t \in Entry /\ validate(t)
  BY <1>1, <1>3 DEF KnownHistory
<1>5. t.class \in ConsumptionClass =>
        \A a \in AllAccounts, d \in Dim :
          Pending(t)[a]["physical"][d] <= accounts[a][BucketOf(t.class)][d]
  BY <1>1, <1>3, UntouchedHeld
<1> HIDE DEF t
<1> QED BY <1>3, <1>4, <1>5, RevisionFits

\* Moving a share, also half way, takes from no bucket but the old one.
LEMMA MoveShareTakes ==
  ASSUME NEW st \in MoveState, NEW share \in Share, NEW old \in Bucket, NEW new \in Bucket,
         NEW a \in AllAccounts, NEW f \in Field, f # old, NEW d \in Dim
  PROVE  MoveShare(st, share, old, new).accounts[a][f][d] >= st.accounts[a][f][d]
<1> DEFINE agg == st.accounts[share.account]
           taken == [agg EXCEPT ![old] = MoveOut(@, share.physical)]
           moved == [taken EXCEPT ![new] = MoveIn(@, share.physical)]
           outOk == \A k \in Dim : SubFits(agg[old][k], share.physical[k])
           inOk == \A k \in Dim : AddFits(taken[new][k], share.physical[k])
           after == IF outOk THEN moved ELSE taken
<1>1. MoveShare(st, share, old, new) =
        IF ~st.ok THEN st
        ELSE [accounts |-> [st.accounts EXCEPT ![share.account] = after],
              ok |-> outOk /\ inOk]
  BY Zenon DEF MoveShare
<1>2. /\ agg \in Aggregate /\ share.account \in AllAccounts
      /\ st.accounts \in [AllAccounts -> Aggregate] /\ share.physical[d] \in Nat
  BY DEF MoveState, Share, NatUsage
<1>3. /\ agg[f][d] \in Nat /\ st.accounts[a][f][d] \in Nat /\ agg \in [Field -> Usage]
      /\ old \in Field /\ new \in Field
  BY <1>2, WidthAssumption DEF Aggregate, Usage, U64, Bucket, Field
<1>4. taken[f] = agg[f]
  BY <1>3
<1>5. moved[f] = IF f = new THEN MoveIn(taken[f], share.physical) ELSE taken[f]
  BY <1>3
<1>6. MoveIn(agg[f], share.physical)[d] >= agg[f][d]
  <2> DEFINE into == MoveIn(agg[f], share.physical)
  <2>1. into[d] = IF \A k \in 1..d : AddFits(agg[f][k], share.physical[k])
                  THEN agg[f][d] + share.physical[d] ELSE agg[f][d]
    BY Zenon DEF MoveIn
  <2> HIDE DEF into
  <2>2. into[d] = agg[f][d] + share.physical[d] \/ into[d] = agg[f][d]
    BY <2>1
  <2>3. into[d] >= agg[f][d]
    BY ONLY <1>2, <1>3, <2>2
  <2> QED BY <2>3 DEF into
<1>7. after[f][d] >= agg[f][d]
  <2>1. taken[f][d] >= agg[f][d]
    BY <1>3, <1>4
  <2>2. moved[f][d] >= agg[f][d]
    BY <1>3, <1>4, <1>5, <1>6
  <2> HIDE DEF taken, moved, outOk
  <2> QED BY <2>1, <2>2
<1> HIDE DEF after, outOk, inOk
<1> QED BY <1>1, <1>2, <1>3, <1>7

\* Nor do all shares of a revision together.
LEMMA MoveSharesTake ==
  ASSUME NEW totals \in [AllAccounts -> Aggregate], AllWithin(totals),
         NEW shares \in Seq(Share), NEW old \in Bucket, NEW new \in Bucket,
         NEW a \in AllAccounts, NEW f \in Field, f # old, NEW d \in Dim
  PROVE  MoveShares(totals, shares, old, new).accounts[a][f][d] >= totals[a][f][d]
<1> DEFINE n == Len(shares)
           run == CHOOSE r : r = [i \in 0..Len(shares) |->
                      IF i = 0 THEN [accounts |-> totals, ok |-> TRUE]
                      ELSE MoveShare(r[i - 1], shares[i], old, new)]
           T == {i \in 0..n : /\ run[i] \in MoveState /\ AllWithin(run[i].accounts)
                              /\ run[i].accounts[a][f][d] >= totals[a][f][d]}
<1>1. n \in Nat /\ shares \in [1..n -> Share]
  BY LenProperties
<1>2. MoveShares(totals, shares, old, new) = run[n]
  BY Zenon DEF MoveShares
<1>3. IsMoveRun(run, totals, shares, old, new, n)
  <2>1. \E r : IsMoveRun(r, totals, shares, old, new, Len(shares))
    BY <1>1, MoveRunExists
  <2> QED BY <2>1, Zenon DEF IsMoveRun
<1>4. \A t \in [AllAccounts -> Aggregate] : t[a][f][d] \in Nat
  BY WidthAssumption DEF Aggregate, Usage, U64
<1> HIDE DEF run, n
<1>5. 0 \in T
  <2>1. run[0] = [accounts |-> totals, ok |-> TRUE]
    BY <1>1, <1>3 DEF IsMoveRun
  <2>2. run[0] \in MoveState /\ run[0].accounts = totals
    BY <2>1 DEF MoveState
  <2>3. 0 \in 0..n
    BY <1>1
  <2> QED BY <1>4, <2>2, <2>3
<1>6. ASSUME NEW i \in 1..n, i - 1 \in T PROVE i \in T
  <2> DEFINE x == run[i - 1].accounts[a][f][d]
             y == run[i].accounts[a][f][d]
             z == totals[a][f][d]
  <2>1. run[i] = MoveShare(run[i - 1], shares[i], old, new)
    <3>1. i \in 0..n /\ i # 0
      BY <1>1
    <3> QED BY <1>3, <3>1 DEF IsMoveRun
  <2>2. shares[i] \in Share /\ i \in 0..n
    BY <1>1
  <2>3. run[i - 1] \in MoveState /\ AllWithin(run[i - 1].accounts) /\ x >= z
    BY <1>6
  <2>4. run[i] \in MoveState /\ AllWithin(run[i].accounts)
    BY <2>1, <2>2, <2>3, MoveShareWithin
  <2>5. y >= x
    BY <2>1, <2>2, <2>3, MoveShareTakes
  <2>6. x \in Nat /\ y \in Nat /\ z \in Nat
    BY <1>4, <2>3, <2>4 DEF MoveState
  <2>7. y >= z
    <3> HIDE DEF x, y, z
    <3> QED BY <2>3, <2>5, <2>6
  <2> QED BY <2>2, <2>4, <2>7
<1>7. n \in T
  <2> HIDE DEF T
  <2> QED BY <1>1, <1>5, <1>6, UpTo
<1> QED BY <1>2, <1>7

\* A class that is untouched after an append was so before it.
LEMMA UntouchedBefore ==
  ASSUME NEW h \in Seq(Entry), NEW e \in Entry, NEW c, UntouchedIn(Append(h, e), c)
  PROVE  /\ UntouchedIn(h, c)
         /\ e.event = "kReclassify" =>
              \A i \in DOMAIN h : h[i].id = e.target => h[i].class # c
<1>1. /\ DOMAIN Append(h, e) = DOMAIN h \cup {Len(h) + 1} /\ Append(h, e)[Len(h) + 1] = e
      /\ \A i \in DOMAIN h : Append(h, e)[i] = h[i]
  BY Appended
<1> QED BY <1>1 DEF UntouchedIn, RevsOf

\* What the entries of a class add up to grows by what is posted to it.
LEMMA PostedSum ==
  ASSUME NEW h, NEW e \in Entry, KnownHistory(h), KnownHistory(Append(h, e)), NEW c,
         NEW a \in AllAccounts, NEW d \in Dim
  PROVE  /\ SumSeq(Sums(h, PostedAs(h, c), a, "physical", d)) \in Nat
         /\ e.event # "kReclassify" /\ e.class = c =>
              /\ Pending(e)[a]["physical"][d] \in Nat
              /\ SumSeq(Sums(Append(h, e), PostedAs(Append(h, e), c), a, "physical", d)) =
                   SumSeq(Sums(h, PostedAs(h, c), a, "physical", d))
                     + Pending(e)[a]["physical"][d]
         /\ ~(e.event # "kReclassify" /\ e.class = c) =>
              SumSeq(Sums(Append(h, e), PostedAs(Append(h, e), c), a, "physical", d)) =
                SumSeq(Sums(h, PostedAs(h, c), a, "physical", d))
<1> DEFINE g == Append(h, e)
           S == PostedAs(h, c)
           Q == PostedAs(g, c)
<1>1. /\ DOMAIN g = DOMAIN h \cup {Len(h) + 1} /\ g[Len(h) + 1] = e
      /\ \A i \in DOMAIN h : i < Len(h) + 1 /\ g[i] = h[i]
      /\ \A i \in DOMAIN h : i \in Nat
  BY Appended DEF KnownHistory
<1>2. S \in SUBSET PostsOf(h) /\ Q \in SUBSET PostsOf(g) /\ "physical" \in Field \ Bucket
  BY DEF PostedAs, Field, Bucket
<1>3. Q \cap DOMAIN h = S
  BY <1>1 DEF PostedAs, PostsOf
<1>4. Len(h) + 1 \in Q <=> e.event # "kReclassify" /\ e.class = c
  BY <1>1 DEF PostedAs, PostsOf
<1>5. SumSeq(Sums(h, S, a, "physical", d)) \in Nat
  BY <1>2, SumsType
<1> HIDE DEF S, Q
<1>6. /\ Len(h) + 1 \in Q =>
           /\ Pending(e)[a]["physical"][d] \in Nat
           /\ SumSeq(Sums(g, Q, a, "physical", d)) =
                SumSeq(Sums(h, S, a, "physical", d)) + Pending(e)[a]["physical"][d]
      /\ Len(h) + 1 \notin Q =>
           SumSeq(Sums(g, Q, a, "physical", d)) = SumSeq(Sums(h, S, a, "physical", d))
  BY <1>2, <1>3, SumsAppend
<1> HIDE DEF g
<1> QED BY <1>4, <1>5, <1>6, Zenon DEF S, Q, g

\* An entry that is appended keeps the history grounded: a revision consumes
\* nothing and has a target.
LEMMA GroundedAppend ==
  ASSUME NEW h \in Seq(Entry), NEW e \in Entry, Grounded(h),
         e.event = "kReclassify" =>
           IsZero(e.usage) /\ \E i \in DOMAIN h : h[i].id = e.target
  PROVE  Grounded(Append(h, e))
<1> DEFINE g == Append(h, e)
           n == Len(h) + 1
<1>1. /\ DOMAIN g = DOMAIN h \cup {n} /\ g[n] = e
      /\ \A i \in DOMAIN h : i < n /\ g[i] = h[i]
  BY Appended
<1> HIDE DEF g, n
<1>2. ASSUME NEW j \in DOMAIN g, g[j].event = "kReclassify"
      PROVE  IsZero(g[j].usage) /\ \E i \in DOMAIN g : i < j /\ g[i].id = g[j].target
  <2>1. CASE j = n
    BY <1>1, <1>2, <2>1
  <2>2. CASE j # n
    <3>1. j \in DOMAIN h /\ g[j] = h[j]
      BY <1>1, <2>2
    <3>2. IsZero(h[j].usage) /\ \E i \in DOMAIN h : i < j /\ h[i].id = h[j].target
      BY <1>2, <3>1 DEF Grounded
    <3> QED BY <1>1, <3>1, <3>2
  <2> QED BY <2>1, <2>2
<1>3. Grounded(g)
  BY <1>2 DEF Grounded
<1> QED BY <1>3 DEF g

\* append_locked keeps the entries of the untouched classes in their buckets.
LEMMA AppendLockedHeld ==
  ASSUME BookState, BookState', UniqueIds, KnownSeq(history), KnownSeq(history'),
         Grounded(history), HeldIn(accounts, history), NEW e \in Entry, append_locked(e)
  PROVE  Grounded(history') /\ HeldIn(accounts', history')
<1>1. /\ KnownHistory(history) /\ KnownHistory(history')
      /\ accounts \in [AllAccounts -> Aggregate] /\ accounts' \in [AllAccounts -> Aggregate]
      /\ history \in Seq(Entry) /\ AllWithin(accounts)
  BY DEF BookState, BookTypes, HistoryValid, KnownHistory
<1> DEFINE sum(h, c, a, d) == SumSeq(Sums(h, PostedAs(h, c), a, "physical", d))
<1>2. ASSUME NEW c \in ConsumptionClass, NEW a \in AllAccounts, NEW d \in Dim
      PROVE  /\ accounts[a][BucketOf(c)][d] \in Nat /\ accounts'[a][BucketOf(c)][d] \in Nat
             /\ sum(history, c, a, d) \in Nat
             /\ UntouchedIn(history, c) => sum(history, c, a, d) <= accounts[a][BucketOf(c)][d]
             /\ BucketOf(c) \in Field /\ BucketOf(c) \in Bucket
  <2>1. BucketOf(c) \in Field /\ BucketOf(c) \in Bucket /\ "physical" \in Field \ Bucket
    BY DEF BucketOf, Field, Bucket
  <2>2. accounts[a][BucketOf(c)][d] \in Nat /\ accounts'[a][BucketOf(c)][d] \in Nat
    BY <1>1, <2>1, WidthAssumption DEF Aggregate, Usage, U64
  <2>3. sum(history, c, a, d) \in Nat
    <3>1. PostedAs(history, c) \in SUBSET PostsOf(history)
      BY DEF PostedAs
    <3> QED BY <1>1, <2>1, <3>1, SumsType
  <2> QED BY <2>1, <2>2, <2>3 DEF HeldIn
<1>3. CASE Refuse(e)
  BY <1>3 DEF Refuse, books
<1>4. CASE Post(e)
  <2>1. PICK outcome \in apply_attribution(e) :
          /\ accounts' = outcome.accounts
          /\ history' = IF outcome.ok THEN Append(history, e) ELSE history
    BY <1>4, Zenon DEF Post
  <2>2. e.event # "kReclassify"
    BY <1>4 DEF Post
  <2>3. ASSUME NEW c \in ConsumptionClass, UntouchedIn(history', c),
               NEW a \in AllAccounts, NEW d \in Dim
        PROVE  sum(history', c, a, d) <= accounts'[a][BucketOf(c)][d]
    <3> DEFINE z == accounts[a][BucketOf(c)][d]
               w == accounts'[a][BucketOf(c)][d]
               y == sum(history, c, a, d)
               v == sum(history', c, a, d)
               x == Pending(e)[a]["physical"][d]
    <3>1. /\ w >= z
          /\ outcome.ok => w = z + Pending(e)[a][BucketOf(c)][d]
      BY <1>1, <1>2, <2>1, ApplyNeverLowers
    <3>2. Pending(e)[a][BucketOf(c)][d] = IF e.class = c THEN x ELSE 0
      BY PendingBucket
    <3>3. z \in Nat /\ w \in Nat /\ y \in Nat
      BY <1>2
    <3>4. CASE outcome.ok
      <4>1. history' = Append(history, e)
        BY <2>1, <3>4
      <4>2. UntouchedIn(history, c)
        BY <1>1, <2>3, <4>1, UntouchedBefore
      <4>3. y <= z
        BY <1>2, <4>2
      <4>4. /\ e.class = c => x \in Nat /\ v = y + x
            /\ e.class # c => v = y
        BY <1>1, <2>2, <4>1, PostedSum
      <4> HIDE DEF z, w, y, v, x
      <4>5. v <= w
        BY <3>1, <3>2, <3>3, <3>4, <4>3, <4>4
      <4> QED BY <4>5 DEF v, w
    <3>5. CASE ~outcome.ok
      <4>1. history' = history
        BY <2>1, <3>5
      <4>2. v = y /\ y <= z
        BY <1>2, <2>3, <4>1
      <4> HIDE DEF z, w, y, v, x
      <4>3. v <= w
        BY <3>1, <3>3, <4>2
      <4> QED BY <4>3 DEF v, w
    <3> QED BY <3>4, <3>5
  <2>4. HeldIn(accounts', history')
    BY <2>3 DEF HeldIn
  <2>5. Grounded(history')
    <3>1. CASE outcome.ok
      <4>1. history' = Append(history, e)
        BY <2>1, <3>1
      <4> QED BY <1>1, <2>2, <4>1, GroundedAppend
    <3>2. CASE ~outcome.ok
      BY <2>1, <3>2
    <3> QED BY <3>1, <3>2
  <2> QED BY <2>4, <2>5
<1>5. CASE Revise(e)
  <2> DEFINE outcome == apply_reclassify_locked(e)
             m == CHOOSE i \in DOMAIN history : history[i].id = e.target
             t == history[m]
             shares == compute_attribution(t)
             old == BucketOf(t.class)
             new == BucketOf(e.class)
  <2>1. /\ accounts' = outcome.accounts
        /\ history' = IF outcome.ok THEN Append(history, e) ELSE history
        /\ Verdict(e) = "OK" /\ e.event = "kReclassify"
    BY <1>5, Zenon DEF Revise
  <2>2. Committed(e.target) /\ IsZero(e.usage)
    BY <2>1 DEF Verdict, RevisionVerdict
  <2>3. m \in DOMAIN history /\ history[m].id = e.target /\ EntryOf(e.target) = t
    BY <2>2 DEF Committed, EntryOf
  <2>4. outcome = IF t.class \in ConsumptionClass THEN MoveShares(accounts, shares, old, new)
                  ELSE [accounts |-> accounts, ok |-> TRUE]
    BY <2>3, Zenon DEF apply_reclassify_locked
  <2> HIDE DEF m
  <2>5. t \in Entry /\ validate(t)
    BY <1>1, <2>3 DEF KnownHistory
  <2>6. shares \in Seq(Share) /\ old \in Bucket /\ new \in Bucket
    BY <2>5, AttributionType DEF BucketOf, Bucket
  <2>7. UntouchedIn(history, t.class) => outcome.ok
    BY <2>1, <2>3, UntouchedRevisionOk
  <2> HIDE DEF t, outcome, shares, new
  <2>8. ASSUME NEW c \in ConsumptionClass, UntouchedIn(history', c),
               NEW a \in AllAccounts, NEW d \in Dim
        PROVE  sum(history', c, a, d) <= accounts'[a][BucketOf(c)][d]
    <3> DEFINE z == accounts[a][BucketOf(c)][d]
               w == accounts'[a][BucketOf(c)][d]
               y == sum(history, c, a, d)
               v == sum(history', c, a, d)
    <3>1. UntouchedIn(history, c) /\ v = y /\ t.class # c
      <4>1. CASE outcome.ok
        <5>1. history' = Append(history, e)
          BY <2>1, <4>1
        <5>2. UntouchedIn(history, c) /\ t.class # c
          BY <1>1, <2>1, <2>3, <2>8, <5>1, UntouchedBefore DEF t
        <5>3. v = y
          BY <1>1, <2>1, <5>1, PostedSum
        <5> QED BY <5>2, <5>3
      <4>2. CASE ~outcome.ok
        <5>1. history' = history
          BY <2>1, <4>2
        <5>2. UntouchedIn(history, c) /\ v = y
          BY <2>8, <5>1
        <5>3. t.class # c
          BY <2>7, <4>2, <5>2
        <5> QED BY <5>2, <5>3
      <4> QED BY <4>1, <4>2
    <3>2. y <= z /\ y \in Nat /\ z \in Nat /\ w \in Nat
      BY <1>2, <3>1
    <3>3. w >= z
      <4>1. CASE t.class \in ConsumptionClass
        <5>1. BucketOf(c) # old
          BY <3>1, <4>1 DEF BucketOf, ConsumptionClass, old
        <5>2. accounts' = MoveShares(accounts, shares, old, new).accounts
          BY <2>1, <2>4, <4>1
        <5> QED BY <1>1, <1>2, <2>6, <5>1, <5>2, MoveSharesTake
      <4>2. CASE t.class \notin ConsumptionClass
        <5>1. accounts' = accounts
          BY <2>1, <2>4, <4>2
        <5> QED BY <3>2, <5>1
      <4> QED BY <4>1, <4>2
    <3> HIDE DEF z, w, y, v
    <3>4. v <= w
      BY <3>1, <3>2, <3>3
    <3> QED BY <3>4 DEF v, w
  <2>9. HeldIn(accounts', history')
    BY <2>8 DEF HeldIn
  <2>10. Grounded(history')
    <3>1. CASE outcome.ok
      <4>1. history' = Append(history, e)
        BY <2>1, <3>1
      <4> QED BY <1>1, <2>2, <2>3, <4>1, GroundedAppend
    <3>2. CASE ~outcome.ok
      BY <2>1, <3>2
    <3> QED BY <3>1, <3>2
  <2> QED BY <2>9, <2>10
<1> QED BY <1>3, <1>4, <1>5 DEF append_locked

\* Empty books hold an empty history.
LEMMA EmptyHeld == Grounded(<<>>) /\ HeldIn(NoTotals, <<>>)
<1>1. Grounded(<<>>)
  BY DEF Grounded
<1> SUFFICES ASSUME NEW c \in ConsumptionClass, NEW a \in AllAccounts, NEW d \in Dim
             PROVE  SumSeq(Sums(<<>>, PostedAs(<<>>, c), a, "physical", d))
                      <= NoTotals[a][BucketOf(c)][d]
  BY <1>1 DEF HeldIn
<1> DEFINE u == Sums(<<>>, PostedAs(<<>>, c), a, "physical", d)
<1>2. u \in [1..0 -> Nat] /\ \A i \in 1..0 : u[i] = 0
  BY DEF Sums
<1>3. NoTotals[a][BucketOf(c)][d] = 0
  BY DEF NoTotals, ZeroUsage, Field, BucketOf
<1> HIDE DEF u
<1>4. SumSeq(u) = 0
  BY <1>2, SumOfZeros
<1>5. SumSeq(u) <= NoTotals[a][BucketOf(c)][d]
  BY <1>3, <1>4
<1> QED BY <1>5 DEF u

\* The inductive invariant.
HeldInv == AuthorityInv /\ KnownPosts /\ Grounded(history) /\ HeldIn(accounts, history)

\* Every step of the ledger keeps it.
LEMMA HeldStep == HeldInv /\ [Next]_vars => HeldInv'
<1> SUFFICES ASSUME HeldInv, [Next]_vars PROVE HeldInv'
  OBVIOUS
<1>1. AuthorityInv' /\ BookState /\ ControlState /\ KnownPosts /\ UniqueIds
  BY AuthorityStep, InvariantParts, Zenon DEF HeldInv, AuthorityInv, HistoryPromises
<1>2. BookState'
  BY <1>1, InvariantPartsPrime DEF AuthorityInv
<1>3. KnownPosts' /\ KnownSeq(history)'
  BY <1>1, KnownStep DEF KnownPosts
<1>4. Grounded(history') /\ HeldIn(accounts', history')
  <2>1. CASE UNCHANGED books
    BY <2>1 DEF books, HeldInv
  <2>2. CASE ClearBooks
    <3>1. history' = <<>> /\ accounts' = NoTotals
      BY <2>2 DEF ClearBooks
    <3> QED BY <3>1, EmptyHeld
  <2>3. ASSUME NEW e \in Entry, KnownPost(e), append_locked(e)
        PROVE  Grounded(history') /\ HeldIn(accounts', history')
    <3>1. KnownSeq(history) /\ KnownSeq(history')
      BY <1>1, <1>3, Zenon DEF KnownPosts, KnownSeq, KnownPost
    <3> QED BY <1>1, <1>2, <2>3, <3>1, AppendLockedHeld DEF HeldInv
  <2> QED BY <1>1, <2>1, <2>2, <2>3, KnownCalls
<1>5. Grounded(history)'
  BY <1>4, Zenon DEF Grounded, IsZero
<1>6. HeldIn(accounts, history)'
  BY <1>4, Zenon DEF HeldIn, UntouchedIn, PostedAs, Sums, RevsOf, PostsOf, Part
<1> QED BY <1>1, <1>3, <1>5, <1>6 DEF HeldInv

\* The first revision of an entry of a class goes through, unconditionally: as
\* long as no entry of the class was revised its bucket holds every one of them
\* in every account it was shared among, whatever was appended, stopped by an
\* overflow, revised in other classes however often and with whatever result,
\* saved, killed and replayed, for any entries, records and width.
THEOREM FirstRevisionsGoThrough == Spec => []FirstRevisionFits
<1>1. Init => HeldInv
  <2> SUFFICES ASSUME Init PROVE HeldInv
    OBVIOUS
  <2>1. KnownPosts
    BY DEF Init, KnownPosts, KnownSeq, Idle
  <2>2. history = <<>> /\ accounts = NoTotals
    BY DEF Init
  <2> QED BY <2>1, <2>2, EmptyHeld, AuthorityInit DEF HeldInv
<1>2. HeldInv => FirstRevisionFits
  <2> SUFFICES ASSUME HeldInv, NEW req \in Requests, Verdict(Revision(req)) = "OK",
                      Untouched(EntryOf(Revision(req).target).class)
               PROVE  apply_reclassify_locked(Revision(req)).ok
    BY Zenon DEF FirstRevisionFits
  <2>1. Revision(req).event = "kReclassify"
    BY DEF Revision, BlankRevision, BlankEntry
  <2>2. BookState /\ KnownSeq(history) /\ Grounded(history) /\ HeldIn(accounts, history)
    BY InvariantParts, Zenon DEF HeldInv, AuthorityInv, KnownPosts
  <2>3. \A c : Untouched(c) => UntouchedIn(history, c)
    BY DEF Untouched, UntouchedIn, Revised, RevsOf
  <2> QED BY <2>1, <2>2, <2>3, UntouchedRevisionOk
<1> QED BY <1>1, <1>2, HeldStep, PTL DEF Spec

-----------------------------------------------------------------------------
(***************************************************************************)
(* A history that was committed is accepted again.  Every committed entry  *)
(* was admitted by the entries before it, and totals that match the        *)
(* history up to it fit the counters; both are facts about the history     *)
(* alone, so they hold of every record it is saved to, and a replay meets  *)
(* them again.  Boot ids are not checked in a replay; what may stop it are *)
(* the fences, which are (finding bad_replay).                             *)
(***************************************************************************)

\* What an earlier entry says of a later one.
Allows(a, e) ==
  /\ a.id # e.id
  /\ a.event # "kReclassify" =>
       /\ e.attempt # NoId /\ a.attempt = e.attempt =>
            /\ HasOutcome(a) =>
                 /\ ~HasOutcome(e) /\ e.event \notin SignalEvent
                 /\ e.attemptGen \in {NoId, a.attemptGen} \/ a.attemptGen = NoId
            /\ e.fences.publication # NoId => a.fences.publication < e.fences.publication
       /\ e.event # "kReclassify" /\ Gated(e) =>
            ~(Gated(a) /\ GateOf(a.event) = GateOf(e.event) /\ a.owner = e.owner)

\* The entry that a revision reinterprets.
Reinterprets(a, e) ==
  a.id = e.target /\ (a.class \in ConsumptionClass) = (e.class \in ConsumptionClass)

\* Whether the entries of h admit e.
AdmittedBy(h, e) ==
  /\ validate(e)
  /\ \A i \in DOMAIN h : Allows(h[i], e)
  /\ IF e.event = "kReclassify"
     THEN IsZero(e.usage) /\ \E i \in DOMAIN h : Reinterprets(h[i], e)
     ELSE check_classification_consistency(e) = "OK"

\* It is what AccountingLog asks of its log.
LEMMA AdmittedByHistory ==
  ASSUME NEW e
  PROVE  Log!Admissible(e) <=> AdmittedBy(history, e)
<1>1. Log!FirstOfItsId(e) <=> \A i \in DOMAIN history : history[i].id # e.id
  BY DEF Log!FirstOfItsId
<1>2. Log!AttemptOpen(e) <=>
        \A i \in PostsOf(history) :
          e.attempt # NoId /\ history[i].attempt = e.attempt =>
            (HasOutcome(history[i]) =>
               /\ ~HasOutcome(e) /\ e.event \notin SignalEvent
               /\ e.attemptGen \in {NoId, history[i].attemptGen} \/ history[i].attemptGen = NoId)
  BY SameJudgement, SameNotions, Zenon DEF Log!AttemptOpen, Log!SameAttempt
<1>3. Log!NewestPublication(e) <=>
        \A i \in PostsOf(history) :
          e.attempt # NoId /\ history[i].attempt = e.attempt =>
            (e.fences.publication # NoId => history[i].fences.publication < e.fences.publication)
  BY SameNotions, Zenon DEF Log!NewestPublication, Log!SameAttempt
<1>4. Log!FirstCompletion(e) <=>
        \A i \in PostsOf(history) :
          Gated(e) => ~(/\ Gated(history[i]) /\ GateOf(history[i].event) = GateOf(e.event)
                        /\ history[i].owner = e.owner)
  BY SameJudgement, SameNotions, Zenon DEF Log!FirstCompletion
<1>5. Log!Reinterprets(e) <=>
        IsZero(e.usage) /\ \E i \in DOMAIN history : Reinterprets(history[i], e)
  BY SameJudgement, SameNotions, Zenon DEF Log!Reinterprets, Reinterprets
<1>6. Log!Admissible(e) <=>
        /\ validate(e) /\ Log!FirstOfItsId(e) /\ Log!AttemptOpen(e) /\ Log!NewestPublication(e)
        /\ IF e.event = "kReclassify" THEN Log!Reinterprets(e)
           ELSE check_classification_consistency(e) = "OK" /\ Log!FirstCompletion(e)
  BY SameJudgement, Zenon DEF Log!Admissible
<1>7. (\A i \in DOMAIN history : Allows(history[i], e)) <=>
        /\ Log!FirstOfItsId(e) /\ Log!AttemptOpen(e) /\ Log!NewestPublication(e)
        /\ e.event # "kReclassify" => Log!FirstCompletion(e)
  BY <1>1, <1>2, <1>3, <1>4, Zenon DEF Allows, PostsOf
<1> QED BY <1>5, <1>6, <1>7, Zenon DEF AdmittedBy

\* Totals that match the history and fit the counters.
Fundable(h) == \E ghost \in [AllAccounts -> Aggregate] : Matches(ghost, h)

\* A history every entry of which was admitted by, and fitted on top of, the
\* entries before it.
Prefix(h, n) == SubSeq(h, 1, n)
Replayable(h) ==
  \A n \in 1..Len(h) : AdmittedBy(Prefix(h, n - 1), h[n]) /\ Fundable(Prefix(h, n))

\* Where a replay stands: what is in, the next entry, and what will then be in.
LEMMA ReplayPosition ==
  ASSUME NEW h \in Seq(Entry), NEW r \in Seq(Entry), r # <<>>
  PROVE  LET g == h \o r
             n == Len(h) + 1
         IN  /\ n \in 1..Len(g) /\ g[n] = Head(r)
             /\ Prefix(g, n - 1) = h /\ Prefix(g, n) = Append(h, Head(r))
<1> DEFINE g == h \o r
           n == Len(h) + 1
<1>1. /\ Len(h) \in Nat /\ Len(r) \in Nat /\ Len(r) >= 1 /\ Head(r) \in Entry /\ Head(r) = r[1]
  OBVIOUS
<1>2. /\ g \in Seq(Entry) /\ Len(g) = Len(h) + Len(r)
      /\ \A i \in 1..Len(h) : g[i] = h[i]
      /\ g[Len(h) + 1] = r[1]
  BY <1>1
<1> HIDE DEF g
<1>3. n \in 1..Len(g) /\ g[n] = Head(r) /\ n - 1 = Len(h) /\ n \in Nat
  BY <1>1, <1>2
<1>4. Prefix(g, n - 1) = h
  <2>1. /\ Prefix(g, Len(h)) \in Seq(Entry) /\ Len(Prefix(g, Len(h))) = Len(h)
        /\ \A i \in 1..Len(h) : Prefix(g, Len(h))[i] = g[i]
    BY <1>1, <1>2 DEF Prefix
  <2>2. \A i \in 1..Len(h) : Prefix(g, Len(h))[i] = h[i]
    BY <1>2, <2>1
  <2>3. Prefix(g, Len(h)) = h
    BY <2>1, <2>2, SeqEqual
  <2> QED BY <1>3, <2>3
<1>5. Prefix(g, n) = Append(h, Head(r))
  <2> DEFINE p == Prefix(g, n)
             q == Append(h, Head(r))
  <2>1. /\ p \in Seq(Entry) /\ Len(p) = n /\ \A i \in 1..n : p[i] = g[i]
    BY <1>2, <1>3 DEF Prefix
  <2>2. q \in Seq(Entry) /\ Len(q) = n /\ q[n] = Head(r) /\ \A i \in 1..Len(h) : q[i] = h[i]
    BY <1>1
  <2> HIDE DEF p, q
  <2>3. \A i \in 1..n : i = n \/ i \in 1..Len(h)
    BY <1>1
  <2>4. \A i \in 1..Len(p) : p[i] = q[i]
    BY <1>2, <1>3, <2>1, <2>2, <2>3
  <2>5. p = q
    BY <2>1, <2>2, <2>4, SeqEqual
  <2> QED BY <2>5 DEF p, q
<1> QED BY <1>3, <1>4, <1>5 DEF g

\* One more entry that the history admits and that fits.
LEMMA ReplayableAppend ==
  ASSUME NEW h \in Seq(Entry), NEW e \in Entry, Replayable(h), AdmittedBy(h, e),
         Fundable(Append(h, e))
  PROVE  Replayable(Append(h, e))
<1> DEFINE g == Append(h, e)
<1>1. Len(h) \in Nat /\ g \in Seq(Entry) /\ Len(g) = Len(h) + 1 /\ g[Len(h) + 1] = e
      /\ \A i \in 1..Len(h) : g[i] = h[i]
  OBVIOUS
<1> HIDE DEF g
<1>2. ASSUME NEW n \in 0..Len(h) PROVE Prefix(g, n) = Prefix(h, n)
  <2>1. /\ Prefix(g, n) \in Seq(Entry) /\ Len(Prefix(g, n)) = n
        /\ \A i \in 1..n : Prefix(g, n)[i] = g[i]
    BY <1>1 DEF Prefix
  <2>2. /\ Prefix(h, n) \in Seq(Entry) /\ Len(Prefix(h, n)) = n
        /\ \A i \in 1..n : Prefix(h, n)[i] = h[i]
    BY <1>1 DEF Prefix
  <2>3. \A i \in 1..n : i \in 1..Len(h)
    BY <1>1
  <2>4. \A i \in 1..n : Prefix(g, n)[i] = Prefix(h, n)[i]
    BY <1>1, <2>1, <2>2, <2>3
  <2> QED BY <2>1, <2>2, <2>4, SeqEqual
<1>3. Prefix(h, Len(h)) = h /\ Prefix(g, Len(g)) = g
  BY <1>1 DEF Prefix
<1> SUFFICES ASSUME NEW n \in 1..Len(g)
             PROVE  AdmittedBy(Prefix(g, n - 1), g[n]) /\ Fundable(Prefix(g, n))
  BY DEF Replayable, g
<1>4. CASE n \in 1..Len(h)
  <2>1. n \in 0..Len(h) /\ n - 1 \in 0..Len(h)
    BY <1>1, <1>4
  <2>2. Prefix(g, n - 1) = Prefix(h, n - 1) /\ Prefix(g, n) = Prefix(h, n) /\ g[n] = h[n]
    BY <1>1, <1>2, <1>4, <2>1
  <2> QED BY <1>4, <2>2 DEF Replayable
<1>5. CASE n = Len(h) + 1
  <2>1. n - 1 = Len(h) /\ Len(h) \in 0..Len(h) /\ n = Len(g)
    BY <1>1, <1>5
  <2>2. Prefix(g, n - 1) = h /\ g[n] = e /\ Prefix(g, n) = g
    BY <1>1, <1>2, <1>3, <1>5, <2>1
  <2> QED BY <2>2 DEF g
<1> QED BY <1>1, <1>4, <1>5

\* A history determines its totals.
LEMMA MatchesUnique ==
  ASSUME NEW h, NEW t1, NEW t2, Matches(t1, h), Matches(t2, h),
         NEW a \in AllAccounts, NEW f \in Field, NEW d \in Dim
  PROVE  t1[a][f][d] = t2[a][f][d]
<1>1. TotalMatches(t1, h, a, d) /\ TotalMatches(t2, h, a, d)
  BY DEF Matches
<1>2. CASE f \in Field \ Bucket
  BY <1>1, <1>2 DEF TotalMatches
<1>3. CASE f \in Bucket
  <2>1. \E c \in ConsumptionClass : f = BucketOf(c)
    BY <1>3 DEF Bucket, BucketOf, ConsumptionClass
  <2>2. PICK c \in ConsumptionClass : f = BucketOf(c)
    BY <2>1
  <2> QED BY <1>1, <2>2 DEF TotalMatches
<1> QED BY <1>2, <1>3

\* An entry that fitted on top of the history fits again on totals that match it.
LEMMA PostFits ==
  ASSUME accounts \in [AllAccounts -> Aggregate], Matches(accounts, history),
         NEW e \in Entry, KnownHistory(history), KnownHistory(Append(history, e)), validate(e),
         e.event # "kReclassify", Grounded(history), RevisedOnceIn(Append(history, e)),
         \A i \in DOMAIN history : history[i].id # e.id,
         Fundable(Append(history, e)), NEW outcome \in apply_attribution(e)
  PROVE  outcome.ok
<1>1. PICK ghost \in [AllAccounts -> Aggregate] : Matches(ghost, Append(history, e))
  BY DEF Fundable
<1> DEFINE pending == Pending(e)
           after == [a \in AllAccounts |-> [f \in Field |-> [d \in Dim |->
                       accounts[a][f][d] + Pending(e)[a][f][d]]]]
<1>2. \A a \in AllAccounts, f \in Field, d \in Dim :
        after[a][f][d] = accounts[a][f][d] + Pending(e)[a][f][d]
  OBVIOUS
<1> HIDE DEF after
<1>3. Matches(after, Append(history, e))
  BY <1>2, PostMatches
<1>4. ASSUME NEW a \in AllAccounts, NEW f \in Field, NEW d \in Dim
      PROVE  /\ accounts[a][f][d] + pending[a][f][d] = ghost[a][f][d]
             /\ accounts[a][f][d] \in Nat /\ pending[a][f][d] \in Nat
             /\ ghost[a][f][d] \in Nat /\ ghost[a][f][d] <= MaxU64
  <2>1. after[a][f][d] = ghost[a][f][d]
    BY <1>1, <1>3, MatchesUnique
  <2>2. /\ accounts[a][f][d] \in Nat /\ ghost[a][f][d] \in Nat /\ ghost[a][f][d] <= MaxU64
    BY WidthAssumption DEF Aggregate, Usage, U64
  <2>3. pending[a][f][d] \in Nat
    BY PendingAnyNat
  <2> QED BY <1>2, <2>1, <2>2, <2>3
<1>5. pending \in [AllAccounts -> Aggregate]
  <2>1. pending = [a \in AllAccounts |-> [f \in Field |-> [d \in Dim |-> pending[a][f][d]]]]
    BY Zenon DEF Pending
  <2> HIDE DEF pending
  <2>2. \A a \in AllAccounts, f \in Field, d \in Dim :
          pending[a][f][d] \in Nat /\ pending[a][f][d] <= ghost[a][f][d]
    <3> SUFFICES ASSUME NEW a \in AllAccounts, NEW f \in Field, NEW d \in Dim
                 PROVE  pending[a][f][d] \in Nat /\ pending[a][f][d] <= ghost[a][f][d]
      OBVIOUS
    <3> DEFINE x == pending[a][f][d]
               y == accounts[a][f][d]
               z == ghost[a][f][d]
    <3>1. y + x = z /\ x \in Nat /\ y \in Nat /\ z \in Nat
      BY <1>4
    <3> HIDE DEF x, y, z
    <3>2. x <= z
      BY <3>1
    <3> QED BY <3>1, <3>2 DEF x, z
  <2> QED BY ONLY ghost \in [AllAccounts -> Aggregate], <2>1, <2>2, GhostType
<1>6. Overflowing(pending) = {}
  <2>1. \A a \in AllAccounts, f \in Field, d \in Dim :
          AddFits(accounts[a][f][d], pending[a][f][d])
    BY <1>4 DEF AddFits
  <2> HIDE DEF pending
  <2> QED BY <2>1 DEF Overflowing
<1>7. outcome = [accounts |-> AddTo(AllAccounts, pending), ok |-> TRUE]
  BY <1>5, <1>6, Zenon DEF apply_attribution
<1> HIDE DEF pending
<1> QED BY <1>7

\* Hypothesis on the records that come from elsewhere: a ledger committed them.
GoodRecords == \A s \in Records : Replayable(s.history)

\* Hypothesis: the entry to be replayed next is not fenced off by an epoch or a
\* generation that has moved on.
ReplaysUnfenced == Replaying => ~StaleFences(Head(loop.rest))

\* The inductive invariant: what was committed, and what was saved of it, can be
\* replayed, and in a replay the totals are exact.
ReplayInv ==
  /\ BalancedInv /\ ReplayOnCourse
  /\ Replayable(history) /\ \A s \in saved : Replayable(s.history)
  /\ Replaying => Matches(accounts, history)

\* The next entry of a replay is accepted.
LEMMA NextAccepted ==
  ASSUME BalancedInv, Matches(accounts, history), Replayable(history \o loop.rest),
         LoopStep, Replaying, ~shuttingDown, ~StaleFences(Head(loop.rest)),
         \A e \in Entry : Revise(e) => ~Revised(e.target)
  PROVE  reply' = "OK"
<1> DEFINE r == loop.rest
           e == Head(r)
           n == Len(history) + 1
<1>1. /\ BookState /\ ControlState /\ TablesMatch /\ UniqueIds /\ KnownPosts
      /\ Grounded(history) /\ RevisedOnceIn(history) /\ Backed(accounts, history)
  BY InvariantParts, Zenon DEF BalancedInv, AuthorityInv, HistoryPromises, RevisedOnce
<1>2. /\ BookTypes /\ history \in Seq(Entry) /\ KnownHistory(history)
      /\ accounts \in [AllAccounts -> Aggregate]
  BY <1>1 DEF BookState, BookTypes, HistoryValid, KnownHistory, KnownPosts
<1>3. r \in Seq(Entry) /\ r # <<>> /\ append_locked(e)
  BY <1>1 DEF ControlState, LoopStep, LockFree, LoopBusy
<1>4. e \in Entry /\ KnownPost(e)
  <2>1. Len(r) \in Nat /\ 1 \in DOMAIN r /\ Head(r) = r[1] /\ r[1] \in Entry
    BY <1>3
  <2> QED BY <1>1, <2>1 DEF KnownPosts, KnownSeq
<1>5. Replayable(history \o r)
  OBVIOUS
<1> HIDE DEF r
<1>6. AdmittedBy(history, e) /\ Fundable(Append(history, e))
  <2> DEFINE g == history \o r
  <2>1. /\ n \in 1..Len(g) /\ g[n] = e
        /\ Prefix(g, n - 1) = history /\ Prefix(g, n) = Append(history, e)
    BY <1>2, <1>3, ReplayPosition, Zenon
  <2> HIDE DEF g, e, n
  <2>2. AdmittedBy(Prefix(g, n - 1), g[n]) /\ Fundable(Prefix(g, n))
    BY <1>5, <2>1 DEF Replayable, g
  <2> QED BY <2>1, <2>2
<1>7. ~StaleFences(e)
  BY DEF r
<1> HIDE DEF e
<1>8. Verdict(e) = "OK"
  <2>1. ~StaleBoot(e)
    BY DEF StaleBoot
  <2>2. Log!Admissible(e)
    BY <1>6, AdmittedByHistory
  <2> QED BY <1>1, <1>2, <1>4, <1>7, <2>1, <2>2, Admission
<1>9. CASE Refuse(e)
  BY <1>8, <1>9 DEF Refuse
<1>10. CASE Post(e)
  <2>1. PICK outcome \in apply_attribution(e) : Answer(IF outcome.ok THEN "OK" ELSE "OVERFLOW")
    BY <1>10, Zenon DEF Post
  <2>2. e.event # "kReclassify"
    BY <1>10 DEF Post
  <2>3. validate(e) /\ \A i \in DOMAIN history : history[i].id # e.id
    BY <1>6 DEF AdmittedBy, Allows
  <2>4. KnownHistory(Append(history, e))
    BY <1>2, <1>4, <2>3, Appended DEF KnownHistory, KnownSeq
  <2>5. RevisedOnceIn(Append(history, e))
    BY <1>1, <1>2, <1>4, <2>2, OneMoreRevision
  <2>6. outcome.ok
    BY <1>1, <1>2, <1>4, <1>6, <2>2, <2>3, <2>4, <2>5, PostFits
  <2> QED BY <2>1, <2>6 DEF Answer
<1>11. CASE Revise(e)
  <2> DEFINE ok == apply_reclassify_locked(e).ok
  <2>1. Answer(IF ok THEN "OK" ELSE "RECONCILIATION_FAILURE") /\ e.event = "kReclassify"
    BY <1>11, Zenon DEF Revise
  <2>2. ~Revised(e.target)
    BY <1>4, <1>11
  <2>3. ok
    BY <1>1, <1>8, <2>1, <2>2, FirstRevisionOk DEF KnownPosts
  <2> HIDE DEF ok
  <2> QED BY <2>1, <2>3 DEF Answer
<1> QED BY <1>3, <1>9, <1>10, <1>11 DEF append_locked

\* The history stays one that can be replayed.
LEMMA ReplayableKept ==
  ASSUME AuthorityInv, Replayable(history), Backed(accounts, history)',
         UNCHANGED books \/ ClearBooks \/ \E e \in Entry : append_locked(e)
  PROVE  Replayable(history')
<1>1. CASE CommitsNothing
  BY <1>1 DEF CommitsNothing
<1>2. CASE ClearBooks
  <2>1. Replayable(<<>>)
    BY DEF Replayable
  <2> QED BY <1>2, <2>1 DEF ClearBooks
<1>3. ASSUME NEW e \in Entry, Commits(e), Log!Admissible(e) PROVE Replayable(history')
  <2>1. history \in Seq(Entry) /\ history' = Append(history, e)
    BY <1>3, InvariantParts DEF AuthorityInv, BookState, BookTypes, Commits
  <2>2. AdmittedBy(history, e)
    BY <1>3, AdmittedByHistory
  <2>3. Fundable(history')
    BY Zenon DEF Backed, Fundable, Matches, TotalMatches, Sums, OfClass, ClassOf, RevsOf,
       PostsOf, Part
  <2> QED BY <2>1, <2>2, <2>3, ReplayableAppend
<1>4. BookState /\ TablesMatch /\ HistoryPromises
  BY InvariantParts DEF AuthorityInv
<1> QED BY <1>1, <1>2, <1>3, <1>4, HistoryMoves

\* A turn of a replay that is accepted keeps the totals exact.
LEMMA TurnExact ==
  ASSUME BalancedInv, BookState', KnownSeq(history)', RevisedOnce',
         Matches(accounts, history), LoopStep, reply' = "OK"
  PROVE  Matches(accounts', history')
<1> DEFINE e == Head(loop.rest)
<1>1. /\ BookState /\ ControlState /\ UniqueIds /\ KnownPosts /\ Grounded(history)
  BY InvariantParts, Zenon DEF BalancedInv, AuthorityInv, HistoryPromises
<1>2. loop.rest \in Seq(Entry) /\ loop.rest # <<>> /\ append_locked(e)
  BY <1>1 DEF ControlState, LoopStep, LockFree, LoopBusy
<1>3. e \in Entry
  BY <1>2
<1>4. KnownSeq(history) /\ KnownSeq(history') /\ RevisedOnceIn(history')
  BY <1>1, Zenon DEF KnownPosts, KnownSeq, KnownPost, RevisedOnce, RevisedOnceIn
<1> HIDE DEF e
<1> QED BY <1>1, <1>2, <1>3, <1>4, AppendLockedMatches

\* In a replay the totals stay exact.
LEMMA ReplayExact ==
  ASSUME BalancedInv, BalancedInv', Replaying => Matches(accounts, history), [Next]_vars
  PROVE  Replaying' => Matches(accounts', history')
<1>1. loop \in [kind: LoopKind, rest: Seq(Entry)]
  BY InvariantParts DEF BalancedInv, AuthorityInv, ControlState
<1>2. BookState' /\ KnownSeq(history)' /\ RevisedOnce'
  BY InvariantPartsPrime DEF BalancedInv, AuthorityInv, KnownPosts
<1>3. CASE LoopStep
  <2>1. loop' = IF reply' = "OK" /\ Len(loop.rest) > 1
                THEN [loop EXCEPT !.rest = Tail(@)] ELSE Idle
    BY <1>3 DEF LoopStep
  <2>2. Replaying' => reply' = "OK" /\ Replaying
    <3>1. loop' = Idle => ~Replaying'
      BY DEF Replaying, Idle
    <3>2. loop' # Idle => reply' = "OK" /\ loop'.kind = loop.kind
      BY <1>1, <2>1
    <3> QED BY <3>1, <3>2 DEF Replaying
  <2> QED BY <1>2, <1>3, <2>2, TurnExact
<1>4. ASSUME NEW s \in saved \cup Records, LoadHistory(s) \/ LoadFromString(s)
      PROVE  Matches(accounts', history')
  <2>1. history' = <<>> /\ accounts' = NoTotals
    BY <1>4 DEF LoadHistory, LoadFromString, ClearBooks
  <2> QED BY <2>1, EmptyMatches
<1>5. ASSUME NEW es \in Batches, AppendBatch(es) PROVE ~Replaying'
  BY <1>5 DEF AppendBatch, StartLoop, Idle, Replaying
<1>6. CASE Construct
  BY <1>6 DEF Construct, Fresh, Replaying, Idle
<1>7. ASSUME NEW e, NEW v, NEW lg, NEW ag, NEW b,
             \/ AppendEntry(e) \/ Reclassify(e) \/ LoadRefused(e)
             \/ SaveToString \/ AdvanceEpoch \/ SetEpoch(v) \/ SetGenerations(lg, ag)
             \/ RegisterWorker(b) \/ UnregisterWorker(b) \/ SetShuttingDown
      PROVE  ~Replaying'
  <2>1. LockFree /\ loop' = loop
    BY <1>7, Zenon DEF AppendEntry, Reclassify, LoadRefused, SaveToString, AdvanceEpoch,
       SetEpoch, SetGenerations, RegisterWorker, UnregisterWorker, SetShuttingDown
  <2> QED BY <2>1 DEF Replaying, LockFree
<1>8. CASE UNCHANGED vars
  <2>1. loop' = loop /\ history' = history /\ accounts' = accounts
    BY <1>8 DEF vars
  <2> QED BY <2>1 DEF Replaying
<1> QED BY <1>3, <1>4, <1>5, <1>6, <1>7, <1>8 DEF Next

\* Every step without a second revision keeps the invariant.
LEMMA ReplayInvStep ==
  ReplayInv /\ [Next]_vars /\ [\A e \in Entry : Revise(e) => ~Revised(e.target)]_vars
    => ReplayInv'
<1> SUFFICES ASSUME ReplayInv, [Next]_vars,
                    [\A e \in Entry : Revise(e) => ~Revised(e.target)]_vars
             PROVE  ReplayInv'
  OBVIOUS
<1>1. BalancedInv'
  BY BalancedStep DEF ReplayInv
<1>2. BookState /\ ControlState /\ AuthorityInv /\ ReplayOnCourse
  BY InvariantParts DEF ReplayInv, BalancedInv, AuthorityInv
<1>3. ReplayOnCourse'
  BY <1>2, ReplayStep
<1>4. Replayable(history')
  BY <1>1, <1>2, BookSteps, ReplayableKept DEF ReplayInv, BalancedInv
<1>5. \A s \in saved' : Replayable(s.history)
  <2>1. saved' = saved \/ saved' = {[epoch |-> epoch, ledgerGen |-> ledgerGen,
                                     accountGen |-> accountGen, history |-> history]}
    BY SavedMoves
  <2> QED BY <2>1 DEF ReplayInv
<1>6. Replaying' => Matches(accounts', history')
  BY <1>1, ReplayExact DEF ReplayInv
<1>7. Replayable(history)' /\ (\A s \in saved : Replayable(s.history))'
  BY <1>4, <1>5, Zenon DEF Replayable, Prefix, Fundable, Matches, TotalMatches, Sums, OfClass,
     ClassOf, RevsOf, PostsOf, Part, AdmittedBy
<1>8. (Replaying => Matches(accounts, history))'
  BY <1>6, Zenon DEF Matches, TotalMatches, Sums, OfClass, ClassOf, RevsOf, PostsOf, Part
<1> QED BY <1>1, <1>3, <1>7, <1>8 DEF ReplayInv

\* While a loop holds the mutex only its own turns and a kill change anything.
LEMMA BusySteps ==
  ASSUME [Next]_vars
  PROVE  LockFree \/ LoopStep \/ Construct \/ UNCHANGED vars
BY Zenon DEF Next, AppendEntry, AppendBatch, Reclassify, LoadHistory, LoadFromString,
   LoadRefused, SaveToString, AdvanceEpoch, SetEpoch, SetGenerations, RegisterWorker,
   UnregisterWorker, SetShuttingDown

\* A history that was committed once is accepted again, entry by entry, however
\* it came about (also past appends that overflowed, which left their traces in
\* the totals it was committed on), wherever it was saved and however often it is
\* reloaded, as long as no entry is revised twice, records from elsewhere were
\* committed by a ledger too, and no fence of the entries has moved on.
THEOREM ReplaysAreAccepted ==
  ASSUME GoodRecords
  PROVE  Spec /\ RevisionsAreFirst /\ []ReplaysUnfenced => ReplayAccepted
<1>1. Init => ReplayInv
  <2> SUFFICES ASSUME Init PROVE ReplayInv
    OBVIOUS
  <2>1. KnownPosts
    BY DEF Init, KnownPosts, KnownSeq, Idle
  <2>2. history = <<>> /\ accounts = NoTotals /\ saved = {} /\ loop = Idle
    BY DEF Init
  <2>3. BalancedInv
    BY <2>1, <2>2, EmptyBacked, AuthorityInit DEF BalancedInv, RevisedOnce
  <2>4. ~Replaying
    BY <2>2 DEF Replaying, Idle
  <2>5. Replayable(history) /\ \A s \in saved : Replayable(s.history)
    BY <2>2 DEF Replayable
  <2> QED BY <2>3, <2>4, <2>5 DEF ReplayInv, ReplayOnCourse
<1>2. ASSUME ReplayInv, [Next]_vars, ReplaysUnfenced,
             [\A e \in Entry : Revise(e) => ~Revised(e.target)]_vars
      PROVE  [Replaying /\ ~shuttingDown => reply' = "OK"]_vars
  <2> SUFFICES ASSUME Replaying, ~shuttingDown, ~UNCHANGED vars PROVE reply' = "OK"
    OBVIOUS
  <2>1. CASE LoopStep
    <3>1. \A e \in Entry : Revise(e) => ~Revised(e.target)
      BY <1>2
    <3>2. PICK s \in saved \cup Records : s.history = history \o loop.rest
      BY <1>2 DEF ReplayInv, ReplayOnCourse
    <3>3. Replayable(history \o loop.rest)
      BY <1>2, <3>2 DEF ReplayInv, GoodRecords
    <3> QED BY <1>2, <2>1, <3>1, <3>3, NextAccepted DEF ReplaysUnfenced, ReplayInv
  <2>2. CASE Construct
    BY <2>2 DEF Construct, Fresh
  <2>3. LockFree => FALSE
    BY DEF Replaying, LockFree
  <2> QED BY <1>2, <2>1, <2>2, <2>3, BusySteps
<1> QED BY <1>1, <1>2, ReplayInvStep, PTL DEF Spec, RevisionsAreFirst, ReplayAccepted
=============================================================================
