---------------------------- MODULE Attribution ----------------------------
(***************************************************************************)
(* Checked 64-bit arithmetic (resource.hpp) and the shared-work attribution *)
(* of the ledger (distribute_dim and compute_attribution in ledger.cpp):    *)
(* how the usage of one entry is split over the accounts that share it.     *)
(*                                                                         *)
(* Sums are recursive functions over the positions of a sequence, so that  *)
(* the modules that use them stay within reach of the proof system.        *)
(***************************************************************************)
EXTENDS Integers, Sequences, FiniteSets

CONSTANTS
  NDim,             \* number of resource dimensions (kDimensionCount)
  MaxU64,           \* largest value of a counter: 2^64 - 1, scaled down for TLC
  Accounts,         \* the account ids clients use, besides the residual one
  ResidualAccount   \* kResidualAccountValue

NoId == 0           \* an id, generation or fence that is not set

ASSUME DimAssumption == NDim \in Nat \ {0}
ASSUME WidthAssumption == MaxU64 \in Nat \ {0}
ASSUME AccountAssumption ==
  /\ Accounts \subseteq Nat \ {NoId}
  /\ ResidualAccount \in Nat \ {NoId}

AllAccounts == Accounts \cup {ResidualAccount}
Dim == 1..NDim
U64 == 0..MaxU64
Usage == [Dim -> U64]                       \* ResourceUsage, DimTotals
ZeroUsage == [d \in Dim |-> 0]
IsZero(u) == \A d \in Dim : u[d] = 0

\* checked_add / checked_sub succeed exactly when the result fits the width.
AddFits(a, b) == a + b <= MaxU64
SubFits(a, b) == b <= a

\* The sum of a sequence of numbers.
SumSeq(s) ==
  LET sum[i \in 0..Len(s)] == IF i = 0 THEN 0 ELSE sum[i - 1] + s[i]
  IN  sum[Len(s)]

-----------------------------------------------------------------------------
(***************************************************************************)
(* One dimension of one entry.  The weights' total is summed with          *)
(* checked_add; without weights, without an amount, or when the total      *)
(* overflows, everything is residual.  Otherwise every participant gets    *)
(* the floor of its exact share (mul_div has a 128-bit intermediate, so    *)
(* the product never wraps) and the units left over go, one each, to the   *)
(* largest remainders, the earlier participant first among equal ones.     *)
(* The checked_add over the floors cannot fail: they sum to at most the    *)
(* amount.                                                                 *)
(***************************************************************************)
Floors(amount, weights, total) ==
  [i \in DOMAIN weights |-> (amount * weights[i]) \div total]

\* How many participants come before i when the remainders are sorted.
RemainderRank(amount, weights, total, i) ==
  LET rem(j) == (amount * weights[j]) % total
  IN  Cardinality({j \in DOMAIN weights :
                     rem(j) > rem(i) \/ (rem(j) = rem(i) /\ j < i)})

\* Mutants of Bonus: leftover units dropped; handed out from the last position.
NoBonus(amount, weights, total, i) == 0
BonusFromTheEnd(amount, weights, total, i) ==
  LET leftover == amount - SumSeq(Floors(amount, weights, total))
  IN  IF i > Len(weights) - leftover THEN 1 ELSE 0

Bonus(amount, weights, total, i) ==
  LET leftover == amount - SumSeq(Floors(amount, weights, total))
  IN  IF RemainderRank(amount, weights, total, i) < leftover THEN 1 ELSE 0

distribute_dim(amount, weights) ==
  LET total == SumSeq(weights)
  IN  IF amount = 0 \/ total \notin 1..MaxU64
      THEN [out |-> [i \in DOMAIN weights |-> 0], residual |-> amount]
      ELSE [out |-> [i \in DOMAIN weights |->
                       Floors(amount, weights, total)[i]
                         + Bonus(amount, weights, total, i)],
            residual |-> 0]

-----------------------------------------------------------------------------
(***************************************************************************)
(* All dimensions of one entry.  The participants are the shared ones, or  *)
(* the primary account alone, or nobody.  An absent optional usage is the  *)
(* zero usage here: it adds nothing to any share.  The policy of a shared  *)
(* reference is not consulted by the code.                                 *)
(***************************************************************************)
Participants(e) ==
  IF e.participants # <<>> THEN e.participants
  ELSE IF e.account # NoId THEN <<[account |-> e.account, weight |-> 1]>>
  ELSE <<>>

compute_attribution(e) ==
  LET ps == Participants(e)
      weights == [i \in DOMAIN ps |-> ps[i].weight]
      part(u, i) == [d \in Dim |-> distribute_dim(u[d], weights).out[i]]
      rest(u) == [d \in Dim |-> distribute_dim(u[d], weights).residual]
      shares == [i \in DOMAIN ps |->
                   [account  |-> ps[i].account,
                    physical |-> part(e.usage, i),
                    avoided  |-> part(e.avoided, i),
                    stranded |-> part(e.stranded, i)]]
      residual == [account  |-> ResidualAccount,
                   physical |-> rest(e.usage),
                   avoided  |-> rest(e.avoided),
                   stranded |-> rest(e.stranded)]
  IN  IF IsZero(residual.physical) /\ IsZero(residual.avoided)
           /\ IsZero(residual.stranded)
      THEN shares
      ELSE Append(shares, residual)
=============================================================================
