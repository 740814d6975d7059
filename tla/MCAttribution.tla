--------------------------- MODULE MCAttribution ---------------------------
(***************************************************************************)
(* Every bounded input of distribute_dim: an amount, and a sequence of     *)
(* weights built one participant at a time.  The results are compared with *)
(* definitions that do not mention how the split is computed.              *)
(***************************************************************************)
EXTENDS Attribution

CONSTANTS MaxWeight, MaxWeights

VARIABLES amount, weights
vars == <<amount, weights>>

Init == amount \in U64 /\ weights = <<>>

AddParticipant(w) ==
  /\ Len(weights) < MaxWeights
  /\ weights' = Append(weights, w)
  /\ UNCHANGED amount

Next == \E w \in 0..MaxWeight : AddParticipant(w)

Spec == Init /\ [][Next]_vars

Split == distribute_dim(amount, weights)

\* What distribute_dim hands out and its residual add up to the amount, so no
\* unit of a shared entry is lost or counted twice; no share wraps.
Conserved ==
  /\ SumSeq(Split.out) + Split.residual = amount
  /\ \A i \in DOMAIN weights : Split.out[i] \in U64

\* Distance of a split from the exact proportional one, scaled by the total.
Deviation(split) ==
  LET total == SumSeq(weights)
      diff(i) == split[i] * total - amount * weights[i]
  IN  SumSeq([i \in DOMAIN weights |-> IF diff(i) < 0 THEN - diff(i) ELSE diff(i)])

\* The code's split (std::sort by remainder, ties by position) is a closest one:
\* no whole-number split of the amount lies nearer to the exact proportions, and
\* among the equally near splits that round every share down or up by one it is
\* the one that favours the earlier participants.  The split is thereby fully
\* determined, whatever order the sort visits equal remainders in.
ClosestSplit ==
  Split.residual = 0 /\ amount > 0 =>
    LET n == Len(weights)
        total == SumSeq(weights)
        whole == {s \in [1..n -> 0..amount] : SumSeq(s) = amount}
        before(s, t) == \E i \in 1..n : /\ s[i] > t[i]
                                        /\ \A j \in 1..(i - 1) : s[j] = t[j]
    IN  \A s \in whole :
          /\ Deviation(s) >= Deviation(Split.out)
          /\ Deviation(s) = Deviation(Split.out)
               /\ (\A i \in 1..n : s[i] >= Floors(amount, weights, total)[i]
                                   /\ s[i] <= Floors(amount, weights, total)[i] + 1)
             => ~ before(s, Split.out)
=============================================================================
