---------------------------- MODULE MCConcurrent ----------------------------
(***************************************************************************)
(* An instance of the ledger under several threads for TLC.                *)
(***************************************************************************)
EXTENDS ConcurrentLedger

\* One entry everybody appends, one that is shared, a gated one.
Mine == [BlankEntry EXCEPT !.id = 1, !.account = 1, !.usage = [d \in Dim |-> 1],
           !.attempt = 1, !.attemptGen = 1]
Ours == [BlankEntry EXCEPT !.id = 2, !.hasShared = TRUE, !.usage = [d \in Dim |-> 3],
           !.participants = <<[account |-> 1, weight |-> 1], [account |-> 2, weight |-> 2]>>]
Gone == [BlankEntry EXCEPT !.id = 3, !.event = "kRecoveryFailed", !.owner = 1,
           !.account = 2, !.usage = [d \in Dim |-> 1]]
Other == [Mine EXCEPT !.account = 2, !.attemptGen = NoId]
ThreadSubmissions == {Mine, Ours, Gone, Other}

\* A record in which another entry has the id of Mine.
OtherRecord == [epoch |-> 2, ledgerGen |-> 1, accountGen |-> 1, history |-> <<Other>>]
SharedRecord == [OtherRecord EXCEPT !.epoch = 1, !.history = <<Ours, Gone>>]
ThreadRecords == {OtherRecord, SharedRecord}

Req(revision, target) ==
  [revision |-> revision, target |-> target, class |-> "kAvoidableWaste",
   fences |-> NoFences, noteFits |-> TRUE]

C(op) == [NoCall EXCEPT !.op = op]
ThreadCalls ==
  { [C("append") EXCEPT !.entries = <<Mine>>],
    [C("batch") EXCEPT !.entries = <<Ours, Gone>>],
    [C("reclassify") EXCEPT !.req = Req(11, 1)],
    C("load"), C("load_history"), C("save"), C("set_shutting_down"),
    [C("set_epoch") EXCEPT !.epoch = 2] }
None == {}
OnlyOne == {1}
OnlyTwo == {2}
=============================================================================
