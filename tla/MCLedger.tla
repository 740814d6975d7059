------------------------------ MODULE MCLedger ------------------------------
(***************************************************************************)
(* Instances of the ledger for TLC.  Each group of definitions below is    *)
(* the traffic of one run; the configurations pick among them.             *)
(***************************************************************************)
EXTENDS LedgerProperties

\* An entry of one account with the given usage.
Mk(id, event, class, account, usage) ==
  [BlankEntry EXCEPT !.id = id, !.event = event, !.class = class,
                     !.account = account, !.usage = usage]

None == {}

-----------------------------------------------------------------------------
\* Parts shared by the groups.
Try(id, event, class, gen, pub, outcome) ==
  [Mk(id, event, class, 1, [d \in Dim |-> 1]) EXCEPT
     !.attempt = 1, !.attemptGen = gen, !.fences.publication = pub, !.outcome = outcome]

Shared(id, class, usage, ps) ==
  [Mk(id, "kExecutionProgress", class, 0, usage) EXCEPT
     !.hasShared = TRUE, !.participants = ps]
P(account, weight) == [account |-> account, weight |-> weight]

Req(revision, target, class) ==
  [revision |-> revision, target |-> target, class |-> class, fences |-> NoFences,
   noteFits |-> TRUE]

-----------------------------------------------------------------------------
\* Attempts: two tries of one attempt, late completions, a reuse, publications,
\* a shared entry with a repeated participant.
AttemptSubmissions ==
  { [Shared(1, "kAvoidableWaste", <<2, 3>>, <<P(1, 1), P(2, 1), P(1, 1)>>) EXCEPT
       !.attempt = 1, !.attemptGen = 1],
    Try(2, "kOutputPublished",    "kUseful",         1, 1, "kSucceeded"),
    Try(3, "kAttemptFailed",      "kAvoidableWaste", 2, 0, "kFailed"),
    [Try(4, "kExecutionCompleted", "kUnknown",       0, 0, "kPending") EXCEPT
       !.fences.epoch = 2, !.fences.ledgerGen = 2],
    [Try(5, "kStateReused",       "kUseful",         2, 1, "kPending") EXCEPT
       !.fences.accountGen = 2],
    Try(6, "kExecutionProgress",  "kUnknown",        1, 2, "kPending"),
    [Try(7, "kCacheHit", "kAvoidedWork", 0, 0, "kPending") EXCEPT
       !.usage = ZeroUsage, !.hasAvoided = TRUE, !.avoided = [d \in Dim |-> 2]] }

\* Refused whatever the state: no owner, no publication, mixed evidence.
MalformedSubmissions ==
  { [Mk(8, "kExecutionStarted", "kUnknown", 0, ZeroUsage) EXCEPT !.outcome = "kFailed"],
    Mk(8, "kExecutionCompleted", "kUseful", 1, ZeroUsage) }

\* One revision per entry, within and across the kinds of classes, and one of a
\* revision.
AttemptRequests ==
  {Req(11, 1, "kNecessaryOverhead"), Req(12, 7, "kUnknown"), Req(13, 11, "kUnknown")}

AttemptTraffic == AttemptSubmissions \cup MalformedSubmissions
OneOrTwo == 1..2
OnlyTwo == {2}

-----------------------------------------------------------------------------
\* Books at their limits: shared entries with equal and repeated participants,
\* an entry nobody owns, avoided work, totals that do not fit.
SplitEntry == Shared(1, "kAvoidableWaste", <<3, 2>>, <<P(1, 1), P(2, 2)>>)
TwiceEntry == Shared(2, "kAvoidableWaste", <<2, 3>>, <<P(1, 1), P(2, 1), P(1, 1)>>)
NobodysEntry == Shared(3, "kUnknown", <<1, 1>>, <<>>)
PlainEntry == Mk(4, "kRetryStarted", "kUnknown", 2, <<1, 2>>)
AvoidedEntry(id, avoided) ==
  [Mk(id, "kCacheHit", "kAvoidedWork", 1, ZeroUsage) EXCEPT
     !.hasAvoided = TRUE, !.avoided = avoided]

LimitSubmissions ==
  { SplitEntry, TwiceEntry, NobodysEntry,
    Mk(5, "kTransferDiscarded", "kNecessaryOverhead", 1, <<2, 1>>),
    AvoidedEntry(6, <<2, 3>>), [AvoidedEntry(7, <<2, 1>>) EXCEPT
                                  !.hasStranded = TRUE, !.stranded = <<1, 0>>],
    \* refused: weights that overflow, a shared entry with a worthless part
    Shared(8, "kUnknown", <<1, 1>>, <<P(1, 3), P(2, 3)>>),
    Shared(8, "kUnknown", <<1, 1>>, <<P(1, 0), P(2, 1)>>),
    Shared(8, "kUnknown", <<1, 1>>, <<P(1, 1), P(1, 1), P(1, 1), P(1, 1)>>) }

\* One entry revised twice, one of another class once, each into the other's class.
LimitRequests ==
  {Req(11, 1, "kNecessaryOverhead"), Req(12, 1, "kUnknown"),
   Req(13, 5, "kAvoidableWaste")}

\* Revisions of shared and plain entries, one entry revised twice.
RevisionSubmissions ==
  {SplitEntry, TwiceEntry, PlainEntry,
   Mk(5, "kTransferDiscarded", "kAvoidableWaste", 1, <<1, 0>>),
   \* a revision on the wire that would consume
   [Mk(8, "kReclassify", "kUnknown", 1, <<1, 0>>) EXCEPT !.target = 1]}
RevisionRequests ==
  {Req(11, 1, "kNecessaryOverhead"), Req(12, 1, "kUnknown"),
   Req(13, 2, "kAvoidableWaste"), Req(14, 4, "kAvoidableWaste")}

-----------------------------------------------------------------------------
\* Persistence: gated completions, worker boots, attempts and a revision, in
\* single appends and in a batch, saved, reloaded and replayed.
Done(id, event, owner) ==
  [Mk(id, event, "kNecessaryOverhead", 1, [d \in Dim |-> 1]) EXCEPT !.owner = owner]

ReplaySubmissions ==
  { [Done(1, "kRecoveryCompleted", 1) EXCEPT !.fences.boot = 1],
    Done(2, "kRecoveryFailed", 1),
    [Try(3, "kOutputPublished", "kUseful", 1, 1, "kSucceeded") EXCEPT
       !.fences.boot = 1],
    [Try(4, "kExecutionCompleted", "kUnknown", 1, 0, "kPending") EXCEPT
       !.noteFits = FALSE] }
ReplayRequests == {Req(11, 3, "kNecessaryOverhead")}

ReplayBatches ==
  { <<>>, <<Done(5, "kTransferCompleted", 1), Done(6, "kTransferCompleted", 1)>> }
GateSubmissions ==
  ReplaySubmissions \cup {Done(5, "kTransferCompleted", 1), Done(6, "kTransferCompleted", 1)}

\* Fences: entries bound to an epoch and to nothing.
Fenced(id, fences) ==
  [Mk(id, "kExecutionStarted", "kUnknown", 1, [d \in Dim |-> 1]) EXCEPT !.fences = fences]
FencedSubmissions == {Fenced(1, [NoFences EXCEPT !.epoch = 1]), Fenced(2, NoFences)}
=============================================================================
