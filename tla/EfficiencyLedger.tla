-------------------------- MODULE EfficiencyLedger --------------------------
(***************************************************************************)
(* The ledger object (ledger.hpp, ledger.cpp) as one caller at a time sees *)
(* it: every public operation that changes state is an action, and its     *)
(* answer is left in reply.                                                *)
(*                                                                         *)
(* append(vector) and load_history run append_locked on one entry after    *)
(* another without releasing the mutex.  loop holds what is left of such a *)
(* run; while it is not idle nothing else is enabled, as nobody else gets  *)
(* the mutex.                                                              *)
(*                                                                         *)
(* accounts and attempts are total: an account or attempt the code's maps  *)
(* do not hold reads as zero, respectively as pending without generation   *)
(* and publication, which is how every reader treats a missing key.  The   *)
(* code's index_ is the set of ids in history with their positions, set    *)
(* and cleared together with it, and is computed here.  epoch_advanced_,   *)
(* AttemptState::authoritative and ledger_id_ are never read.              *)
(***************************************************************************)
EXTENDS LedgerEntry

CONSTANTS
  Submissions,      \* the entries callers may append
  Batches,          \* the vectors callers may append
  Requests,         \* the reclassification requests callers may make
  Records,          \* the records callers may load besides the last one saved
  Epochs,           \* bound: the epochs the ledger may be moved to
  Generations,      \* bound: the ledger and account generations it may be given
  SaveBound         \* bound: only a history shorter than this is saved

VARIABLES
  epoch, ledgerGen, accountGen, shuttingDown, liveWorkers,
  history,          \* the committed entries, in order
  accounts,         \* per account, field and dimension: the totals
  attempts,         \* per attempt: outcome, generation, last publication
  completed,        \* per gate: the owners whose completion is recorded
  loop,             \* the rest of a batch or of a replay
  saved,            \* what save_to_string last wrote (a set of at most one)
  reply             \* the status the last operation returned

books == <<history, accounts, attempts, completed>>
authority == <<epoch, ledgerGen, accountGen, liveWorkers>>
vars == <<epoch, ledgerGen, accountGen, shuttingDown, liveWorkers, history,
          accounts, attempts, completed, loop, saved, reply>>

\* ReclassifyRequest.
Request == [revision: EntryIds \cup {NoId}, target: EntryIds \cup {NoId},
            class: EfficiencyClass, fences: Fences, noteFits: BOOLEAN]

ASSUME SubmissionAssumption ==
  /\ Submissions \subseteq Entry
  /\ Requests \subseteq Request
  /\ Batches \subseteq Seq(Submissions)
ASSUME BoundAssumption ==
  Epochs \subseteq Nat /\ Generations \subseteq Nat /\ SaveBound \in Nat

\* AccountAggregate, and the order in which apply_attribution adds its fields.
Field == {"physical", "avoided", "stranded", "useful", "overhead", "waste", "unknown"}
FieldRank == [physical |-> 1, avoided |-> 2, stranded |-> 3, useful |-> 4,
              overhead |-> 5, waste |-> 6, unknown |-> 7]
Bucket == {"useful", "overhead", "waste", "unknown"}
BucketOf(class) ==
  CASE class = "kUseful"            -> "useful"
    [] class = "kNecessaryOverhead" -> "overhead"
    [] class = "kAvoidableWaste"    -> "waste"
    [] OTHER                        -> "unknown"
Aggregate == [Field -> Usage]
NoTotals == [a \in AllAccounts |-> [f \in Field |-> ZeroUsage]]

AttemptState == [outcome: AttemptOutcome, generation: Nat, lastPublication: Nat]
NoAttempts == [t \in AttemptIds |->
                 [outcome |-> "kPending", generation |-> NoId, lastPublication |-> NoId]]

ErrorCode ==
  {"OK", "INVALID_INPUT", "DUPLICATE_ENTRY", "STALE_AUTHORITY", "NOT_AUTHORITATIVE",
   "OVERFLOW", "RECONCILIATION_FAILURE", "PERSISTENCE_CORRUPT", "SHUTTING_DOWN"}

\* The persisted record: the header's authority state and the entries.
Snapshot == [epoch: Nat, ledgerGen: Nat, accountGen: Nat, history: Seq(Entry)]
ASSUME RecordAssumption == Records \subseteq Snapshot

LoopKind == {"idle", "batch", "replay", "load"}
Idle == [kind |-> "idle", rest |-> <<>>]

TypeOK ==
  /\ epoch \in Nat /\ ledgerGen \in Nat /\ accountGen \in Nat
  /\ shuttingDown \in BOOLEAN
  /\ liveWorkers \subseteq Boots
  /\ history \in Seq(Entry)
  /\ accounts \in [AllAccounts -> Aggregate]
  /\ attempts \in [AttemptIds -> AttemptState]
  /\ completed \in [Gate -> SUBSET OwnerIds]
  /\ loop \in [kind: LoopKind, rest: Seq(Entry)]
  /\ saved \subseteq Snapshot
  /\ reply \in ErrorCode

Init ==
  /\ epoch = 1 /\ ledgerGen = 1 /\ accountGen = 1
  /\ shuttingDown = FALSE
  /\ liveWorkers = {}
  /\ history = <<>>
  /\ accounts = NoTotals
  /\ attempts = NoAttempts
  /\ completed = [g \in Gate |-> {}]
  /\ loop = Idle
  /\ saved = {}
  /\ reply = "OK"

-----------------------------------------------------------------------------
(***************************************************************************)
(* check_authority.  A fence that is not set is not checked; the worker's  *)
(* boot id is not checked while history is replayed.                       *)
(***************************************************************************)
Replaying == loop.kind \in {"replay", "load"}

StaleFences(e) ==
  \/ e.fences.epoch # NoId /\ e.fences.epoch # epoch
  \/ e.fences.ledgerGen # NoId /\ e.fences.ledgerGen # ledgerGen
  \/ e.fences.accountGen # NoId /\ e.fences.accountGen # accountGen

\* Mutant: the boot id checked also while history is replayed.
BootAlwaysChecked(e) == e.fences.boot # NoId /\ e.fences.boot \notin liveWorkers

StaleBoot(e) ==
  /\ ~Replaying
  /\ e.fences.boot # NoId
  /\ e.fences.boot \notin liveWorkers

\* Mutant: an entry that names no generation is held against the recorded one.
UnnamedIsStale(e) ==
  /\ attempts[e.attempt].generation # NoId
  /\ attempts[e.attempt].generation # e.attemptGen

StaleGeneration(e) ==
  LET st == attempts[e.attempt]
  IN  /\ st.generation # NoId
      /\ e.attemptGen # NoId
      /\ st.generation # e.attemptGen

\* Mutant: only a second outcome is fenced, not a late completion.
SecondOutcomeOnly(e) ==
  attempts[e.attempt].outcome # "kPending" /\ HasOutcome(e)

AlreadyTerminal(e) ==
  /\ attempts[e.attempt].outcome # "kPending"
  /\ HasOutcome(e) \/ e.event \in SignalEvent

\* Mutant: < for <=.
OlderPublicationOnly(e) ==
  LET last == attempts[e.attempt].lastPublication
  IN  e.fences.publication # NoId /\ last # NoId /\ e.fences.publication < last

StalePublication(e) ==
  LET last == attempts[e.attempt].lastPublication
  IN  /\ e.fences.publication # NoId
      /\ last # NoId
      /\ e.fences.publication <= last

Stale(e) ==
  \/ StaleFences(e)
  \/ StaleBoot(e)
  \/ /\ e.attempt # NoId
     /\ StaleGeneration(e) \/ AlreadyTerminal(e) \/ StalePublication(e)

\* The at-most-once gates.
\* Mutant: a failed recovery is not checked against the gate.
FailedRecoveryUnchecked(e) ==
  Gated(e) /\ e.event # "kRecoveryFailed" /\ e.owner \in completed[GateOf(e.event)]
\* Mutant: an id completed at one gate is taken for completed at every gate.
AnyGateCloses(e) == Gated(e) /\ \E g \in Gate : e.owner \in completed[g]
DuplicateCompletion(e) == Gated(e) /\ e.owner \in completed[GateOf(e.event)]

-----------------------------------------------------------------------------
(***************************************************************************)
(* apply_attribution.  The shares are first summed per account.  Then the  *)
(* accounts are visited in the order of an unordered map: each dimension's *)
(* fields are added in turn and the first sum that does not fit ends the   *)
(* whole call, with everything added so far left in place.  The result is  *)
(* the set of outcomes over the visiting orders.                           *)
(***************************************************************************)
Pending(e) ==
  LET shares == compute_attribution(e)
      of(a, f, d) == SumSeq([i \in DOMAIN shares |->
                               IF shares[i].account = a THEN shares[i][f][d] ELSE 0])
  IN  [a \in AllAccounts |-> [f \in Field |-> [d \in Dim |->
         IF f \notin Bucket THEN of(a, f, d)
         ELSE IF e.class \in ConsumptionClass /\ f = BucketOf(e.class)
         THEN of(a, "physical", d) ELSE 0]]]

\* Mutant: every sum checked by itself, without the early return.
FitsAlone(dst, agg, f, d) == AddFits(dst[f][d], agg[f][d])

\* Whether the additions up to and including field f of dimension d all fit.
Reached(dst, agg, f, d) ==
  \A k \in 1..d : \A g \in Field :
    k < d \/ FieldRank[g] <= FieldRank[f] => AddFits(dst[g][k], agg[g][k])

\* Mutants: no overflow check; assignment for addition.
AddUnchecked(dst, agg) == [f \in Field |-> [d \in Dim |-> dst[f][d] + agg[f][d]]]
Overwrite(dst, agg) ==
  [f \in Field |-> [d \in Dim |->
     IF Reached(dst, agg, f, d) THEN agg[f][d] ELSE dst[f][d]]]

AddAggregate(dst, agg) ==
  [f \in Field |-> [d \in Dim |->
     IF Reached(dst, agg, f, d) THEN dst[f][d] + agg[f][d] ELSE dst[f][d]]]

Overflowing(pending) ==
  {a \in AllAccounts : \E f \in Field, d \in Dim :
     ~AddFits(accounts[a][f][d], pending[a][f][d])}
AddTo(visited, pending) ==
  [a \in AllAccounts |-> IF a \in visited THEN AddAggregate(accounts[a], pending[a])
                         ELSE accounts[a]]

apply_attribution(e) ==
  LET pending == Pending(e)
      failing == Overflowing(pending)
  IN  IF pending \notin [AllAccounts -> Aggregate]
      THEN {[accounts |-> accounts, ok |-> FALSE]}
      ELSE IF failing = {}
      THEN {[accounts |-> AddTo(AllAccounts, pending), ok |-> TRUE]}
      ELSE {[accounts |-> AddTo(visited, pending), ok |-> FALSE] :
              visited \in {as \in SUBSET AllAccounts :
                             \E last \in failing : as \cap failing = {last}}}

(***************************************************************************)
(* apply_reclassify_locked.  The target's shares are computed anew and     *)
(* moved, share by share, out of the bucket of the class the target was    *)
(* appended with and into the bucket of the revision's class.  move_out    *)
(* and move_in write one dimension at a time and stop at the first that    *)
(* does not fit; nothing is rolled back.                                   *)
(***************************************************************************)
MoveOut(bucket, amount) ==
  [d \in Dim |-> IF \A k \in 1..d : SubFits(bucket[k], amount[k])
                 THEN bucket[d] - amount[d] ELSE bucket[d]]
\* Mutant: the usage moved out is not moved in.
MoveInForgotten(bucket, amount) == bucket

MoveIn(bucket, amount) ==
  [d \in Dim |-> IF \A k \in 1..d : AddFits(bucket[k], amount[k])
                 THEN bucket[d] + amount[d] ELSE bucket[d]]

MoveShare(st, share, old, new) ==
  LET agg == st.accounts[share.account]
      taken == [agg EXCEPT ![old] = MoveOut(@, share.physical)]
      moved == [taken EXCEPT ![new] = MoveIn(@, share.physical)]
      outOk == \A d \in Dim : SubFits(agg[old][d], share.physical[d])
      inOk == \A d \in Dim : AddFits(taken[new][d], share.physical[d])
  IN  IF ~st.ok THEN st
      ELSE [accounts |-> [st.accounts EXCEPT ![share.account] =
                            IF outOk THEN moved ELSE taken],
            ok |-> outOk /\ inOk]

MoveShares(totals, shares, old, new) ==
  LET run[i \in 0..Len(shares)] ==
        IF i = 0 THEN [accounts |-> totals, ok |-> TRUE]
        ELSE MoveShare(run[i - 1], shares[i], old, new)
  IN  run[Len(shares)]

-----------------------------------------------------------------------------
(***************************************************************************)
(* append_locked: the checks in their order, then the entry is posted or   *)
(* the revision applied.                                                   *)
(***************************************************************************)
\* Mutant: only the latest entry is looked up.
LatestIs(id) == history # <<>> /\ history[Len(history)].id = id

Committed(id) == \E i \in DOMAIN history : history[i].id = id
EntryOf(id) == history[CHOOSE i \in DOMAIN history : history[i].id = id]

RevisionVerdict(e) ==
  IF ~IsZero(e.usage) THEN "INVALID_INPUT"
  ELSE IF Stale(e) THEN "STALE_AUTHORITY"
  ELSE IF ~Committed(e.target) THEN "INVALID_INPUT"
  ELSE IF (EntryOf(e.target).class \in ConsumptionClass) # (e.class \in ConsumptionClass)
  THEN "INVALID_INPUT"
  ELSE "OK"

PostingVerdict(e) ==
  IF check_classification_consistency(e) # "OK" THEN check_classification_consistency(e)
  ELSE IF Stale(e) THEN "STALE_AUTHORITY"
  ELSE IF DuplicateCompletion(e) THEN "DUPLICATE_ENTRY"
  ELSE "OK"

\* Mutant: a replay goes on although the ledger shuts down.
VerdictReplayExempt(e) ==
  IF shuttingDown /\ ~Replaying THEN "SHUTTING_DOWN"
  ELSE IF ~validate(e) THEN "INVALID_INPUT"
  ELSE IF Committed(e.id) THEN "DUPLICATE_ENTRY"
  ELSE IF e.event = "kReclassify" THEN RevisionVerdict(e)
  ELSE PostingVerdict(e)

Verdict(e) ==
  IF shuttingDown THEN "SHUTTING_DOWN"
  ELSE IF ~validate(e) THEN "INVALID_INPUT"
  ELSE IF Committed(e.id) THEN "DUPLICATE_ENTRY"
  ELSE IF e.event = "kReclassify" THEN RevisionVerdict(e)
  ELSE PostingVerdict(e)

\* load_from_string answers every failure of the replay with one code.
Answer(status) ==
  reply' = IF loop.kind = "load" /\ status # "OK" THEN "PERSISTENCE_CORRUPT" ELSE status

Refuse(e) ==
  /\ Verdict(e) # "OK"
  /\ Answer(Verdict(e))
  /\ UNCHANGED books

\* Mutant: the last publication assigned, not raised.
PublicationAssigned(st, e) ==
  [outcome |-> IF HasOutcome(e) THEN e.outcome ELSE st.outcome,
   generation |-> IF HasOutcome(e) THEN e.attemptGen ELSE st.generation,
   lastPublication |-> e.fences.publication]

\* The attempt's new state: only an outcome records the generation.
AttemptAfter(st, e) ==
  [outcome |-> IF HasOutcome(e) THEN e.outcome ELSE st.outcome,
   generation |-> IF HasOutcome(e) THEN e.attemptGen ELSE st.generation,
   lastPublication |->
     IF e.fences.publication > st.lastPublication THEN e.fences.publication
     ELSE st.lastPublication]

Post(e) ==
  /\ Verdict(e) = "OK"
  /\ e.event # "kReclassify"
  /\ \E outcome \in apply_attribution(e) :
       /\ accounts' = outcome.accounts
       /\ Answer(IF outcome.ok THEN "OK" ELSE "OVERFLOW")
       /\ completed' = IF outcome.ok /\ Gated(e)
                       THEN [completed EXCEPT ![GateOf(e.event)] = @ \cup {e.owner}]
                       ELSE completed
       /\ attempts' = IF outcome.ok /\ e.attempt # NoId
                      THEN [attempts EXCEPT ![e.attempt] = AttemptAfter(@, e)]
                      ELSE attempts
       /\ history' = IF outcome.ok THEN Append(history, e) ELSE history

\* Mutant: the revision's own shares are moved, not its target's.
MovesOwnShares(e) ==
  MoveShares(accounts, compute_attribution(e),
             BucketOf(EntryOf(e.target).class), BucketOf(e.class))

\* Mutant: the usage is taken from the class it is to get.
MovesBackwards(e) ==
  LET target == EntryOf(e.target)
  IN  MoveShares(accounts, compute_attribution(target), BucketOf(e.class),
                 BucketOf(target.class))

\* What a revision does to the totals; between avoided work and stranded
\* capacity it moves nothing.
apply_reclassify_locked(e) ==
  LET target == EntryOf(e.target)
  IN  IF target.class \in ConsumptionClass
      THEN MoveShares(accounts, compute_attribution(target),
                      BucketOf(target.class), BucketOf(e.class))
      ELSE [accounts |-> accounts, ok |-> TRUE]

\* Mutant: the revision is written into its target.
ReviseInPlace(e) ==
  /\ Verdict(e) = "OK"
  /\ e.event = "kReclassify"
  /\ accounts' = apply_reclassify_locked(e).accounts
  /\ history' = [i \in DOMAIN history |->
                   IF history[i].id = e.target THEN [history[i] EXCEPT !.class = e.class]
                   ELSE history[i]]
  /\ Answer("OK")
  /\ UNCHANGED <<attempts, completed>>

Revise(e) ==
  /\ Verdict(e) = "OK"
  /\ e.event = "kReclassify"
  /\ LET outcome == apply_reclassify_locked(e)
     IN  /\ accounts' = outcome.accounts
         /\ Answer(IF outcome.ok THEN "OK" ELSE "RECONCILIATION_FAILURE")
         /\ history' = IF outcome.ok THEN Append(history, e) ELSE history
  /\ UNCHANGED <<attempts, completed>>

append_locked(e) == Refuse(e) \/ Post(e) \/ Revise(e)

-----------------------------------------------------------------------------
(***************************************************************************)
(* The operations.  Each takes the mutex, which a loop holds to its end.   *)
(***************************************************************************)
LockFree == loop.kind = "idle"

AppendEntry(e) ==
  /\ LockFree
  /\ append_locked(e)
  /\ UNCHANGED <<authority, shuttingDown, loop, saved>>

\* reclassify: the revision takes the account (or the residual one) and the
\* attempt of its target.
BlankRevision(req) ==
  [BlankEntry EXCEPT !.id = req.revision, !.event = "kReclassify", !.class = req.class,
     !.fences = req.fences, !.target = req.target, !.noteFits = req.noteFits]
Revision(req) ==
  LET t == EntryOf(req.target)
  IN  IF ~Committed(req.target) THEN BlankRevision(req)
      ELSE [BlankRevision(req) EXCEPT
              !.account = IF t.account # NoId THEN t.account ELSE ResidualAccount,
              !.attempt = t.attempt, !.attemptGen = t.attemptGen]

Reclassify(req) ==
  /\ LockFree
  /\ append_locked(Revision(req))
  /\ UNCHANGED <<authority, shuttingDown, loop, saved>>

\* Mutant: the first entry is skipped.
StartLoopLate(kind, entries) ==
  /\ loop' = IF Len(entries) < 2 THEN Idle ELSE [kind |-> kind, rest |-> Tail(entries)]
  /\ reply' = "OK"

\* A loop over no entries succeeds at once.
StartLoop(kind, entries) ==
  /\ loop' = IF entries = <<>> THEN Idle ELSE [kind |-> kind, rest |-> entries]
  /\ reply' = "OK"

AppendBatch(entries) ==
  /\ LockFree
  /\ StartLoop("batch", entries)
  /\ UNCHANGED <<authority, shuttingDown, saved, books>>

\* Mutant: a refused entry is tried again, with the status reset in between.
LoopRetries ==
  /\ ~LockFree
  /\ IF reply # "OK" THEN reply' = "OK" /\ UNCHANGED <<books, loop>>
     ELSE /\ append_locked(Head(loop.rest))
          /\ loop' = IF reply' # "OK" THEN loop
                     ELSE IF Len(loop.rest) > 1 THEN [loop EXCEPT !.rest = Tail(@)] ELSE Idle
  /\ UNCHANGED <<authority, shuttingDown, saved>>

\* One turn of the loop of append(vector) or load_history: it ends with the
\* entries or with the first status that is not OK.
LoopStep ==
  /\ ~LockFree
  /\ append_locked(Head(loop.rest))
  /\ loop' = IF reply' = "OK" /\ Len(loop.rest) > 1
             THEN [loop EXCEPT !.rest = Tail(@)] ELSE Idle
  /\ UNCHANGED <<authority, shuttingDown, saved>>

\* Mutants: the attempts, respectively the totals, survive the clearing.
ClearKeepsAttempts ==
  /\ history' = <<>>
  /\ accounts' = NoTotals
  /\ completed' = [g \in Gate |-> {}]
  /\ UNCHANGED attempts
ClearKeepsTotals ==
  /\ history' = <<>>
  /\ attempts' = NoAttempts
  /\ completed' = [g \in Gate |-> {}]
  /\ UNCHANGED accounts

ClearBooks ==
  /\ history' = <<>>
  /\ accounts' = NoTotals
  /\ attempts' = NoAttempts
  /\ completed' = [g \in Gate |-> {}]

\* load_history with the entries of an earlier save, on this ledger.
LoadHistory(s) ==
  /\ LockFree
  /\ ClearBooks
  /\ StartLoop("replay", s.history)
  /\ UNCHANGED <<authority, shuttingDown, saved>>

\* load_from_string: every entry is decoded before anything is touched, then
\* the header is taken over, then load_history.
Decodes(s) == \A i \in DOMAIN s.history : decode_entry(s.history[i])

LoadFromString(s) ==
  /\ LockFree
  /\ Decodes(s)
  /\ epoch' = s.epoch /\ ledgerGen' = s.ledgerGen /\ accountGen' = s.accountGen
  /\ shuttingDown' = FALSE
  /\ ClearBooks
  /\ StartLoop("load", s.history)
  /\ UNCHANGED <<liveWorkers, saved>>

LoadRefused(s) ==
  /\ LockFree
  /\ ~Decodes(s)
  /\ reply' = "PERSISTENCE_CORRUPT"
  /\ UNCHANGED <<authority, shuttingDown, loop, saved, books>>

SaveToString ==
  /\ LockFree
  /\ Len(history) < SaveBound
  /\ saved' = {[epoch |-> epoch, ledgerGen |-> ledgerGen, accountGen |-> accountGen,
                history |-> history]}
  /\ reply' = "OK"
  /\ UNCHANGED <<authority, shuttingDown, loop, books>>

\* A new ledger object: another process, or the old one killed at any point.
Fresh ==
  /\ epoch' = 1 /\ ledgerGen' = 1 /\ accountGen' = 1
  /\ shuttingDown' = FALSE
  /\ liveWorkers' = {}
  /\ ClearBooks
  /\ loop' = Idle
  /\ reply' = "OK"
Construct == Fresh /\ UNCHANGED saved

AdvanceEpoch ==
  /\ LockFree
  /\ epoch + 1 \in Epochs
  /\ epoch' = epoch + 1
  /\ UNCHANGED <<ledgerGen, accountGen, liveWorkers, shuttingDown, loop, saved, reply, books>>

SetEpoch(v) ==
  /\ LockFree
  /\ epoch' = v
  /\ UNCHANGED <<ledgerGen, accountGen, liveWorkers, shuttingDown, loop, saved, reply, books>>

\* set_ledger_generation, set_account_generation and set_system_generation.
SetGenerations(lg, ag) ==
  /\ LockFree
  /\ ledgerGen' = lg /\ accountGen' = ag
  /\ UNCHANGED <<epoch, liveWorkers, shuttingDown, loop, saved, reply, books>>

RegisterWorker(b) ==
  /\ LockFree
  /\ liveWorkers' = liveWorkers \cup {b}
  /\ UNCHANGED <<epoch, ledgerGen, accountGen, shuttingDown, loop, saved, reply, books>>

UnregisterWorker(b) ==
  /\ LockFree
  /\ liveWorkers' = liveWorkers \ {b}
  /\ UNCHANGED <<epoch, ledgerGen, accountGen, shuttingDown, loop, saved, reply, books>>

SetShuttingDown ==
  /\ LockFree
  /\ shuttingDown' = TRUE
  /\ UNCHANGED <<authority, loop, saved, reply, books>>

Next ==
  \/ \E e \in Submissions : AppendEntry(e)
  \/ \E es \in Batches : AppendBatch(es)
  \/ \E req \in Requests : Reclassify(req)
  \/ LoopStep
  \/ \E s \in saved \cup Records : LoadHistory(s) \/ LoadFromString(s) \/ LoadRefused(s)
  \/ SaveToString
  \/ Construct
  \/ AdvanceEpoch
  \/ \E v \in Epochs : SetEpoch(v)
  \/ \E lg, ag \in Generations : SetGenerations(lg, ag)
  \/ \E b \in Boots : RegisterWorker(b) \/ UnregisterWorker(b)
  \/ SetShuttingDown

Spec == Init /\ [][Next]_vars
=============================================================================
