---------------------------- MODULE LedgerEntry ----------------------------
(***************************************************************************)
(* The accounting entry (entry.hpp, enums.hpp, attribution.hpp) and the    *)
(* checks that look at an entry alone: validate, the class predicates and  *)
(* check_classification_consistency.                                       *)
(*                                                                         *)
(* Left out of the record: the subcategory, the provenance and the         *)
(* freshness, which no decision of the ledger reads beyond the range check *)
(* that inRange stands for, and the generations of AuthorityFences that    *)
(* check_authority never looks at.  Of the note only its length matters.   *)
(* owner is the one id of Owners that the event's lifecycle gate reads.    *)
(***************************************************************************)
EXTENDS Attribution

CONSTANTS
  EntryIds,         \* accounting entry ids (never NoId)
  AttemptIds,       \* attempt ids (never NoId)
  OwnerIds,         \* transfer / reservation / allocation / recovery ids
  Boots,            \* worker boot ids
  MaxParticipants   \* kMaxSharedParticipants

ASSUME IdAssumption ==
  /\ NoId \notin EntryIds /\ NoId \notin AttemptIds
  /\ NoId \notin OwnerIds /\ NoId \notin Boots
ASSUME ParticipantAssumption == MaxParticipants \in Nat

ConsumptionClass == {"kUseful", "kNecessaryOverhead", "kAvoidableWaste", "kUnknown"}
EfficiencyClass == ConsumptionClass \cup {"kAvoidedWork", "kStrandedCapacity"}

AttemptOutcome == {"kPending", "kSucceeded", "kFailed", "kCancelled", "kSuperseded"}

ReuseEvent == {"kCacheHit", "kStateReused", "kCheckpointRestored"}

\* The completions that a terminal attempt no longer accepts.
SignalEvent ==
  {"kExecutionCompleted", "kOutputPublished", "kOutputRejected", "kWorkAccepted",
   "kWorkRejected", "kCommitAuthorized", "kCommitRejected"}

\* The events of the at-most-once gates, with the set that records them:
\* the two ends of a recovery share one.
Gate == {"transfer", "reservation", "allocation", "recovery"}
LifecycleEvent ==
  {"kTransferCompleted", "kReservationReleased", "kAllocationReleased",
   "kRecoveryCompleted", "kRecoveryFailed"}
GateOf(event) ==
  CASE event = "kTransferCompleted"   -> "transfer"
    [] event = "kReservationReleased" -> "reservation"
    [] event = "kAllocationReleased"  -> "allocation"
    [] OTHER                          -> "recovery"

\* No decision of the ledger tells the remaining events apart.
OtherEvent ==
  {"kExecutionStarted", "kExecutionProgress", "kAttemptFailed", "kAttemptCancelled",
   "kAttemptSuperseded", "kRetryStarted", "kTransferStarted", "kTransferDiscarded",
   "kResidencyAcquired", "kResidencyReleased", "kReservationAcquired", "kCacheMiss",
   "kStateRecomputed", "kCheckpointWritten", "kRecoveryStarted",
   "kAllocationAcquired", "kFragmentationObserved", "kCapacityStranded",
   "kCapacityRestored", "kClassify"}

EventType ==
  ReuseEvent \cup SignalEvent \cup LifecycleEvent \cup OtherEvent \cup {"kReclassify"}

\* AuthorityFences: NoId is an unset fence.
Fences == [epoch: Nat, boot: Boots \cup {NoId}, ledgerGen: Nat, accountGen: Nat,
           publication: Nat]
NoFences == [epoch |-> NoId, boot |-> NoId, ledgerGen |-> NoId,
             accountGen |-> NoId, publication |-> NoId]

Participant == [account: AllAccounts \cup {NoId}, weight: U64]

EntryRecord ==
  [id: EntryIds \cup {NoId}, event: EventType, class: EfficiencyClass,
   inRange: BOOLEAN, noteFits: BOOLEAN, usage: Usage,
   hasAvoided: BOOLEAN, avoided: Usage, hasStranded: BOOLEAN, stranded: Usage,
   account: AllAccounts \cup {NoId}, hasShared: BOOLEAN,
   participants: Seq(Participant), fences: Fences, owner: OwnerIds \cup {NoId},
   attempt: AttemptIds \cup {NoId}, attemptGen: Nat, outcome: AttemptOutcome,
   target: EntryIds \cup {NoId}]

\* LedgerEntry: an optional that is absent carries nothing.
Entry ==
  {e \in EntryRecord : /\ ~e.hasAvoided => e.avoided = ZeroUsage
                       /\ ~e.hasStranded => e.stranded = ZeroUsage
                       /\ ~e.hasShared => e.participants = <<>>}

\* A default-constructed LedgerEntry.
BlankEntry ==
  [id |-> NoId, event |-> "kExecutionCompleted", class |-> "kUnknown",
   inRange |-> TRUE, noteFits |-> TRUE, usage |-> ZeroUsage,
   hasAvoided |-> FALSE, avoided |-> ZeroUsage,
   hasStranded |-> FALSE, stranded |-> ZeroUsage,
   account |-> NoId, hasShared |-> FALSE, participants |-> <<>>,
   fences |-> NoFences, owner |-> NoId, attempt |-> NoId, attemptGen |-> NoId,
   outcome |-> "kPending", target |-> NoId]

-----------------------------------------------------------------------------
HasOutcome(e) == e.outcome # "kPending"

\* SharedRef::valid: the weights' total is summed with checked_add.
SharedValid(ps) ==
  /\ Len(ps) <= MaxParticipants
  /\ \A i \in DOMAIN ps : ps[i].account # NoId /\ ps[i].weight # 0
  /\ SumSeq([i \in DOMAIN ps |-> ps[i].weight]) <= MaxU64

validate(e) ==
  /\ e.id # NoId
  /\ e.inRange
  /\ e.hasShared => SharedValid(e.participants)
  /\ HasOutcome(e) => e.attempt # NoId
  /\ e.account # NoId \/ e.hasShared

\* encode_entry writes any entry; decode_entry gives the entry back unless its
\* note is longer than 1 MiB or it has too many participants.
decode_entry(e) == e.noteFits /\ Len(e.participants) <= MaxParticipants

\* The at-most-once gates apply to a lifecycle completion that names its owner.
Gated(e) == e.event \in LifecycleEvent /\ e.owner # NoId

is_authoritative_use(e) == e.fences.publication # NoId \/ e.event \in ReuseEvent

\* The code of the first check that fails, or "OK".
check_classification_consistency(e) ==
  IF \/ e.class = "kAvoidedWork" /\ (~IsZero(e.usage) \/ ~e.hasAvoided)
     \/ e.class = "kStrandedCapacity" /\ (~IsZero(e.usage) \/ ~e.hasStranded)
     \/ e.class \in ConsumptionClass /\ (e.hasAvoided \/ e.hasStranded)
  THEN "INVALID_INPUT"
  ELSE IF e.class = "kUseful" /\ ~is_authoritative_use(e) THEN "NOT_AUTHORITATIVE"
  ELSE "OK"
=============================================================================
