--------------------------- MODULE MCCoordinator ---------------------------
(***************************************************************************)
(* Instances of the coordinator for TLC: what its clients send and how it  *)
(* is started and killed.                                                  *)
(***************************************************************************)
EXTENDS Coordinator, TLC

\* el_worker's append: published work of one attempt, bound to a boot id.
WorkerEntry ==
  [BlankEntry EXCEPT !.id = 1, !.event = "kOutputPublished", !.class = "kUseful",
     !.account = 1, !.usage = [d \in Dim |-> 1], !.fences.publication = 1,
     !.fences.boot = 1, !.attempt = 1, !.outcome = "kSucceeded"]
\* A client that binds its entry to nothing, and a revision on the wire.
PlainEntry ==
  [BlankEntry EXCEPT !.id = 2, !.account = 1, !.usage = [d \in Dim |-> 2]]
RevisionEntry ==
  [BlankEntry EXCEPT !.id = 3, !.event = "kReclassify", !.class = "kAvoidableWaste",
     !.account = 1, !.target = 1]
\* An entry bound to the epoch it was sent in.
EpochEntry == [PlainEntry EXCEPT !.id = 4, !.fences.epoch = 1]
\* An append whose body decode_entry rejects.
BadEntry == [PlainEntry EXCEPT !.noteFits = FALSE]

Msg(kind, boot, entry) == [kind |-> kind, boot |-> boot, entry |-> entry]
Bare(kind) == Msg(kind, NoId, BlankEntry)
Append_(e) == Msg("kAppend", NoId, e)
Register(b) == Msg("kRegister", b, BlankEntry)

WireSubmissions == {WorkerEntry, PlainEntry, RevisionEntry, EpochEntry, BadEntry}
Revise_(e) == Msg("kReclassify", NoId, e)
WorkerMessages == {Register(1), Append_(WorkerEntry), Append_(PlainEntry), Revise_(RevisionEntry)}
DurableMessages ==
  { Register(1), Register(2), Append_(WorkerEntry), Revise_(RevisionEntry), Append_(BadEntry),
    Bare("kQueryDigest"), Bare("kUnknown"), Bare("kShutdown") }
\* The totals have no room for both entries.
ServiceMessages ==
  {Append_(EpochEntry), Append_(PlainEntry), Bare("malformed"), Bare("kShutdown")}

\* --load, with the epoch of the record or a new one; or without --load.
Restarts == [load: {TRUE}, epoch: {NoId, 2}]
AnyStart == [load: BOOLEAN, epoch: {NoId}]

Anywhere == ProcPoint \ {"down"}
Empty == {}
OneOrTwo == 1..2

\* The clients differ in nothing but what they happen to send.
ClientSymmetry == Permutations(Clients)
=============================================================================
