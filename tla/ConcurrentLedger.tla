-------------------------- MODULE ConcurrentLedger --------------------------
(***************************************************************************)
(* The ledger called by several threads at once.  Every operation does its *)
(* work between taking mutex_ and releasing it, with two exceptions:       *)
(* reclassify looks up its target before it takes the mutex, and           *)
(* load_from_string takes it twice, once to take over the header and clear *)
(* the books and once, in load_history, to replay.                         *)
(*                                                                         *)
(* A lookup while another thread is inside a writing operation is a data   *)
(* race on index_ and history_: it may find nothing, find any account and  *)
(* attempt, or crash the process.                                          *)
(*                                                                         *)
(* The queries only read and hold the mutex while they do; they are left   *)
(* out.  advance_epoch, the generations and the worker registry are set    *)
(* under the mutex like the epoch, which stands for them.                  *)
(***************************************************************************)
EXTENDS LedgerProperties

CONSTANTS
  Threads,      \* the calling threads (never NoId)
  Calls,        \* the calls they may make; a load takes its record from Records
  CallBound     \* bound: the calls made altogether

VARIABLES
  pc,           \* per thread: where it is in its call
  call,         \* per thread: the call it is making
  rev,          \* per thread: the revision reclassify has built
  holder,       \* the thread that holds mutex_, or NoId
  made,         \* the calls made so far
  oks           \* per entry id: the appends answered with OK since the books
                \* were last cleared (recorded for the properties)

threads == <<pc, call, rev, holder, made>>
cvars == <<vars, threads, oks>>

Point == {"idle", "read", "lock", "relock", "in", "again", "loop"}
WritingOp == {"append", "batch", "reclassify", "load", "load_history"}
Op == WritingOp \cup {"save", "set_epoch", "set_shutting_down", "none"}
NoRecord == [epoch |-> NoId, ledgerGen |-> NoId, accountGen |-> NoId, history |-> <<>>]
NoRequest == [revision |-> NoId, target |-> NoId, class |-> "kUnknown",
              fences |-> NoFences, noteFits |-> TRUE]
NoCall == [op |-> "none", entries |-> <<>>, req |-> NoRequest, record |-> NoRecord,
           epoch |-> NoId]
Call == [op: Op, entries: Seq(Entry), req: Request, record: Snapshot, epoch: Nat]

ASSUME ThreadAssumption ==
  /\ NoId \notin Threads
  /\ Calls \subseteq Call
  /\ \A c \in Calls :
       /\ c.op = "append" => c.entries \in Seq(Submissions) /\ Len(c.entries) = 1
       /\ c.op = "set_epoch" => c.epoch \in Epochs
  /\ CallBound \in Nat

\* Generations bounds the attempts' generations too: those of the entries the
\* calls bring in and of what a torn read may find.
KnownGen(e) == e.attemptGen \in Generations \cup {NoId}
ASSUME GenerationAssumption ==
  /\ \A c \in Calls : \A i \in DOMAIN c.entries : KnownGen(c.entries[i])
  /\ \A s \in Records : \A i \in DOMAIN s.history : KnownGen(s.history[i])

CInit ==
  /\ Init
  /\ pc = [t \in Threads |-> "idle"]
  /\ call = [t \in Threads |-> NoCall]
  /\ rev = [t \in Threads |-> BlankEntry]
  /\ holder = NoId
  /\ made = 0
  /\ oks = [id \in EntryIds |-> 0]

-----------------------------------------------------------------------------
(***************************************************************************)
(* Before the mutex.                                                       *)
(***************************************************************************)
Goto(t, point) == pc' = [pc EXCEPT ![t] = point]

\* A load decodes its record before it takes the mutex.
Enter(t) ==
  /\ pc[t] = "idle"
  /\ made < CallBound
  /\ \E c \in Calls, s \in {NoRecord} \cup Records :
       /\ s # NoRecord <=> c.op \in {"load", "load_history"}
       /\ Decodes(s)
       /\ call' = [call EXCEPT ![t] = [c EXCEPT !.record = s]]
       /\ Goto(t, IF c.op = "reclassify" THEN "read" ELSE "lock")
  /\ made' = made + 1
  /\ UNCHANGED <<vars, rev, holder, oks>>

\* Another thread is inside an operation that writes what reclassify reads.
Racing(t) == holder # NoId /\ call[holder].op \in WritingOp

\* What a torn lookup may find of its target, nothing included.
Found == [account: AllAccounts \cup {NoId}, attempt: AttemptIds \cup {NoId},
          attemptGen: Generations \cup {NoId}]
TornRevisions(req) ==
  {[BlankRevision(req) EXCEPT !.account = f.account, !.attempt = f.attempt,
                              !.attemptGen = f.attemptGen] : f \in Found}

ReadTarget(t) ==
  /\ pc[t] = "read"
  /\ \E r \in IF Racing(t) THEN TornRevisions(call[t].req) ELSE {Revision(call[t].req)} :
       rev' = [rev EXCEPT ![t] = r]
  /\ Goto(t, "lock")
  /\ UNCHANGED <<vars, call, holder, made, oks>>

\* The race ends the process; another one starts.
RaceCrash(t) ==
  /\ pc[t] = "read"
  /\ Racing(t)
  /\ Construct
  /\ pc' = [u \in Threads |-> "idle"]
  /\ call' = [u \in Threads |-> NoCall]
  /\ rev' = [u \in Threads |-> BlankEntry]
  /\ holder' = NoId
  /\ oks' = [id \in EntryIds |-> 0]
  /\ UNCHANGED made

\* Mutant: the mutex is not waited for.
AcquireAnyway(t) ==
  /\ pc[t] \in {"lock", "relock"}
  /\ holder' = t
  /\ Goto(t, IF pc[t] = "lock" THEN "in" ELSE "again")
  /\ UNCHANGED <<vars, call, rev, made, oks>>

Acquire(t) ==
  /\ pc[t] \in {"lock", "relock"}
  /\ holder = NoId
  /\ holder' = t
  /\ Goto(t, IF pc[t] = "lock" THEN "in" ELSE "again")
  /\ UNCHANGED <<vars, call, rev, made, oks>>

-----------------------------------------------------------------------------
(***************************************************************************)
(* Inside the mutex.                                                       *)
(***************************************************************************)
Inside(t, ops) == pc[t] = "in" /\ call[t].op \in ops

Return(t) ==
  /\ Goto(t, "idle")
  /\ call' = [call EXCEPT ![t] = NoCall]
  /\ rev' = [rev EXCEPT ![t] = BlankEntry]
  /\ holder' = NoId
  /\ UNCHANGED made

\* The mutex is held until the loop has made its last turn.
ReturnWhenDone(t) ==
  IF loop' = Idle THEN Return(t) ELSE Goto(t, "loop") /\ UNCHANGED <<call, rev, holder, made>>

CallAppend(t) ==
  /\ Inside(t, {"append", "reclassify"})
  /\ LET e == IF call[t].op = "append" THEN Head(call[t].entries) ELSE rev[t]
     IN  /\ append_locked(e)
         /\ oks' = IF reply' = "OK" THEN [oks EXCEPT ![e.id] = @ + 1] ELSE oks
  /\ UNCHANGED <<authority, shuttingDown, loop, saved>>
  /\ Return(t)

CallBatch(t) ==
  /\ Inside(t, {"batch"})
  /\ StartLoop("batch", call[t].entries)
  /\ UNCHANGED <<authority, shuttingDown, saved, books, oks>>
  /\ ReturnWhenDone(t)

\* load_from_string's own critical section; load_history follows.
LoadHeader(t) ==
  /\ Inside(t, {"load"})
  /\ LET s == call[t].record
     IN  epoch' = s.epoch /\ ledgerGen' = s.ledgerGen /\ accountGen' = s.accountGen
  /\ shuttingDown' = FALSE
  /\ ClearBooks
  /\ reply' = "OK"
  /\ Goto(t, "relock")
  /\ holder' = NoId
  /\ oks' = [id \in EntryIds |-> 0]
  /\ UNCHANGED <<liveWorkers, loop, saved, call, rev, made>>

Replay(t) ==
  /\ Inside(t, {"load_history"}) \/ pc[t] = "again"
  /\ ClearBooks
  /\ StartLoop("replay", call[t].record.history)
  /\ oks' = [id \in EntryIds |-> 0]
  /\ UNCHANGED <<authority, shuttingDown, saved>>
  /\ ReturnWhenDone(t)

LoopTurn(t) ==
  /\ pc[t] = "loop"
  /\ LoopStep
  /\ UNCHANGED oks
  /\ ReturnWhenDone(t)

CallSave(t) ==
  /\ Inside(t, {"save"})
  /\ SaveToString
  /\ UNCHANGED oks
  /\ Return(t)

CallSet(t) ==
  /\ \/ Inside(t, {"set_epoch"}) /\ SetEpoch(call[t].epoch)
     \/ Inside(t, {"set_shutting_down"}) /\ SetShuttingDown
  /\ UNCHANGED oks
  /\ Return(t)

-----------------------------------------------------------------------------
Run(t) ==
  \/ ReadTarget(t) \/ Acquire(t)
  \/ CallAppend(t) \/ CallBatch(t) \/ LoadHeader(t) \/ Replay(t) \/ LoopTurn(t)
  \/ CallSave(t) \/ CallSet(t)

\* All calls are made and have returned.
Finished ==
  /\ made = CallBound
  /\ \A t \in Threads : pc[t] = "idle"
  /\ UNCHANGED cvars

CNext ==
  \/ \E t \in Threads : Enter(t) \/ RaceCrash(t) \/ Run(t)
  \/ Finished

\* A thread that is in a call goes on: it waits for nothing but the mutex.  The
\* calls are finitely many, so no thread can be overtaken at the mutex for ever.
\* This is WF_cvars(Run(t)) with ENABLED Run(t) written out.
CanRun(t) ==
  \/ pc[t] \in {"read", "in", "again", "loop"}
  \/ pc[t] \in {"lock", "relock"} /\ holder = NoId
CSpec ==
  /\ CInit
  /\ [][CNext]_cvars
  /\ \A t \in Threads : <>[]CanRun(t) => []<><<Run(t)>>_cvars

-----------------------------------------------------------------------------
\* The type invariant: the ledger's, and the threads' own.
ThreadTypeOK ==
  /\ TypeOK
  /\ pc \in [Threads -> Point]
  /\ call \in [Threads -> Call]
  /\ rev \in [Threads -> Entry]
  /\ holder \in Threads \cup {NoId}
  /\ made \in 0..CallBound
  /\ oks \in [EntryIds -> Nat]

\* The ledger of one caller, who appends the submissions, the revisions a torn
\* read may build and the batches, loads the records, whole or without entries,
\* and makes the other calls.
Reclassifications == {c.req : c \in {k \in Calls : k.op = "reclassify"}}
Torn == UNION {TornRevisions(req) : req \in Reclassifications}
Headers == {[s EXCEPT !.history = <<>>] : s \in Records}
SequentialNext ==
  \/ \E e \in Submissions \cup Torn : AppendEntry(e)
  \/ \E c \in Calls : c.op = "batch" /\ AppendBatch(c.entries)
  \/ LoopStep
  \/ \E s \in Records : LoadHistory(s)
  \/ \E s \in Headers : LoadFromString(s)
  \/ SaveToString
  \/ Construct
  \/ \E v \in Epochs : SetEpoch(v)
  \/ SetShuttingDown

\* Whatever the threads do, the ledger goes through steps of the one-caller
\* ledger: batches and replays are never interleaved with anything, a revision
\* built before the mutex was taken, stale or torn, is an append of a revision,
\* and a load is the load of a record without entries followed, after whatever
\* gets in between, by load_history.
ImplementsSequential == Init /\ [][SequentialNext]_vars

\* However many threads append one entry, one of them is told OK, and its entry
\* stays until the books are cleared.
AcceptedOnce ==
  \A id \in EntryIds : oks[id] = 0 \/ (oks[id] = 1 /\ Committed(id))

\* Once set_shutting_down has taken effect nothing is accepted any more: an
\* append that waited for the mutex is refused, and a load that was overtaken
\* by it leaves the books empty.
ShutdownHolds == [][shuttingDown /\ history' # history => history' = <<>>]_cvars

\* Every call returns, whatever the others do: no path through the ledger, a
\* refused batch or replay included, keeps the mutex.
CallsReturn == \A t \in Threads : pc[t] # "idle" ~> pc[t] = "idle"
=============================================================================
