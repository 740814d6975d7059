-------------------------- MODULE ConcurrentProofs --------------------------
(***************************************************************************)
(* The ledger under several threads: its types, one accepted append per    *)
(* entry, the shutdown, and the refinement of the one-caller ledger.  The  *)
(* inductive invariant says who holds the mutex, that a loop runs only     *)
(* under it, and what a thread carries into its critical section.          *)
(***************************************************************************)
EXTENDS ConcurrentLedger, LedgerAuthorityProofs

-----------------------------------------------------------------------------
(***************************************************************************)
(* The invariant.                                                          *)
(***************************************************************************)
HolderPoint == {"in", "again", "loop"}
LoadOp == {"load", "load_history"}

\* What is known of a call in progress.
CallOK(c) ==
  /\ c \in Call
  /\ c.op = "append" => c.entries \in Seq(Submissions) /\ Len(c.entries) = 1
  /\ c.op = "batch" => \E k \in Calls : k.op = "batch" /\ k.entries = c.entries
  /\ c.op = "reclassify" => c.req \in Reclassifications
  /\ c.op \in LoadOp => c.record \in Records
  /\ c.op = "set_epoch" => c.epoch \in Epochs
  /\ \A i \in DOMAIN c.entries : KnownGen(c.entries[i])
  /\ \A i \in DOMAIN c.record.history : KnownGen(c.record.history[i])

ThreadTypes ==
  /\ pc \in [Threads -> Point]
  /\ call \in [Threads -> Call]
  /\ rev \in [Threads -> Entry]
  /\ holder \in Threads \cup {NoId}
  /\ made \in 0..CallBound
  /\ oks \in [EntryIds -> Nat]

\* Mutual exclusion: the thread that is inside is the holder.
Exclusive == \A t \in Threads : pc[t] \in HolderPoint <=> holder = t

\* A loop over entries runs under the mutex only.
LoopHeld == (\A t \in Threads : pc[t] # "loop") => loop = Idle

\* What the threads carry.
Carried ==
  \A t \in Threads :
    /\ CallOK(call[t])
    /\ pc[t] \in {"read"} => call[t].op = "reclassify"
    /\ pc[t] \in {"relock", "again"} => call[t].op = "load"
    /\ pc[t] \in {"lock", "in"} /\ call[t].op = "reclassify" =>
         rev[t] \in TornRevisions(call[t].req)

\* The attempt generations of the committed entries are within the bound.
KnownGens ==
  /\ \A i \in DOMAIN history : KnownGen(history[i])
  /\ \A i \in DOMAIN loop.rest : KnownGen(loop.rest[i])

ThreadInv ==
  /\ BookState /\ ControlState
  /\ ThreadTypes /\ Exclusive /\ LoopHeld /\ Carried /\ KnownGens
  /\ AcceptedOnce

-----------------------------------------------------------------------------
(***************************************************************************)
(* What the threads bring.                                                 *)
(***************************************************************************)

\* The call of a thread that makes none.
LEMMA NoCallOK == CallOK(NoCall)
<1>1. NoId \in Nat /\ <<>> \in Seq(Entry)
  BY DEF NoId
<1>2. NoRecord \in Snapshot
  BY <1>1 DEF NoRecord, Snapshot
<1>3. NoFences \in Fences /\ "kUnknown" \in EfficiencyClass
  BY <1>1 DEF NoFences, Fences, EfficiencyClass, ConsumptionClass
<1>4. NoRequest \in Request
  BY <1>3 DEF NoRequest, Request
<1>5. NoCall \in Call
  BY <1>1, <1>2, <1>4 DEF NoCall, Call, Op
<1>6. NoCall.op = "none" /\ NoCall.entries = <<>> /\ NoCall.record.history = <<>>
  BY DEF NoCall, NoRecord
<1> QED BY <1>5, <1>6 DEF CallOK, LoadOp

\* The call a thread enters with.
LEMMA EnteredOK ==
  ASSUME NEW c \in Calls, NEW s \in {NoRecord} \cup Records,
         s # NoRecord <=> c.op \in {"load", "load_history"}
  PROVE  /\ CallOK([c EXCEPT !.record = s])
         /\ [c EXCEPT !.record = s].op = c.op
<1> DEFINE k == [c EXCEPT !.record = s]
<1>1. c \in Call
  BY ThreadAssumption
<1>2. NoRecord \in Snapshot /\ NoRecord.history = <<>>
  BY DEF NoRecord, Snapshot, NoId
<1>3. s \in Snapshot
  BY <1>2, RecordAssumption
<1>4. /\ k \in Call /\ k.op = c.op /\ k.entries = c.entries /\ k.req = c.req
      /\ k.record = s /\ k.epoch = c.epoch
  BY <1>1, <1>3 DEF Call
<1> HIDE DEF k
<1>5. k.op \in LoadOp => k.record \in Records
  BY <1>4 DEF LoadOp
<1>6. k.op = "reclassify" => k.req \in Reclassifications
  BY <1>4 DEF Reclassifications
<1>7. k.op = "batch" => \E x \in Calls : x.op = "batch" /\ x.entries = k.entries
  BY <1>4
<1>8. /\ \A i \in DOMAIN k.entries : KnownGen(k.entries[i])
      /\ \A i \in DOMAIN k.record.history : KnownGen(k.record.history[i])
  <2>1. \A i \in DOMAIN c.entries : KnownGen(c.entries[i])
    BY GenerationAssumption
  <2>2. \A i \in DOMAIN s.history : KnownGen(s.history[i])
    BY <1>2, GenerationAssumption
  <2> QED BY <1>4, <2>1, <2>2
<1>9. CallOK(k)
  BY <1>4, <1>5, <1>6, <1>7, <1>8, ThreadAssumption DEF CallOK
<1> QED BY <1>4, <1>9 DEF k

\* A torn revision is well formed, and of a known generation.
LEMMA TornType ==
  ASSUME NEW req \in Request, NEW r \in TornRevisions(req)
  PROVE  r \in Entry /\ KnownGen(r)
<1>1. PICK f \in Found :
        r = [BlankRevision(req) EXCEPT !.account = f.account, !.attempt = f.attempt,
                                       !.attemptGen = f.attemptGen]
  BY Zenon DEF TornRevisions
<1>2. /\ f.account \in AllAccounts \cup {NoId} /\ f.attempt \in AttemptIds \cup {NoId}
      /\ f.attemptGen \in Generations \cup {NoId} /\ f.attemptGen \in Nat
  <2>1. /\ f.account \in AllAccounts \cup {NoId} /\ f.attempt \in AttemptIds \cup {NoId}
        /\ f.attemptGen \in Generations \cup {NoId}
    BY DEF Found
  <2>2. Generations \cup {NoId} \subseteq Nat
    BY BoundAssumption DEF NoId
  <2> QED BY <2>1, <2>2
<1>3. BlankRevision(req) \in EntryRecord
  <2>1. BlankRevision(req) \in Entry
    BY <1>2, RevisionForm, Zenon
  <2> QED BY <2>1 DEF Entry
<1>4. r.attemptGen = f.attemptGen
  BY <1>1, <1>3 DEF EntryRecord
<1>5. r \in Entry
  BY <1>1, <1>2, RevisionForm, Zenon
<1> QED BY <1>2, <1>4, <1>5 DEF KnownGen

\* What a lookup finds without a race is one of the things it may find in one.
LEMMA RevisionIsTorn ==
  ASSUME BookState, KnownGens, NEW req \in Request
  PROVE  Revision(req) \in TornRevisions(req)
<1> DEFINE t == EntryOf(req.target)
           acc == IF t.account # NoId THEN t.account ELSE ResidualAccount
           form(a, x, g) ==
             [BlankRevision(req) EXCEPT !.account = a, !.attempt = x, !.attemptGen = g]
<1>1. ASSUME NEW a \in AllAccounts \cup {NoId}, NEW x \in AttemptIds \cup {NoId},
             NEW g \in Generations \cup {NoId}
      PROVE  form(a, x, g) \in TornRevisions(req)
  <2> DEFINE f == [account |-> a, attempt |-> x, attemptGen |-> g]
  <2>1. f \in Found /\ f.account = a /\ f.attempt = x /\ f.attemptGen = g
    BY DEF Found
  <2> HIDE DEF f
  <2> QED BY <2>1, Zenon DEF TornRevisions
<1>2. CASE ~Committed(req.target)
  <2>1. Revision(req) = BlankRevision(req)
    BY <1>2 DEF Revision
  <2>2. BlankRevision(req) \in EntryRecord
    <3>1. NoId \in Nat
      BY DEF NoId
    <3>2. BlankRevision(req) \in Entry
      BY <3>1, RevisionForm, Zenon
    <3> QED BY <3>2 DEF Entry
  <2>3. /\ BlankRevision(req).account = NoId /\ BlankRevision(req).attempt = NoId
        /\ BlankRevision(req).attemptGen = NoId
    BY DEF BlankRevision, BlankEntry
  <2>4. BlankRevision(req) = form(NoId, NoId, NoId)
    BY <2>2, <2>3 DEF EntryRecord
  <2> HIDE DEF form
  <2> QED BY <1>1, <2>1, <2>4
<1>3. CASE Committed(req.target)
  <2>1. t \in Entry
    BY <1>3, EntryOfType DEF BookState, BookTypes
  <2>2. \E i \in DOMAIN history : t = history[i]
    BY <1>3, Zenon DEF EntryOf, Committed
  <2>3. KnownGen(t)
    BY <2>2 DEF KnownGens
  <2>4. /\ acc \in AllAccounts \cup {NoId} /\ t.attempt \in AttemptIds \cup {NoId}
        /\ t.attemptGen \in Generations \cup {NoId}
    BY <2>1, <2>3 DEF Entry, EntryRecord, AllAccounts, KnownGen
  <2>5. Revision(req) = form(acc, t.attempt, t.attemptGen)
    BY <1>3, Zenon DEF Revision
  <2> HIDE DEF acc, t, form
  <2> QED BY <1>1, <2>4, <2>5
<1> QED BY <1>2, <1>3

-----------------------------------------------------------------------------
(***************************************************************************)
(* How the threads move.                                                   *)
(***************************************************************************)
Unmoved == UNCHANGED threads

\* A thread leaves the mutex for good, goes on with its loop under it, or
\* leaves it between the two critical sections of a load.
Leaves(t) == pc[t] \in HolderPoint /\ Return(t) /\ loop' = Idle
Stays(t) ==
  pc[t] \in HolderPoint /\ Goto(t, "loop") /\ UNCHANGED <<call, rev, holder, made>>
Rests(t) ==
  /\ pc[t] = "in" /\ call[t].op = "load" /\ loop' = Idle
  /\ Goto(t, "relock") /\ holder' = NoId /\ UNCHANGED <<call, rev, made>>

\* No loop is under way when a thread enters the mutex.
LEMMA NoLoopInside ==
  ASSUME ThreadTypes, Exclusive, LoopHeld, NEW t \in Threads, pc[t] \in {"in", "again"}
  PROVE  loop = Idle
<1>1. holder = t
  BY DEF Exclusive, HolderPoint
<1>2. \A u \in Threads : pc[u] # "loop"
  BY <1>1 DEF Exclusive, HolderPoint
<1> QED BY <1>2 DEF LoopHeld

\* Every step leaves the threads alone or is one of these moves of one of them,
\* and tells whether a loop is under way after it.
LEMMA ThreadMoves ==
  ASSUME ThreadTypes, Exclusive, LoopHeld, [CNext]_cvars
  PROVE  \/ Unmoved /\ loop' = loop
         \/ \E t \in Threads : \/ Enter(t) \/ ReadTarget(t) \/ Acquire(t) \/ RaceCrash(t)
                               \/ Leaves(t) \/ Stays(t) \/ Rests(t)
<1>1. CASE UNCHANGED cvars
  BY <1>1 DEF cvars, threads, Unmoved, vars
<1>2. CASE Finished
  BY <1>2 DEF Finished, cvars, threads, Unmoved, vars
<1>3. ASSUME NEW t \in Threads, Run(t)
      PROVE  ReadTarget(t) \/ Acquire(t) \/ Leaves(t) \/ Stays(t) \/ Rests(t)
  <2>1. pc[t] \in {"in", "again"} => loop = Idle
    BY NoLoopInside
  <2>2. ASSUME ReturnWhenDone(t), pc[t] \in HolderPoint PROVE Leaves(t) \/ Stays(t)
    BY <2>2 DEF ReturnWhenDone, Leaves, Stays
  <2>3. CASE CallAppend(t)
    BY <2>1, <2>3, Zenon DEF CallAppend, Inside, Leaves, HolderPoint
  <2>4. CASE CallBatch(t) \/ Replay(t) \/ LoopTurn(t)
    <3>1. ReturnWhenDone(t)
      BY <2>4, Zenon DEF CallBatch, Replay, LoopTurn
    <3>2. pc[t] \in HolderPoint
      BY <2>4, Zenon DEF CallBatch, Replay, LoopTurn, Inside, HolderPoint
    <3> QED BY <2>2, <3>1, <3>2
  <2>5. CASE LoadHeader(t)
    BY <2>1, <2>5, Zenon DEF LoadHeader, Inside, Rests
  <2>6. CASE CallSave(t) \/ CallSet(t)
    <3>1. pc[t] = "in" /\ Return(t) /\ loop' = loop
      BY <2>6, Zenon DEF CallSave, CallSet, Inside, SaveToString, SetEpoch, SetShuttingDown
    <3> QED BY <2>1, <3>1 DEF Leaves, HolderPoint
  <2> QED BY <1>3, <2>3, <2>4, <2>5, <2>6 DEF Run
<1> QED BY <1>1, <1>2, <1>3 DEF CNext

\* The threads' own variables keep their types.
LEMMA ThreadTypesKept ==
  ASSUME BookState, ThreadTypes, Exclusive, LoopHeld, Carried, KnownGens, [CNext]_cvars
  PROVE  /\ pc' \in [Threads -> Point] /\ call' \in [Threads -> Call]
         /\ rev' \in [Threads -> Entry]
         /\ holder' \in Threads \cup {NoId} /\ made' \in 0..CallBound
<1>0. NoCall \in Call /\ BlankEntry \in Entry
  <2>1. NoRequest \in Request /\ NoCall \in Call
    BY NoCallOK DEF CallOK, NoCall, Call
  <2>2. BlankEntry \in Entry
    BY BlankEntryType
  <2> QED BY <2>1, <2>2
<1>1. CASE Unmoved
  BY <1>1 DEF Unmoved, threads, ThreadTypes
<1>2. ASSUME NEW t \in Threads, Enter(t)
      PROVE  call' \in [Threads -> Call] /\ pc' \in [Threads -> Point] /\ made' \in 0..CallBound
             /\ UNCHANGED <<rev, holder>>
  <2>1. PICK c \in Calls, s \in {NoRecord} \cup Records :
          /\ s # NoRecord <=> c.op \in {"load", "load_history"}
          /\ call' = [call EXCEPT ![t] = [c EXCEPT !.record = s]]
          /\ Goto(t, IF c.op = "reclassify" THEN "read" ELSE "lock")
    BY <1>2, Zenon DEF Enter
  <2>2. [c EXCEPT !.record = s] \in Call
    BY <2>1, EnteredOK DEF CallOK
  <2>3. call' \in [Threads -> Call]
    BY <2>1, <2>2 DEF ThreadTypes
  <2>4. pc' \in [Threads -> Point]
    BY <2>1 DEF ThreadTypes, Goto, Point
  <2>5. made' \in 0..CallBound
    BY <1>2, ThreadAssumption DEF Enter, ThreadTypes
  <2> QED BY <1>2, <2>3, <2>4, <2>5 DEF Enter
<1>3. ASSUME NEW t \in Threads, ReadTarget(t)
      PROVE  rev' \in [Threads -> Entry] /\ pc' \in [Threads -> Point]
             /\ UNCHANGED <<call, holder, made>>
  <2>1. PICK r : /\ r \in IF Racing(t) THEN TornRevisions(call[t].req)
                                      ELSE {Revision(call[t].req)}
                 /\ rev' = [rev EXCEPT ![t] = r]
    BY <1>3, Zenon DEF ReadTarget
  <2>2. call[t].req \in Request
    BY DEF ThreadTypes, Call
  <2>3. r \in Entry
    BY <2>1, <2>2, TornType, RevisionType
  <2>4. rev' \in [Threads -> Entry]
    BY <2>1, <2>3 DEF ThreadTypes
  <2> QED BY <1>3, <2>4 DEF ReadTarget, Goto, ThreadTypes, Point
<1>4. ASSUME NEW t \in Threads, Acquire(t)
      PROVE  holder' \in Threads \cup {NoId} /\ pc' \in [Threads -> Point]
             /\ UNCHANGED <<call, rev, made>>
  BY <1>4 DEF Acquire, Goto, ThreadTypes, Point
<1>5. ASSUME NEW t \in Threads, RaceCrash(t)
      PROVE  /\ pc' \in [Threads -> Point] /\ call' \in [Threads -> Call]
             /\ rev' \in [Threads -> Entry]
             /\ holder' \in Threads \cup {NoId} /\ UNCHANGED made
  BY <1>0, <1>5 DEF RaceCrash, Point
<1>6. ASSUME NEW t \in Threads, Leaves(t)
      PROVE  /\ pc' \in [Threads -> Point] /\ call' \in [Threads -> Call]
             /\ rev' \in [Threads -> Entry]
             /\ holder' \in Threads \cup {NoId} /\ UNCHANGED made
  BY <1>0, <1>6 DEF Leaves, Return, Goto, ThreadTypes, Point
<1>7. ASSUME NEW t \in Threads, Stays(t) \/ Rests(t)
      PROVE  /\ pc' \in [Threads -> Point] /\ holder' \in Threads \cup {NoId}
             /\ UNCHANGED <<call, rev, made>>
  BY <1>7 DEF Stays, Rests, Goto, ThreadTypes, Point
<1> QED BY <1>1, <1>2, <1>3, <1>4, <1>5, <1>6, <1>7, ThreadMoves DEF ThreadTypes

\* Mutual exclusion is kept, and loops stay under the mutex.
LEMMA ExclusiveKept ==
  ASSUME ThreadTypes, Exclusive, LoopHeld, [CNext]_cvars
  PROVE  Exclusive' /\ LoopHeld'
<1>0. /\ pc \in [Threads -> Point] /\ NoId \notin Threads
  BY ThreadAssumption DEF ThreadTypes
<1>1. CASE Unmoved /\ loop' = loop
  BY <1>1 DEF Unmoved, threads, Exclusive, LoopHeld
<1>2. ASSUME NEW t \in Threads, Enter(t) \/ ReadTarget(t)
      PROVE  Exclusive' /\ LoopHeld'
  <2>1. PICK p \in {"read", "lock"} : pc' = [pc EXCEPT ![t] = p]
    BY <1>2 DEF Enter, ReadTarget, Goto
  <2>2. pc[t] \in {"idle", "read"} /\ holder' = holder /\ loop' = loop
    BY <1>2 DEF Enter, ReadTarget, vars
  <2> QED BY <1>0, <2>1, <2>2 DEF Exclusive, LoopHeld, HolderPoint
<1>3. ASSUME NEW t \in Threads, Acquire(t)
      PROVE  Exclusive' /\ LoopHeld'
  <2>1. PICK p \in {"in", "again"} : pc' = [pc EXCEPT ![t] = p]
    BY <1>3 DEF Acquire, Goto
  <2>2. /\ pc[t] \in {"lock", "relock"} /\ holder = NoId /\ holder' = t /\ loop' = loop
    BY <1>3 DEF Acquire, vars
  <2> QED BY <1>0, <2>1, <2>2 DEF Exclusive, LoopHeld, HolderPoint
<1>4. ASSUME NEW t \in Threads, RaceCrash(t)
      PROVE  Exclusive' /\ LoopHeld'
  BY <1>0, <1>4 DEF RaceCrash, Construct, Fresh, Exclusive, LoopHeld, HolderPoint
<1>5. ASSUME NEW t \in Threads, Leaves(t) \/ Rests(t)
      PROVE  Exclusive' /\ LoopHeld'
  <2>1. PICK p \in {"idle", "relock"} : pc' = [pc EXCEPT ![t] = p]
    BY <1>5 DEF Leaves, Return, Rests, Goto
  <2>2. pc[t] \in HolderPoint /\ holder' = NoId /\ loop' = Idle
    BY <1>5 DEF Leaves, Return, Rests, HolderPoint
  <2> QED BY <1>0, <2>1, <2>2 DEF Exclusive, LoopHeld, HolderPoint
<1>6. ASSUME NEW t \in Threads, Stays(t)
      PROVE  Exclusive' /\ LoopHeld'
  <2>1. pc' = [pc EXCEPT ![t] = "loop"] /\ pc[t] \in HolderPoint /\ holder' = holder
    BY <1>6 DEF Stays, Goto
  <2> QED BY <1>0, <2>1 DEF Exclusive, LoopHeld, HolderPoint
<1> QED BY <1>1, <1>2, <1>3, <1>4, <1>5, <1>6, ThreadMoves

\* What the threads carry stays in order: a revision that was built before the
\* mutex was taken is one that a torn lookup could have built.
LEMMA CarriedKept ==
  ASSUME BookState, ThreadTypes, Exclusive, LoopHeld, Carried, KnownGens, [CNext]_cvars
  PROVE  Carried'
<1>0. pc \in [Threads -> Point] /\ call \in [Threads -> Call] /\ rev \in [Threads -> Entry]
  BY DEF ThreadTypes
<1> DEFINE Fine(t) ==
      /\ CallOK(call'[t])
      /\ pc'[t] \in {"read"} => call'[t].op = "reclassify"
      /\ pc'[t] \in {"relock", "again"} => call'[t].op = "load"
      /\ pc'[t] \in {"lock", "in"} /\ call'[t].op = "reclassify" =>
           rev'[t] \in TornRevisions(call'[t].req)
<1> SUFFICES ASSUME NEW u \in Threads PROVE Fine(u)
  <2>1. Carried' <=> \A t \in Threads : Fine(t)
    BY Zenon DEF Carried, CallOK, TornRevisions, BlankRevision, Reclassifications, KnownGen
  <2> QED BY <2>1
<1>1. ASSUME pc'[u] = pc[u], call'[u] = call[u], rev'[u] = rev[u] PROVE Fine(u)
  BY <1>1 DEF Carried
<1>2. CASE Unmoved
  BY <1>1, <1>2 DEF Unmoved, threads
<1>3. ASSUME NEW t \in Threads, Enter(t) PROVE Fine(u)
  <2>1. PICK c \in Calls, s \in {NoRecord} \cup Records :
          /\ s # NoRecord <=> c.op \in {"load", "load_history"}
          /\ call' = [call EXCEPT ![t] = [c EXCEPT !.record = s]]
          /\ Goto(t, IF c.op = "reclassify" THEN "read" ELSE "lock")
    BY <1>3, Zenon DEF Enter
  <2> DEFINE k == [c EXCEPT !.record = s]
  <2>2. CallOK(k) /\ k.op = c.op
    BY <2>1, EnteredOK
  <2>3. call' = [call EXCEPT ![t] = k]
    BY <2>1
  <2>4. pc' = [pc EXCEPT ![t] = IF c.op = "reclassify" THEN "read" ELSE "lock"] /\ rev' = rev
    BY <1>3, <2>1 DEF Enter, Goto
  <2> HIDE DEF k
  <2>5. CASE u = t
    <3>1. call'[u] = k /\ pc'[u] = IF c.op = "reclassify" THEN "read" ELSE "lock"
      BY <1>0, <2>3, <2>4, <2>5
    <3> QED BY <2>2, <3>1
  <2>6. CASE u # t
    BY <1>0, <1>1, <2>3, <2>4, <2>6
  <2> QED BY <2>5, <2>6
<1>4. ASSUME NEW t \in Threads, ReadTarget(t) PROVE Fine(u)
  <2>1. PICK r : /\ r \in IF Racing(t) THEN TornRevisions(call[t].req)
                                      ELSE {Revision(call[t].req)}
                 /\ rev' = [rev EXCEPT ![t] = r]
    BY <1>4, Zenon DEF ReadTarget
  <2>2. call[t].req \in Request
    BY <1>0 DEF Call
  <2>3. r \in TornRevisions(call[t].req)
    BY <2>1, <2>2, RevisionIsTorn
  <2>4. pc[t] = "read" /\ pc' = [pc EXCEPT ![t] = "lock"] /\ call' = call
    BY <1>4 DEF ReadTarget, Goto
  <2>5. CASE u = t
    <3>1. call'[u] = call[t] /\ pc'[u] = "lock" /\ rev'[u] = r
      BY <1>0, <2>1, <2>4, <2>5
    <3> QED BY <2>3, <3>1 DEF Carried
  <2>6. CASE u # t
    BY <1>0, <1>1, <2>1, <2>4, <2>6
  <2> QED BY <2>5, <2>6
<1>5. ASSUME NEW t \in Threads, Acquire(t) PROVE Fine(u)
  <2>1. /\ pc[t] \in {"lock", "relock"}
        /\ pc' = [pc EXCEPT ![t] = IF pc[t] = "lock" THEN "in" ELSE "again"]
        /\ call' = call /\ rev' = rev
    BY <1>5 DEF Acquire, Goto
  <2>2. CASE u = t
    <3>1. /\ call'[u] = call[u] /\ rev'[u] = rev[u]
          /\ pc'[u] = IF pc[u] = "lock" THEN "in" ELSE "again"
          /\ pc[u] \in {"lock", "relock"}
      BY <1>0, <2>1, <2>2
    <3> QED BY <3>1 DEF Carried
  <2>3. CASE u # t
    BY <1>0, <1>1, <2>1, <2>3
  <2> QED BY <2>2, <2>3
<1>6. ASSUME call'[u] = NoCall, pc'[u] = "idle" PROVE Fine(u)
  BY <1>6, NoCallOK
<1>7. ASSUME NEW t \in Threads, RaceCrash(t) PROVE Fine(u)
  BY <1>6, <1>7 DEF RaceCrash
<1>8. ASSUME NEW t \in Threads, Leaves(t) PROVE Fine(u)
  <2>1. /\ pc' = [pc EXCEPT ![t] = "idle"] /\ call' = [call EXCEPT ![t] = NoCall]
        /\ rev' = [rev EXCEPT ![t] = BlankEntry]
    BY <1>8 DEF Leaves, Return, Goto
  <2>2. CASE u = t
    BY <1>0, <1>6, <2>1, <2>2
  <2>3. CASE u # t
    BY <1>0, <1>1, <2>1, <2>3
  <2> QED BY <2>2, <2>3
<1>9. ASSUME NEW t \in Threads, Stays(t) \/ Rests(t) PROVE Fine(u)
  <2>1. /\ call' = call /\ rev' = rev
        /\ \/ pc' = [pc EXCEPT ![t] = "loop"]
           \/ pc' = [pc EXCEPT ![t] = "relock"] /\ call[t].op = "load"
    BY <1>9 DEF Stays, Rests, Goto
  <2>2. CASE u = t
    <3>1. /\ call'[u] = call[u] /\ rev'[u] = rev[u]
          /\ pc'[u] = "loop" \/ (pc'[u] = "relock" /\ call[u].op = "load")
      BY <1>0, <2>1, <2>2
    <3> QED BY <3>1 DEF Carried
  <2>3. CASE u # t
    BY <1>0, <1>1, <2>1, <2>3
  <2> QED BY <2>2, <2>3
<1> HIDE DEF Fine
<1> QED BY <1>2, <1>3, <1>4, <1>5, <1>7, <1>8, <1>9, ThreadMoves

-----------------------------------------------------------------------------
(***************************************************************************)
(* What the threads do to the ledger.                                      *)
(***************************************************************************)

\* The entry a thread appends, or the revision it has built.
Given(t) == IF call[t].op = "append" THEN Head(call[t].entries) ELSE rev[t]

\* What is appended is well formed, and submitted or built by reclassify.
LEMMA GivenEntry ==
  ASSUME ThreadTypes, Carried, NEW t \in Threads, Inside(t, {"append", "reclassify"})
  PROVE  /\ Given(t) \in Entry /\ KnownGen(Given(t))
         /\ \/ Given(t) \in Submissions
            \/ \E req \in Reclassifications : Given(t) \in TornRevisions(req)
<1>1. CallOK(call[t]) /\ call[t].op \in {"append", "reclassify"} /\ pc[t] = "in"
  BY DEF Carried, Inside
<1>2. CASE call[t].op = "append"
  <2> DEFINE q == call[t].entries
  <2>1. q \in Seq(Submissions) /\ Len(q) = 1 /\ \A i \in DOMAIN q : KnownGen(q[i])
    BY <1>1, <1>2 DEF CallOK
  <2> HIDE DEF q
  <2>2. Head(q) = q[1] /\ 1 \in DOMAIN q /\ q[1] \in Submissions
    BY <2>1
  <2>3. Given(t) = Head(q)
    BY <1>2 DEF Given, q
  <2> QED BY <2>1, <2>2, <2>3, SubmissionAssumption
<1>3. CASE call[t].op = "reclassify"
  <2>1. /\ call[t].req \in Reclassifications /\ call[t].req \in Request
        /\ Given(t) = rev[t] /\ rev[t] \in TornRevisions(call[t].req)
    BY <1>1, <1>3 DEF CallOK, Call, Given, Carried
  <2> QED BY <2>1, TornType
<1> QED BY <1>1, <1>2, <1>3

\* The steps of the threads, as steps of the ledger.
LEMMA LedgerSteps ==
  ASSUME [CNext]_cvars
  PROVE  \/ UNCHANGED vars /\ UNCHANGED oks
         \/ Construct /\ oks' = [id \in EntryIds |-> 0]
         \/ \E t \in Threads :
              \/ CallAppend(t) \/ CallBatch(t) \/ LoadHeader(t) \/ Replay(t) \/ LoopTurn(t)
              \/ CallSave(t) \/ CallSet(t)
BY Zenon DEF CNext, Run, Enter, ReadTarget, Acquire, RaceCrash, Finished, cvars

\* append_locked keeps the generations within the bound.
LEMMA KnownGenAppend ==
  ASSUME BookState, KnownGens, NEW e \in Entry, KnownGen(e), append_locked(e)
  PROVE  \A i \in DOMAIN history' : KnownGen(history'[i])
<1>1. history \in Seq(Entry)
  BY DEF BookState, BookTypes
<1>2. CASE CommitsNothing
  BY <1>2 DEF CommitsNothing, KnownGens
<1>3. CASE Commits(e)
  <2>1. history' = Append(history, e)
    BY <1>3 DEF Commits
  <2> QED BY <1>1, <2>1, Appended DEF KnownGens
<1> QED BY <1>2, <1>3, AppendCommits

\* The ledger's own invariant is kept under several threads.
LEMMA LedgerKept ==
  ASSUME BookState, ControlState, ThreadTypes, Carried, KnownGens, [CNext]_cvars
  PROVE  BookState' /\ ControlState' /\ KnownGens'
<1>0. reply \in ErrorCode /\ "OK" \in ErrorCode
  BY DEF BookState, BookTypes, ErrorCode
<1>1. CASE UNCHANGED vars
  <2>1. BookState' /\ ControlState'
    BY <1>0, <1>1, SameBooks DEF vars, books, ControlState, LoopBusy
  <2> QED BY <1>1, <2>1 DEF vars, KnownGens
<1>2. CASE Construct
  <2>1. BookState' /\ ControlState'
    BY <1>0, <1>2, ClearedBooks, IdleType DEF Construct, Fresh, ControlState, LoopBusy
  <2>2. history' = <<>> /\ loop'.rest = <<>>
    BY <1>2 DEF Construct, Fresh, ClearBooks, Idle
  <2> QED BY <2>1, <2>2 DEF KnownGens
<1>3. ASSUME NEW t \in Threads, CallAppend(t) PROVE BookState' /\ ControlState' /\ KnownGens'
  <2>1. Given(t) \in Entry /\ KnownGen(Given(t))
    BY <1>3, GivenEntry DEF CallAppend
  <2>2. append_locked(Given(t)) /\ UNCHANGED <<authority, shuttingDown, loop, saved>>
    BY <1>3, Zenon DEF CallAppend, Given
  <2>3. BookState' /\ ControlState'
    BY <2>1, <2>2, AppendLockedPreserves, SameControl
  <2>4. \A i \in DOMAIN history' : KnownGen(history'[i])
    BY <2>1, <2>2, KnownGenAppend
  <2> QED BY <2>2, <2>3, <2>4 DEF KnownGens
<1>4. ASSUME NEW t \in Threads, CallBatch(t) PROVE BookState' /\ ControlState' /\ KnownGens'
  <2>1. CallOK(call[t]) /\ call[t].entries \in Seq(Entry) /\ "batch" \in LoopKind
    BY DEF Carried, CallOK, Call, LoopKind
  <2>2. StartLoop("batch", call[t].entries) /\ UNCHANGED <<authority, shuttingDown, saved, books>>
    BY <1>4, Zenon DEF CallBatch
  <2>3. loop' \in [kind: LoopKind, rest: Seq(Entry)] /\ LoopBusy' /\ reply' \in ErrorCode
    BY <2>1, <2>2, StartLoopType
  <2>4. BookState' /\ ControlState'
    BY <2>2, <2>3, SameBooks DEF ControlState, authority
  <2>5. \A i \in DOMAIN loop'.rest : KnownGen(loop'.rest[i])
    BY <2>1, <2>2 DEF StartLoop, CallOK, Idle
  <2> QED BY <2>2, <2>4, <2>5 DEF KnownGens, books
<1>5. ASSUME NEW t \in Threads, LoadHeader(t) PROVE BookState' /\ ControlState' /\ KnownGens'
  <2>1. call[t].record \in Snapshot
    BY DEF ThreadTypes, Call
  <2>2. /\ epoch' \in Nat /\ ledgerGen' \in Nat /\ accountGen' \in Nat
        /\ shuttingDown' = FALSE /\ ClearBooks /\ reply' = "OK"
        /\ UNCHANGED <<liveWorkers, loop, saved>>
    BY <1>5, <2>1 DEF LoadHeader, Snapshot
  <2>3. BookState' /\ ControlState'
    BY <1>0, <2>2, ClearedBooks DEF ControlState, LoopBusy
  <2> QED BY <2>2, <2>3 DEF KnownGens, ClearBooks
<1>6. ASSUME NEW t \in Threads, Replay(t) PROVE BookState' /\ ControlState' /\ KnownGens'
  <2>1. /\ CallOK(call[t]) /\ call[t].record.history \in Seq(Entry) /\ "replay" \in LoopKind
    BY DEF Carried, CallOK, Call, Snapshot, LoopKind
  <2>2. /\ StartLoop("replay", call[t].record.history) /\ ClearBooks
        /\ UNCHANGED <<authority, shuttingDown, saved>>
    BY <1>6, Zenon DEF Replay
  <2>3. loop' \in [kind: LoopKind, rest: Seq(Entry)] /\ LoopBusy' /\ reply' \in ErrorCode
    BY <2>1, <2>2, StartLoopType
  <2>4. BookState' /\ ControlState'
    BY <2>2, <2>3, ClearedBooks DEF ControlState, authority
  <2>5. \A i \in DOMAIN loop'.rest : KnownGen(loop'.rest[i])
    BY <2>1, <2>2 DEF StartLoop, CallOK, Idle
  <2> QED BY <2>2, <2>4, <2>5 DEF KnownGens, ClearBooks
<1>7. ASSUME NEW t \in Threads, LoopTurn(t) PROVE BookState' /\ ControlState' /\ KnownGens'
  <2>1. LoopStep
    BY <1>7 DEF LoopTurn
  <2>2. BookState' /\ ControlState'
    BY <2>1, LoopStepPreserves
  <2> DEFINE r == loop.rest
  <2>3. /\ r \in Seq(Entry) /\ r # <<>> /\ loop \in [kind: LoopKind, rest: Seq(Entry)]
        /\ append_locked(Head(r))
        /\ loop' = Idle \/ loop' = [loop EXCEPT !.rest = Tail(r)]
    BY <2>1 DEF ControlState, LoopStep, LockFree, LoopBusy
  <2>4. \A i \in DOMAIN r : KnownGen(r[i])
    BY DEF KnownGens
  <2>5. loop' = Idle \/ loop'.rest = Tail(r)
    BY <2>3
  <2> HIDE DEF r
  <2>6. /\ Head(r) \in Entry /\ Head(r) = r[1] /\ 1 \in DOMAIN r
        /\ Len(r) \in Nat /\ DOMAIN r = 1..Len(r) /\ DOMAIN Tail(r) = 1..(Len(r) - 1)
        /\ \A i \in 1..(Len(r) - 1) : Tail(r)[i] = r[i + 1]
    BY <2>3
  <2>7. \A i \in DOMAIN history' : KnownGen(history'[i])
    BY <2>3, <2>4, <2>6, KnownGenAppend
  <2>8. \A i \in DOMAIN Tail(r) : KnownGen(Tail(r)[i])
    BY <2>4, <2>6
  <2>9. \A i \in DOMAIN loop'.rest : KnownGen(loop'.rest[i])
    <3>1. CASE loop' = Idle
      <4>1. loop'.rest = <<>>
        BY <3>1 DEF Idle
      <4>2. DOMAIN loop'.rest = {}
        BY <4>1
      <4> QED BY <4>2
    <3>2. CASE loop'.rest = Tail(r)
      BY <2>8, <3>2, Zenon
    <3> QED BY <2>5, <3>1, <3>2
  <2> QED BY <2>2, <2>7, <2>9 DEF KnownGens
<1>8. ASSUME NEW t \in Threads, CallSave(t) PROVE BookState' /\ ControlState' /\ KnownGens'
  <2>1. SaveToString /\ history \in Seq(Entry)
    BY <1>8 DEF CallSave, BookState, BookTypes
  <2>2. saved' \subseteq Snapshot
    BY <2>1 DEF SaveToString, Snapshot, ControlState
  <2>3. BookState' /\ ControlState'
    BY <1>0, <2>1, <2>2, SameBooks DEF SaveToString, ControlState, authority, LoopBusy
  <2> QED BY <2>1, <2>3 DEF SaveToString, KnownGens, books
<1>9. ASSUME NEW t \in Threads, CallSet(t) PROVE BookState' /\ ControlState' /\ KnownGens'
  <2>1. call[t].epoch \in Nat
    BY DEF ThreadTypes, Call
  <2>2. /\ epoch' \in Nat /\ shuttingDown' \in BOOLEAN
        /\ UNCHANGED <<ledgerGen, accountGen, liveWorkers, loop, saved, reply, books>>
    BY <1>9, <2>1 DEF CallSet, SetEpoch, SetShuttingDown, ControlState, authority
  <2>3. BookState' /\ ControlState'
    BY <1>0, <2>2, SameBooks DEF ControlState, LoopBusy
  <2> QED BY <2>2, <2>3 DEF KnownGens, books
<1> QED BY <1>1, <1>2, <1>3, <1>4, <1>5, <1>6, <1>7, <1>8, <1>9, LedgerSteps

-----------------------------------------------------------------------------
(***************************************************************************)
(* One accepted append per entry.                                          *)
(***************************************************************************)

\* An id stays committed while the history grows.
LEMMA StaysCommitted ==
  ASSUME history \in Seq(Entry), NEW e, history' = history \/ history' = Append(history, e),
         NEW id, Committed(id)
  PROVE  Committed(id)'
<1>1. PICK i \in DOMAIN history : history[i].id = id
  BY DEF Committed
<1>2. i \in DOMAIN history' /\ history'[i] = history[i]
  BY Appended
<1> QED BY <1>1, <1>2 DEF Committed

\* The step of the invariant.
LEMMA AcceptedKept ==
  ASSUME BookState, ControlState, ThreadTypes, Carried, KnownGens, AcceptedOnce, [CNext]_cvars
  PROVE  AcceptedOnce' /\ oks' \in [EntryIds -> Nat]
<1>0. history \in Seq(Entry) /\ oks \in [EntryIds -> Nat]
  BY DEF BookState, BookTypes, ThreadTypes
<1>1. ASSUME oks' = [id \in EntryIds |-> 0]
      PROVE  AcceptedOnce' /\ oks' \in [EntryIds -> Nat]
  BY <1>1 DEF AcceptedOnce
<1>2. ASSUME oks' = oks, NEW e, history' = history \/ history' = Append(history, e)
      PROVE  AcceptedOnce' /\ oks' \in [EntryIds -> Nat]
  BY <1>0, <1>2, StaysCommitted DEF AcceptedOnce
<1>3. ASSUME NEW t \in Threads, CallAppend(t)
      PROVE  AcceptedOnce' /\ oks' \in [EntryIds -> Nat]
  <2>0. PICK e : e = Given(t)
    OBVIOUS
  <2>1. e \in Entry
    BY <1>3, <2>0, GivenEntry DEF CallAppend
  <2>2. /\ append_locked(e)
        /\ oks' = IF reply' = "OK" THEN [oks EXCEPT ![e.id] = @ + 1] ELSE oks
    BY <1>3, <2>0, Zenon DEF CallAppend, Given
  <2>3. CASE reply' = "OK"
    <3>1. history' = Append(history, e)
      BY <2>2, <2>3, OkCommits
    <3>2. Verdict(e) = "OK"
      BY <2>2, <2>3 DEF append_locked, Refuse, Post, Revise, Answer
    <3>3. ~Committed(e.id) /\ e.id # NoId
      BY <3>2 DEF Verdict, validate
    <3>4. e.id \in EntryIds
      BY <2>1, <3>3 DEF Entry, EntryRecord
    <3>5. oks[e.id] = 0
      BY <3>3, <3>4 DEF AcceptedOnce
    <3>6. oks' = [oks EXCEPT ![e.id] = 1]
      BY <1>0, <2>2, <2>3, <3>4, <3>5
    <3>7. Committed(e.id)'
      <4> DEFINE n == Len(history) + 1
      <4>1. n \in DOMAIN history' /\ history'[n] = e
        BY <1>0, <2>1, <3>1
      <4> HIDE DEF n
      <4> QED BY <4>1 DEF Committed
    <3>8. \A id \in EntryIds : Committed(id) => Committed(id)'
      BY <1>0, <3>1, StaysCommitted
    <3>9. oks' \in [EntryIds -> Nat]
      BY <1>0, <3>6
    <3>10. ASSUME NEW id \in EntryIds
           PROVE  oks'[id] = 0 \/ (oks'[id] = 1 /\ Committed(id)')
      <4>1. CASE id = e.id
        <5>1. oks'[id] = 1
          BY <1>0, <3>4, <3>6, <4>1
        <5> QED BY <3>7, <4>1, <5>1, Zenon
      <4>2. CASE id # e.id
        <5>1. oks'[id] = oks[id]
          BY <1>0, <3>6, <4>2
        <5> QED BY <3>8, <5>1, Zenon DEF AcceptedOnce
      <4> QED BY <4>1, <4>2
    <3> QED BY <3>9, <3>10 DEF AcceptedOnce
  <2>4. CASE reply' # "OK"
    <3>1. history' = history \/ history' = Append(history, e)
      BY <2>2, AppendCommits DEF Commits, CommitsNothing
    <3> QED BY <1>2, <2>2, <2>4, <3>1
  <2> QED BY <2>3, <2>4
<1>4. ASSUME NEW t \in Threads, CallBatch(t) \/ CallSave(t) \/ CallSet(t)
      PROVE  AcceptedOnce' /\ oks' \in [EntryIds -> Nat]
  <2>1. oks' = oks /\ history' = history
    BY <1>4, Zenon DEF CallBatch, CallSave, CallSet, SaveToString, SetEpoch, SetShuttingDown, books
  <2> QED BY <1>2, <2>1
<1>5. ASSUME NEW t \in Threads, LoadHeader(t) \/ Replay(t)
      PROVE  AcceptedOnce' /\ oks' \in [EntryIds -> Nat]
  BY <1>1, <1>5, Zenon DEF LoadHeader, Replay
<1>6. ASSUME NEW t \in Threads, LoopTurn(t)
      PROVE  AcceptedOnce' /\ oks' \in [EntryIds -> Nat]
  <2>1. oks' = oks /\ append_locked(Head(loop.rest))
    BY <1>6, Zenon DEF LoopTurn, LoopStep
  <2>2. history' = history \/ history' = Append(history, Head(loop.rest))
    BY <2>1, AppendCommits DEF Commits, CommitsNothing
  <2> QED BY <1>2, <2>1, <2>2
<1>7. CASE UNCHANGED vars /\ UNCHANGED oks
  BY <1>2, <1>7 DEF vars
<1> QED BY <1>1, <1>3, <1>4, <1>5, <1>6, <1>7, LedgerSteps

-----------------------------------------------------------------------------
\* The initial state.
LEMMA ThreadInit == CInit => ThreadInv
<1> SUFFICES ASSUME CInit PROVE ThreadInv
  OBVIOUS
<1>1. BookState /\ ControlState
  BY BooksInvInit, InvariantParts DEF CInit
<1>2. history = <<>> /\ loop = Idle
  BY DEF CInit, Init
<1>3. KnownGens
  BY <1>2 DEF KnownGens, Idle
<1>4. ThreadTypes
  BY NoCallOK, BlankEntryType, ThreadAssumption DEF CInit, ThreadTypes, CallOK, Point
<1>5. Exclusive /\ LoopHeld
  BY <1>2, ThreadAssumption DEF CInit, Exclusive, LoopHeld, HolderPoint
<1>6. Carried
  BY NoCallOK DEF CInit, Carried
<1>7. AcceptedOnce
  BY DEF CInit, AcceptedOnce
<1> QED BY <1>1, <1>3, <1>4, <1>5, <1>6, <1>7 DEF ThreadInv

\* Every step of every thread keeps the invariant.
LEMMA ThreadStep == ThreadInv /\ [CNext]_cvars => ThreadInv'
<1> SUFFICES ASSUME ThreadInv, [CNext]_cvars PROVE ThreadInv'
  OBVIOUS
<1>0. /\ BookState /\ ControlState /\ ThreadTypes /\ Exclusive /\ LoopHeld /\ Carried
      /\ KnownGens /\ AcceptedOnce
  BY DEF ThreadInv
<1>1. BookState' /\ ControlState' /\ KnownGens'
  BY <1>0, LedgerKept
<1>2. AcceptedOnce' /\ oks' \in [EntryIds -> Nat]
  BY <1>0, AcceptedKept
<1>3. ThreadTypes'
  BY <1>0, <1>2, ThreadTypesKept DEF ThreadTypes
<1>4. Exclusive' /\ LoopHeld' /\ Carried'
  BY <1>0, ExclusiveKept, CarriedKept
<1> QED BY <1>1, <1>2, <1>3, <1>4 DEF ThreadInv

\* The invariant of the ledger under several threads.
THEOREM ThreadInvariant == CSpec => []ThreadInv
BY ThreadInit, ThreadStep, PTL DEF CSpec

\* Type correctness under any interleaving of any number of threads, the torn
\* lookups of reclassify included.
THEOREM ThreadsTypeCorrect == CSpec => []ThreadTypeOK
<1>1. ThreadInv => ThreadTypeOK
  <2> SUFFICES ASSUME ThreadInv PROVE ThreadTypeOK
    OBVIOUS
  <2>1. TypeOK
    BY InvariantParts DEF ThreadInv, BooksInv
  <2> QED BY <2>1 DEF ThreadInv, ThreadTypes, ThreadTypeOK
<1> QED BY <1>1, ThreadInvariant, PTL

\* However many threads append one entry, and however often, at most one of
\* them is told OK, and its entry is there until the books are cleared.
THEOREM AcceptedAtMostOnce == CSpec => []AcceptedOnce
<1>1. ThreadInv => AcceptedOnce
  BY DEF ThreadInv
<1> QED BY <1>1, ThreadInvariant, PTL

\* Once the ledger is shutting down no thread gets anything committed: not an
\* append or a revision that waited for the mutex, not the rest of a batch or
\* of a replay.
THEOREM ShutdownIsFinal == CSpec => ShutdownHolds
<1>1. ASSUME [CNext]_cvars
      PROVE  [shuttingDown /\ history' # history => history' = <<>>]_cvars
  <2>1. ASSUME shuttingDown, NEW e, append_locked(e) PROVE history' = history
    BY <2>1 DEF append_locked, Refuse, Post, Revise, Verdict, books
  <2>2. CASE UNCHANGED vars \/ Construct
    BY <2>2 DEF vars, Construct, Fresh, ClearBooks
  <2>3. ASSUME NEW t \in Threads, shuttingDown, CallAppend(t) \/ LoopTurn(t)
        PROVE  history' = history
    <3>1. \E e : append_locked(e)
      BY <2>3, Zenon DEF CallAppend, LoopTurn, LoopStep
    <3> QED BY <2>1, <2>3, <3>1
  <2>4. ASSUME NEW t \in Threads, CallBatch(t) \/ CallSave(t) \/ CallSet(t)
        PROVE  history' = history
    BY <2>4, Zenon DEF CallBatch, CallSave, CallSet, SaveToString, SetEpoch, SetShuttingDown, books
  <2>5. ASSUME NEW t \in Threads, LoadHeader(t) \/ Replay(t)
        PROVE  history' = <<>>
    BY <2>5, Zenon DEF LoadHeader, Replay, ClearBooks
  <2> QED BY <1>1, <2>2, <2>3, <2>4, <2>5, LedgerSteps
<1> QED BY <1>1, PTL DEF CSpec, ShutdownHolds

-----------------------------------------------------------------------------
(***************************************************************************)
(* The refinement of the one-caller ledger.  A step of a thread inside the *)
(* mutex is the whole operation of the one caller: nobody else's loop is   *)
(* running (NoLoopInside), and what the thread carries is something that   *)
(* caller may submit (GivenEntry, Carried).  Every other step of a thread  *)
(* leaves the ledger alone.                                                *)
(***************************************************************************)

\* An append or a revision is one of the one caller's appends.
LEMMA AppendIsSequential ==
  ASSUME ThreadInv, NEW t \in Threads, CallAppend(t)
  PROVE  SequentialNext
<1>1. Inside(t, {"append", "reclassify"}) /\ pc[t] \in {"in", "again"}
  BY DEF CallAppend, Inside
<1>2. LockFree
  BY <1>1, NoLoopInside DEF ThreadInv, LockFree, Idle
<1>3. Given(t) \in Submissions \cup Torn
  BY <1>1, GivenEntry DEF ThreadInv, Torn
<1>4. append_locked(Given(t)) /\ UNCHANGED <<authority, shuttingDown, loop, saved>>
  BY Zenon DEF CallAppend, Given
<1>5. AppendEntry(Given(t))
  BY <1>2, <1>4, Zenon DEF AppendEntry
<1> QED BY <1>3, <1>5, Zenon DEF SequentialNext

\* So are the two critical sections of a load: the first loads a record without
\* entries, the second replays the entries.
LEMMA LoadIsSequential ==
  ASSUME ThreadInv, NEW t \in Threads, LoadHeader(t) \/ Replay(t)
  PROVE  SequentialNext
<1>1. pc[t] \in {"in", "again"} /\ call[t].op \in LoadOp /\ CallOK(call[t])
  BY DEF LoadHeader, Replay, Inside, ThreadInv, Carried, LoadOp
<1>2. LockFree /\ loop = Idle
  BY <1>1, NoLoopInside DEF ThreadInv, LockFree, Idle
<1>3. call[t].record \in Records /\ call[t].record \in Snapshot
  BY <1>1, RecordAssumption DEF CallOK
<1>4. CASE LoadHeader(t)
  <2> DEFINE s == call[t].record
             h == [s EXCEPT !.history = <<>>]
  <2>1. /\ h \in Headers /\ h.history = <<>> /\ h.epoch = s.epoch
        /\ h.ledgerGen = s.ledgerGen /\ h.accountGen = s.accountGen
    BY <1>3 DEF Headers, Snapshot
  <2>2. /\ epoch' = s.epoch /\ ledgerGen' = s.ledgerGen /\ accountGen' = s.accountGen
        /\ shuttingDown' = FALSE /\ ClearBooks /\ reply' = "OK"
        /\ UNCHANGED <<liveWorkers, loop, saved>>
    BY <1>4, Zenon DEF LoadHeader
  <2> HIDE DEF s, h
  <2>3. Decodes(h)
    BY <2>1 DEF Decodes
  <2>4. StartLoop("load", h.history)
    BY <1>2, <2>1, <2>2 DEF StartLoop
  <2>5. LoadFromString(h)
    BY <1>2, <2>1, <2>2, <2>3, <2>4, Zenon DEF LoadFromString
  <2> QED BY <2>1, <2>5, Zenon DEF SequentialNext
<1>5. CASE Replay(t)
  <2>1. LoadHistory(call[t].record)
    BY <1>2, <1>5, Zenon DEF Replay, LoadHistory
  <2> QED BY <1>3, <2>1, Zenon DEF SequentialNext
<1> QED BY <1>4, <1>5

\* And the other operations.
LEMMA OtherIsSequential ==
  ASSUME ThreadInv, NEW t \in Threads,
         CallBatch(t) \/ LoopTurn(t) \/ CallSave(t) \/ CallSet(t)
  PROVE  SequentialNext
<1>1. CallOK(call[t])
  BY DEF ThreadInv, Carried
<1>2. CASE CallBatch(t)
  <2>1. pc[t] \in {"in", "again"} /\ call[t].op = "batch"
    BY <1>2 DEF CallBatch, Inside
  <2>2. LockFree
    BY <2>1, NoLoopInside DEF ThreadInv, LockFree, Idle
  <2>3. AppendBatch(call[t].entries)
    BY <1>2, <2>2, Zenon DEF CallBatch, AppendBatch
  <2>4. PICK c \in Calls : c.op = "batch" /\ c.entries = call[t].entries
    BY <1>1, <2>1 DEF CallOK
  <2>5. AppendBatch(c.entries)
    BY <2>3, <2>4, Zenon
  <2> QED BY <2>4, <2>5, Zenon DEF SequentialNext
<1>3. CASE LoopTurn(t)
  BY <1>3, Zenon DEF LoopTurn, SequentialNext
<1>4. CASE CallSave(t)
  BY <1>4, Zenon DEF CallSave, SequentialNext
<1>5. CASE CallSet(t)
  <2>1. CASE SetShuttingDown
    BY <2>1, Zenon DEF SequentialNext
  <2>2. CASE Inside(t, {"set_epoch"}) /\ SetEpoch(call[t].epoch)
    <3>1. call[t].epoch \in Epochs
      BY <1>1, <2>2 DEF CallOK, Inside
    <3> QED BY <2>2, <3>1, Zenon DEF SequentialNext
  <2> QED BY <1>5, <2>1, <2>2 DEF CallSet
<1> QED BY <1>2, <1>3, <1>4, <1>5

\* Several threads are as good as one: for any threads and calls the ledger goes
\* through steps of the ledger of one caller.  Batches and replays are atomic, a
\* lookup of reclassify outside the mutex amounts to the append of some revision
\* of its target, and a load to two operations.
THEOREM ThreadsImplementSequential == CSpec => ImplementsSequential
<1>1. CInit => Init
  BY DEF CInit
<1>2. ASSUME ThreadInv, [CNext]_cvars PROVE [SequentialNext]_vars
  <2>1. CASE Construct
    BY <2>1, Zenon DEF SequentialNext
  <2>2. CASE UNCHANGED vars
    BY <2>2
  <2>3. CASE \E t \in Threads :
               \/ CallAppend(t) \/ CallBatch(t) \/ LoadHeader(t) \/ Replay(t) \/ LoopTurn(t)
               \/ CallSave(t) \/ CallSet(t)
    BY <1>2, <2>3, AppendIsSequential, LoadIsSequential, OtherIsSequential
  <2> QED BY <1>2, <2>1, <2>2, <2>3, LedgerSteps
<1> QED BY <1>1, <1>2, ThreadInvariant, PTL DEF CSpec, ImplementsSequential

-----------------------------------------------------------------------------
(***************************************************************************)
(* The promises of the history, kept by any number of threads.             *)
(***************************************************************************)

\* Every step of a thread leaves the books alone, starts them over or is a call
\* of append_locked.
LEMMA ThreadBookSteps ==
  ASSUME ThreadInv, [CNext]_cvars
  PROVE  UNCHANGED books \/ ClearBooks \/ \E e \in Entry : append_locked(e)
<1>1. CASE UNCHANGED vars
  BY <1>1 DEF vars, books
<1>2. CASE Construct
  BY <1>2 DEF Construct, Fresh
<1>3. ASSUME NEW t \in Threads, CallAppend(t) PROVE \E e \in Entry : append_locked(e)
  <2>1. Given(t) \in Entry
    BY <1>3, GivenEntry DEF CallAppend, ThreadInv
  <2>2. append_locked(Given(t))
    BY <1>3, Zenon DEF CallAppend, Given
  <2> QED BY <2>1, <2>2, Zenon
<1>4. ASSUME NEW t \in Threads, CallBatch(t) \/ CallSave(t) \/ CallSet(t)
      PROVE  UNCHANGED books
  BY <1>4, Zenon DEF CallBatch, CallSave, CallSet, SaveToString, SetEpoch, SetShuttingDown
<1>5. ASSUME NEW t \in Threads, LoadHeader(t) \/ Replay(t) PROVE ClearBooks
  BY <1>5, Zenon DEF LoadHeader, Replay
<1>6. ASSUME NEW t \in Threads, LoopTurn(t) PROVE \E e \in Entry : append_locked(e)
  <2>1. loop.rest \in Seq(Entry) /\ loop.rest # <<>> /\ append_locked(Head(loop.rest))
    BY <1>6 DEF LoopTurn, LoopStep, LockFree, ThreadInv, ControlState, LoopBusy
  <2>2. Head(loop.rest) \in Entry
    BY <2>1
  <2> QED BY <2>1, <2>2, Zenon
<1> QED BY <1>1, <1>2, <1>3, <1>4, <1>5, <1>6, LedgerSteps

\* For any threads and calls: no id is committed twice, a completion once per
\* owner, a settled attempt stays settled, publications increase, and the tables
\* that fence all this say what the history says.
THEOREM ThreadsKeepPromises ==
  CSpec => [](/\ UniqueIds /\ OneCompletionPerOwner /\ SettledAttempts
              /\ PublicationsIncrease /\ GuardsMatchHistory)
<1> DEFINE Kept == TablesMatch /\ HistoryPromises
<1>1. CInit => Kept
  BY AuthorityInit DEF CInit, AuthorityInv
<1>2. ASSUME ThreadInv, Kept, [CNext]_cvars PROVE Kept'
  <2>1. BookState
    BY <1>2 DEF ThreadInv
  <2> QED BY <1>2, <2>1, ThreadBookSteps, AuthorityKept
<1>3. Kept => /\ UniqueIds /\ OneCompletionPerOwner /\ SettledAttempts
              /\ PublicationsIncrease /\ GuardsMatchHistory
  BY GuardParts DEF HistoryPromises
<1> HIDE DEF Kept
<1> QED BY <1>1, <1>2, <1>3, ThreadInvariant, PTL DEF CSpec
=============================================================================
