----------------------- MODULE LedgerAuthorityProofs -----------------------
(***************************************************************************)
(* The ledger admits what the committed entries admit: its attempt table,  *)
(* its gates and its index are functions of the history, so the ledger     *)
(* implements AccountingLog, and what the log promises holds of every      *)
(* history: ids, completions and publications that count once, attempts    *)
(* that stay settled.                                                      *)
(***************************************************************************)
EXTENDS LedgerBooksProofs

-----------------------------------------------------------------------------
(***************************************************************************)
(* AccountingLog judges an entry by itself as the ledger does.             *)
(***************************************************************************)

\* The definitions that both modules take from LedgerEntry agree.
LEMMA SameJudgement ==
  ASSUME NEW e
  PROVE  /\ Log!validate(e) <=> validate(e)
         /\ Log!check_classification_consistency(e) = check_classification_consistency(e)
         /\ Log!HasOutcome(e) <=> HasOutcome(e)
         /\ Log!Gated(e) <=> Gated(e)
         /\ Log!IsZero(e.usage) <=> IsZero(e.usage)
<1>1. Log!validate(e) <=> validate(e)
  BY Zenon DEF Log!validate, validate, Log!SharedValid, SharedValid, Log!SumSeq, SumSeq,
     Log!HasOutcome, HasOutcome, Log!NoId, NoId
<1>2. Log!IsZero(e.usage) <=> IsZero(e.usage)
  BY Zenon DEF Log!IsZero, IsZero, Log!Dim, Dim
<1>3. Log!check_classification_consistency(e) = check_classification_consistency(e)
  BY Zenon DEF Log!check_classification_consistency, check_classification_consistency,
     Log!IsZero, IsZero, Log!Dim, Dim, Log!ConsumptionClass, ConsumptionClass,
     Log!is_authoritative_use, is_authoritative_use, Log!ReuseEvent, ReuseEvent,
     Log!NoId, NoId
<1>4. /\ Log!HasOutcome(e) <=> HasOutcome(e)
      /\ Log!Gated(e) <=> Gated(e)
  BY Zenon DEF Log!HasOutcome, HasOutcome, Log!Gated, Gated, Log!LifecycleEvent,
     LifecycleEvent, Log!NoId, NoId
<1> QED BY <1>1, <1>2, <1>3, <1>4

-----------------------------------------------------------------------------
(***************************************************************************)
(* The tables as functions of the history.                                 *)
(***************************************************************************)
PostsOf(h) == {i \in DOMAIN h : h[i].event # "kReclassify"}
TriesOf(h, t) == {i \in PostsOf(h) : h[i].attempt = t}
CompletionsOf(h, g) == {i \in PostsOf(h) : Gated(h[i]) /\ GateOf(h[i].event) = g}

\* What a row of the attempt table says of the attempt's entries.
RowMatches(h, t, st) ==
  /\ \A i \in TriesOf(h, t) :
       /\ HasOutcome(h[i]) => st.outcome = h[i].outcome /\ st.generation = h[i].attemptGen
       /\ h[i].fences.publication <= st.lastPublication
  /\ st.outcome # "kPending" => \E i \in TriesOf(h, t) : HasOutcome(h[i])
  /\ st.outcome = "kPending" => st.generation = NoId
  /\ \/ st.lastPublication = NoId
     \/ \E i \in TriesOf(h, t) : h[i].fences.publication = st.lastPublication

\* What a gate says of the completions.
GateMatches(h, g, owners) ==
  /\ \A i \in CompletionsOf(h, g) : h[i].owner \in owners
  /\ \A o \in owners : \E i \in CompletionsOf(h, g) : h[i].owner = o

\* GuardsMatchHistory, row by row and gate by gate.
TablesMatch ==
  /\ \A t \in AttemptIds : RowMatches(history, t, attempts[t])
  /\ \A g \in Gate : GateMatches(history, g, completed[g])

\* The tables match row by row exactly when they are functions of the history.
LEMMA GuardParts == GuardsMatchHistory <=> TablesMatch
<1> DEFINE of(t) == {i \in Posted : history[i].attempt = t}
           terminal(t) == {i \in of(t) : HasOutcome(history[i])}
           published(t) == {history[i].fences.publication : i \in of(t)}
           row(t) ==
             /\ attempts[t].outcome = "kPending" <=> terminal(t) = {}
             /\ terminal(t) = {} => attempts[t].generation = NoId
             /\ \A i \in terminal(t) : /\ attempts[t].outcome = history[i].outcome
                                       /\ attempts[t].generation = history[i].attemptGen
             /\ attempts[t].lastPublication \in published(t) \cup {NoId}
             /\ \A p \in published(t) : p <= attempts[t].lastPublication
           gate(g) ==
             completed[g] = {history[i].owner : i \in {k \in Posted :
                               Gated(history[k]) /\ GateOf(history[k].event) = g}}
<1>1. GuardsMatchHistory <=> (\A t \in AttemptIds : row(t)) /\ (\A g \in Gate : gate(g))
  BY Zenon DEF GuardsMatchHistory
<1>2. ASSUME NEW t \in AttemptIds
      PROVE  row(t) <=> RowMatches(history, t, attempts[t])
  <2>1. of(t) = TriesOf(history, t)
    BY DEF TriesOf, PostsOf, Posted
  <2>2. terminal(t) = {} <=> \A i \in TriesOf(history, t) : ~HasOutcome(history[i])
    BY <2>1
  <2>3. (\A p \in published(t) : p <= attempts[t].lastPublication) <=>
          \A i \in TriesOf(history, t) :
            history[i].fences.publication <= attempts[t].lastPublication
    BY <2>1
  <2>4. attempts[t].lastPublication \in published(t) \cup {NoId} <=>
          \/ attempts[t].lastPublication = NoId
          \/ \E i \in TriesOf(history, t) :
               history[i].fences.publication = attempts[t].lastPublication
    BY <2>1
  <2>5. (\A i \in terminal(t) : /\ attempts[t].outcome = history[i].outcome
                                /\ attempts[t].generation = history[i].attemptGen) <=>
          \A i \in TriesOf(history, t) : HasOutcome(history[i]) =>
            /\ attempts[t].outcome = history[i].outcome
            /\ attempts[t].generation = history[i].attemptGen
    BY <2>1
  <2>6. \A i : HasOutcome(history[i]) /\ attempts[t].outcome = history[i].outcome
               => attempts[t].outcome # "kPending"
    BY DEF HasOutcome
  <2> HIDE DEF of, terminal, published
  <2> QED BY <2>2, <2>3, <2>4, <2>5, <2>6, Zenon DEF RowMatches
<1>3. ASSUME NEW g \in Gate
      PROVE  gate(g) <=> GateMatches(history, g, completed[g])
  BY DEF GateMatches, CompletionsOf, PostsOf, Posted
<1> HIDE DEF row, gate
<1> QED BY <1>1, <1>2, <1>3 DEF TablesMatch

\* The same after a step.
LEMMA GuardPartsPrime == GuardsMatchHistory' <=> TablesMatch'
BY GuardParts, PTL

-----------------------------------------------------------------------------
(***************************************************************************)
(* The ledger's verdict on an entry is the log's.                          *)
(***************************************************************************)

\* AccountingLog's notions, in terms of the ledger's.
LEMMA SameNotions ==
  /\ Log!Posts = PostsOf(history) /\ Posted = PostsOf(history)
  /\ Log!NoId = NoId /\ Log!SignalEvent = SignalEvent
  /\ Log!ConsumptionClass = ConsumptionClass
  /\ \A ev : Log!GateOf(ev) = GateOf(ev)
<1>1. Log!Posts = PostsOf(history) /\ Posted = PostsOf(history)
  BY DEF Log!Posts, PostsOf, Posted
<1>2. \A ev : Log!GateOf(ev) = GateOf(ev)
  BY Zenon DEF Log!GateOf, GateOf
<1>3. /\ Log!NoId = NoId /\ Log!SignalEvent = SignalEvent
      /\ Log!ConsumptionClass = ConsumptionClass
  BY Zenon DEF Log!NoId, NoId, Log!SignalEvent, SignalEvent, Log!ConsumptionClass,
     ConsumptionClass
<1> QED BY <1>1, <1>2, <1>3

\* The fields of an entry that the tables are about.
LEMMA EntryFields ==
  ASSUME NEW e \in Entry
  PROVE  /\ e.attempt \in AttemptIds \cup {NoId} /\ e.attemptGen \in Nat
         /\ e.outcome \in AttemptOutcome /\ e.fences.publication \in Nat
         /\ Gated(e) => e.owner \in OwnerIds /\ GateOf(e.event) \in Gate
<1>1. e \in EntryRecord
  BY DEF Entry
<1>2. Gated(e) => e.owner \in OwnerIds /\ GateOf(e.event) \in Gate
  BY <1>1 DEF EntryRecord, Gated, GateOf, Gate
<1> QED BY <1>1, <1>2 DEF EntryRecord, Fences

\* The attempt table fences exactly what the attempt's committed entries rule out.
LEMMA AttemptFence ==
  ASSUME BookTypes, TablesMatch, NEW e \in Entry
  PROVE  (e.attempt # NoId =>
            ~StaleGeneration(e) /\ ~AlreadyTerminal(e) /\ ~StalePublication(e))
           <=> Log!AttemptOpen(e) /\ Log!NewestPublication(e)
<1> DEFINE t == e.attempt
           st == attempts[t]
           tries == TriesOf(history, t)
<1>0. /\ t \in AttemptIds \cup {NoId} /\ e.attemptGen \in Nat
      /\ e.fences.publication \in Nat
  BY EntryFields
<1>1. CASE t = NoId
  <2>1. Log!SameAttempt(e) = {}
    BY <1>1, SameNotions DEF Log!SameAttempt
  <2> QED BY <1>1, <2>1 DEF Log!AttemptOpen, Log!NewestPublication
<1>2. CASE t # NoId
  <2>1. Log!SameAttempt(e) = tries
    BY <1>2, SameNotions, Zenon DEF Log!SameAttempt, TriesOf
  <2>2. st \in AttemptState /\ RowMatches(history, t, st)
    BY <1>0, <1>2 DEF BookTypes, TablesMatch
  <2>3. \A i \in tries : /\ history[i].attemptGen \in Nat
                         /\ history[i].fences.publication \in Nat
    <3>1. \A i \in tries : history[i] \in Entry
      BY DEF TriesOf, PostsOf, BookTypes
    <3> QED BY <3>1, EntryFields
  <2>4. /\ st.outcome \in AttemptOutcome /\ st.generation \in Nat
        /\ st.lastPublication \in Nat
    BY <2>2 DEF AttemptState
  <2> HIDE DEF st, tries
  <2>5. /\ \A i \in tries :
             /\ HasOutcome(history[i]) =>
                  st.outcome = history[i].outcome /\ st.generation = history[i].attemptGen
             /\ history[i].fences.publication <= st.lastPublication
        /\ st.outcome # "kPending" => \E i \in tries : HasOutcome(history[i])
        /\ st.outcome = "kPending" => st.generation = NoId
        /\ \/ st.lastPublication = NoId
           \/ \E i \in tries : history[i].fences.publication = st.lastPublication
    BY <2>2, Zenon DEF RowMatches, tries
  <2>6. ~StaleGeneration(e) /\ ~AlreadyTerminal(e) <=> Log!AttemptOpen(e)
    <3>1. StaleGeneration(e) <=> /\ st.generation # NoId /\ e.attemptGen # NoId
                                 /\ st.generation # e.attemptGen
      BY Zenon DEF StaleGeneration, st
    <3>2. AlreadyTerminal(e) <=> /\ st.outcome # "kPending"
                                 /\ HasOutcome(e) \/ e.event \in SignalEvent
      BY Zenon DEF AlreadyTerminal, st
    <3>3. Log!AttemptOpen(e) <=>
            \A i \in tries : HasOutcome(history[i]) =>
              /\ ~HasOutcome(e)
              /\ e.event \notin SignalEvent
              /\ e.attemptGen \in {NoId, history[i].attemptGen} \/ history[i].attemptGen = NoId
      BY <2>1, SameNotions, SameJudgement, Zenon DEF Log!AttemptOpen
    <3>4. CASE st.outcome = "kPending"
      <4>1. \A i \in tries : ~HasOutcome(history[i])
        BY <2>5, <3>4, Zenon DEF HasOutcome
      <4> QED BY <2>5, <3>1, <3>2, <3>3, <3>4, <4>1
    <3>5. CASE st.outcome # "kPending"
      BY <2>5, <3>1, <3>2, <3>3, <3>5, Zenon
    <3> QED BY <3>4, <3>5
  <2>7. ~StalePublication(e) <=> Log!NewestPublication(e)
    <3>1. StalePublication(e) <=> /\ e.fences.publication # NoId
                                  /\ st.lastPublication # NoId
                                  /\ e.fences.publication <= st.lastPublication
      BY Zenon DEF StalePublication, st
    <3>2. Log!NewestPublication(e) <=>
            (e.fences.publication # NoId =>
               \A i \in tries : history[i].fences.publication < e.fences.publication)
      BY <2>1, SameNotions, Zenon DEF Log!NewestPublication
    <3> QED BY <1>0, <2>3, <2>4, <2>5, <3>1, <3>2 DEF NoId
  <2> QED BY <1>2, <2>6, <2>7
<1> QED BY <1>1, <1>2

\* A gate rejects exactly a second completion of an owner.
LEMMA GateFence ==
  ASSUME BookTypes, TablesMatch, NEW e \in Entry
  PROVE  ~DuplicateCompletion(e) <=> Log!FirstCompletion(e)
<1> DEFINE g == GateOf(e.event)
<1>1. Log!FirstCompletion(e) <=>
        (Gated(e) => \A i \in CompletionsOf(history, g) : history[i].owner # e.owner)
  BY SameNotions, SameJudgement, Zenon DEF Log!FirstCompletion, CompletionsOf
<1>2. Gated(e) => GateMatches(history, g, completed[g])
  BY EntryFields DEF TablesMatch
<1>3. DuplicateCompletion(e) <=> Gated(e) /\ e.owner \in completed[g]
  BY Zenon DEF DuplicateCompletion
<1> HIDE DEF g
<1> QED BY <1>1, <1>2, <1>3, Zenon DEF GateMatches

\* The index finds the one entry of an id.
LEMMA IndexLookup ==
  ASSUME UniqueIds, NEW i \in DOMAIN history
  PROVE  Committed(history[i].id) /\ EntryOf(history[i].id) = history[i]
<1> DEFINE c == CHOOSE j \in DOMAIN history : history[j].id = history[i].id
<1>1. c \in DOMAIN history /\ history[c].id = history[i].id
  OBVIOUS
<1> HIDE DEF c
<1>2. c = i
  BY <1>1 DEF UniqueIds
<1> QED BY <1>2 DEF Committed, EntryOf, c

\* A revision is let through exactly when it reinterprets a committed entry.
LEMMA RevisionTarget ==
  ASSUME UniqueIds, NEW e
  PROVE  Log!Reinterprets(e) <=>
           /\ IsZero(e.usage) /\ Committed(e.target)
           /\ (EntryOf(e.target).class \in ConsumptionClass) = (e.class \in ConsumptionClass)
<1>1. Log!Reinterprets(e) <=>
        /\ IsZero(e.usage)
        /\ \E i \in DOMAIN history :
             /\ history[i].id = e.target
             /\ (history[i].class \in ConsumptionClass) = (e.class \in ConsumptionClass)
  BY SameNotions, SameJudgement, Zenon DEF Log!Reinterprets
<1>2. \A i \in DOMAIN history : history[i].id = e.target => EntryOf(e.target) = history[i]
  BY IndexLookup
<1>3. Committed(e.target) <=> \E i \in DOMAIN history : history[i].id = e.target
  BY DEF Committed
<1> QED BY <1>1, <1>2, <1>3, Zenon

\* The verdict: an entry that is not fenced off is accepted exactly when the
\* committed entries admit it.
LEMMA Admission ==
  ASSUME BookTypes, TablesMatch, UniqueIds, NEW e \in Entry
  PROVE  Verdict(e) = "OK" <=>
           /\ ~shuttingDown /\ ~StaleFences(e) /\ ~StaleBoot(e)
           /\ Log!Admissible(e)
<1> DEFINE fenced == e.attempt # NoId /\ (StaleGeneration(e) \/ AlreadyTerminal(e)
                                            \/ StalePublication(e))
<1>1. Stale(e) <=> StaleFences(e) \/ StaleBoot(e) \/ fenced
  BY Zenon DEF Stale
<1>2. ~fenced <=> Log!AttemptOpen(e) /\ Log!NewestPublication(e)
  BY AttemptFence
<1> HIDE DEF fenced
<1>3. ~Committed(e.id) <=> Log!FirstOfItsId(e)
  BY DEF Committed, Log!FirstOfItsId
<1>4. Log!Admissible(e) <=>
        /\ validate(e) /\ ~Committed(e.id) /\ ~fenced
        /\ IF e.event = "kReclassify" THEN Log!Reinterprets(e)
           ELSE check_classification_consistency(e) = "OK" /\ ~DuplicateCompletion(e)
  BY <1>2, <1>3, SameJudgement, GateFence, Zenon DEF Log!Admissible
<1>5. RevisionVerdict(e) = "OK" <=> ~Stale(e) /\ Log!Reinterprets(e)
  BY RevisionTarget DEF RevisionVerdict
<1>6. PostingVerdict(e) = "OK" <=>
        check_classification_consistency(e) = "OK" /\ ~Stale(e) /\ ~DuplicateCompletion(e)
  BY DEF PostingVerdict
<1>7. Verdict(e) = "OK" <=>
        /\ ~shuttingDown /\ validate(e) /\ ~Committed(e.id)
        /\ IF e.event = "kReclassify" THEN RevisionVerdict(e) = "OK"
           ELSE PostingVerdict(e) = "OK"
  BY DEF Verdict
<1> QED BY <1>1, <1>4, <1>5, <1>6, <1>7, Zenon

-----------------------------------------------------------------------------
(***************************************************************************)
(* What a step does to the history.                                        *)
(***************************************************************************)

\* The positions of a history that took in one more entry.
LEMMA Appended ==
  ASSUME NEW h \in Seq(Entry), NEW e \in Entry
  PROVE  LET n == Len(h) + 1
             g == Append(h, e)
         IN  /\ n \in Nat /\ DOMAIN g = DOMAIN h \cup {n} /\ g[n] = e
             /\ \A i \in DOMAIN h : i \in Nat /\ i < n /\ g[i] = h[i] /\ h[i] \in Entry
<1>1. Len(h) \in Nat /\ DOMAIN h = 1..Len(h)
  OBVIOUS
<1>2. DOMAIN Append(h, e) = 1..(Len(h) + 1)
  OBVIOUS
<1>3. Append(h, e)[Len(h) + 1] = e /\ \A i \in 1..Len(h) : Append(h, e)[i] = h[i]
  OBVIOUS
<1>4. \A i \in 1..Len(h) : h[i] \in Entry
  OBVIOUS
<1>5. 1..(Len(h) + 1) = 1..Len(h) \cup {Len(h) + 1}
  BY <1>1
<1> QED BY <1>1, <1>2, <1>3, <1>4, <1>5

\* Every step leaves the books alone, starts them over or is a call of
\* append_locked.
LEMMA BookSteps ==
  ASSUME BookState, ControlState, [Next]_vars
  PROVE  UNCHANGED books \/ ClearBooks \/ \E e \in Entry : append_locked(e)
<1>1. ASSUME NEW e \in Submissions, AppendEntry(e)
      PROVE  \E x \in Entry : append_locked(x)
  BY <1>1, SubmissionAssumption DEF AppendEntry
<1>2. ASSUME NEW req \in Requests, Reclassify(req)
      PROVE  \E x \in Entry : append_locked(x)
  <2>1. Revision(req) \in Entry
    BY SubmissionAssumption, RevisionType
  <2> QED BY <1>2, <2>1 DEF Reclassify
<1>3. ASSUME LoopStep
      PROVE  \E x \in Entry : append_locked(x)
  <2>1. loop.rest \in Seq(Entry) /\ loop.rest # <<>>
    BY <1>3 DEF ControlState, LoopStep, LockFree, LoopBusy
  <2>2. Head(loop.rest) \in Entry
    BY <2>1
  <2> QED BY <1>3, <2>2 DEF LoopStep
<1>4. ASSUME NEW s, LoadHistory(s) \/ LoadFromString(s) \/ LoadRefused(s)
      PROVE  UNCHANGED books \/ ClearBooks
  BY <1>4, Zenon DEF LoadHistory, LoadFromString, LoadRefused, books
<1>5. ASSUME NEW es, AppendBatch(es)
      PROVE  UNCHANGED books
  BY <1>5 DEF AppendBatch, books
<1>6. CASE Construct
  BY <1>6 DEF Construct, Fresh
<1>7. ASSUME NEW v, NEW lg, NEW ag, NEW b,
             \/ SaveToString \/ AdvanceEpoch \/ SetEpoch(v) \/ SetGenerations(lg, ag)
             \/ RegisterWorker(b) \/ UnregisterWorker(b) \/ SetShuttingDown
             \/ UNCHANGED vars
      PROVE  UNCHANGED books
  BY <1>7 DEF SaveToString, AdvanceEpoch, SetEpoch, SetGenerations, RegisterWorker,
     UnregisterWorker, SetShuttingDown, books, vars
<1> QED BY <1>1, <1>2, <1>3, <1>4, <1>5, <1>6, <1>7 DEF Next

\* append_locked commits nothing, or appends an entry its checks let through
\* and brings the tables up to date.
Commits(e) ==
  /\ Verdict(e) = "OK"
  /\ history' = Append(history, e)
  /\ attempts' = IF e.event # "kReclassify" /\ e.attempt # NoId
                 THEN [attempts EXCEPT ![e.attempt] = AttemptAfter(@, e)] ELSE attempts
  /\ completed' = IF e.event # "kReclassify" /\ Gated(e)
                  THEN [completed EXCEPT ![GateOf(e.event)] = @ \cup {e.owner}]
                  ELSE completed
CommitsNothing == UNCHANGED <<history, attempts, completed>>

\* A refusal, an overflow and a failed revision commit nothing.
LEMMA AppendCommits ==
  ASSUME NEW e, append_locked(e)
  PROVE  Commits(e) \/ CommitsNothing
<1>1. CASE Refuse(e)
  BY <1>1 DEF Refuse, books, CommitsNothing
<1>2. CASE Post(e)
  <2>1. PICK outcome \in apply_attribution(e) :
         /\ completed' = IF outcome.ok /\ Gated(e)
                         THEN [completed EXCEPT ![GateOf(e.event)] = @ \cup {e.owner}]
                         ELSE completed
         /\ attempts' = IF outcome.ok /\ e.attempt # NoId
                        THEN [attempts EXCEPT ![e.attempt] = AttemptAfter(@, e)]
                        ELSE attempts
         /\ history' = IF outcome.ok THEN Append(history, e) ELSE history
    BY <1>2, Zenon DEF Post
  <2>2. Verdict(e) = "OK" /\ e.event # "kReclassify"
    BY <1>2 DEF Post
  <2>3. CASE outcome.ok
    BY <2>1, <2>2, <2>3, Zenon DEF Commits
  <2>4. CASE ~outcome.ok
    BY <2>1, <2>4 DEF CommitsNothing
  <2> QED BY <2>3, <2>4
<1>3. CASE Revise(e)
  <2> DEFINE outcome == apply_reclassify_locked(e)
  <2>1. /\ history' = IF outcome.ok THEN Append(history, e) ELSE history
        /\ UNCHANGED <<attempts, completed>>
        /\ Verdict(e) = "OK" /\ e.event = "kReclassify"
    BY <1>3, Zenon DEF Revise
  <2> HIDE DEF outcome
  <2> QED BY <2>1 DEF Commits, CommitsNothing
<1> QED BY <1>1, <1>2, <1>3 DEF append_locked

-----------------------------------------------------------------------------
(***************************************************************************)
(* The tables keep matching.                                               *)
(***************************************************************************)

\* An entry of another attempt, or a revision, does not concern a row.
LEMMA OtherRow ==
  ASSUME NEW h \in Seq(Entry), NEW e \in Entry, NEW t, NEW st, RowMatches(h, t, st),
         e.event = "kReclassify" \/ e.attempt # t
  PROVE  RowMatches(Append(h, e), t, st)
<1> DEFINE g == Append(h, e)
           n == Len(h) + 1
<1>1. /\ DOMAIN g = DOMAIN h \cup {n} /\ g[n] = e
      /\ \A i \in DOMAIN h : g[i] = h[i]
  BY Appended
<1> HIDE DEF g, n
<1>2. TriesOf(g, t) = TriesOf(h, t) /\ \A i \in TriesOf(h, t) : g[i] = h[i]
  BY <1>1 DEF TriesOf, PostsOf
<1>3. RowMatches(g, t, st)
  BY <1>2, Zenon DEF RowMatches
<1> QED BY <1>3 DEF g

\* A row takes in the outcome and the publication of an entry of its attempt.
LEMMA OwnRow ==
  ASSUME NEW h \in Seq(Entry), NEW e \in Entry, NEW st \in AttemptState,
         RowMatches(h, e.attempt, st), e.event # "kReclassify",
         st.outcome = "kPending" \/ ~HasOutcome(e)
  PROVE  RowMatches(Append(h, e), e.attempt, AttemptAfter(st, e))
<1> DEFINE t == e.attempt
           g == Append(h, e)
           n == Len(h) + 1
           new == AttemptAfter(st, e)
<1>1. /\ DOMAIN g = DOMAIN h \cup {n} /\ g[n] = e
      /\ \A i \in DOMAIN h : g[i] = h[i] /\ h[i] \in Entry
  BY Appended
<1>2. /\ e.outcome \in AttemptOutcome /\ e.attemptGen \in Nat
      /\ e.fences.publication \in Nat
  BY EntryFields
<1>3. st.outcome \in AttemptOutcome /\ st.generation \in Nat /\ st.lastPublication \in Nat
  BY DEF AttemptState
<1>4. /\ new.outcome = IF HasOutcome(e) THEN e.outcome ELSE st.outcome
      /\ new.generation = IF HasOutcome(e) THEN e.attemptGen ELSE st.generation
      /\ new.lastPublication = IF e.fences.publication > st.lastPublication
                               THEN e.fences.publication ELSE st.lastPublication
  BY DEF AttemptAfter
<1> HIDE DEF g, n, new
<1>5. /\ TriesOf(g, t) = TriesOf(h, t) \cup {n}
      /\ \A i \in TriesOf(h, t) : g[i] = h[i] /\ h[i].fences.publication \in Nat
  <2>1. \A i \in TriesOf(h, t) : g[i] = h[i] /\ h[i] \in Entry
    BY <1>1 DEF TriesOf, PostsOf
  <2>2. TriesOf(g, t) = TriesOf(h, t) \cup {n}
    BY <1>1 DEF TriesOf, PostsOf
  <2> QED BY <2>1, <2>2, EntryFields
<1>6. /\ \A i \in TriesOf(h, t) :
           /\ HasOutcome(h[i]) => st.outcome = h[i].outcome /\ st.generation = h[i].attemptGen
           /\ h[i].fences.publication <= st.lastPublication
      /\ st.outcome # "kPending" => \E i \in TriesOf(h, t) : HasOutcome(h[i])
      /\ st.outcome = "kPending" => st.generation = NoId
      /\ \/ st.lastPublication = NoId
         \/ \E i \in TriesOf(h, t) : h[i].fences.publication = st.lastPublication
  BY Zenon DEF RowMatches
<1>7. \A i \in TriesOf(g, t) :
        HasOutcome(g[i]) => new.outcome = g[i].outcome /\ new.generation = g[i].attemptGen
  <2>1. ASSUME NEW i \in TriesOf(h, t), HasOutcome(h[i])
        PROVE  new.outcome = g[i].outcome /\ new.generation = g[i].attemptGen
    <3>1. st.outcome # "kPending"
      BY <1>6, <2>1 DEF HasOutcome
    <3> QED BY <1>4, <1>5, <1>6, <2>1, <3>1
  <2> QED BY <1>1, <1>4, <1>5, <2>1
<1>8. \A i \in TriesOf(g, t) : g[i].fences.publication <= new.lastPublication
  BY <1>1, <1>2, <1>3, <1>4, <1>5, <1>6
<1>9. new.outcome # "kPending" => \E i \in TriesOf(g, t) : HasOutcome(g[i])
  <2>1. CASE HasOutcome(e)
    BY <1>1, <1>5, <2>1
  <2>2. CASE ~HasOutcome(e)
    BY <1>4, <1>5, <1>6, <2>2
  <2> QED BY <2>1, <2>2
<1>10. new.outcome = "kPending" => new.generation = NoId
  BY <1>4, <1>6 DEF HasOutcome
<1>11. \/ new.lastPublication = NoId
       \/ \E i \in TriesOf(g, t) : g[i].fences.publication = new.lastPublication
  <2>1. CASE e.fences.publication > st.lastPublication
    BY <1>1, <1>4, <1>5, <2>1
  <2>2. CASE ~(e.fences.publication > st.lastPublication)
    <3>1. new.lastPublication = st.lastPublication
      BY <1>4, <2>2
    <3> QED BY <1>5, <1>6, <3>1
  <2> QED BY <2>1, <2>2
<1>12. RowMatches(g, t, new)
  BY <1>7, <1>8, <1>9, <1>10, <1>11, Zenon DEF RowMatches
<1> QED BY <1>12 DEF g, new

\* A gate takes in the owner of a completion, and only that.
LEMMA GateTakes ==
  ASSUME NEW h \in Seq(Entry), NEW e \in Entry, NEW g, NEW owners, GateMatches(h, g, owners)
  PROVE  IF e.event # "kReclassify" /\ Gated(e) /\ GateOf(e.event) = g
         THEN GateMatches(Append(h, e), g, owners \cup {e.owner})
         ELSE GateMatches(Append(h, e), g, owners)
<1> DEFINE x == Append(h, e)
           n == Len(h) + 1
           here == e.event # "kReclassify" /\ Gated(e) /\ GateOf(e.event) = g
<1>1. /\ DOMAIN x = DOMAIN h \cup {n} /\ x[n] = e
      /\ \A i \in DOMAIN h : x[i] = h[i]
  BY Appended
<1> HIDE DEF x, n
<1>2. CompletionsOf(x, g) = IF here THEN CompletionsOf(h, g) \cup {n} ELSE CompletionsOf(h, g)
  BY <1>1 DEF CompletionsOf, PostsOf
<1>3. \A i \in CompletionsOf(h, g) : x[i] = h[i]
  BY <1>1 DEF CompletionsOf, PostsOf
<1> HIDE DEF here
<1>4. IF here THEN GateMatches(x, g, owners \cup {e.owner}) ELSE GateMatches(x, g, owners)
  BY <1>1, <1>2, <1>3 DEF GateMatches
<1> QED BY <1>4 DEF x, here

\* A committed entry leaves tables that match the longer history.
LEMMA CommitKeepsTables ==
  ASSUME BookTypes, TablesMatch, NEW e \in Entry, Commits(e)
  PROVE  TablesMatch'
<1>0. /\ history \in Seq(Entry)
      /\ attempts \in [AttemptIds -> AttemptState]
      /\ completed \in [Gate -> SUBSET OwnerIds]
      /\ history' = Append(history, e)
  BY DEF BookTypes, Commits
<1>1. ASSUME NEW t \in AttemptIds
      PROVE  RowMatches(Append(history, e), t, attempts'[t])
  <2>1. RowMatches(history, t, attempts[t]) /\ attempts[t] \in AttemptState
    BY <1>0 DEF TablesMatch
  <2>2. CASE e.event = "kReclassify" \/ e.attempt # t
    <3>1. attempts'[t] = attempts[t]
      BY <1>0, <2>2 DEF Commits
    <3> QED BY <1>0, <2>1, <2>2, <3>1, OtherRow
  <2>3. CASE e.event # "kReclassify" /\ e.attempt = t
    <3>1. t # NoId
      BY IdAssumption
    <3>2. attempts'[t] = AttemptAfter(attempts[t], e)
      BY <1>0, <2>3, <3>1 DEF Commits
    <3>3. attempts[t].outcome = "kPending" \/ ~HasOutcome(e)
      <4>1. ~Stale(e)
        BY <2>3 DEF Commits, Verdict, PostingVerdict
      <4> QED BY <2>3, <3>1, <4>1 DEF Stale, AlreadyTerminal
    <3> QED BY <1>0, <2>1, <2>3, <3>2, <3>3, OwnRow
  <2> QED BY <2>2, <2>3
<1>2. ASSUME NEW g \in Gate
      PROVE  GateMatches(Append(history, e), g, completed'[g])
  <2>1. GateMatches(history, g, completed[g])
    BY DEF TablesMatch
  <2>2. completed'[g] = IF e.event # "kReclassify" /\ Gated(e) /\ GateOf(e.event) = g
                        THEN completed[g] \cup {e.owner} ELSE completed[g]
    BY <1>0 DEF Commits
  <2> QED BY <1>0, <2>1, <2>2, GateTakes
<1> QED BY <1>0, <1>1, <1>2 DEF TablesMatch

\* Empty tables match the empty history.
LEMMA EmptyTables ==
  /\ \A t \in AttemptIds : RowMatches(<<>>, t, NoAttempts[t])
  /\ \A g \in Gate : GateMatches(<<>>, g, [x \in Gate |-> {}][g])
<1>1. ASSUME NEW t PROVE TriesOf(<<>>, t) = {} /\ \A g : CompletionsOf(<<>>, g) = {}
  BY DEF TriesOf, CompletionsOf, PostsOf
<1>2. ASSUME NEW t \in AttemptIds PROVE RowMatches(<<>>, t, NoAttempts[t])
  BY <1>1 DEF RowMatches, NoAttempts
<1>3. ASSUME NEW g \in Gate PROVE GateMatches(<<>>, g, [x \in Gate |-> {}][g])
  BY <1>1 DEF GateMatches
<1> QED BY <1>2, <1>3

-----------------------------------------------------------------------------
(***************************************************************************)
(* What the log admits keeps the promises of the history.                  *)
(***************************************************************************)
HistoryPromises ==
  UniqueIds /\ OneCompletionPerOwner /\ SettledAttempts /\ PublicationsIncrease

\* The promises, spelled out for a pair of positions.
PairPromise(h, i, j) ==
  /\ h[i].id = h[j].id => i = j
  /\ i \in PostsOf(h) /\ j \in PostsOf(h) =>
       /\ /\ Gated(h[i]) /\ Gated(h[j])
          /\ GateOf(h[i].event) = GateOf(h[j].event)
          /\ h[i].owner = h[j].owner
          => i = j
       /\ i < j /\ h[i].attempt # NoId /\ h[i].attempt = h[j].attempt =>
            /\ HasOutcome(h[i]) =>
                 /\ ~HasOutcome(h[j]) /\ h[j].event \notin SignalEvent
                 /\ h[i].attemptGen # NoId /\ h[j].attemptGen # NoId
                    => h[i].attemptGen = h[j].attemptGen
            /\ h[i].fences.publication # NoId /\ h[j].fences.publication # NoId
               => h[i].fences.publication < h[j].fences.publication
PairPromises == \A i, j \in DOMAIN history : PairPromise(history, i, j)

\* A history keeps its promises exactly when every pair of positions does.
LEMMA PromisesByPairs == HistoryPromises <=> PairPromises
<1>0. Posted = PostsOf(history) /\ \A i \in Posted : i \in DOMAIN history
  BY DEF Posted, PostsOf
<1> DEFINE id(i, j) == history[i].id = history[j].id => i = j
           gate(i, j) == /\ Gated(history[i]) /\ Gated(history[j])
                         /\ GateOf(history[i].event) = GateOf(history[j].event)
                         /\ history[i].owner = history[j].owner
                         => i = j
           settled(i, j) ==
             /\ i < j /\ history[i].attempt # NoId /\ history[i].attempt = history[j].attempt
             /\ HasOutcome(history[i])
             => /\ ~HasOutcome(history[j]) /\ history[j].event \notin SignalEvent
                /\ history[i].attemptGen # NoId /\ history[j].attemptGen # NoId
                   => history[i].attemptGen = history[j].attemptGen
           newer(i, j) ==
             /\ i < j
             /\ history[i].attempt # NoId /\ history[i].attempt = history[j].attempt
             /\ history[i].fences.publication # NoId /\ history[j].fences.publication # NoId
             => history[i].fences.publication < history[j].fences.publication
<1>1. UniqueIds <=> \A i, j \in DOMAIN history : id(i, j)
  BY Zenon DEF UniqueIds
<1>2. OneCompletionPerOwner <=> \A i, j \in Posted : gate(i, j)
  BY Zenon DEF OneCompletionPerOwner
<1>3. SettledAttempts <=> \A i, j \in Posted : settled(i, j)
  BY Zenon DEF SettledAttempts
<1>4. PublicationsIncrease <=> \A i, j \in Posted : newer(i, j)
  BY Zenon DEF PublicationsIncrease
<1>5. ASSUME NEW i \in DOMAIN history, NEW j \in DOMAIN history
      PROVE  PairPromise(history, i, j) <=>
               /\ id(i, j)
               /\ i \in Posted /\ j \in Posted => gate(i, j) /\ settled(i, j) /\ newer(i, j)
  BY <1>0, Zenon DEF PairPromise
<1> HIDE DEF id, gate, settled, newer
<1> QED BY <1>0, <1>1, <1>2, <1>3, <1>4, <1>5, Zenon DEF HistoryPromises, PairPromises

\* The same after a step.
LEMMA PromisesByPairsPrime == HistoryPromises' <=> PairPromises'
BY PromisesByPairs, PTL

\* An entry the log admits keeps every promise with every earlier entry.
LEMMA AdmittedKeepsPromises ==
  ASSUME BookTypes, HistoryPromises, NEW e \in Entry, Log!Admissible(e),
         history' = Append(history, e)
  PROVE  HistoryPromises'
<1> DEFINE n == Len(history) + 1
           g == Append(history, e)
<1>1. history \in Seq(Entry) /\ PairPromises
  BY PromisesByPairs DEF BookTypes
<1>2. /\ n \in Nat /\ DOMAIN g = DOMAIN history \cup {n} /\ g[n] = e
      /\ \A i \in DOMAIN history : /\ i \in Nat /\ i < n /\ g[i] = history[i]
                                   /\ history[i] \in Entry
  BY <1>1, Appended
<1> HIDE DEF n, g
<1>3. /\ Log!FirstOfItsId(e) /\ Log!AttemptOpen(e) /\ Log!NewestPublication(e)
      /\ e.event # "kReclassify" => Log!FirstCompletion(e)
  BY Zenon DEF Log!Admissible
<1>4. ASSUME NEW i \in DOMAIN history, NEW j \in DOMAIN history
      PROVE  PairPromise(g, i, j)
  <2>1. PairPromise(history, i, j)
    BY <1>1 DEF PairPromises
  <2>2. (i \in PostsOf(g) <=> i \in PostsOf(history))
        /\ (j \in PostsOf(g) <=> j \in PostsOf(history))
    BY <1>2 DEF PostsOf
  <2>3. g[i] = history[i] /\ g[j] = history[j]
    BY <1>2
  <2> QED BY <2>1, <2>2, <2>3, Zenon DEF PairPromise
<1>5. ASSUME NEW i \in DOMAIN history
      PROVE  PairPromise(g, i, n) /\ PairPromise(g, n, i)
  <2> DEFINE x == history[i]
  <2>1. /\ g[i] = x /\ g[n] = e /\ i \in Nat /\ n \in Nat /\ i < n /\ x \in Entry
        /\ (i \in PostsOf(g) <=> i \in PostsOf(history))
        /\ (n \in PostsOf(g) => e.event # "kReclassify")
    BY <1>2 DEF PostsOf
  <2>2. x.id # e.id
    BY <1>3 DEF Log!FirstOfItsId
  <2>3. i \in PostsOf(g) /\ n \in PostsOf(g) =>
          ~(Gated(x) /\ Gated(e) /\ GateOf(x.event) = GateOf(e.event) /\ x.owner = e.owner)
    BY <1>3, <2>1, SameNotions, SameJudgement, Zenon DEF Log!FirstCompletion
  <2>4. ASSUME i \in PostsOf(g), x.attempt # NoId, x.attempt = e.attempt
        PROVE  /\ HasOutcome(x) =>
                    /\ ~HasOutcome(e) /\ e.event \notin SignalEvent
                    /\ e.attemptGen \in {NoId, x.attemptGen} \/ x.attemptGen = NoId
               /\ e.fences.publication # NoId =>
                    x.fences.publication < e.fences.publication
    <3>1. i \in Log!SameAttempt(e)
      BY <2>1, <2>4, SameNotions, Zenon DEF Log!SameAttempt
    <3>2. HasOutcome(x) =>
                    /\ ~HasOutcome(e) /\ e.event \notin SignalEvent
                    /\ e.attemptGen \in {NoId, x.attemptGen} \/ x.attemptGen = NoId
      BY <1>3, <3>1, SameNotions, SameJudgement, Zenon DEF Log!AttemptOpen
    <3>3. e.fences.publication # NoId => x.fences.publication < e.fences.publication
      BY <1>3, <3>1, SameNotions, Zenon DEF Log!NewestPublication
    <3> QED BY <3>2, <3>3
  <2>5. ~(n < i) /\ i # n
    BY <2>1
  <2> HIDE DEF x
  <2>6. PairPromise(g, i, n)
    BY <2>1, <2>2, <2>3, <2>4, Zenon DEF PairPromise
  <2>7. PairPromise(g, n, i)
    BY <2>1, <2>2, <2>3, <2>5, Zenon DEF PairPromise
  <2> QED BY <2>6, <2>7
<1>6. PairPromise(g, n, n)
  <2>1. ~(n < n)
    BY <1>2
  <2> QED BY <2>1, Zenon DEF PairPromise
<1>7. \A i, j \in DOMAIN g : PairPromise(g, i, j)
  BY <1>2, <1>4, <1>5, <1>6
<1>8. PairPromises'
  BY <1>7 DEF PairPromises, g
<1> QED BY <1>8, PromisesByPairsPrime

-----------------------------------------------------------------------------
(***************************************************************************)
(* The invariant.  The tables must match the history for the verdict to be *)
(* the log's, and the ids must be unique for the index to find a target.   *)
(***************************************************************************)
AuthorityInv == BooksInv /\ TablesMatch /\ HistoryPromises

\* The empty history keeps every promise.
LEMMA EmptyPromises ==
  /\ history = <<>> => HistoryPromises
  /\ history' = <<>> => HistoryPromises'
<1>1. \A i \in DOMAIN <<>> : FALSE
  OBVIOUS
<1>2. history = <<>> => PairPromises
  BY <1>1 DEF PairPromises
<1>3. history' = <<>> => PairPromises'
  BY <1>1 DEF PairPromises
<1> QED BY <1>2, <1>3, PromisesByPairs, PromisesByPairsPrime

\* A new ledger satisfies the invariant.
LEMMA AuthorityInit == Init => AuthorityInv
<1> SUFFICES ASSUME Init PROVE TablesMatch /\ HistoryPromises
  BY BooksInvInit DEF AuthorityInv
<1>1. TablesMatch
  BY EmptyTables DEF Init, TablesMatch
<1> QED BY <1>1, EmptyPromises DEF Init

\* What a step does to the history: nothing, starting over, or taking in an
\* entry the log admits; the tables follow.
LEMMA HistoryMoves ==
  ASSUME BookState, TablesMatch, HistoryPromises,
         UNCHANGED books \/ ClearBooks \/ \E e \in Entry : append_locked(e)
  PROVE  \/ CommitsNothing
         \/ ClearBooks
         \/ \E e \in Entry : Commits(e) /\ Log!Admissible(e)
<1>1. CASE UNCHANGED books
  BY <1>1 DEF books, CommitsNothing
<1>2. ASSUME NEW e \in Entry, append_locked(e)
      PROVE  CommitsNothing \/ (Commits(e) /\ Log!Admissible(e))
  <2>1. Commits(e) => Verdict(e) = "OK"
    BY DEF Commits
  <2>2. Verdict(e) = "OK" => Log!Admissible(e)
    BY Admission DEF BookState, HistoryPromises
  <2> QED BY <1>2, <2>1, <2>2, AppendCommits
<1> QED BY <1>1, <1>2

\* The same for a step of the ledger.
LEMMA HistorySteps ==
  ASSUME AuthorityInv, [Next]_vars
  PROVE  \/ CommitsNothing
         \/ ClearBooks
         \/ \E e \in Entry : Commits(e) /\ Log!Admissible(e)
<1>1. BookState /\ ControlState /\ TablesMatch /\ HistoryPromises
  BY InvariantParts DEF AuthorityInv
<1> QED BY <1>1, BookSteps, HistoryMoves

\* Whoever calls the ledger: books that are left alone, cleared or appended to
\* keep their tables right and the promises of their history.
LEMMA AuthorityKept ==
  ASSUME BookState, TablesMatch, HistoryPromises,
         UNCHANGED books \/ ClearBooks \/ \E e \in Entry : append_locked(e)
  PROVE  TablesMatch' /\ HistoryPromises'
<1>1. BookTypes
  BY DEF BookState
<1>2. CASE CommitsNothing
  <2>1. TablesMatch'
    BY <1>2 DEF CommitsNothing, TablesMatch
  <2>2. PairPromises'
    BY <1>2, PromisesByPairs DEF CommitsNothing, PairPromises
  <2> QED BY <2>1, <2>2, PromisesByPairsPrime
<1>3. CASE ClearBooks
  <2>1. TablesMatch'
    BY <1>3, EmptyTables DEF ClearBooks, TablesMatch
  <2> QED BY <1>3, <2>1, EmptyPromises DEF ClearBooks
<1>4. ASSUME NEW e \in Entry, Commits(e), Log!Admissible(e)
      PROVE  TablesMatch' /\ HistoryPromises'
  <2>1. history' = Append(history, e)
    BY <1>4 DEF Commits
  <2> QED BY <1>1, <1>4, <2>1, CommitKeepsTables, AdmittedKeepsPromises
<1> QED BY <1>2, <1>3, <1>4, HistoryMoves

\* Every step of the ledger keeps the invariant.
LEMMA AuthorityStep == AuthorityInv /\ [Next]_vars => AuthorityInv'
<1> SUFFICES ASSUME AuthorityInv, [Next]_vars
             PROVE  TablesMatch' /\ HistoryPromises'
  BY BooksInvStep DEF AuthorityInv
<1>1. BookState /\ ControlState /\ TablesMatch /\ HistoryPromises
  BY InvariantParts DEF AuthorityInv
<1> QED BY <1>1, BookSteps, AuthorityKept

\* The invariant holds in every state the ledger reaches.
THEOREM AuthorityInvariant == Spec => []AuthorityInv
BY AuthorityInit, AuthorityStep, PTL DEF Spec

\* No id is committed twice, whatever was refused, replayed or cut short.
THEOREM IdsAreUnique == Spec => []UniqueIds
<1>1. AuthorityInv => UniqueIds
  BY DEF AuthorityInv, HistoryPromises
<1> QED BY <1>1, AuthorityInvariant, PTL

\* The at-most-once gates hold: one completion per transfer, reservation,
\* allocation or recovery in the whole history.
THEOREM CompletionsAreUnique == Spec => []OneCompletionPerOwner
<1>1. AuthorityInv => OneCompletionPerOwner
  BY DEF AuthorityInv, HistoryPromises
<1> QED BY <1>1, AuthorityInvariant, PTL

\* A terminal attempt is never resurrected by a later outcome, completion
\* signal or entry of another generation.
THEOREM AttemptsStaySettled == Spec => []SettledAttempts
<1>1. AuthorityInv => SettledAttempts
  BY DEF AuthorityInv, HistoryPromises
<1> QED BY <1>1, AuthorityInvariant, PTL

\* The publications accounted for an attempt strictly increase.
THEOREM PublicationsAreFresh == Spec => []PublicationsIncrease
<1>1. AuthorityInv => PublicationsIncrease
  BY DEF AuthorityInv, HistoryPromises
<1> QED BY <1>1, AuthorityInvariant, PTL

\* The attempt table and the gates are functions of the committed history in
\* every state, also after an append that failed half way and in a replay.
THEOREM GuardsAreDerived == Spec => []GuardsMatchHistory
<1>1. AuthorityInv => GuardsMatchHistory
  BY GuardParts DEF AuthorityInv
<1> QED BY <1>1, AuthorityInvariant, PTL

\* The tables decide as the committed entries do: what is not fenced off is
\* accepted if and only if the history admits it.
THEOREM VerdictsAreAdmission == Spec => []VerdictIsAdmission
<1>1. ASSUME AuthorityInv PROVE VerdictIsAdmission
  <2>1. BookTypes /\ TablesMatch /\ UniqueIds
    BY <1>1, InvariantParts DEF AuthorityInv, BookState, HistoryPromises
  <2>2. \A e \in Submissions : e \in Entry
    BY SubmissionAssumption
  <2> QED BY <2>1, <2>2, Admission, Zenon DEF VerdictIsAdmission
<1> QED BY <1>1, AuthorityInvariant, PTL

-----------------------------------------------------------------------------
(***************************************************************************)
(* The refinement.                                                         *)
(***************************************************************************)

\* The ledger with its tables implements the log that has only the entries:
\* every step adds one entry the log admits, starts over, or adds nothing.
THEOREM LedgerImplementsLog == Spec => ImplementsLog
<1>1. Init => Log!LogInit
  BY DEF Init, Log!LogInit
<1>2. ASSUME AuthorityInv, [Next]_vars
      PROVE  [Log!Record \/ Log!StartOver]_history
  <2>1. CASE CommitsNothing
    BY <2>1 DEF CommitsNothing
  <2>2. CASE ClearBooks
    BY <2>2 DEF ClearBooks, Log!StartOver
  <2>3. ASSUME NEW e \in Entry, Commits(e), Log!Admissible(e)
        PROVE  Log!Record
    <3>1. history \in Seq(Entry) /\ history' = Append(history, e)
      BY <1>2, <2>3, InvariantParts DEF AuthorityInv, BookState, BookTypes, Commits
    <3>2. Len(history') = Len(history) + 1 /\ history'[Len(history) + 1] = e
      BY <3>1
    <3> QED BY <2>3, <3>1, <3>2 DEF Log!Record
  <2> QED BY <1>2, <2>1, <2>2, <2>3, HistorySteps
<1> QED BY <1>1, <1>2, AuthorityInvariant, PTL DEF Spec, ImplementsLog, Log!LogSpec

\* Outside a load the history only grows at its end: no operation drops,
\* reorders or rewrites a committed entry, a revision of it included.
THEOREM HistoryIsAppendOnly == Spec => HistoryAppendOnly
<1>1. ASSUME AuthorityInv, [Next]_vars
      PROVE  [history' # <<>> =>
                /\ Len(history') >= Len(history)
                /\ SubSeq(history', 1, Len(history)) = history]_vars
  <2>0. history \in Seq(Entry)
    BY <1>1, InvariantParts DEF AuthorityInv, BookState, BookTypes
  <2>1. CASE CommitsNothing
    <3>1. history' = history
      BY <2>1 DEF CommitsNothing
    <3>2. SubSeq(history, 1, Len(history)) = history
      BY <2>0
    <3>3. Len(history) >= Len(history)
      BY <2>0
    <3> QED BY <3>1, <3>2, <3>3
  <2>2. CASE ClearBooks
    BY <2>2 DEF ClearBooks
  <2>3. ASSUME NEW e \in Entry, Commits(e)
        PROVE  /\ Len(history') >= Len(history)
               /\ SubSeq(history', 1, Len(history)) = history
    <3>1. history' = Append(history, e)
      BY <2>3 DEF Commits
    <3>2. Len(Append(history, e)) = Len(history) + 1 /\ Len(history) \in Nat
      BY <2>0
    <3>3. SubSeq(Append(history, e), 1, Len(history)) = history
      BY <2>0
    <3> QED BY <3>1, <3>2, <3>3
  <2> QED BY <1>1, <2>1, <2>2, <2>3, HistorySteps
<1> QED BY <1>1, AuthorityInvariant, PTL DEF Spec, HistoryAppendOnly

-----------------------------------------------------------------------------
(***************************************************************************)
(* Replay.                                                                 *)
(***************************************************************************)

\* What is answered with OK is committed, in a batch and in a replay too.
LEMMA OkCommits ==
  ASSUME NEW e, append_locked(e), reply' = "OK"
  PROVE  history' = Append(history, e)
<1>1. CASE Refuse(e)
  BY <1>1 DEF Refuse, Answer
<1>2. CASE Post(e)
  <2>1. PICK outcome \in apply_attribution(e) :
          /\ Answer(IF outcome.ok THEN "OK" ELSE "OVERFLOW")
          /\ history' = IF outcome.ok THEN Append(history, e) ELSE history
    BY <1>2, Zenon DEF Post
  <2> QED BY <2>1 DEF Answer
<1>3. CASE Revise(e)
  <2> DEFINE outcome == apply_reclassify_locked(e)
  <2>1. /\ Answer(IF outcome.ok THEN "OK" ELSE "RECONCILIATION_FAILURE")
        /\ history' = IF outcome.ok THEN Append(history, e) ELSE history
    BY <1>3, Zenon DEF Revise
  <2> HIDE DEF outcome
  <2> QED BY <2>1 DEF Answer
<1> QED BY <1>1, <1>2, <1>3 DEF append_locked

\* Taking the head of one sequence to the end of another keeps their
\* concatenation.
LEMMA HeadMoves ==
  ASSUME NEW S, NEW h \in Seq(S), NEW r \in Seq(S), r # <<>>
  PROVE  /\ Append(h, Head(r)) \o Tail(r) = h \o r
         /\ Len(r) = 1 => Append(h, Head(r)) = h \o r
         /\ Len(r) > 1 => Tail(r) # <<>>
<1> DEFINE g == Append(h, Head(r))
<1>1. /\ Len(h) \in Nat /\ Len(r) \in Nat /\ Len(r) >= 1 /\ Head(r) \in S
      /\ Head(r) = r[1] /\ Tail(r) \in Seq(S) /\ Len(Tail(r)) = Len(r) - 1
      /\ \A i \in 1..(Len(r) - 1) : Tail(r)[i] = r[i + 1]
  OBVIOUS
<1>2. /\ g \in Seq(S) /\ Len(g) = Len(h) + 1 /\ g[Len(h) + 1] = r[1]
      /\ \A i \in 1..Len(h) : g[i] = h[i]
  BY <1>1
<1>3. /\ h \o r \in Seq(S) /\ Len(h \o r) = Len(h) + Len(r)
      /\ \A i \in 1..Len(h) : (h \o r)[i] = h[i]
      /\ \A i \in 1..Len(r) : (h \o r)[Len(h) + i] = r[i]
  OBVIOUS
<1> HIDE DEF g
<1>4. /\ g \o Tail(r) \in Seq(S) /\ Len(g \o Tail(r)) = Len(h) + Len(r)
      /\ \A i \in 1..Len(g) : (g \o Tail(r))[i] = g[i]
      /\ \A i \in 1..(Len(r) - 1) : (g \o Tail(r))[Len(g) + i] = Tail(r)[i]
  BY <1>1, <1>2
<1>5. ASSUME NEW i \in 1..(Len(h) + Len(r)) PROVE (g \o Tail(r))[i] = (h \o r)[i]
  <2>1. CASE i \in 1..Len(h)
    BY <1>1, <1>2, <1>3, <1>4, <2>1
  <2>2. CASE i = Len(h) + 1
    <3>1. i \in 1..Len(g) /\ 1 \in 1..Len(r)
      BY <1>1, <1>2, <2>2
    <3>2. (h \o r)[Len(h) + 1] = r[1]
      BY <1>3, <3>1
    <3> QED BY <1>2, <1>4, <2>2, <3>1, <3>2
  <2>3. CASE i > Len(h) + 1
    <3> DEFINE k == i - Len(h) - 1
    <3>1. /\ k \in 1..(Len(r) - 1) /\ k + 1 \in 1..Len(r)
          /\ i = Len(g) + k /\ i = Len(h) + (k + 1)
      BY <1>1, <1>2, <2>3
    <3> HIDE DEF k
    <3>2. (g \o Tail(r))[i] = r[k + 1]
      BY <1>1, <1>4, <3>1
    <3>3. (h \o r)[i] = r[k + 1]
      BY <1>3, <3>1
    <3> QED BY <3>2, <3>3
  <2>4. i \in 1..Len(h) \/ i = Len(h) + 1 \/ i > Len(h) + 1
    <3> DEFINE n == Len(h)
               m == Len(r)
    <3>1. n \in Nat /\ m \in Nat /\ i \in 1..(n + m)
      BY <1>1
    <3> HIDE DEF n, m
    <3>2. i \in 1..n \/ i = n + 1 \/ i > n + 1
      BY <3>1
    <3> QED BY <3>2 DEF n
  <2> QED BY <2>1, <2>2, <2>3, <2>4
<1>6. g \o Tail(r) = h \o r
  BY <1>1, <1>3, <1>4, <1>5, SeqEqual
<1>7. ASSUME Len(r) = 1 PROVE g = h \o r
  <2>1. Len(g) = Len(h \o r)
    BY <1>1, <1>2, <1>3, <1>7
  <2>2. ASSUME NEW i \in 1..Len(g) PROVE g[i] = (h \o r)[i]
    <3>1. CASE i \in 1..Len(h)
      BY <1>1, <1>2, <1>3, <3>1
    <3>2. CASE i = Len(h) + 1
      BY <1>1, <1>2, <1>3, <1>7, <3>2
    <3> QED BY <1>1, <1>2, <3>1, <3>2
  <2> QED BY <1>2, <1>3, <2>1, <2>2, SeqEqual
<1>8. ASSUME Len(r) > 1 PROVE Tail(r) # <<>>
  <2>1. Tail(r) \in Seq(S) /\ Len(Tail(r)) \in Nat
    BY <1>1
  <2> DEFINE k == Len(r)
             m == Len(Tail(r))
  <2>2. k \in Nat /\ k > 1 /\ m = k - 1 /\ m \in Nat
    BY <1>1, <1>8, <2>1
  <2> HIDE DEF k, m
  <2>3. m # 0
    BY <2>2
  <2>4. Len(<<>>) = 0
    OBVIOUS
  <2> QED BY <2>3, <2>4, Zenon DEF m
<1> QED BY <1>6, <1>7, <1>8 DEF g

\* While a record is replayed, what is in and what is left of it are the record.
ReplayOnCourse ==
  Replaying => \E s \in saved \cup Records : s.history = history \o loop.rest

\* Every step keeps a replay on course, and the one that ends it with OK leaves
\* the history of the record.
LEMMA ReplayStep ==
  ASSUME BookState, ControlState, ReplayOnCourse, [Next]_vars
  PROVE  /\ ReplayOnCourse'
         /\ Replaying /\ loop' = Idle /\ reply' = "OK" /\ history' # <<>> =>
              \E s \in saved \cup Records : history' = s.history
<1>0. history \in Seq(Entry)
  BY DEF BookState, BookTypes
<1>1. CASE LoopStep
  <2> DEFINE r == loop.rest
             e == Head(r)
  <2>1. /\ r \in Seq(Entry) /\ r # <<>> /\ loop \in [kind: LoopKind, rest: Seq(Entry)]
        /\ append_locked(e) /\ saved' = saved
        /\ loop' = IF reply' = "OK" /\ Len(r) > 1 THEN [loop EXCEPT !.rest = Tail(@)] ELSE Idle
    BY <1>1 DEF ControlState, LoopStep, LockFree, LoopBusy
  <2>2. reply' = "OK" => history' = Append(history, e)
    BY <2>1, OkCommits
  <2>3. /\ Append(history, e) \o Tail(r) = history \o r
        /\ Len(r) = 1 => Append(history, e) = history \o r
        /\ Len(r) \in Nat /\ Len(r) >= 1
        /\ Len(r) > 1 => Tail(r) # <<>>
    <3>1. Len(r) \in Nat /\ Len(r) >= 1
      BY <2>1
    <3>2. r \in Seq(Entry) /\ r # <<>>
      BY <2>1
    <3> HIDE DEF r
    <3> QED BY <1>0, <3>1, <3>2, HeadMoves, Zenon DEF e
  <2>4. CASE reply' = "OK" /\ Len(r) > 1
    <3>1. /\ loop' = [loop EXCEPT !.rest = Tail(r)] /\ history' = Append(history, e)
          /\ saved' = saved
      BY <2>1, <2>2, <2>4
    <3>2. /\ loop'.kind = loop.kind /\ loop'.rest = Tail(r) /\ loop'.rest # <<>>
      <4>1. Tail(r) # <<>>
        BY <2>3, <2>4
      <4> QED BY <2>1, <3>1, <4>1
    <3>3. history' \o loop'.rest = history \o r
      BY <2>3, <3>1, <3>2
    <3>4. loop' # Idle
      <4>1. Idle.rest = <<>>
        BY DEF Idle
      <4> QED BY <3>2, <4>1
    <3> QED BY <3>1, <3>2, <3>3, <3>4 DEF ReplayOnCourse, Replaying
  <2>5. CASE ~(reply' = "OK" /\ Len(r) > 1)
    <3>1. loop' = Idle
      BY <2>1, <2>5
    <3>2. ~Replaying'
      BY <3>1 DEF Replaying, Idle
    <3>3. reply' = "OK" => history' = history \o r
      BY <2>2, <2>3, <2>5
    <3> QED BY <3>2, <3>3 DEF ReplayOnCourse
  <2> QED BY <2>4, <2>5
<1>2. ASSUME NEW s \in saved \cup Records, LoadHistory(s) \/ LoadFromString(s)
      PROVE  ReplayOnCourse' /\ ~Replaying
  <2>1. s.history \in Seq(Entry)
    BY RecordAssumption DEF ControlState, Snapshot
  <2>2. /\ history' = <<>> /\ saved' = saved
        /\ loop' = Idle \/ loop'.rest = s.history
    BY <1>2 DEF LoadHistory, LoadFromString, ClearBooks, StartLoop
  <2>3. s.history = <<>> \o s.history
    BY <2>1
  <2>4. loop' = Idle => ~Replaying'
    BY DEF Replaying, Idle
  <2>5. LockFree
    BY <1>2 DEF LoadHistory, LoadFromString
  <2> QED BY <2>2, <2>3, <2>4, <2>5 DEF ReplayOnCourse, Replaying, LockFree
<1>3. ASSUME NEW es \in Batches, AppendBatch(es)
      PROVE  ReplayOnCourse' /\ ~Replaying
  <2>1. LockFree /\ ~Replaying'
    BY <1>3 DEF AppendBatch, StartLoop, Idle, Replaying
  <2> QED BY <2>1 DEF ReplayOnCourse, Replaying, LockFree
<1>4. CASE Construct
  <2>1. loop' = Idle /\ history' = <<>>
    BY <1>4 DEF Construct, Fresh, ClearBooks
  <2> QED BY <2>1 DEF ReplayOnCourse, Replaying, Idle
<1>5. ASSUME NEW e, NEW v, NEW lg, NEW ag, NEW b,
             \/ AppendEntry(e) \/ Reclassify(e) \/ LoadRefused(e)
             \/ SaveToString \/ AdvanceEpoch \/ SetEpoch(v) \/ SetGenerations(lg, ag)
             \/ RegisterWorker(b) \/ UnregisterWorker(b) \/ SetShuttingDown
      PROVE  ReplayOnCourse' /\ ~Replaying
  <2>1. LockFree /\ loop' = loop
    BY <1>5, Zenon DEF AppendEntry, Reclassify, LoadRefused, SaveToString, AdvanceEpoch,
       SetEpoch, SetGenerations, RegisterWorker, UnregisterWorker, SetShuttingDown
  <2> QED BY <2>1 DEF ReplayOnCourse, Replaying, LockFree
<1>6. CASE UNCHANGED vars
  <2>1. loop' = loop /\ history' = history /\ saved' = saved
    BY <1>6 DEF vars
  <2>2. Replaying => loop # Idle
    BY DEF Replaying, Idle
  <2> QED BY <2>1, <2>2 DEF ReplayOnCourse, Replaying
<1> QED BY <1>1, <1>2, <1>3, <1>4, <1>5, <1>6 DEF Next

\* A replay never ends well with anything but the record it was given: no
\* entry is skipped, repeated, reordered or left over from before.
THEOREM ReplayIsFaithful == Spec => ReplayRestoresHistory
<1> DEFINE Inv == BooksInv /\ ReplayOnCourse
<1>1. Init => Inv
  <2>1. Init => ReplayOnCourse
    BY DEF Init, ReplayOnCourse, Replaying, Idle
  <2> QED BY <2>1, BooksInvInit
<1>2. Inv /\ [Next]_vars =>
        /\ Inv'
        /\ [Replaying /\ loop' = Idle /\ reply' = "OK" /\ history' # <<>> =>
              \E s \in saved \cup Records : history' = s.history]_vars
  BY InvariantParts, BooksInvStep, ReplayStep
<1> QED BY <1>1, <1>2, PTL DEF Spec, ReplayRestoresHistory
=============================================================================
