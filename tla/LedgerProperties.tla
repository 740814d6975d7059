-------------------------- MODULE LedgerProperties --------------------------
(***************************************************************************)
(* What the ledger promises, stated over its state and over its steps.     *)
(***************************************************************************)
EXTENDS EfficiencyLedger

LOCAL INSTANCE Functions

\* reconcile(): whether every account's classes add up to its physical total,
\* and all accounts' classes to all accounts' physical totals.  The sums are
\* machine arithmetic and wrap.
Wrap(n) == n % (MaxU64 + 1)
ClassifiedIn(agg, d) ==
  agg["useful"][d] + agg["overhead"][d] + agg["waste"][d] + agg["unknown"][d]
Classified(a, d) == ClassifiedIn(accounts[a], d)
Closes(a, d) == Wrap(Classified(a, d)) = accounts[a]["physical"][d]

\* Mutant: one of the two sums over the accounts is widened.
WidePhysical(d) == SumFunction([a \in AllAccounts |-> accounts[a]["physical"][d]])

LedgerPhysical(d) == Wrap(SumFunction([a \in AllAccounts |-> accounts[a]["physical"][d]]))
LedgerClassified(d) == Wrap(SumFunction([a \in AllAccounts |-> Classified(a, d)]))
DimensionClosed(d) ==
  /\ LedgerPhysical(d) = LedgerClassified(d)
  /\ \A a \in AllAccounts : Closes(a, d)
BooksClosed == \A d \in Dim : DimensionClosed(d)

\* The entries that post usage, as opposed to revisions.
Posted == {i \in DOMAIN history : history[i].event # "kReclassify"}

\* The class of a posted entry after the revisions that name it.
RevisionsOf(i) ==
  {j \in DOMAIN history : /\ history[j].event = "kReclassify"
                          /\ history[j].target = history[i].id}
EffectiveClass(i) ==
  IF RevisionsOf(i) = {} THEN history[i].class
  ELSE history[CHOOSE j \in RevisionsOf(i) : \A k \in RevisionsOf(i) : k <= j].class

\* What the entries at the given positions contribute to one total.  A posted
\* entry was submitted, or came with a record.
RecordEntries == UNION {{s.history[i] : i \in DOMAIN s.history} : s \in Records}
Part == [e \in Submissions \cup RecordEntries |-> Pending(e)]
Contribution(positions, a, f, d) ==
  SumSeq([i \in DOMAIN history |->
            IF i \in positions THEN Part[history[i]][a][f][d] ELSE 0])

-----------------------------------------------------------------------------
(***************************************************************************)
(* The books.                                                              *)
(***************************************************************************)

\* No account is ever classified beyond what it physically consumed, in any
\* dimension, whatever was refused half way through apply_attribution or
\* apply_reclassify_locked.  It is why move_in cannot overflow.
NeverOverclassified ==
  \A a \in AllAccounts, d \in Dim : Classified(a, d) <= accounts[a]["physical"][d]

\* reconcile() tells the truth: it calls a dimension closed exactly when every
\* account's classes add up to its physical total.  No sum that wraps closes an
\* account by accident, and the sums over all accounts, which do wrap, never
\* report a failure of their own.
ReconcileExact ==
  \A d \in Dim :
    DimensionClosed(d) <=> \A a \in AllAccounts : Classified(a, d) = accounts[a]["physical"][d]

\* reconcile() stays closed through every operation, an append refused for
\* overflow included; only a revision that failed half way opens the books
\* (load_from_string reports that as a corrupt record).
ClosedUnlessRevisionFails ==
  [][BooksClosed /\ reply' \notin {"RECONCILIATION_FAILURE", "PERSISTENCE_CORRUPT"}
       => BooksClosed']_vars

\* The physical totals cover the history: no committed consumption is ever
\* lost from an account by a later append, revision or refusal.
PhysicalCoversHistory ==
  \A a \in AllAccounts, d \in Dim :
    accounts[a]["physical"][d] >= Contribution(Posted, a, "physical", d)

\* Every total is the one the history determines: consumption counts in the
\* class of the entry's latest revision, once, and nothing else counts.
BooksMatchHistory ==
  LET of(c) == {i \in Posted : EffectiveClass(i) = c}
  IN  \A a \in AllAccounts, d \in Dim :
        /\ \A f \in Field \ Bucket : accounts[a][f][d] = Contribution(Posted, a, f, d)
        /\ \A c \in ConsumptionClass :
             accounts[a][BucketOf(c)][d] = Contribution(of(c), a, "physical", d)

\* A class keeps what was posted to it until one of its entries is revised:
\* whatever was appended or refused half way, and however often entries of other
\* classes were revised, also half way, the bucket holds the usage of each of its
\* entries in every account it was shared among, so that the first revision in
\* the class fails neither with "reclassify underflow" nor with "reclassify
\* overflow".  (Once an entry of the class is revised twice, its bucket may lack
\* another entry's usage: ledger.cpp:633.)
Revised(id) ==
  \E j \in DOMAIN history : history[j].event = "kReclassify" /\ history[j].target = id
Untouched(class) ==
  \A i \in DOMAIN history : history[i].class = class => ~Revised(history[i].id)
FirstRevisionFits ==
  \A req \in Requests :
    LET e == Revision(req)
    IN  Verdict(e) = "OK" /\ Untouched(EntryOf(e.target).class)
          => apply_reclassify_locked(e).ok

-----------------------------------------------------------------------------
(***************************************************************************)
(* Authority.                                                              *)
(***************************************************************************)

\* The history never holds two entries with one id.
UniqueIds ==
  \A i, j \in DOMAIN history : history[i].id = history[j].id => i = j

\* At most one completion is accounted per transfer, reservation, allocation
\* or recovery; a recovery does not both complete and fail.
OneCompletionPerOwner ==
  \A i, j \in Posted :
    /\ Gated(history[i]) /\ Gated(history[j])
    /\ GateOf(history[i].event) = GateOf(history[j].event)
    /\ history[i].owner = history[j].owner
    => i = j

\* Once an attempt has an outcome, no later entry of it brings another outcome,
\* a completion signal or a different generation: a terminal attempt is not
\* resurrected by a stale completion.
SettledAttempts ==
  \A i, j \in Posted :
    LET first == history[i]
        later == history[j]
    IN  /\ i < j /\ first.attempt # NoId /\ first.attempt = later.attempt
        /\ HasOutcome(first)
        => /\ ~HasOutcome(later)
           /\ later.event \notin SignalEvent
           /\ first.attemptGen # NoId /\ later.attemptGen # NoId
              => first.attemptGen = later.attemptGen

\* The publications accounted for one attempt strictly increase, so none is
\* counted twice and none is counted after a newer one.
PublicationsIncrease ==
  \A i, j \in Posted :
    /\ i < j
    /\ history[i].attempt # NoId /\ history[i].attempt = history[j].attempt
    /\ history[i].fences.publication # NoId /\ history[j].fences.publication # NoId
    => history[i].fences.publication < history[j].fences.publication

\* The attempt table and the gates are functions of the history, so a replay
\* fences exactly what the original ledger fenced.
GuardsMatchHistory ==
  /\ \A t \in AttemptIds :
       LET of == {i \in Posted : history[i].attempt = t}
           terminal == {i \in of : HasOutcome(history[i])}
           published == {history[i].fences.publication : i \in of}
       IN  /\ attempts[t].outcome = "kPending" <=> terminal = {}
           /\ terminal = {} => attempts[t].generation = NoId
           /\ \A i \in terminal : /\ attempts[t].outcome = history[i].outcome
                                  /\ attempts[t].generation = history[i].attemptGen
           /\ attempts[t].lastPublication \in published \cup {NoId}
           /\ \A p \in published : p <= attempts[t].lastPublication
  /\ \A g \in Gate :
       completed[g] = {history[i].owner : i \in {k \in Posted :
                         Gated(history[k]) /\ GateOf(history[k].event) = g}}

\* The ledger implements the log of AccountingLog.
Log == INSTANCE AccountingLog WITH log <- history
ImplementsLog == Log!LogSpec

\* In every state the ledger's tables decide as the log does: an entry that is
\* neither fenced off nor late for the shutdown is accepted if and only if the
\* committed entries admit it.  So nothing that a refusal, a replay or an entry
\* that is gone left in the tables keeps an entry out or lets one in.  What the
\* log admits is the code's rule and less than README.md:141 promises: while an
\* attempt has no outcome, an older generation is admitted after a newer one
\* (ledger.cpp:750), and nothing is fenced by the generations of workload,
\* resource, reservation, allocation, transfer, recovery, cache, evidence and
\* accounting, which check_authority does not look at.
VerdictIsAdmission ==
  \A e \in Submissions :
    Verdict(e) = "OK" <=>
      /\ ~shuttingDown /\ ~StaleFences(e) /\ ~StaleBoot(e)
      /\ Log!Admissible(e)

-----------------------------------------------------------------------------
(***************************************************************************)
(* Replay.                                                                 *)
(***************************************************************************)

\* Outside a load the history only grows at its end.
HistoryAppendOnly ==
  [][history' # <<>> =>
       /\ Len(history') >= Len(history)
       /\ SubSeq(history', 1, Len(history)) = history]_vars

\* A history that was committed once is accepted again, entry by entry.
ReplayAccepted ==
  [][Replaying /\ ~shuttingDown => reply' = "OK"]_vars

\* A replay that ends well has rebuilt exactly the history of the record it
\* was given, and with it the digest.
ReplayRestoresHistory ==
  [][Replaying /\ loop' = Idle /\ reply' = "OK" /\ history' # <<>> =>
       \E s \in saved \cup Records : history' = s.history]_vars

=============================================================================
