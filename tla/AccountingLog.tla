--------------------------- MODULE AccountingLog ---------------------------
(***************************************************************************)
(* What the ledger promises about what it records, without its tables: a   *)
(* log that entries are added to at the end, or that is started over.      *)
(* Whether an entry may be added is said in terms of the entries before    *)
(* it; the attempt table, the sets of completed owners and the index of    *)
(* EfficiencyLedger are ways to find that out quickly.                     *)
(***************************************************************************)
EXTENDS LedgerEntry

VARIABLE log

Posts == {i \in DOMAIN log : log[i].event # "kReclassify"}
SameAttempt(e) == {i \in Posts : e.attempt # NoId /\ log[i].attempt = e.attempt}

FirstOfItsId(e) == \A i \in DOMAIN log : log[i].id # e.id

\* An attempt with an outcome takes no other one, no late completion, and
\* nothing of another generation.
AttemptOpen(e) ==
  \A i \in SameAttempt(e) :
    HasOutcome(log[i]) =>
      /\ ~HasOutcome(e)
      /\ e.event \notin SignalEvent
      /\ e.attemptGen \in {NoId, log[i].attemptGen} \/ log[i].attemptGen = NoId

NewestPublication(e) ==
  e.fences.publication # NoId =>
    \A i \in SameAttempt(e) : log[i].fences.publication < e.fences.publication

FirstCompletion(e) ==
  Gated(e) => \A i \in Posts : ~ (/\ Gated(log[i])
                                  /\ GateOf(log[i].event) = GateOf(e.event)
                                  /\ log[i].owner = e.owner)

\* A revision reinterprets an entry of the log, consumption as consumption.
Reinterprets(e) ==
  /\ IsZero(e.usage)
  /\ \E i \in DOMAIN log :
       /\ log[i].id = e.target
       /\ (log[i].class \in ConsumptionClass) = (e.class \in ConsumptionClass)

Admissible(e) ==
  /\ validate(e)
  /\ FirstOfItsId(e) /\ AttemptOpen(e) /\ NewestPublication(e)
  /\ IF e.event = "kReclassify" THEN Reinterprets(e)
     ELSE check_classification_consistency(e) = "OK" /\ FirstCompletion(e)

-----------------------------------------------------------------------------
LogInit == log = <<>>

Record ==
  /\ Len(log') = Len(log) + 1
  /\ Admissible(log'[Len(log) + 1])
  /\ log' = Append(log, log'[Len(log) + 1])

StartOver == log' = <<>>

LogSpec == LogInit /\ [][Record \/ StartOver]_log
=============================================================================
