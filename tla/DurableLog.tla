----------------------------- MODULE DurableLog -----------------------------
(***************************************************************************)
(* What the coordinator promises its clients: a log that entries are added *)
(* to, whose entries are acknowledged only once they are in it, and that   *)
(* loses no acknowledged entry when the process ends, as long as no fault  *)
(* has hit the file it is kept in.  Entries that were not acknowledged yet *)
(* may be lost, but only from the end of the log.                          *)
(***************************************************************************)
EXTENDS Naturals, Sequences

VARIABLES
  log,      \* the entries, oldest first
  acked,    \* the ids acknowledged so far
  intact    \* whether the file has always been written and read back

Ids(entries) == {entries[i].id : i \in DOMAIN entries}

DurableInit == log = <<>> /\ acked = {} /\ intact = TRUE

Commit ==
  /\ Len(log') = Len(log) + 1
  /\ SubSeq(log', 1, Len(log)) = log
  /\ log'[Len(log')].id \notin Ids(log)
  /\ UNCHANGED <<acked, intact>>

Acknowledge ==
  /\ acked \subseteq acked'
  /\ acked' \subseteq Ids(log) \cup acked
  /\ UNCHANGED <<log, intact>>

\* The process ends or the file fails.  Of a log that is no longer intact only
\* Acknowledge says anything.
Lose ==
  /\ intact' => /\ intact
                /\ log' = SubSeq(log, 1, Len(log'))
                /\ acked \subseteq Ids(log')
  /\ UNCHANGED acked

DurableSpec == DurableInit /\ [][Commit \/ Acknowledge \/ Lose]_<<log, acked, intact>>
=============================================================================
