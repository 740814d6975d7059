---------------------------- MODULE Coordinator ----------------------------
(***************************************************************************)
(* The coordinator process (el_coordinator.cpp) around the ledger: it is   *)
(* started and killed, serves one connection at a time over framed TCP,    *)
(* appends what its clients send, saves the ledger to the file of --path   *)
(* and answers.  Clients (el_worker.cpp and whoever speaks the protocol)   *)
(* connect, send one request at a time and wait for its status, and may    *)
(* close or die at any moment.                                             *)
(*                                                                         *)
(* save() writes path.tmp, removes path and renames.  Nothing ever reads   *)
(* path.tmp, so only path is kept; saved holds the bytes being written.    *)
(* The coordinator is started with --path.  A process that is down has     *)
(* lost its ledger: its variables are those of a fresh one.                *)
(***************************************************************************)
EXTENDS LedgerProperties

CONSTANTS
  Clients,      \* connections that may exist at one time (never NoId)
  Messages,     \* the requests clients may send
  Starts,       \* the command lines: --load or not, --epoch (NoId: not given)
  KillPoints,   \* where the process may be killed
  IoFaults      \* whether writing, removing, renaming and accept may fail

VARIABLES
  proc,         \* where the process is, and what it does next
  file,         \* the record under --path (a set of at most one)
  backlog,      \* connections not yet accepted, oldest first
  serving,      \* the accepted connection, or NoId
  connBoot,     \* conn_boot: the boot id registered on it, or NoId
  link,         \* per client: its end of the connection and its request
  acked,        \* the entries answered with OK (recorded for the properties)
  intact,       \* no save has failed, no start has left the file behind (ditto)
  replaced      \* the boot ids whose connection went on to register another (ditto)

net == <<backlog, serving, connBoot, link>>
ghosts == <<acked, intact, replaced>>
cvars == <<proc, file, backlog, serving, connBoot, link, acked, intact, replaced>>
allVars == <<vars, cvars>>

\* A frame that read_frame rejects is "malformed"; "kUnknown" stands for every
\* message answered with PROTOCOL_ERROR, kQueryTotals and a kRegister whose body
\* is shorter than a boot id among them.
MessageKind ==
  {"kRegister", "kAppend", "kReclassify", "kQueryDigest", "kShutdown", "kUnknown",
   "malformed", "none"}
Message == [kind: MessageKind, boot: Boots \cup {NoId}, entry: Entry]
NoMessage == [kind |-> "none", boot |-> NoId, entry |-> BlankEntry]
NoLink == [state |-> "none", request |-> NoMessage]

ProcPoint == {"down", "loading", "accept", "read", "save", "rename", "reply"}
At(point) == [at |-> point, then |-> "none", status |-> "OK", epoch |-> NoId]

ASSUME ClientAssumption == NoId \notin Clients
ASSUME MessageAssumption == Messages \subseteq Message
ASSUME StartAssumption == Starts \subseteq [load: BOOLEAN, epoch: Nat]
ASSUME FaultAssumption == KillPoints \subseteq ProcPoint \ {"down"} /\ IoFaults \in BOOLEAN

CInit ==
  /\ Init
  /\ proc = At("down")
  /\ file = {}
  /\ backlog = <<>> /\ serving = NoId /\ connBoot = NoId
  /\ link = [c \in Clients |-> NoLink]
  /\ acked = {} /\ intact = TRUE /\ replaced = {}

-----------------------------------------------------------------------------
(***************************************************************************)
(* Starting: a load that fails is reported and otherwise ignored.          *)
(***************************************************************************)
Start(s) ==
  /\ proc.at = "down"
  /\ LET usable == {r \in file : s.load /\ Decodes(r)}
     IN  IF usable = {} THEN UNCHANGED vars ELSE \E r \in usable : LoadFromString(r)
  /\ proc' = [At("loading") EXCEPT !.epoch = s.epoch]
  /\ intact' = (intact /\ s.load)
  /\ UNCHANGED <<file, net, acked, replaced>>

LoadTurn ==
  /\ proc.at = "loading"
  /\ LoopStep
  /\ UNCHANGED cvars

Listen ==
  /\ proc.at = "loading"
  /\ LockFree
  /\ IF proc.epoch # NoId THEN SetEpoch(proc.epoch) ELSE UNCHANGED vars
  /\ proc' = At("accept")
  /\ UNCHANGED <<file, net, ghosts>>

-----------------------------------------------------------------------------
(***************************************************************************)
(* Serving.  The request stays in link until it is answered.               *)
(***************************************************************************)
Asked(c) == link[c].request
Serving(kinds) ==
  /\ proc.at = "read"
  /\ Asked(serving).kind \in kinds

\* Mutant: the newest connection is served first.
AcceptNewest ==
  /\ proc.at = "accept"
  /\ backlog # <<>>
  /\ serving' = backlog[Len(backlog)]
  /\ backlog' = SubSeq(backlog, 1, Len(backlog) - 1)
  /\ connBoot' = NoId
  /\ proc' = At("read")
  /\ UNCHANGED <<vars, file, link, ghosts>>

Accept ==
  /\ proc.at = "accept"
  /\ backlog # <<>>
  /\ serving' = Head(backlog)
  /\ backlog' = Tail(backlog)
  /\ connBoot' = NoId
  /\ proc' = At("read")
  /\ UNCHANGED <<vars, file, link, ghosts>>

AcceptFails ==
  /\ IoFaults
  /\ proc.at = "accept"
  /\ proc' = [At("save") EXCEPT !.then = "exit"]
  /\ UNCHANGED <<vars, file, net, ghosts>>

Reply(status) == proc' = [At("reply") EXCEPT !.status = status]

\* kRegister: a second registration replaces the first one's boot id.  The id 0
\* is not kept: register_worker ignores it (ledger.cpp:322).
HandleRegister ==
  /\ Serving({"kRegister"})
  /\ LET b == Asked(serving).boot
     IN  /\ IF b # NoId THEN RegisterWorker(b) ELSE UNCHANGED vars
         /\ connBoot' = b
         /\ replaced' = (replaced \cup {connBoot}) \ {NoId, b}
  /\ Reply("OK")
  /\ UNCHANGED <<file, backlog, serving, link, acked, intact>>

\* Mutant: a committed append is answered before it is saved.
HandleAppendUnsaved ==
  /\ Serving({"kAppend", "kReclassify"})
  /\ decode_entry(Asked(serving).entry)
  /\ AppendEntry(Asked(serving).entry)
  /\ Reply(reply')
  /\ UNCHANGED <<file, net, ghosts>>

\* kAppend and kReclassify: a committed entry is saved before it is answered.
HandleAppend ==
  /\ Serving({"kAppend", "kReclassify"})
  /\ decode_entry(Asked(serving).entry)
  /\ AppendEntry(Asked(serving).entry)
  /\ IF reply' = "OK" THEN proc' = [At("save") EXCEPT !.then = "answer"] ELSE Reply(reply')
  /\ UNCHANGED <<file, net, ghosts>>

HandleQuery ==
  /\ Serving({"kQueryDigest"})
  /\ Reply("OK")
  /\ UNCHANGED <<vars, file, net, ghosts>>

\* On the wire an entry that decode_entry refuses stands for every such body.
MalformedBody ==
  Serving({"kAppend", "kReclassify"}) /\ ~decode_entry(Asked(serving).entry)

HandleUnknown ==
  /\ Serving({"kUnknown"}) \/ MalformedBody
  /\ Reply("PROTOCOL_ERROR")
  /\ UNCHANGED <<vars, file, net, ghosts>>

HandleShutdown ==
  /\ Serving({"kShutdown"})
  /\ proc' = [At("save") EXCEPT !.then = "goodbye"]
  /\ UNCHANGED <<vars, file, net, ghosts>>

\* read_frame fails: the peer has closed, or its frame is malformed.
ReadFails ==
  /\ proc.at = "read"
  /\ \/ Asked(serving).kind = "malformed"
     \/ Asked(serving).kind = "none" /\ link[serving].state = "closed"

HangUp ==
  /\ link' = [link EXCEPT ![serving] = NoLink]
  /\ serving' = NoId
  /\ connBoot' = NoId
  /\ proc' = At("accept")
  /\ UNCHANGED <<file, backlog, ghosts>>

\* Mutant: the boot id outlives its connection.
DisconnectKeepsBoot == ReadFails /\ HangUp /\ UNCHANGED vars

Disconnect ==
  /\ ReadFails
  /\ IF connBoot # NoId THEN UnregisterWorker(connBoot) ELSE UNCHANGED vars
  /\ HangUp

-----------------------------------------------------------------------------
(***************************************************************************)
(* save(), whose status the coordinator does not look at, and what follows *)
(* it: the answer, or the end of the process.                              *)
(***************************************************************************)
Down ==
  /\ Fresh /\ saved' = {}
  /\ proc' = At("down")
  /\ backlog' = <<>> /\ serving' = NoId /\ connBoot' = NoId
  /\ link' = [c \in Clients |-> NoLink]
  /\ replaced' = {}
  /\ UNCHANGED acked

AfterSave ==
  IF proc.then = "exit" THEN Down
  ELSE /\ proc' = [proc EXCEPT !.at = "reply"]
       /\ saved' = {}
       /\ UNCHANGED <<authority, shuttingDown, books, loop, reply, net, acked, replaced>>

SaveFails ==
  /\ IoFaults
  /\ proc.at = "save"
  /\ AfterSave
  /\ intact' = FALSE
  /\ UNCHANGED file

\* path.tmp is written; then path is removed (an error of that is ignored).
SaveRemoves ==
  /\ proc.at = "save"
  /\ SaveToString
  /\ file' = {} \/ (IoFaults /\ file' = file)
  /\ proc' = [proc EXCEPT !.at = "rename"]
  /\ UNCHANGED <<net, ghosts>>

SaveRenames ==
  /\ proc.at = "rename"
  /\ \/ file' = saved /\ intact' = intact
     \/ IoFaults /\ file' = file /\ intact' = FALSE
  /\ AfterSave

\* write_status: a client that has gone does not get it, which goes unnoticed.
WriteStatus ==
  /\ proc.at = "reply"
  /\ acked' = IF Asked(serving).kind \in {"kAppend", "kReclassify"} /\ proc.status = "OK"
              THEN acked \cup {Asked(serving).entry.id} ELSE acked
  /\ link' = [link EXCEPT ![serving].request = NoMessage]
  /\ proc' = IF proc.then = "goodbye" THEN [At("save") EXCEPT !.then = "exit"]
             ELSE At("read")
  /\ UNCHANGED <<vars, file, backlog, serving, connBoot, intact, replaced>>

\* Killed; in "loading", this is also bind_and_listen failing.
Kill ==
  /\ proc.at \in KillPoints
  /\ Down
  /\ intact' = (intact /\ proc.at # "rename")
  /\ UNCHANGED file

-----------------------------------------------------------------------------
(***************************************************************************)
(* The clients.                                                            *)
(***************************************************************************)
Connect(c) ==
  /\ link[c].state = "none"
  /\ proc.at \notin {"down", "loading"}
  /\ link' = [link EXCEPT ![c].state = "open"]
  /\ backlog' = Append(backlog, c)
  /\ UNCHANGED <<vars, proc, file, serving, connBoot, ghosts>>

Send(c, m) ==
  /\ link[c].state = "open"
  /\ Asked(c).kind = "none"
  /\ link' = [link EXCEPT ![c].request = m]
  /\ UNCHANGED <<vars, proc, file, backlog, serving, connBoot, ghosts>>

\* A client closes or dies; what it sent may still arrive, or not, unless the
\* coordinator is already at work on it.
Close(c) ==
  /\ link[c].state = "open"
  /\ \/ link' = [link EXCEPT ![c].state = "closed"]
     \/ /\ ~(serving = c /\ proc.at \in {"save", "rename", "reply"})
        /\ link' = [link EXCEPT ![c] = [state |-> "closed", request |-> NoMessage]]
  /\ UNCHANGED <<vars, proc, file, backlog, serving, connBoot, ghosts>>

-----------------------------------------------------------------------------
Work ==
  \/ LoadTurn \/ Listen \/ Accept
  \/ HandleRegister \/ HandleAppend \/ HandleQuery \/ HandleUnknown \/ HandleShutdown
  \/ Disconnect \/ SaveRemoves \/ SaveRenames \/ WriteStatus

CNext ==
  \/ \E s \in Starts : Start(s)
  \/ Work
  \/ AcceptFails \/ SaveFails \/ Kill
  \/ \E c \in Clients : Connect(c) \/ Close(c) \/ \E m \in Messages : Send(c, m)

CSpec == CInit /\ [][CNext]_allVars

\* The process keeps running and every client ends some day (el_worker runs a
\* fixed script and closes).  The first is WF_allVars(Work) with ENABLED Work
\* written out.
CanWork ==
  \/ proc.at \in {"loading", "save", "rename", "reply"}
  \/ proc.at = "accept" /\ backlog # <<>>
  \/ proc.at = "read" /\ (Asked(serving).kind # "none" \/ link[serving].state = "closed")
CFairSpec ==
  /\ CSpec
  /\ <>[]CanWork => []<><<Work>>_allVars
  /\ \A c \in Clients : WF_allVars(Close(c))

-----------------------------------------------------------------------------
\* The type invariant: the ledger's inside the process, and the process's own.
CTypeOK ==
  /\ TypeOK
  /\ proc \in [at: ProcPoint, then: {"none", "answer", "goodbye", "exit"},
               status: ErrorCode \cup {"PROTOCOL_ERROR"}, epoch: Nat]
  /\ file \subseteq Snapshot
  /\ backlog \in Seq(Clients)
  /\ serving \in Clients \cup {NoId}
  /\ connBoot \in Boots \cup {NoId}
  /\ link \in [Clients -> [state: {"none", "open", "closed"}, request: Message \cup {NoMessage}]]
  /\ acked \subseteq EntryIds
  /\ intact \in BOOLEAN
  /\ replaced \subseteq Boots

\* "Atomic save after every committed append (durable across kill/restart)"
\* (el_coordinator.cpp:97): a coordinator that serves has every entry that any
\* incarnation of it ever acknowledged.
AckedSurvives ==
  proc.at \in {"accept", "read"} => \A id \in acked : Committed(id)

\* The coordinator implements the log of DurableLog: an append is acknowledged
\* only when it is committed and saved, and no kill, restart or failed request
\* loses an acknowledged entry or reorders the log, except after a fault of the
\* file: a failed write or rename, a kill between remove and rename, a start
\* without --load.  A process that is down has the log of its file; one that is
\* loading has what it has replayed and what it still has to.
FileLog == IF file = {} THEN <<>> ELSE (CHOOSE r \in file : TRUE).history
Durable == INSTANCE DurableLog WITH
  log <- IF proc.at = "down" THEN FileLog ELSE history \o loop.rest
ImplementsDurableLog == Durable!DurableSpec

\* Entries of a worker that has died or moved on are refused: no boot id is live
\* but that of the connection being served.  The exception is an id over which
\* its connection registered another; nothing unregisters it.
LiveIsServed == liveWorkers \ replaced \subseteq {connBoot} \ {NoId}

\* "Atomic save after every committed append" (el_coordinator.cpp:97): when an
\* append is acknowledged its entry is in the ledger and, unless a save or a
\* start has failed the file before, in the file.  However it was started and
\* whatever its replay refused.
AcksAreSaved ==
  [][\A id \in acked' \ acked :
       /\ Committed(id)
       /\ intact => \E r \in file : \E i \in DOMAIN r.history : r.history[i].id = id]_allVars

\* A client that waits in the backlog is accepted or learns that the coordinator
\* is gone: nobody holds the accept loop for ever.
QueueServed ==
  \A c \in Clients :
    (\E i \in DOMAIN backlog : backlog[i] = c) ~> (\A i \in DOMAIN backlog : backlog[i] # c)
=============================================================================
