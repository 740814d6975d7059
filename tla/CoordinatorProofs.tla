------------------------- MODULE CoordinatorProofs -------------------------
(***************************************************************************)
(* The coordinator, for any clients, requests, command lines and faults:   *)
(* its types, the boot ids that are live, what an acknowledgement means,   *)
(* and the refinement of DurableLog.  The inductive invariant follows one  *)
(* request from its append to its answer: what the process is about to     *)
(* answer, for whom, and what the record it is renaming holds.  For the    *)
(* refinement come the file and the history, which differ by at most the   *)
(* entry that is not answered yet, and the replay of a start.              *)
(***************************************************************************)
EXTENDS Coordinator, LedgerReconcileProofs

-----------------------------------------------------------------------------
(***************************************************************************)
(* The invariant.                                                          *)
(***************************************************************************)
Then == {"none", "answer", "goodbye", "exit"}
AnswerStatus == ErrorCode \cup {"PROTOCOL_ERROR"}
Process == [at: ProcPoint, then: Then, status: AnswerStatus, epoch: Nat]
Link == [state: {"none", "open", "closed"}, request: Message]
AppendKind == {"kAppend", "kReclassify"}
Answering == {"save", "rename", "reply"}

ProcTypes == proc \in Process /\ file \subseteq Snapshot /\ intact \in BOOLEAN
NetTypes ==
  /\ backlog \in Seq(Clients)
  /\ serving \in Clients \cup {NoId}
  /\ connBoot \in Boots \cup {NoId}
  /\ link \in [Clients -> Link]
  /\ replaced \subseteq Boots

\* Nothing is registered while no connection is served.
Unregistered == proc.at \in {"down", "loading", "accept"} => connBoot = NoId

\* A request is worked on for a client; only the last save is for nobody.
Served ==
  /\ proc.at = "read" \/ (proc.at \in Answering /\ proc.then # "exit") => serving \in Clients
  /\ proc.at \in {"save", "rename"} => proc.then # "none"
  /\ proc.at = "reply" => proc.then # "exit"

\* An append is answered with OK only on the way from its save, and is committed
\* all that way.
Answers ==
  proc.at \in Answering =>
    /\ proc.then # "exit" => Asked(serving).kind # "none"
    /\ proc.then = "answer" =>
         Asked(serving).kind \in AppendKind /\ Committed(Asked(serving).entry.id)
    /\ proc.then = "goodbye" => Asked(serving).kind = "kShutdown"
    /\ proc.at = "reply" /\ proc.then = "none" /\ proc.status = "OK" =>
         Asked(serving).kind \notin AppendKind

\* The record that is renamed is that of the history, and so is the file's when
\* the answer is written, if nothing went wrong.
Written ==
  /\ proc.at = "rename" => \E r \in saved : r.history = history
  /\ proc.at = "rename" => \A r \in saved : r.history = history
  /\ proc.at = "reply" /\ proc.then = "answer" /\ intact =>
       \E r \in file : r.history = history

CoordInv ==
  /\ BookState /\ ControlState
  /\ ProcTypes /\ NetTypes /\ acked \subseteq EntryIds
  /\ LiveIsServed /\ Unregistered
  /\ Served /\ Answers /\ Written

-----------------------------------------------------------------------------
(***************************************************************************)
(* The ledger inside the process.                                          *)
(***************************************************************************)

\* The message a client has not sent is a message.
LEMMA NoMessageType == NoMessage \in Message /\ NoLink \in Link /\ NoMessage.kind = "none"
<1>1. NoMessage \in Message /\ NoMessage.kind = "none"
  BY BlankEntryType DEF NoMessage, Message, MessageKind
<1> QED BY <1>1 DEF NoLink, Link

\* The request that is worked on.
LEMMA RequestType ==
  ASSUME NetTypes, Served, proc.at = "read" \/ (proc.at \in Answering /\ proc.then # "exit")
  PROVE  serving \in Clients /\ link[serving] \in Link /\ Asked(serving) \in Message
BY DEF NetTypes, Served, Link, Asked

\* An append of a request: the books stay in order.
LEMMA AppendKeeps ==
  ASSUME BookState, ControlState, NEW e \in Entry, AppendEntry(e)
  PROVE  BookState' /\ ControlState'
BY AppendLockedPreserves, SameControl DEF AppendEntry

\* The last of the process: its ledger is a new one.
LEMMA DownKeeps ==
  ASSUME Down
  PROVE  BookState' /\ ControlState'
<1>1. ClearBooks /\ reply' = "OK" /\ reply' \in ErrorCode
  BY DEF Down, Fresh, ErrorCode
<1>2. ControlState'
  BY IdleType DEF Down, Fresh, ControlState, LoopBusy
<1> QED BY <1>1, <1>2, ClearedBooks

\* Loading a record.
LEMMA LoadKeeps ==
  ASSUME ControlState, NEW r \in Snapshot, LoadFromString(r)
  PROVE  BookState' /\ ControlState'
<1>1. /\ r.epoch \in Nat /\ r.ledgerGen \in Nat /\ r.accountGen \in Nat
      /\ r.history \in Seq(Entry) /\ "load" \in LoopKind
  BY DEF Snapshot, LoopKind
<1>2. /\ loop' \in [kind: LoopKind, rest: Seq(Entry)] /\ LoopBusy' /\ reply' \in ErrorCode
  BY <1>1, StartLoopType DEF LoadFromString
<1>3. ClearBooks
  BY DEF LoadFromString
<1>4. ControlState'
  BY <1>1, <1>2 DEF LoadFromString, ControlState
<1> QED BY <1>2, <1>3, <1>4, ClearedBooks

\* Saving.
LEMMA SaveKeeps ==
  ASSUME BookState, ControlState, SaveToString
  PROVE  BookState' /\ ControlState'
<1>1. saved' \subseteq Snapshot /\ reply' \in ErrorCode
  BY DEF SaveToString, ControlState, Snapshot, BookState, BookTypes, ErrorCode
<1>2. ControlState'
  BY <1>1 DEF SaveToString, ControlState, authority, LoopBusy
<1> QED BY <1>1, <1>2, SameBooks DEF SaveToString

\* Steps that leave the books alone and give the control state new values.
LEMMA SettersKeep ==
  ASSUME BookState, ControlState, UNCHANGED <<books, ledgerGen, accountGen, shuttingDown, loop, reply>>,
         epoch' \in Nat, liveWorkers' \subseteq Boots, saved' \subseteq Snapshot
  PROVE  BookState' /\ ControlState'
<1>1. reply' \in ErrorCode
  BY DEF BookState, BookTypes
<1>2. ControlState'
  BY DEF ControlState, LoopBusy
<1> QED BY <1>1, <1>2, SameBooks

-----------------------------------------------------------------------------
\* Every step of the system is one of these.
LEMMA CoordSteps ==
  ASSUME [CNext]_allVars
  PROVE  \/ UNCHANGED allVars
         \/ \E s \in Starts : Start(s)
         \/ LoadTurn \/ Listen \/ Accept
         \/ HandleRegister \/ HandleAppend \/ HandleQuery \/ HandleUnknown \/ HandleShutdown
         \/ Disconnect \/ SaveRemoves \/ SaveRenames \/ WriteStatus
         \/ AcceptFails \/ SaveFails \/ Kill
         \/ \E c \in Clients : Connect(c) \/ Close(c) \/ \E m \in Messages : Send(c, m)
BY Zenon DEF CNext, Work

\* The ledger keeps its invariant whatever the process does.
LEMMA CoordLedger ==
  ASSUME CoordInv, [CNext]_allVars
  PROVE  BookState' /\ ControlState'
<1>0. /\ BookState /\ ControlState /\ ProcTypes /\ NetTypes /\ Served
      /\ reply \in ErrorCode /\ saved \subseteq Snapshot /\ epoch \in Nat /\ liveWorkers \subseteq Boots
  BY DEF CoordInv, BookState, BookTypes, ControlState
<1>1. CASE UNCHANGED vars
  BY <1>0, <1>1, SettersKeep DEF vars, books
<1>2. ASSUME NEW s \in Starts, Start(s) PROVE BookState' /\ ControlState'
  <2>1. UNCHANGED vars \/ \E r \in file : LoadFromString(r)
    BY <1>2, Zenon DEF Start
  <2>2. ASSUME NEW r \in file, LoadFromString(r) PROVE BookState' /\ ControlState'
    BY <1>0, <2>2, LoadKeeps DEF ProcTypes
  <2> QED BY <1>1, <2>1, <2>2
<1>3. CASE LoadTurn
  BY <1>0, <1>3, LoopStepPreserves DEF LoadTurn
<1>4. CASE Listen
  <2>1. CASE UNCHANGED vars
    BY <1>1, <2>1
  <2>2. CASE SetEpoch(proc.epoch)
    <3>1. proc.epoch \in Nat
      BY <1>0 DEF ProcTypes, Process
    <3>2. /\ UNCHANGED <<books, ledgerGen, accountGen, shuttingDown, loop, reply>>
          /\ epoch' \in Nat /\ liveWorkers' = liveWorkers /\ saved' = saved
      BY <2>2, <3>1 DEF SetEpoch
    <3> QED BY <1>0, <3>2, SettersKeep
  <2> QED BY <1>4, <2>1, <2>2 DEF Listen
<1>5. CASE HandleRegister
  <2>1. CASE UNCHANGED vars
    BY <1>1, <2>1
  <2>2. CASE RegisterWorker(Asked(serving).boot) /\ Asked(serving).boot # NoId
    <3>1. Asked(serving).boot \in Boots
      BY <1>0, <1>5, <2>2, RequestType DEF HandleRegister, Serving, Message
    <3>2. /\ UNCHANGED <<books, ledgerGen, accountGen, shuttingDown, loop, reply>>
          /\ epoch' = epoch /\ liveWorkers' \subseteq Boots /\ saved' = saved
      BY <1>0, <2>2, <3>1 DEF RegisterWorker
    <3> QED BY <1>0, <3>2, SettersKeep
  <2> QED BY <1>5, <2>1, <2>2, Zenon DEF HandleRegister
<1>6. CASE HandleAppend
  <2>1. Asked(serving) \in Message
    BY <1>0, <1>6, RequestType DEF HandleAppend, Serving
  <2>2. Asked(serving).entry \in Entry
    BY <2>1 DEF Message
  <2> QED BY <1>0, <1>6, <2>2, AppendKeeps DEF HandleAppend
<1>7. CASE Disconnect
  <2>1. CASE UNCHANGED vars
    BY <1>1, <2>1
  <2>2. CASE UnregisterWorker(connBoot)
    <3>1. /\ UNCHANGED <<books, ledgerGen, accountGen, shuttingDown, loop, reply>>
          /\ epoch' = epoch /\ liveWorkers' \subseteq Boots /\ saved' = saved
      BY <1>0, <2>2 DEF UnregisterWorker
    <3> QED BY <1>0, <3>1, SettersKeep
  <2> QED BY <1>7, <2>1, <2>2 DEF Disconnect
<1>8. CASE SaveRemoves
  BY <1>0, <1>8, SaveKeeps DEF SaveRemoves
<1>9. ASSUME AfterSave PROVE BookState' /\ ControlState'
  <2>1. CASE Down
    BY <2>1, DownKeeps
  <2>2. CASE saved' = {} /\ UNCHANGED <<authority, shuttingDown, books, loop, reply>>
    BY <1>0, <2>2, SettersKeep DEF authority
  <2> QED BY <1>9, <2>1, <2>2 DEF AfterSave
<1>10. CASE Kill
  BY <1>10, DownKeeps DEF Kill
<1>11. CASE \/ Accept \/ HandleQuery \/ HandleUnknown \/ HandleShutdown \/ WriteStatus
            \/ AcceptFails
            \/ \E c \in Clients : Connect(c) \/ Close(c) \/ \E m \in Messages : Send(c, m)
  BY <1>1, <1>11, Zenon DEF Accept, HandleQuery, HandleUnknown, HandleShutdown, WriteStatus,
     AcceptFails, Connect, Close, Send
<1>12. CASE UNCHANGED allVars
  BY <1>1, <1>12 DEF allVars
<1> QED BY <1>2, <1>3, <1>4, <1>5, <1>6, <1>7, <1>8, <1>9, <1>10, <1>11, <1>12, CoordSteps
        DEF SaveRenames, SaveFails

-----------------------------------------------------------------------------
(***************************************************************************)
(* The process and its connections.                                        *)
(***************************************************************************)

\* The states a process is put in.
LEMMA AtType ==
  ASSUME NEW p \in ProcPoint
  PROVE  /\ At(p) \in Process /\ At(p).at = p /\ At(p).then = "none" /\ At(p).status = "OK"
         /\ \A th \in Then : /\ [At(p) EXCEPT !.then = th] \in Process
                             /\ [At(p) EXCEPT !.then = th].at = p
                             /\ [At(p) EXCEPT !.then = th].then = th
         /\ \A st \in AnswerStatus : /\ [At(p) EXCEPT !.status = st] \in Process
                                     /\ [At(p) EXCEPT !.status = st].at = p
                                     /\ [At(p) EXCEPT !.status = st].then = "none"
                                     /\ [At(p) EXCEPT !.status = st].status = st
         /\ \A n \in Nat : /\ [At(p) EXCEPT !.epoch = n] \in Process
                           /\ [At(p) EXCEPT !.epoch = n].at = p
BY DEF At, Process, Then, AnswerStatus, ErrorCode, NoId

\* The process goes where its code says.
LEMMA CoordProcess ==
  ASSUME CoordInv, [CNext]_allVars
  PROVE  proc' \in Process
<1>0. proc \in Process /\ NetTypes /\ Served /\ BookState' /\ \A p \in ProcPoint : At(p) \in Process
  BY CoordLedger, AtType DEF CoordInv, ProcTypes
<1>1. "OK" \in AnswerStatus /\ "PROTOCOL_ERROR" \in AnswerStatus /\ reply' \in AnswerStatus
  BY <1>0 DEF AnswerStatus, ErrorCode, BookState, BookTypes
<1>2. ASSUME NEW s \in Starts, Start(s) PROVE proc' \in Process
  BY <1>2, StartAssumption, AtType DEF Start, ProcPoint
<1>3. CASE Listen \/ Accept \/ Disconnect
  BY <1>0, <1>3 DEF Listen, Accept, Disconnect, HangUp, ProcPoint
<1>4. CASE HandleRegister \/ HandleQuery \/ HandleUnknown
  BY <1>1, <1>4, AtType DEF HandleRegister, HandleQuery, HandleUnknown, Reply, ProcPoint
<1>5. CASE HandleAppend
  <2>1. proc' = [At("save") EXCEPT !.then = "answer"] \/ Reply(reply')
    BY <1>5, Zenon DEF HandleAppend
  <2> QED BY <1>1, <2>1, AtType DEF Reply, ProcPoint, Then
<1>6. CASE HandleShutdown \/ AcceptFails
  BY <1>6, AtType DEF HandleShutdown, AcceptFails, ProcPoint, Then
<1>7. CASE SaveRemoves
  BY <1>0, <1>7 DEF SaveRemoves, Process, ProcPoint
<1>8. ASSUME AfterSave PROVE proc' \in Process
  BY <1>0, <1>8 DEF AfterSave, Down, Process, ProcPoint
<1>9. CASE Kill
  BY <1>0, <1>9 DEF Kill, Down, ProcPoint
<1>10. CASE WriteStatus
  BY <1>10, AtType DEF WriteStatus, ProcPoint, Then
<1>11. CASE \/ LoadTurn \/ UNCHANGED allVars
            \/ \E c \in Clients : Connect(c) \/ Close(c) \/ \E m \in Messages : Send(c, m)
  <2>1. proc' = proc
    BY <1>11, Zenon DEF LoadTurn, Connect, Close, Send, cvars, allVars
  <2> QED BY <1>0, <2>1
<1> QED BY <1>2, <1>3, <1>4, <1>5, <1>6, <1>7, <1>8, <1>9, <1>10, <1>11, CoordSteps
        DEF SaveRenames, SaveFails

\* The file holds records.
LEMMA CoordFile ==
  ASSUME CoordInv, [CNext]_allVars
  PROVE  file' \subseteq Snapshot /\ intact' \in BOOLEAN
<1>0. file \subseteq Snapshot /\ intact \in BOOLEAN /\ saved \subseteq Snapshot
  BY DEF CoordInv, ProcTypes, ControlState
<1>1. CASE UNCHANGED file /\ UNCHANGED intact
  BY <1>0, <1>1
<1>2. ASSUME NEW s \in Starts, Start(s) PROVE file' \subseteq Snapshot /\ intact' \in BOOLEAN
  BY <1>0, <1>2, StartAssumption DEF Start
<1>3. CASE SaveRemoves
  BY <1>0, <1>3 DEF SaveRemoves, ghosts
<1>4. CASE SaveRenames
  BY <1>0, <1>4 DEF SaveRenames
<1>5. CASE SaveFails \/ Kill
  BY <1>0, <1>5 DEF SaveFails, Kill
<1>6. CASE \/ LoadTurn \/ Listen \/ Accept \/ HandleRegister \/ HandleAppend \/ HandleQuery
           \/ HandleUnknown \/ HandleShutdown \/ Disconnect \/ WriteStatus \/ AcceptFails
           \/ UNCHANGED allVars
           \/ \E c \in Clients : Connect(c) \/ Close(c) \/ \E m \in Messages : Send(c, m)
  <2>1. UNCHANGED file /\ UNCHANGED intact
    BY <1>6, Zenon DEF LoadTurn, Listen, Accept, HandleRegister, HandleAppend, HandleQuery,
       HandleUnknown, HandleShutdown, Disconnect, HangUp, WriteStatus, AcceptFails, Connect,
       Close, Send, ghosts, cvars, allVars
  <2> QED BY <1>1, <2>1
<1> QED BY <1>2, <1>3, <1>4, <1>5, <1>6, CoordSteps

\* The connections.
LEMMA CoordNet ==
  ASSUME CoordInv, [CNext]_allVars
  PROVE  NetTypes'
<1>0. /\ backlog \in Seq(Clients) /\ serving \in Clients \cup {NoId}
      /\ connBoot \in Boots \cup {NoId} /\ link \in [Clients -> Link] /\ replaced \subseteq Boots
      /\ NetTypes /\ Served /\ NoMessage \in Message /\ NoLink \in Link
  BY NoMessageType DEF CoordInv, NetTypes
<1>1. CASE UNCHANGED net /\ UNCHANGED replaced
  BY <1>0, <1>1 DEF NetTypes, net
<1>2. CASE Accept
  <2>1. Head(backlog) \in Clients /\ Tail(backlog) \in Seq(Clients)
    BY <1>0, <1>2 DEF Accept
  <2> QED BY <1>0, <1>2, <2>1 DEF Accept, NetTypes, ghosts
<1>3. CASE HandleRegister
  <2> DEFINE b == Asked(serving).boot
  <2>1. b \in Boots \cup {NoId}
    BY <1>0, <1>3, RequestType DEF HandleRegister, Serving, Message
  <2>2. /\ connBoot' = b /\ replaced' = (replaced \cup {connBoot}) \ {NoId, b}
        /\ UNCHANGED <<backlog, serving, link>>
    BY <1>3, Zenon DEF HandleRegister
  <2> HIDE DEF b
  <2> QED BY <1>0, <2>1, <2>2 DEF NetTypes
<1>4. CASE Disconnect
  BY <1>0, <1>4 DEF Disconnect, HangUp, NetTypes, ghosts
<1>5. CASE Down
  BY <1>0, <1>5 DEF Down, NetTypes
<1>6. CASE WriteStatus
  <2>1. serving \in Clients \/ link' = link
    BY <1>0, <1>6 DEF WriteStatus
  <2>2. link' \in [Clients -> Link]
    BY <1>0, <1>6, <2>1 DEF WriteStatus, Link
  <2> QED BY <1>0, <1>6, <2>2 DEF WriteStatus, NetTypes
<1>7. ASSUME NEW c \in Clients, Connect(c) \/ Close(c) \/ \E m \in Messages : Send(c, m)
      PROVE  NetTypes'
  <2>1. /\ UNCHANGED <<serving, connBoot, replaced>>
        /\ backlog' = backlog \/ backlog' = Append(backlog, c)
    BY <1>7, Zenon DEF Connect, Close, Send, ghosts
  <2>2. link' \in [Clients -> Link]
    <3>1. CASE Connect(c)
      BY <1>0, <3>1 DEF Connect, Link
    <3>2. CASE Close(c)
      BY <1>0, <3>2 DEF Close, Link
    <3>3. ASSUME NEW m \in Messages, Send(c, m) PROVE link' \in [Clients -> Link]
      BY <1>0, <3>3, MessageAssumption DEF Send, Link
    <3> QED BY <1>7, <3>1, <3>2, <3>3
  <2>3. backlog' \in Seq(Clients)
    BY <1>0, <2>1
  <2> QED BY <1>0, <2>1, <2>2, <2>3 DEF NetTypes
<1>8. CASE \/ LoadTurn \/ Listen \/ HandleAppend \/ HandleQuery \/ SaveRemoves
           \/ HandleUnknown \/ HandleShutdown \/ AcceptFails \/ UNCHANGED allVars
           \/ \E s \in Starts : Start(s)
  <2>1. UNCHANGED net /\ UNCHANGED replaced
    BY <1>8, Zenon DEF LoadTurn, Listen, HandleAppend, HandleQuery, SaveRemoves, HandleUnknown,
       HandleShutdown, AcceptFails, Start, ghosts, cvars, allVars, net
  <2> QED BY <1>1, <2>1
<1>9. ASSUME AfterSave PROVE NetTypes'
  BY <1>1, <1>5, <1>9 DEF AfterSave
<1> QED BY <1>2, <1>3, <1>4, <1>5, <1>6, <1>7, <1>8, <1>9, CoordSteps
        DEF SaveRenames, SaveFails, Kill

\* What is acknowledged is an entry's id, and committed.
LEMMA CoordAcks ==
  ASSUME CoordInv, [CNext]_allVars
  PROVE  \/ acked' = acked
         \/ /\ WriteStatus /\ proc.at = "reply" /\ proc.then = "answer"
            /\ Committed(Asked(serving).entry.id) /\ Asked(serving).entry.id \in EntryIds
            /\ acked' = acked \cup {Asked(serving).entry.id}
<1>1. CASE WriteStatus /\ acked' # acked
  <2>1. /\ proc.at = "reply" /\ proc.status = "OK" /\ Asked(serving).kind \in AppendKind
        /\ acked' = acked \cup {Asked(serving).entry.id}
    BY <1>1 DEF WriteStatus, AppendKind
  <2>2. proc.then \in {"answer", "none", "goodbye"}
    BY <2>1 DEF CoordInv, Served, ProcTypes, Process, Then
  <2>3. proc.then = "answer" /\ Committed(Asked(serving).entry.id)
    BY <2>1, <2>2 DEF CoordInv, Answers, Answering, AppendKind
  <2>4. PICK i \in DOMAIN history : history[i].id = Asked(serving).entry.id
    BY <2>3 DEF Committed
  <2>5. history[i].id \in EntryIds
    <3>1. history \in Seq(Entry) /\ validate(history[i])
      BY DEF CoordInv, BookState, BookTypes, HistoryValid
    <3> QED BY <3>1 DEF validate, Entry, EntryRecord
  <2> QED BY <1>1, <2>1, <2>3, <2>4, <2>5
<1>2. ASSUME AfterSave PROVE acked' = acked
  BY <1>2 DEF AfterSave, Down
<1>3. CASE \/ LoadTurn \/ Listen \/ Accept \/ HandleRegister \/ HandleAppend \/ HandleQuery
           \/ HandleUnknown \/ HandleShutdown \/ Disconnect \/ AcceptFails \/ SaveRemoves \/ Kill
           \/ UNCHANGED allVars \/ \E s \in Starts : Start(s)
           \/ \E c \in Clients : Connect(c) \/ Close(c) \/ \E m \in Messages : Send(c, m)
  BY <1>3, Zenon DEF LoadTurn, Listen, Accept, HandleRegister, HandleAppend, HandleQuery,
     HandleUnknown, HandleShutdown, Disconnect, HangUp, AcceptFails, SaveRemoves, Kill, Down,
     Start, Connect, Close, Send, ghosts, cvars, allVars
<1> QED BY <1>1, <1>2, <1>3, CoordSteps DEF SaveRenames, SaveFails

-----------------------------------------------------------------------------
(***************************************************************************)
(* Boot ids.                                                               *)
(***************************************************************************)

\* A boot id is registered with its connection and goes with it.
LEMMA CoordLive ==
  ASSUME CoordInv, [CNext]_allVars
  PROVE  LiveIsServed' /\ Unregistered'
<1>0. /\ LiveIsServed /\ Unregistered /\ liveWorkers \subseteq Boots /\ NoId \notin Boots
      /\ proc \in Process /\ \A p \in ProcPoint : At(p).at = p
  BY IdAssumption, AtType DEF CoordInv, ControlState, ProcTypes
<1>1. CASE /\ UNCHANGED <<liveWorkers, replaced, connBoot>>
           /\ proc'.at \in {"down", "loading", "accept"} =>
                proc.at \in {"down", "loading", "accept"}
  BY <1>0, <1>1 DEF LiveIsServed, Unregistered
<1>2. ASSUME NEW s \in Starts, Start(s) PROVE LiveIsServed' /\ Unregistered'
  <2>1. UNCHANGED liveWorkers
    BY <1>2, Zenon DEF Start, LoadFromString, vars
  <2>2. UNCHANGED <<replaced, connBoot>> /\ proc.at = "down"
    BY <1>2 DEF Start, net
  <2> QED BY <1>1, <2>1, <2>2
<1>3. CASE LoadTurn \/ Listen
  <2>1. UNCHANGED <<liveWorkers, replaced, connBoot>> /\ proc.at = "loading"
    BY <1>3, Zenon DEF LoadTurn, Listen, LoopStep, SetEpoch, authority, vars, net, cvars, ghosts
  <2> QED BY <1>1, <2>1
<1>4. CASE Accept
  <2>1. /\ connBoot = NoId /\ connBoot' = NoId /\ UNCHANGED <<liveWorkers, replaced>>
    BY <1>0, <1>4 DEF Accept, Unregistered, vars, ghosts
  <2> QED BY <1>0, <2>1 DEF LiveIsServed, Unregistered
<1>5. CASE HandleRegister
  <2> DEFINE b == Asked(serving).boot
  <2>1. /\ connBoot' = b /\ replaced' = (replaced \cup {connBoot}) \ {NoId, b}
        /\ liveWorkers' = liveWorkers \/ (liveWorkers' = liveWorkers \cup {b} /\ b # NoId)
        /\ Reply("OK")
    BY <1>5, Zenon DEF HandleRegister, RegisterWorker, vars
  <2>2. proc'.at = "reply"
    BY <2>1 DEF Reply, At
  <2> HIDE DEF b
  <2>3. liveWorkers' \ replaced' \subseteq {b} \ {NoId}
    BY <1>0, <2>1 DEF LiveIsServed
  <2> QED BY <2>1, <2>2, <2>3 DEF LiveIsServed, Unregistered
<1>6. CASE HandleAppend
  <2>1. UNCHANGED <<liveWorkers, replaced, connBoot>>
    BY <1>6 DEF HandleAppend, AppendEntry, authority, net, ghosts
  <2>2. proc' = [At("save") EXCEPT !.then = "answer"] \/ Reply(reply')
    BY <1>6, Zenon DEF HandleAppend
  <2>3. reply' \in ErrorCode
    BY CoordLedger DEF BookState, BookTypes
  <2>4. proc'.at \in {"save", "reply"}
    BY <2>2, <2>3 DEF Reply, At
  <2> QED BY <1>1, <2>1, <2>4
<1>7. CASE HandleQuery \/ HandleUnknown \/ HandleShutdown
  <2>1. UNCHANGED <<liveWorkers, replaced, connBoot>>
    BY <1>7, Zenon DEF HandleQuery, HandleUnknown, HandleShutdown, net, ghosts, vars
  <2>2. proc'.at \in {"save", "reply"}
    BY <1>7 DEF HandleQuery, HandleUnknown, HandleShutdown, Reply, At
  <2> QED BY <1>1, <2>1, <2>2
<1>8. CASE Disconnect
  <2>1. /\ connBoot' = NoId /\ replaced' = replaced
        /\ \/ connBoot = NoId /\ liveWorkers' = liveWorkers
           \/ connBoot # NoId /\ liveWorkers' = liveWorkers \ {connBoot}
    BY <1>8, Zenon DEF Disconnect, HangUp, UnregisterWorker, vars, ghosts
  <2> QED BY <1>0, <2>1 DEF LiveIsServed, Unregistered
<1>9. CASE Down
  <2>1. liveWorkers' = {} /\ connBoot' = NoId
    BY <1>9 DEF Down, Fresh
  <2> QED BY <2>1 DEF LiveIsServed, Unregistered
<1>10. CASE SaveRemoves
  <2>1. UNCHANGED <<liveWorkers, replaced, connBoot>> /\ proc'.at = "rename"
    BY <1>0, <1>10 DEF SaveRemoves, SaveToString, authority, net, ghosts, Process
  <2> QED BY <1>1, <2>1
<1>11. ASSUME AfterSave PROVE LiveIsServed' /\ Unregistered'
  <2>1. CASE proc' = [proc EXCEPT !.at = "reply"] /\ UNCHANGED <<authority, net, replaced>>
    BY <1>0, <1>1, <2>1 DEF authority, net, Process
  <2> QED BY <1>9, <1>11, <2>1 DEF AfterSave
<1>12. CASE WriteStatus \/ AcceptFails
  <2>1. UNCHANGED <<liveWorkers, replaced, connBoot>>
    BY <1>12, Zenon DEF WriteStatus, AcceptFails, net, ghosts, vars
  <2>2. proc'.at \in {"save", "read"}
    BY <1>12 DEF WriteStatus, AcceptFails, At
  <2> QED BY <1>1, <2>1, <2>2
<1>13. CASE \/ UNCHANGED allVars
            \/ \E c \in Clients : Connect(c) \/ Close(c) \/ \E m \in Messages : Send(c, m)
  <2>1. UNCHANGED <<liveWorkers, replaced, connBoot, proc>>
    BY <1>13, Zenon DEF Connect, Close, Send, ghosts, cvars, allVars, vars
  <2> QED BY <1>1, <2>1
<1> QED BY <1>2, <1>3, <1>4, <1>5, <1>6, <1>7, <1>8, <1>9, <1>10, <1>11, <1>12, <1>13, CoordSteps
        DEF SaveRenames, SaveFails, Kill

-----------------------------------------------------------------------------
(***************************************************************************)
(* From an append to its answer.                                           *)
(***************************************************************************)
OnTheWay == Served /\ Answers /\ Written

\* Away from a request there is nothing to show.
LEMMA NothingAsked ==
  ASSUME proc'.at \in {"down", "loading", "accept"}
  PROVE  OnTheWay'
BY DEF OnTheWay, Served, Answers, Written, Answering

\* A client cannot take back the request that is being answered.
LEMMA RequestStays ==
  ASSUME NetTypes, Served, Answers, proc.at \in Answering, proc.then # "exit",
         NEW c \in Clients, Connect(c) \/ Close(c) \/ \E m \in Messages : Send(c, m)
  PROVE  link'[serving].request = link[serving].request
<1>0. /\ serving \in Clients /\ link \in [Clients -> Link] /\ link[serving].request.kind # "none"
      /\ link[serving] \in Link
  BY DEF NetTypes, Served, Answers, Asked
<1>1. CASE Connect(c)
  BY <1>0, <1>1 DEF Connect, Link
<1>2. CASE Close(c)
  BY <1>0, <1>2 DEF Close, Link, Answering
<1>3. ASSUME NEW m \in Messages, Send(c, m)
      PROVE  link'[serving].request = link[serving].request
  <2>1. c # serving /\ link' = [link EXCEPT ![c].request = m]
    BY <1>0, <1>3 DEF Send, Asked
  <2> QED BY <1>0, <2>1
<1> QED BY <1>1, <1>2, <1>3

\* The request that is being answered, its place in the ledger and its record.
LEMMA CoordAnswers ==
  ASSUME CoordInv, [CNext]_allVars
  PROVE  OnTheWay'
<1>0. /\ BookState /\ ControlState /\ NetTypes /\ Served /\ Answers /\ Written
      /\ proc \in Process /\ history \in Seq(Entry)
  BY DEF CoordInv, ProcTypes, BookState, BookTypes
<1>1. ASSUME NEW s \in Starts, Start(s) PROVE OnTheWay'
  <2>1. proc'.at = "loading"
    BY <1>1 DEF Start, At
  <2> QED BY <2>1, NothingAsked
<1>2. CASE LoadTurn \/ Listen \/ Disconnect \/ Down
  <2>1. proc'.at \in {"down", "loading", "accept"}
    BY <1>2 DEF LoadTurn, Listen, Disconnect, HangUp, Down, At, cvars
  <2> QED BY <2>1, NothingAsked
<1>3. CASE Accept
  <2>1. proc'.at = "read" /\ serving' \in Clients
    BY <1>0, <1>3 DEF Accept, At, NetTypes
  <2> QED BY <2>1 DEF OnTheWay, Served, Answers, Written, Answering
<1>4. CASE HandleRegister \/ HandleQuery \/ HandleUnknown
  <2>1. /\ serving' = serving /\ link' = link
        /\ proc.at = "read" /\ Asked(serving).kind # "none"
    BY <1>4, Zenon DEF HandleRegister, HandleQuery, HandleUnknown, MalformedBody, Serving, net
  <2>2. Asked(serving).kind \in AppendKind => HandleUnknown
    BY <1>4 DEF HandleRegister, HandleQuery, Serving, AppendKind
  <2>3. /\ proc'.at = "reply" /\ proc'.then = "none"
        /\ HandleUnknown => proc'.status = "PROTOCOL_ERROR"
    BY <1>4 DEF HandleRegister, HandleQuery, HandleUnknown, Reply, At
  <2>4. serving \in Clients
    BY <1>0, <2>1 DEF Served
  <2>5. Served' /\ Written'
    BY <2>1, <2>3, <2>4 DEF Served, Written
  <2>6. Answers'
    BY <2>1, <2>2, <2>3 DEF Answers, Asked
  <2> QED BY <2>5, <2>6 DEF OnTheWay
<1>5. CASE HandleAppend
  <2> DEFINE e == Asked(serving).entry
  <2>1. /\ serving' = serving /\ link' = link /\ proc.at = "read"
        /\ Asked(serving).kind \in AppendKind /\ append_locked(e)
    BY <1>5 DEF HandleAppend, Serving, net, AppendKind, AppendEntry
  <2>2. serving \in Clients /\ e \in Entry
    BY <1>0, <2>1, RequestType DEF Message
  <2>3. Asked(serving).kind # "none" /\ Asked(serving)' = Asked(serving)
    BY <2>1 DEF AppendKind, Asked
  <2>4. CASE reply' = "OK"
    <3>1. proc'.at = "save" /\ proc'.then = "answer"
      BY <1>5, <2>4 DEF HandleAppend, At
    <3>2. history' = Append(history, e)
      BY <2>1, <2>4, OkCommits
    <3>3. Asked(serving)'.entry = e
      BY <2>3
    <3>4. \E i \in DOMAIN history' : history'[i].id = e.id
      <4> DEFINE n == Len(history) + 1
      <4> HIDE DEF e
      <4>1. n \in DOMAIN history' /\ history'[n] = e
        BY <1>0, <2>2, <3>2
      <4> HIDE DEF n
      <4> QED BY <4>1
    <3>5. Committed(Asked(serving).entry.id)'
      BY <3>3, <3>4, Zenon DEF Committed
    <3>6. Served' /\ Written'
      BY <2>1, <2>2, <3>1 DEF Served, Written
    <3>7. Answers'
      BY <2>1, <2>3, <3>1, <3>5 DEF Answers
    <3> QED BY <3>6, <3>7 DEF OnTheWay
  <2>5. CASE reply' # "OK"
    <3>1. proc'.at = "reply" /\ proc'.then = "none" /\ proc'.status # "OK"
      BY <1>5, <2>5 DEF HandleAppend, Reply, At
    <3>2. Served' /\ Written'
      BY <2>1, <2>2, <3>1 DEF Served, Written
    <3>3. Answers'
      BY <2>3, <3>1 DEF Answers
    <3> QED BY <3>2, <3>3 DEF OnTheWay
  <2> QED BY <2>4, <2>5
<1>6. CASE HandleShutdown
  <2>1. /\ serving' = serving /\ link' = link /\ proc.at = "read"
        /\ Asked(serving).kind = "kShutdown" /\ proc'.at = "save" /\ proc'.then = "goodbye"
    BY <1>6 DEF HandleShutdown, Serving, net, At
  <2>2. Served' /\ Written'
    BY <1>0, <2>1 DEF Served, Written
  <2>3. Answers'
    BY <2>1 DEF Answers, Asked
  <2> QED BY <2>2, <2>3 DEF OnTheWay
<1>7. CASE AcceptFails
  <2>1. proc'.at = "save" /\ proc'.then = "exit"
    BY <1>7 DEF AcceptFails, At
  <2> QED BY <2>1 DEF OnTheWay, Served, Answers, Written
<1>8. CASE SaveRemoves
  <2>1. /\ serving' = serving /\ link' = link /\ proc.at = "save" /\ history' = history
        /\ proc'.at = "rename" /\ proc'.then = proc.then
    BY <1>0, <1>8 DEF SaveRemoves, SaveToString, books, net, Process
  <2>2. \A r \in saved' : r.history = history'
    BY <1>8, <2>1 DEF SaveRemoves, SaveToString
  <2>3. saved' # {}
    BY <1>8 DEF SaveRemoves, SaveToString
  <2>4. Served'
    BY <1>0, <2>1 DEF Served, Answering
  <2>5. Written'
    BY <2>1, <2>2, <2>3 DEF Written
  <2>6. Answers'
    BY <1>0, <2>1 DEF Answers, Asked, Committed, Answering
  <2> QED BY <2>4, <2>5, <2>6 DEF OnTheWay
<1>9. ASSUME proc.at \in {"save", "rename"}, AfterSave, proc.then # "exit",
             intact' => \E r \in file' : r.history = history
      PROVE  OnTheWay'
  <2>1. /\ serving' = serving /\ link' = link /\ history' = history
        /\ proc'.at = "reply" /\ proc'.then = proc.then
    BY <1>0, <1>9 DEF AfterSave, net, books, Process
  <2>2. proc.then # "none" /\ serving \in Clients
    BY <1>0, <1>9 DEF Served, Answering
  <2>3. Served'
    BY <1>9, <2>1, <2>2 DEF Served
  <2>4. Written'
    BY <1>9, <2>1 DEF Written
  <2>5. Answers'
    BY <1>0, <1>9, <2>1, <2>2 DEF Answers, Asked, Committed, Answering
  <2> QED BY <2>3, <2>4, <2>5 DEF OnTheWay
<1>10. ASSUME AfterSave, proc.then = "exit" PROVE OnTheWay'
  BY <1>2, <1>10 DEF AfterSave
<1>11. CASE SaveFails
  <2>1. proc.at = "save" /\ AfterSave /\ intact' = FALSE
    BY <1>11 DEF SaveFails
  <2> QED BY <1>9, <1>10, <2>1
<1>12. CASE SaveRenames
  <2>1. /\ proc.at = "rename" /\ AfterSave
        /\ file' = saved \/ intact' = FALSE
    BY <1>12 DEF SaveRenames
  <2>2. \E r \in saved : r.history = history
    BY <1>0, <2>1 DEF Written
  <2> QED BY <1>9, <1>10, <2>1, <2>2
<1>13. CASE WriteStatus
  <2>1. \/ proc'.at = "save" /\ proc'.then = "exit"
        \/ proc'.at = "read" /\ proc'.then = "none"
    BY <1>13 DEF WriteStatus, At
  <2>2. serving' = serving /\ serving \in Clients
    BY <1>0, <1>13 DEF WriteStatus, Served, Answering
  <2> QED BY <2>1, <2>2 DEF OnTheWay, Served, Answers, Written, Answering
<1>14. CASE UNCHANGED allVars
  <2>1. UNCHANGED <<proc, serving, link, history, saved, file, intact>>
    BY <1>14 DEF allVars, vars, cvars
  <2> QED BY <1>0, <2>1 DEF OnTheWay, Served, Answers, Written, Asked, Committed
<1>15. ASSUME NEW c \in Clients, Connect(c) \/ Close(c) \/ \E m \in Messages : Send(c, m)
       PROVE  OnTheWay'
  <2>1. UNCHANGED <<proc, serving, history, saved, file, intact>>
    BY <1>15, Zenon DEF Connect, Close, Send, vars, ghosts
  <2>2. Served' /\ Written'
    BY <1>0, <2>1 DEF Served, Written
  <2>3. ASSUME proc.at \in Answering, proc.then # "exit"
        PROVE  Asked(serving)' = Asked(serving)
    BY <1>0, <1>15, <2>1, <2>3, RequestStays DEF Asked
  <2>4. Answers'
    <3>1. \A id : Committed(id)' <=> Committed(id)
      BY <2>1 DEF Committed
    <3> QED BY <1>0, <2>1, <2>3, <3>1 DEF Answers
  <2> QED BY <2>2, <2>4 DEF OnTheWay
<1> QED BY <1>1, <1>2, <1>3, <1>4, <1>5, <1>6, <1>7, <1>8, <1>11, <1>12, <1>13, <1>14, <1>15,
        CoordSteps DEF Kill

-----------------------------------------------------------------------------
\* The initial state.
LEMMA CoordInit == CInit => CoordInv
<1> SUFFICES ASSUME CInit PROVE CoordInv
  OBVIOUS
<1>1. BookState /\ ControlState
  BY BooksInvInit, InvariantParts DEF CInit
<1>2. proc \in Process /\ proc.at = "down"
  BY AtType DEF CInit, ProcPoint
<1>3. ProcTypes /\ NetTypes
  BY <1>2, NoMessageType DEF CInit, ProcTypes, NetTypes
<1>4. LiveIsServed /\ Unregistered
  BY DEF CInit, Init, LiveIsServed, Unregistered
<1>5. Served /\ Answers /\ Written
  BY <1>2 DEF Served, Answers, Written, Answering
<1> QED BY <1>1, <1>3, <1>4, <1>5 DEF CInit, CoordInv

\* Every step of the process, of its clients and of what can go wrong.
LEMMA CoordStep == CoordInv /\ [CNext]_allVars => CoordInv'
<1> SUFFICES ASSUME CoordInv, [CNext]_allVars PROVE CoordInv'
  OBVIOUS
<1>1. BookState' /\ ControlState'
  BY CoordLedger
<1>2. ProcTypes' /\ NetTypes'
  BY CoordProcess, CoordFile, CoordNet DEF ProcTypes
<1>3. acked' \subseteq EntryIds
  BY CoordAcks DEF CoordInv
<1>4. LiveIsServed' /\ Unregistered'
  BY CoordLive
<1>5. Served' /\ Answers' /\ Written'
  BY CoordAnswers DEF OnTheWay
<1> QED BY <1>1, <1>2, <1>3, <1>4, <1>5 DEF CoordInv

\* The invariant of the coordinator.
THEOREM CoordinatorInvariant == CSpec => []CoordInv
BY CoordInit, CoordStep, PTL DEF CSpec

\* Type correctness through kills, restarts, failed saves and whatever the
\* clients send.
THEOREM CoordinatorTypeCorrect == CSpec => []CTypeOK
<1>1. CoordInv => CTypeOK
  <2> SUFFICES ASSUME CoordInv PROVE CTypeOK
    OBVIOUS
  <2>1. TypeOK
    BY InvariantParts DEF CoordInv, BooksInv
  <2>2. link \in [Clients -> [state: {"none", "open", "closed"},
                              request: Message \cup {NoMessage}]]
    BY DEF CoordInv, NetTypes, Link
  <2> QED BY <2>1, <2>2 DEF CoordInv, ProcTypes, NetTypes, Process, Then, AnswerStatus, CTypeOK
<1> QED BY <1>1, CoordinatorInvariant, PTL

\* A boot id is live only while the connection that registered it is served, or
\* when its connection went on to register another: entries of a worker that has
\* gone are refused.
THEOREM LiveBootsAreServed == CSpec => []LiveIsServed
<1>1. CoordInv => LiveIsServed
  BY DEF CoordInv
<1> QED BY <1>1, CoordinatorInvariant, PTL

\* Every acknowledgement is of an entry that is in the ledger and, if nothing has
\* failed the file, in the file: no order of append, save and answer, no client
\* that leaves in between and no refused replay gets an entry acknowledged that
\* was not saved.
THEOREM AcknowledgedIsSaved == CSpec => AcksAreSaved
<1>1. ASSUME CoordInv, [CNext]_allVars
      PROVE  [\A id \in acked' \ acked :
                /\ Committed(id)
                /\ intact => \E r \in file : \E i \in DOMAIN r.history :
                               r.history[i].id = id]_allVars
  <2> SUFFICES ASSUME NEW id \in acked' \ acked
               PROVE  /\ Committed(id)
                      /\ intact => \E r \in file : \E i \in DOMAIN r.history :
                                     r.history[i].id = id
    OBVIOUS
  <2>1. /\ proc.at = "reply" /\ proc.then = "answer"
        /\ Committed(Asked(serving).entry.id)
        /\ acked' = acked \cup {Asked(serving).entry.id}
    BY <1>1, CoordAcks
  <2>2. id = Asked(serving).entry.id /\ Committed(id)
    BY <2>1
  <2>3. intact => \E r \in file : r.history = history
    BY <1>1, <2>1 DEF CoordInv, Written
  <2>4. \E i \in DOMAIN history : history[i].id = id
    BY <2>2 DEF Committed
  <2> QED BY <2>2, <2>3, <2>4, Zenon
<1> QED BY <1>1, CoordinatorInvariant, PTL DEF CSpec, AcksAreSaved

-----------------------------------------------------------------------------
(***************************************************************************)
(* The promises of the history, kept through every incarnation.            *)
(***************************************************************************)

\* Every step leaves the books alone, starts them over or is a call of
\* append_locked.
LEMMA CoordBookSteps ==
  ASSUME CoordInv, [CNext]_allVars
  PROVE  UNCHANGED books \/ ClearBooks \/ \E e \in Entry : append_locked(e)
<1>1. ASSUME NEW s \in Starts, Start(s) PROVE UNCHANGED books \/ ClearBooks
  BY <1>1, Zenon DEF Start, LoadFromString, vars, books
<1>2. CASE LoadTurn
  <2>1. loop.rest \in Seq(Entry) /\ loop.rest # <<>> /\ append_locked(Head(loop.rest))
    BY <1>2 DEF LoadTurn, LoopStep, LockFree, CoordInv, ControlState, LoopBusy
  <2>2. Head(loop.rest) \in Entry
    BY <2>1
  <2> QED BY <2>1, <2>2, Zenon
<1>3. CASE HandleAppend
  <2>1. Asked(serving) \in Message
    BY <1>3, RequestType DEF HandleAppend, Serving, CoordInv
  <2>2. Asked(serving).entry \in Entry
    BY <2>1 DEF Message
  <2> QED BY <1>3, <2>2, Zenon DEF HandleAppend, AppendEntry
<1>4. CASE Down
  BY <1>4 DEF Down, Fresh
<1>5. ASSUME AfterSave PROVE UNCHANGED books \/ ClearBooks
  BY <1>4, <1>5 DEF AfterSave, Down, Fresh
<1>6. CASE \/ Listen \/ Accept \/ HandleRegister \/ HandleQuery \/ HandleUnknown \/ HandleShutdown
           \/ Disconnect \/ SaveRemoves \/ WriteStatus \/ AcceptFails \/ UNCHANGED allVars
           \/ \E c \in Clients : Connect(c) \/ Close(c) \/ \E m \in Messages : Send(c, m)
  <2>1. UNCHANGED vars \/ UNCHANGED books
    BY <1>6, Zenon DEF Listen, SetEpoch, Accept, HandleRegister, RegisterWorker, HandleQuery,
       HandleUnknown, HandleShutdown, Disconnect, UnregisterWorker, SaveRemoves, SaveToString,
       WriteStatus, AcceptFails, Connect, Close, Send, allVars
  <2> QED BY <2>1 DEF vars, books
<1> QED BY <1>1, <1>2, <1>3, <1>4, <1>5, <1>6, CoordSteps DEF SaveRenames, SaveFails, Kill

\* Entries sent again after a lost answer or a restart, and entries replayed: no
\* id is committed twice, a completion once per owner, a settled attempt stays
\* settled, publications increase, and the tables say what the history says.
THEOREM CoordinatorKeepsPromises ==
  CSpec => [](/\ UniqueIds /\ OneCompletionPerOwner /\ SettledAttempts
              /\ PublicationsIncrease /\ GuardsMatchHistory)
<1> DEFINE Kept == TablesMatch /\ HistoryPromises
<1>1. CInit => Kept
  BY AuthorityInit DEF CInit, AuthorityInv
<1>2. ASSUME CoordInv, Kept, [CNext]_allVars PROVE Kept'
  <2>1. BookState
    BY <1>2 DEF CoordInv
  <2> QED BY <1>2, <2>1, CoordBookSteps, AuthorityKept
<1>3. Kept => /\ UniqueIds /\ OneCompletionPerOwner /\ SettledAttempts
              /\ PublicationsIncrease /\ GuardsMatchHistory
  BY GuardParts DEF HistoryPromises
<1> HIDE DEF Kept
<1> QED BY <1>1, <1>2, <1>3, CoordinatorInvariant, PTL DEF CSpec

-----------------------------------------------------------------------------
(***************************************************************************)
(* The log of DurableLog.  While the file is intact the process and its    *)
(* file never differ by more than the entry that is being saved, and every *)
(* acknowledged entry is in the one a kill would leave.                    *)
(***************************************************************************)

\* The mutex is held only by the replay of a start; a process that is down has
\* a ledger without entries, and no process shuts its ledger down.
Quiet ==
  /\ loop.kind \in {"idle", "load"} /\ (LockFree => loop = Idle)
  /\ proc.at # "loading" => LockFree
  /\ proc.at = "down" => history = <<>>
  /\ ~shuttingDown

\* Whatever was committed came over the wire, so every record can be decoded.
Readable(entries) == \A i \in DOMAIN entries : decode_entry(entries[i])
FileReadable ==
  /\ Readable(history) /\ Readable(loop.rest)
  /\ \A r \in file : Decodes(r) /\ r.history = FileLog

\* The log that the process stands for, and the place where it is ahead of the
\* file by an entry that is not acknowledged yet.
TheLog == IF proc.at = "down" THEN FileLog ELSE history \o loop.rest
AnswerDue == proc.at = "save" /\ proc.then = "answer"
Beginning(part, whole) == Len(part) <= Len(whole) /\ part = SubSeq(whole, 1, Len(part))
InStep ==
  intact =>
    /\ acked \subseteq Durable!Ids(IF proc.at = "rename" THEN history ELSE FileLog)
    /\ AnswerDue => Beginning(FileLog, history)
    /\ proc.at \notin {"down", "rename"} /\ ~AnswerDue => FileLog = history \o loop.rest

DurableInv == CoordInv /\ Quiet /\ FileReadable /\ InStep

\* A step of DurableLog.
DurableStep ==
  [Durable!Commit \/ Durable!Acknowledge \/ Durable!Lose]_<<TheLog, acked, intact>>

\* What the file says is what its record says.
LEMMA FileLogIs ==
  ASSUME NEW h, file # {}, \A r \in file : r.history = h
  PROVE  FileLog = h
BY DEF FileLog

\* The same of the file after a step.
LEMMA FileLogIsPrime ==
  ASSUME NEW h, file' # {}, \A r \in file' : r.history = h
  PROVE  FileLog' = h
BY DEF FileLog

\* The file's entries are entries.
LEMMA FileLogType ==
  ASSUME CoordInv
  PROVE  FileLog \in Seq(Entry) /\ history \in Seq(Entry) /\ loop.rest \in Seq(Entry)
<1>1. file \subseteq Snapshot /\ history \in Seq(Entry) /\ loop.rest \in Seq(Entry)
  BY DEF CoordInv, ProcTypes, BookState, BookTypes, ControlState
<1>2. CASE file = {}
  BY <1>1, <1>2 DEF FileLog
<1>3. CASE file # {}
  <2>1. (CHOOSE r \in file : TRUE) \in file
    BY <1>3
  <2> QED BY <1>1, <1>3, <2>1 DEF FileLog, Snapshot
<1> QED BY <1>1, <1>2, <1>3

\* The mutex, the history of a process that is down, and the flag of shutdown.
LEMMA QuietStep ==
  ASSUME CoordInv, Quiet, [CNext]_allVars
  PROVE  Quiet'
<1>0. /\ proc \in Process /\ \A p \in ProcPoint : At(p).at = p
      /\ loop \in [kind: LoopKind, rest: Seq(Entry)] /\ Idle.kind = "idle"
  BY AtType, IdleType DEF CoordInv, ProcTypes, ControlState
<1>1. CASE UNCHANGED <<history, loop, shuttingDown>> /\ (proc'.at = proc.at \/ (LockFree /\ proc'.at # "down"))
  BY <1>1 DEF Quiet, LockFree
<1>2. ASSUME NEW s \in Starts, Start(s) PROVE Quiet'
  <2>1. \/ UNCHANGED vars
        \/ \E r \in file : LoadFromString(r)
    BY <1>2, Zenon DEF Start
  <2>2. proc'.at = "loading"
    BY <1>2 DEF Start, At
  <2>3. ASSUME NEW r \in file, LoadFromString(r) PROVE Quiet'
    BY <1>0, <2>2, <2>3 DEF LoadFromString, StartLoop, LockFree, Quiet
  <2>4. CASE UNCHANGED vars
    BY <2>2, <2>4 DEF vars, LockFree, Quiet
  <2> QED BY <2>1, <2>3, <2>4
<1>3. CASE LoadTurn
  <2>1. /\ proc' = proc /\ proc.at = "loading" /\ shuttingDown' = shuttingDown /\ ~LockFree
        /\ loop' = Idle \/ loop' = [loop EXCEPT !.rest = Tail(@)]
    BY <1>3 DEF LoadTurn, LoopStep, cvars
  <2> QED BY <1>0, <2>1 DEF Quiet, LockFree
<1>4. CASE Listen
  <2>1. UNCHANGED <<loop, shuttingDown>> /\ LockFree /\ proc' = At("accept")
    BY <1>4, Zenon DEF Listen, SetEpoch, vars
  <2> QED BY <1>0, <2>1 DEF Quiet, ProcPoint, LockFree
<1>5. CASE Down
  <2>1. loop' = Idle /\ history' = <<>> /\ ~shuttingDown'
    BY <1>5 DEF Down, Fresh, ClearBooks
  <2> QED BY <1>0, <2>1 DEF Quiet, LockFree
<1>6. ASSUME AfterSave, proc.at \in {"save", "rename"} PROVE Quiet'
  <2>1. CASE proc' = [proc EXCEPT !.at = "reply"] /\ UNCHANGED <<shuttingDown, loop, books>>
    BY <1>0, <1>1, <1>6, <2>1 DEF Quiet, Process, books
  <2> QED BY <1>5, <1>6, <2>1 DEF AfterSave
<1>7. CASE HandleAppend
  <2>1. LockFree /\ loop' = loop /\ shuttingDown' = shuttingDown
    BY <1>7, Zenon DEF HandleAppend, AppendEntry
  <2>2. proc' = [At("save") EXCEPT !.then = "answer"] \/ Reply(reply')
    BY <1>7, Zenon DEF HandleAppend
  <2>3. proc'.at \in {"save", "reply"}
    BY <2>2 DEF Reply, At
  <2> QED BY <2>1, <2>3 DEF Quiet, LockFree
<1>8. CASE \/ Accept \/ HandleRegister \/ HandleQuery \/ HandleUnknown \/ HandleShutdown
           \/ Disconnect \/ AcceptFails \/ SaveRemoves \/ WriteStatus
  <2>1. UNCHANGED <<history, loop, shuttingDown>>
    BY <1>8, Zenon DEF Accept, HandleRegister, RegisterWorker, HandleQuery, HandleUnknown,
       HandleShutdown, Disconnect, UnregisterWorker, AcceptFails, SaveRemoves, SaveToString,
       WriteStatus, vars, books
  <2>2. proc.at \in {"accept", "read", "save", "reply"}
    BY <1>8, Zenon DEF Accept, HandleRegister, HandleQuery, HandleUnknown, HandleShutdown, MalformedBody,
       Serving, Disconnect, ReadFails, AcceptFails, SaveRemoves, WriteStatus
  <2>3. proc'.at # "down"
    BY <1>0, <1>8 DEF Accept, HandleRegister, HandleQuery, HandleUnknown, HandleShutdown,
       Disconnect, HangUp, AcceptFails, SaveRemoves, WriteStatus, Reply, At, Process
  <2>4. LockFree
    BY <2>2 DEF Quiet
  <2> QED BY <1>1, <2>1, <2>3, <2>4
<1>9. CASE \/ UNCHANGED allVars
           \/ \E c \in Clients : Connect(c) \/ Close(c) \/ \E m \in Messages : Send(c, m)
  <2>1. UNCHANGED <<history, loop, shuttingDown, proc>>
    BY <1>9, Zenon DEF Connect, Close, Send, cvars, allVars, vars
  <2> QED BY <1>1, <2>1
<1> QED BY <1>2, <1>3, <1>4, <1>5, <1>6, <1>7, <1>8, <1>9, CoordSteps
        DEF SaveRenames, SaveFails, Kill

\* Readable entries: none, one more, one less.
LEMMA ReadableParts ==
  ASSUME NEW s \in Seq(Entry), Readable(s)
  PROVE  /\ Readable(<<>>) /\ (s # <<>> => Readable(Tail(s)))
         /\ \A e \in Entry : decode_entry(e) => Readable(Append(s, e))
         /\ s # <<>> => decode_entry(Head(s)) /\ Head(s) \in Entry
<1>1. Readable(<<>>)
  BY DEF Readable
<1>2. ASSUME s # <<>> PROVE Readable(Tail(s)) /\ decode_entry(Head(s)) /\ Head(s) \in Entry
  <2>1. /\ Head(s) = s[1] /\ 1 \in DOMAIN s /\ Head(s) \in Entry
        /\ \A i \in DOMAIN Tail(s) : i + 1 \in DOMAIN s /\ Tail(s)[i] = s[i + 1]
    BY <1>2
  <2> QED BY <2>1 DEF Readable
<1>3. ASSUME NEW e \in Entry, decode_entry(e) PROVE Readable(Append(s, e))
  <2>1. \A i \in DOMAIN Append(s, e) :
          Append(s, e)[i] = e \/ (i \in DOMAIN s /\ Append(s, e)[i] = s[i])
    OBVIOUS
  <2> QED BY <1>3, <2>1 DEF Readable
<1> QED BY <1>1, <1>2, <1>3

\* An entry is committed at the end of the history, or the history stays.
LEMMA AppendMoves ==
  ASSUME NEW e, append_locked(e)
  PROVE  \/ history' = history
         \/ history' = Append(history, e) /\ ~Committed(e.id)
<1>1. CASE Commits(e)
  <2>1. history' = Append(history, e) /\ Verdict(e) = "OK"
    BY <1>1 DEF Commits
  <2>2. ~Committed(e.id)
    BY <2>1 DEF Verdict
  <2> QED BY <2>1, <2>2
<1>2. CASE CommitsNothing
  BY <1>2 DEF CommitsNothing
<1> QED BY <1>1, <1>2, AppendCommits

\* The history and what is still to replay.
LEMMA ReadableLedger ==
  ASSUME CoordInv, FileReadable, [CNext]_allVars
  PROVE  Readable(history)' /\ Readable(loop.rest)'
<1>0. /\ Readable(history) /\ Readable(loop.rest) /\ Readable(<<>>) /\ Idle.rest = <<>>
      /\ history \in Seq(Entry) /\ loop \in [kind: LoopKind, rest: Seq(Entry)]
      /\ LoopBusy /\ NetTypes /\ Served
  BY DEF CoordInv, FileReadable, BookState, BookTypes, ControlState, Readable, Idle
<1>1. CASE UNCHANGED <<history, loop>>
  BY <1>0, <1>1 DEF Readable
<1>2. ASSUME NEW s \in Starts, Start(s) PROVE Readable(history)' /\ Readable(loop.rest)'
  <2>1. UNCHANGED vars \/ \E r \in file : LoadFromString(r)
    BY <1>2, Zenon DEF Start
  <2>2. ASSUME NEW r \in file, LoadFromString(r)
        PROVE  Readable(history') /\ Readable(loop'.rest)
    <3>1. /\ history' = <<>> /\ Decodes(r)
          /\ loop' = Idle \/ loop' = [kind |-> "load", rest |-> r.history]
      BY <2>2 DEF LoadFromString, ClearBooks, StartLoop
    <3> QED BY <1>0, <3>1 DEF Decodes, Readable
  <2> QED BY <1>1, <2>1, <2>2, Zenon DEF vars, Readable
<1>3. CASE LoadTurn
  <2> DEFINE e == Head(loop.rest)
  <2>1. /\ append_locked(e) /\ loop.rest # <<>>
        /\ loop' = Idle \/ loop' = [loop EXCEPT !.rest = Tail(@)]
    BY <1>0, <1>3 DEF LoadTurn, LoopStep, LockFree, LoopBusy
  <2>2. e \in Entry /\ decode_entry(e) /\ Readable(Tail(loop.rest))
    BY <1>0, <2>1, ReadableParts
  <2>3. Readable(loop'.rest)
    BY <1>0, <2>1, <2>2
  <2>4. Readable(history')
    <3> HIDE DEF e
    <3> QED BY <1>0, <2>1, <2>2, AppendMoves, ReadableParts
  <2> QED BY <2>3, <2>4, Zenon DEF Readable
<1>4. CASE HandleAppend
  <2> DEFINE e == Asked(serving).entry
  <2>1. append_locked(e) /\ decode_entry(e) /\ loop' = loop
    BY <1>4, Zenon DEF HandleAppend, AppendEntry
  <2>2. Asked(serving) \in Message
    BY <1>0, <1>4, RequestType DEF HandleAppend, Serving
  <2>3. e \in Entry
    BY <2>2 DEF Message
  <2> HIDE DEF e
  <2>4. Readable(history') /\ Readable(loop'.rest)
    BY <1>0, <2>1, <2>3, AppendMoves, ReadableParts
  <2> QED BY <2>4, Zenon DEF Readable
<1>5. CASE Down
  <2>1. history' = <<>> /\ loop'.rest = <<>>
    BY <1>0, <1>5 DEF Down, Fresh, ClearBooks
  <2> QED BY <2>1 DEF Readable
<1>6. ASSUME AfterSave PROVE Readable(history)' /\ Readable(loop.rest)'
  BY <1>1, <1>5, <1>6 DEF AfterSave, books
<1>7. CASE \/ Listen \/ Accept \/ HandleRegister \/ HandleQuery \/ HandleUnknown \/ HandleShutdown
           \/ Disconnect \/ SaveRemoves \/ WriteStatus \/ AcceptFails \/ UNCHANGED allVars
           \/ \E c \in Clients : Connect(c) \/ Close(c) \/ \E m \in Messages : Send(c, m)
  <2>1. UNCHANGED <<history, loop>>
    BY <1>7, Zenon DEF Listen, SetEpoch, Accept, HandleRegister, RegisterWorker, HandleQuery,
       HandleUnknown, HandleShutdown, Disconnect, UnregisterWorker, SaveRemoves, SaveToString,
       WriteStatus, AcceptFails, Connect, Close, Send, allVars, vars, books
  <2> QED BY <1>1, <2>1
<1> QED BY <1>2, <1>3, <1>4, <1>5, <1>6, <1>7, CoordSteps DEF SaveRenames, SaveFails, Kill

\* How the file changes: not at all, by its removal, or by the rename.
LEMMA FileMoves ==
  ASSUME CoordInv, [CNext]_allVars
  PROVE  \/ file' = file
         \/ SaveRemoves /\ file' = {}
         \/ SaveRenames /\ file' = saved /\ intact' = intact /\ saved # {}
            /\ \A r \in saved : r.history = history
<1>1. CASE SaveRemoves
  BY <1>1 DEF SaveRemoves
<1>2. CASE SaveRenames
  <2>1. (file' = saved /\ intact' = intact) \/ file' = file
    BY <1>2 DEF SaveRenames
  <2>2. saved # {} /\ \A r \in saved : r.history = history
    BY <1>2 DEF SaveRenames, CoordInv, Written
  <2> QED BY <1>2, <2>1, <2>2
<1>3. CASE SaveFails \/ Kill
  BY <1>3 DEF SaveFails, Kill
<1>4. CASE \/ LoadTurn \/ Listen \/ Accept \/ HandleRegister \/ HandleAppend \/ HandleQuery
           \/ HandleUnknown \/ HandleShutdown \/ Disconnect \/ WriteStatus \/ AcceptFails
           \/ UNCHANGED allVars \/ \E s \in Starts : Start(s)
           \/ \E c \in Clients : Connect(c) \/ Close(c) \/ \E m \in Messages : Send(c, m)
  BY <1>4, Zenon DEF LoadTurn, Listen, Accept, HandleRegister, HandleAppend, HandleQuery,
     HandleUnknown, HandleShutdown, Disconnect, HangUp, WriteStatus, AcceptFails, Start, Connect,
     Close, Send, cvars, allVars
<1> QED BY <1>1, <1>2, <1>3, <1>4, CoordSteps

\* Every record that gets into the file can be decoded.
LEMMA FileReadableStep ==
  ASSUME CoordInv, FileReadable, [CNext]_allVars
  PROVE  FileReadable'
<1>1. CASE file' = file
  <2>1. FileLog' = FileLog
    BY <1>1 DEF FileLog
  <2> QED BY <1>1, <2>1, ReadableLedger DEF FileReadable, Decodes
<1>2. CASE file' = {}
  BY <1>2, ReadableLedger DEF FileReadable
<1>3. CASE file' = saved /\ saved # {} /\ \A r \in saved : r.history = history
  <2>1. FileLog' = history
    BY <1>3, FileLogIsPrime
  <2>2. \A r \in file' : Decodes(r) /\ r.history = FileLog'
    BY <1>3, <2>1 DEF FileReadable, Readable, Decodes
  <2> QED BY <2>2, ReadableLedger DEF FileReadable, Decodes
<1> QED BY <1>1, <1>2, <1>3, FileMoves

\* An answer other than OK leaves the history as it was.
LEMMA RefusedAppend ==
  ASSUME NEW e, append_locked(e), reply' # "OK"
  PROVE  history' = history
<1>1. CASE Refuse(e)
  BY <1>1 DEF Refuse, books
<1>2. CASE Post(e)
  <2>1. PICK outcome \in apply_attribution(e) :
          /\ Answer(IF outcome.ok THEN "OK" ELSE "OVERFLOW")
          /\ history' = IF outcome.ok THEN Append(history, e) ELSE history
    BY <1>2, Zenon DEF Post
  <2> QED BY <2>1 DEF Answer
<1>3. CASE Revise(e)
  <2> DEFINE ok == apply_reclassify_locked(e).ok
  <2>1. /\ Answer(IF ok THEN "OK" ELSE "RECONCILIATION_FAILURE")
        /\ history' = IF ok THEN Append(history, e) ELSE history
    BY <1>3, Zenon DEF Revise
  <2> HIDE DEF ok
  <2> QED BY <2>1 DEF Answer
<1> QED BY <1>1, <1>2, <1>3 DEF append_locked

\* Entries and their ids: nothing more, one more, the beginning of a log.
LEMMA LogParts ==
  ASSUME NEW s \in Seq(Entry)
  PROVE  /\ s \o <<>> = s /\ <<>> \o s = s /\ Beginning(s, s)
         /\ \A e \in Entry : Beginning(s, Append(s, e))
         /\ \A p \in Seq(Entry) : Beginning(p, s) => Durable!Ids(p) \subseteq Durable!Ids(s)
<1>1. s \o <<>> = s /\ <<>> \o s = s /\ Beginning(s, s)
  BY DEF Beginning
<1>2. ASSUME NEW e \in Entry PROVE Beginning(s, Append(s, e))
  <2> DEFINE g == Append(s, e)
             p == SubSeq(g, 1, Len(s))
  <2>1. /\ Len(s) \in Nat /\ g \in Seq(Entry) /\ Len(g) = Len(s) + 1
        /\ \A i \in 1..Len(s) : g[i] = s[i]
    OBVIOUS
  <2> HIDE DEF g
  <2>2. /\ p \in Seq(Entry) /\ Len(p) = Len(s) /\ \A i \in 1..Len(s) : p[i] = g[i]
    BY <2>1
  <2> HIDE DEF p
  <2>3. p = s
    <3>1. DOMAIN p = DOMAIN s /\ \A i \in DOMAIN s : p[i] = s[i]
      BY <2>1, <2>2
    <3> QED BY <2>2, <3>1
  <2> QED BY <2>1, <2>3 DEF Beginning, g, p
<1>3. ASSUME NEW p \in Seq(Entry), Beginning(p, s)
      PROVE  Durable!Ids(p) \subseteq Durable!Ids(s)
  <2>1. Len(p) \in Nat /\ Len(s) \in Nat /\ Len(p) <= Len(s) /\ p = SubSeq(s, 1, Len(p))
    BY <1>3 DEF Beginning
  <2>2. \A i \in DOMAIN p : i \in DOMAIN s /\ p[i] = s[i]
    <3>1. \A i \in 1..Len(p) : i \in 1..Len(s) /\ SubSeq(s, 1, Len(p))[i] = s[i]
      BY <2>1
    <3> QED BY <2>1, <3>1
  <2> QED BY <2>2 DEF Durable!Ids
<1> QED BY <1>1, <1>2, <1>3

\* Nothing more is promised of a file that has failed.
LEMMA NotIntact ==
  ASSUME acked' = acked, ~intact'
  PROVE  InStep' /\ DurableStep
BY DEF InStep, DurableStep, Durable!Lose

\* A step that the log does not see.
LEMMA LogSame ==
  ASSUME TheLog' = TheLog, acked' = acked, intact' = intact
  PROVE  DurableStep
BY DEF DurableStep

\* Once a file has failed it counts as failed for good.
LEMMA IntactMoves ==
  ASSUME CoordInv, [CNext]_allVars
  PROVE  intact' => intact
<1>0. intact \in BOOLEAN
  BY DEF CoordInv, ProcTypes
<1>1. ASSUME NEW s \in Starts, Start(s) PROVE intact' => intact
  BY <1>0, <1>1 DEF Start
<1>2. CASE SaveRenames \/ SaveFails \/ Kill
  BY <1>0, <1>2 DEF SaveRenames, SaveFails, Kill
<1>3. CASE \/ LoadTurn \/ Listen \/ Accept \/ HandleRegister \/ HandleAppend \/ HandleQuery
           \/ HandleUnknown \/ HandleShutdown \/ Disconnect \/ SaveRemoves \/ WriteStatus
           \/ AcceptFails \/ UNCHANGED allVars
           \/ \E c \in Clients : Connect(c) \/ Close(c) \/ \E m \in Messages : Send(c, m)
  <2>1. intact' = intact
    BY <1>3, Zenon DEF LoadTurn, Listen, Accept, HandleRegister, HandleAppend, HandleQuery,
       HandleUnknown, HandleShutdown, Disconnect, HangUp, SaveRemoves, WriteStatus, AcceptFails,
       Connect, Close, Send, ghosts, cvars, allVars
  <2> QED BY <2>1
<1> QED BY <1>1, <1>2, <1>3, CoordSteps

\* Between the requests and on the way to an answer that acknowledges nothing new.
LEMMA UnseenSteps ==
  ASSUME CoordInv, InStep, UNCHANGED <<history, loop, file, acked, intact>>,
         proc.at \notin {"down", "rename"}, ~AnswerDue,
         proc'.at \notin {"down", "rename"}, ~AnswerDue'
  PROVE  InStep' /\ DurableStep
<1>1. FileLog' = FileLog
  BY DEF FileLog
<1>2. TheLog' = TheLog
  BY DEF TheLog
<1>3. InStep'
  BY <1>1 DEF InStep
<1> QED BY <1>2, <1>3, LogSame

\* A start reads the log back.
LEMMA StartReads ==
  ASSUME DurableInv, NEW s \in Starts, Start(s)
  PROVE  InStep' /\ DurableStep
<1>0. /\ FileLog \in Seq(Entry) /\ history = <<>> /\ loop = Idle /\ proc.at = "down"
      /\ acked' = acked /\ file' = file /\ intact \in BOOLEAN /\ Idle.rest = <<>>
  BY FileLogType DEF DurableInv, CoordInv, ProcTypes, Quiet, Start, Idle
<1>1. CASE ~intact'
  BY <1>0, <1>1, NotIntact
<1>2. CASE intact'
  <2>1. intact /\ s.load /\ intact' = intact
    BY <1>0, <1>2, StartAssumption DEF Start
  <2>2. {r \in file : s.load /\ Decodes(r)} = file
    BY <2>1 DEF DurableInv, FileReadable
  <2>3. IF file = {} THEN UNCHANGED vars ELSE \E r \in file : LoadFromString(r)
    BY <2>2 DEF Start
  <2>4. FileLog' = FileLog
    BY <1>0 DEF FileLog
  <2>5. history' \o loop'.rest = FileLog
    <3>1. CASE file = {}
      <4>1. history' = <<>> /\ loop'.rest = <<>> /\ FileLog = <<>>
        BY <1>0, <2>3, <3>1 DEF vars, FileLog
      <4> QED BY <4>1
    <3>2. CASE file # {}
      <4>1. PICK r \in file : LoadFromString(r)
        BY <2>3, <3>2
      <4>2. r.history = FileLog
        BY DEF DurableInv, FileReadable
      <4>3. history' = <<>> /\ loop'.rest = FileLog
        BY <1>0, <4>1, <4>2 DEF LoadFromString, ClearBooks, StartLoop
      <4> QED BY <1>0, <4>3, LogParts
    <3> QED BY <3>1, <3>2
  <2>6. proc'.at = "loading"
    BY DEF Start, At
  <2>7. TheLog' = TheLog
    BY <1>0, <2>5, <2>6 DEF TheLog
  <2>8. InStep'
    BY <1>0, <2>1, <2>4, <2>5, <2>6 DEF DurableInv, InStep, AnswerDue
  <2> QED BY <1>0, <2>1, <2>7, <2>8, LogSame
<1> QED BY <1>1, <1>2

\* Taking the next entry to the end of the history keeps the log.
LEMMA TurnKeepsLog ==
  ASSUME NEW h \in Seq(Entry), NEW r \in Seq(Entry), r # <<>>
  PROVE  Append(h, Head(r)) \o (IF Len(r) > 1 THEN Tail(r) ELSE <<>>) = h \o r
<1>1. Append(h, Head(r)) \in Seq(Entry) /\ Len(r) \in Nat /\ Len(r) >= 1
  OBVIOUS
<1>2. Append(h, Head(r)) \o <<>> = Append(h, Head(r))
  BY <1>1, LogParts
<1>3. /\ Append(h, Head(r)) \o Tail(r) = h \o r
      /\ Len(r) = 1 => Append(h, Head(r)) = h \o r
  BY HeadMoves
<1>4. CASE Len(r) > 1
  BY <1>3, <1>4
<1>5. CASE ~(Len(r) > 1)
  <2> DEFINE n == Len(r)
  <2>1. n \in Nat /\ n >= 1 /\ ~(n > 1)
    BY <1>1, <1>5
  <2> HIDE DEF n
  <2>2. n = 1
    BY <2>1
  <2> QED BY <1>2, <1>3, <1>5, <2>2 DEF n
<1> QED BY <1>4, <1>5

\* A turn of the replay that is accepted leaves the log as it is.
LEMMA ReplayTurn ==
  ASSUME DurableInv, LoadTurn, reply' = "OK"
  PROVE  InStep' /\ DurableStep
<1> DEFINE r == loop.rest
<1>1. /\ history \in Seq(Entry) /\ r \in Seq(Entry) /\ r # <<>> /\ append_locked(Head(r))
      /\ loop \in [kind: LoopKind, rest: Seq(Entry)] /\ Idle.rest = <<>>
      /\ loop' = IF Len(r) > 1 THEN [loop EXCEPT !.rest = Tail(@)] ELSE Idle
  BY FileLogType DEF DurableInv, CoordInv, ControlState, LoadTurn, LoopStep, LockFree, LoopBusy,
     Idle
<1>2. loop'.rest = IF Len(r) > 1 THEN Tail(r) ELSE <<>>
  BY <1>1
<1>3. history' = Append(history, Head(r))
  BY <1>1, OkCommits
<1> HIDE DEF r
<1>4. history' \o loop'.rest = history \o r
  BY <1>1, <1>2, <1>3, TurnKeepsLog
<1>5. proc' = proc /\ proc.at = "loading" /\ UNCHANGED <<file, acked, intact>>
  BY DEF LoadTurn, cvars
<1>6. FileLog' = FileLog /\ TheLog' = TheLog
  BY <1>4, <1>5 DEF FileLog, TheLog, r
<1>7. InStep'
  BY <1>4, <1>5, <1>6 DEF DurableInv, InStep, AnswerDue, r
<1> QED BY <1>5, <1>6, <1>7, LogSame

\* An append puts its entry at the end of the log, ahead of the file, or nothing
\* anywhere.
LEMMA AppendCommitsLog ==
  ASSUME DurableInv, HandleAppend
  PROVE  InStep' /\ DurableStep
<1> DEFINE e == Asked(serving).entry
<1>1. /\ history \in Seq(Entry) /\ FileLog \in Seq(Entry) /\ loop.rest = <<>> /\ proc.at = "read"
      /\ append_locked(e) /\ loop' = loop /\ UNCHANGED <<file, acked, intact>>
  BY FileLogType DEF DurableInv, Quiet, Idle, HandleAppend, AppendEntry, Serving, ghosts
<1>2. e \in Entry
  <2>1. Asked(serving) \in Message
    BY <1>1, RequestType DEF DurableInv, CoordInv
  <2> QED BY <2>1 DEF Message
<1>3. /\ reply' = "OK" => proc' = [At("save") EXCEPT !.then = "answer"]
      /\ reply' # "OK" => Reply(reply')
  BY Zenon DEF HandleAppend
<1>4. history \o <<>> = history /\ FileLog' = FileLog
  BY <1>1, LogParts DEF FileLog
<1>5. intact => acked \subseteq Durable!Ids(FileLog) /\ FileLog = history
  BY <1>1, <1>4 DEF DurableInv, InStep, AnswerDue
<1> HIDE DEF e
<1>6. CASE reply' = "OK"
  <2>1. history' = Append(history, e) /\ ~Committed(e.id)
    <3>1. history' = Append(history, e)
      BY <1>1, <1>6, OkCommits
    <3>2. Len(history') # Len(history)
      BY <1>1, <1>2, <3>1
    <3> QED BY <1>1, <3>1, <3>2, AppendMoves
  <2>2. proc'.at = "save" /\ proc'.then = "answer"
    BY <1>3, <1>6 DEF At
  <2>3. /\ Len(history') = Len(history) + 1 /\ SubSeq(history', 1, Len(history)) = history
        /\ history'[Len(history')] = e /\ history' \in Seq(Entry) /\ Beginning(history, history')
    <3>1. Beginning(history, history') /\ history' \in Seq(Entry)
      BY <1>1, <1>2, <2>1, LogParts
    <3> QED BY <1>1, <1>2, <2>1, <3>1 DEF Beginning
  <2>4. e.id \notin Durable!Ids(history)
    BY <2>1 DEF Committed, Durable!Ids
  <2>5. TheLog = history /\ TheLog' = history'
    <3>1. history' \o <<>> = history'
      BY <2>3, LogParts
    <3> QED BY <1>1, <1>4, <2>2, <3>1 DEF TheLog
  <2>6. Durable!Commit
    <3>1. /\ Len(TheLog') = Len(TheLog) + 1 /\ SubSeq(TheLog', 1, Len(TheLog)) = TheLog
          /\ TheLog'[Len(TheLog')].id \notin Durable!Ids(TheLog)
      BY <2>3, <2>4, <2>5
    <3> QED BY <1>1, <3>1, Zenon DEF Durable!Commit, TheLog
  <2>7. InStep'
    BY <1>1, <1>4, <1>5, <2>2, <2>3 DEF InStep, AnswerDue
  <2> QED BY <2>6, <2>7 DEF DurableStep
<1>7. CASE reply' # "OK"
  <2>1. history' = history
    BY <1>1, <1>7, RefusedAppend
  <2>2. proc'.at = "reply"
    BY <1>3, <1>7 DEF Reply, At
  <2> QED BY <1>1, <2>1, <2>2, UnseenSteps DEF DurableInv, AnswerDue
<1> QED BY <1>6, <1>7

\* Writing the record takes nothing away yet.
LEMMA RemoveKeepsLog ==
  ASSUME DurableInv, SaveRemoves
  PROVE  InStep' /\ DurableStep
<1>1. /\ history \in Seq(Entry) /\ FileLog \in Seq(Entry) /\ loop.rest = <<>> /\ proc.at = "save"
      /\ UNCHANGED <<history, loop, acked, intact>> /\ proc'.at = "rename"
  BY FileLogType DEF DurableInv, Quiet, Idle, SaveRemoves, SaveToString, books, ghosts, CoordInv,
     ProcTypes, Process
<1>2. history \o <<>> = history
  BY <1>1, LogParts
<1>3. intact => acked \subseteq Durable!Ids(history)
  <2>1. intact => acked \subseteq Durable!Ids(FileLog) /\ Beginning(FileLog, history)
    BY <1>1, <1>2, LogParts DEF DurableInv, InStep, AnswerDue
  <2> QED BY <1>1, <2>1, LogParts
<1>4. InStep'
  BY <1>1, <1>3 DEF InStep, AnswerDue
<1>5. TheLog' = TheLog
  BY <1>1 DEF TheLog
<1> QED BY <1>1, <1>4, <1>5, LogSame

\* After the rename the file has the log, and a process that ends leaves it.
LEMMA RenameKeepsLog ==
  ASSUME DurableInv, SaveRenames
  PROVE  InStep' /\ DurableStep
<1>1. /\ history \in Seq(Entry) /\ loop.rest = <<>> /\ proc.at = "rename" /\ AfterSave
      /\ proc \in Process
  BY FileLogType DEF DurableInv, Quiet, Idle, SaveRenames, CoordInv, ProcTypes
<1>2. acked' = acked
  BY <1>1 DEF AfterSave, Down
<1>3. CASE ~intact'
  BY <1>2, <1>3, NotIntact
<1>4. CASE intact'
  <2>1. file' = saved /\ intact' = intact
    BY <1>4 DEF SaveRenames
  <2>2. saved # {} /\ \A r \in saved : r.history = history
    BY <1>1 DEF DurableInv, CoordInv, Written
  <2>3. FileLog' = history
    BY <2>1, <2>2, FileLogIsPrime
  <2>4. acked \subseteq Durable!Ids(history) /\ history \o <<>> = history
    BY <1>1, <1>4, <2>1, LogParts DEF DurableInv, InStep
  <2>5. TheLog = history
    BY <1>1, <2>4 DEF TheLog
  <2>6. \/ proc'.at = "down"
        \/ proc'.at = "reply" /\ history' = history /\ loop' = loop
    BY <1>1 DEF AfterSave, Down, At, books, Process
  <2>7. TheLog' = history
    BY <1>1, <2>3, <2>4, <2>6 DEF TheLog
  <2>8. InStep'
    BY <1>1, <1>2, <2>3, <2>4, <2>6 DEF InStep, AnswerDue
  <2> QED BY <1>2, <2>1, <2>5, <2>7, <2>8, LogSame
<1> QED BY <1>3, <1>4

\* An answer acknowledges what is in the log and in the file.
LEMMA StatusAcknowledges ==
  ASSUME DurableInv, WriteStatus, [CNext]_allVars
  PROVE  InStep' /\ DurableStep
<1>1. /\ history \in Seq(Entry) /\ loop.rest = <<>> /\ proc.at = "reply"
      /\ UNCHANGED <<history, loop, file, intact>>
  BY FileLogType DEF DurableInv, Quiet, Idle, WriteStatus, vars
<1>2. proc'.at = "read" \/ (proc'.at = "save" /\ proc'.then = "exit")
  BY DEF WriteStatus, At
<1>3. acked' = acked \/ \E id : Committed(id) /\ acked' = acked \cup {id}
  BY CoordAcks DEF DurableInv
<1>4. history \o <<>> = history /\ FileLog' = FileLog
  BY <1>1, LogParts DEF FileLog
<1>5. TheLog = history /\ TheLog' = history
  BY <1>1, <1>2, <1>4 DEF TheLog
<1>6. acked \subseteq acked' /\ acked' \subseteq Durable!Ids(history) \cup acked
  BY <1>3 DEF Committed, Durable!Ids
<1>7. Durable!Acknowledge
  <2>1. acked' \subseteq Durable!Ids(TheLog) \cup acked /\ TheLog' = TheLog
    BY <1>5, <1>6
  <2> QED BY <1>1, <1>6, <2>1, Zenon DEF Durable!Acknowledge, TheLog
<1>8. InStep'
  <2>1. intact => FileLog = history /\ acked \subseteq Durable!Ids(history)
    BY <1>1, <1>4 DEF DurableInv, InStep, AnswerDue
  <2>2. intact => acked' \subseteq Durable!Ids(history)
    BY <1>6, <2>1
  <2> QED BY <1>1, <1>2, <1>4, <2>1, <2>2 DEF InStep, AnswerDue
<1> QED BY <1>7, <1>8 DEF DurableStep

\* A kill leaves the log of the file, which has every acknowledged entry.
LEMMA KillKeepsAcknowledged ==
  ASSUME DurableInv, Kill
  PROVE  InStep' /\ DurableStep
<1>1. /\ proc.at # "down" /\ proc'.at = "down" /\ acked' = acked /\ file' = file
      /\ FileLog' = FileLog /\ FileLog \in Seq(Entry) /\ history \in Seq(Entry)
      /\ proc.at # "loading" => loop.rest = <<>>
  BY FaultAssumption, FileLogType DEF Kill, Down, At, FileLog, DurableInv, Quiet, Idle
<1>2. CASE ~intact'
  BY <1>1, <1>2, NotIntact
<1>3. CASE intact'
  <2>1. intact /\ proc.at # "rename" /\ intact \in BOOLEAN /\ intact'
    BY <1>3 DEF Kill, DurableInv, CoordInv, ProcTypes
  <2>2. acked \subseteq Durable!Ids(FileLog)
    BY <2>1 DEF DurableInv, InStep
  <2>3. TheLog = history \o loop.rest /\ TheLog' = FileLog
    BY <1>1 DEF TheLog
  <2>4. FileLog = SubSeq(TheLog, 1, Len(FileLog))
    <3>1. CASE AnswerDue
      <4>1. TheLog = history
        BY <1>1, <2>3, <3>1, LogParts DEF AnswerDue
      <4> QED BY <2>1, <3>1, <4>1 DEF DurableInv, InStep, Beginning
    <3>2. CASE ~AnswerDue
      <4>1. TheLog = FileLog
        BY <1>1, <2>1, <2>3, <3>2 DEF DurableInv, InStep
      <4> QED BY <1>1, <4>1, LogParts DEF Beginning
    <3> QED BY <3>1, <3>2
  <2>5. Durable!Lose
    <3>1. TheLog' = SubSeq(TheLog, 1, Len(TheLog')) /\ acked \subseteq Durable!Ids(TheLog')
      BY <2>2, <2>3, <2>4
    <3> QED BY <1>1, <2>1, <3>1, Zenon DEF Durable!Lose, TheLog
  <2>6. InStep'
    BY <1>1, <2>2 DEF InStep, AnswerDue
  <2> QED BY <2>5, <2>6 DEF DurableStep
<1> QED BY <1>2, <1>3

\* Every step of the coordinator is one of the log's, if the replay of a start
\* accepts what it reads.
LEMMA DurableSteps ==
  ASSUME DurableInv, [CNext]_allVars, [Replaying /\ ~shuttingDown => reply' = "OK"]_vars
  PROVE  InStep' /\ DurableStep
<1>0. CoordInv /\ InStep /\ Quiet /\ proc \in Process
  BY DEF DurableInv, CoordInv, ProcTypes
<1>1. CASE LoadTurn
  <2>1. CASE UNCHANGED vars
    <3>1. UNCHANGED <<history, loop, file, acked, intact, proc>> /\ proc.at = "loading"
      BY <1>1, <2>1 DEF LoadTurn, vars, cvars
    <3> QED BY <1>0, <3>1, UnseenSteps DEF AnswerDue
  <2>2. CASE ~UNCHANGED vars
    <3>1. Replaying /\ ~shuttingDown
      BY <1>0, <1>1 DEF LoadTurn, LoopStep, LockFree, Quiet, Replaying
    <3> QED BY <1>1, <2>2, <3>1, ReplayTurn
  <2> QED BY <2>1, <2>2
<1>2. CASE SaveFails
  <2>1. acked' = acked /\ ~intact'
    BY <1>2 DEF SaveFails, AfterSave, Down
  <2> QED BY <2>1, NotIntact
<1>3. CASE \/ Listen \/ Accept \/ HandleRegister \/ HandleQuery \/ HandleUnknown
           \/ HandleShutdown \/ Disconnect \/ AcceptFails
  <2>1. UNCHANGED <<history, loop, file, acked, intact>>
    BY <1>3, Zenon DEF Listen, SetEpoch, Accept, HandleRegister, RegisterWorker, HandleQuery,
       HandleUnknown, HandleShutdown, Disconnect, HangUp, UnregisterWorker, AcceptFails, ghosts,
       vars, books
  <2>2. proc.at \in {"loading", "accept", "read"}
    BY <1>3, Zenon DEF Listen, Accept, HandleRegister, HandleQuery, HandleUnknown, HandleShutdown,
       MalformedBody, Serving, Disconnect, ReadFails, AcceptFails
  <2>3. /\ proc'.at \in {"accept", "read", "reply", "save"}
        /\ proc'.then # "answer"
    BY <1>3 DEF Listen, Accept, HandleRegister, HandleQuery, HandleUnknown, HandleShutdown,
       Disconnect, HangUp, AcceptFails, Reply, At
  <2> QED BY <1>0, <2>1, <2>2, <2>3, UnseenSteps DEF AnswerDue
<1>4. CASE \/ UNCHANGED allVars
           \/ \E c \in Clients : Connect(c) \/ Close(c) \/ \E m \in Messages : Send(c, m)
  <2>1. UNCHANGED <<history, loop, file, acked, intact, proc>>
    BY <1>4, Zenon DEF Connect, Close, Send, ghosts, cvars, allVars, vars
  <2>2. FileLog' = FileLog
    BY <2>1 DEF FileLog
  <2>3. TheLog' = TheLog /\ InStep'
    BY <1>0, <2>1, <2>2 DEF TheLog, InStep, AnswerDue
  <2> QED BY <2>1, <2>3, LogSame
<1> QED BY <1>1, <1>2, <1>3, <1>4, CoordSteps, StartReads, AppendCommitsLog, RemoveKeepsLog,
        RenameKeepsLog, StatusAcknowledges, KillKeepsAcknowledged

\* The coordinator implements the log of DurableLog whenever the replay of its
\* starts accepts what was committed: with that, no kill, restart, lost answer or
\* repeated request loses or reorders an acknowledged entry, for any clients,
\* requests and command lines, unless the file itself has failed.
THEOREM DurableWhileReplaysAccepted == CSpec /\ ReplayAccepted => ImplementsDurableLog
<1>1. CInit => DurableInv /\ Durable!DurableInit
  <2> SUFFICES ASSUME CInit PROVE DurableInv /\ Durable!DurableInit
    OBVIOUS
  <2>1. /\ history = <<>> /\ loop = Idle /\ ~shuttingDown /\ file = {} /\ proc.at = "down"
        /\ acked = {} /\ intact = TRUE
    BY DEF CInit, Init, At
  <2>2. FileLog = <<>> /\ Idle.rest = <<>> /\ Idle.kind = "idle"
    BY <2>1 DEF FileLog, Idle
  <2>3. Quiet /\ FileReadable /\ InStep
    BY <2>1, <2>2 DEF Quiet, LockFree, FileReadable, Readable, InStep, AnswerDue
  <2>4. Durable!DurableInit
    BY <2>1, <2>2 DEF Durable!DurableInit
  <2> QED BY <2>3, <2>4, CoordInit DEF DurableInv
<1>2. ASSUME DurableInv, [CNext]_allVars, [Replaying /\ ~shuttingDown => reply' = "OK"]_vars
      PROVE  DurableInv' /\ DurableStep
  <2>1. CoordInv' /\ Quiet' /\ FileReadable'
    BY <1>2, CoordStep, QuietStep, FileReadableStep DEF DurableInv
  <2> QED BY <1>2, <2>1, DurableSteps DEF DurableInv
<1> QED BY <1>1, <1>2, PTL DEF CSpec, ReplayAccepted, ImplementsDurableLog, Durable!DurableSpec,
        DurableStep, TheLog

-----------------------------------------------------------------------------
(***************************************************************************)
(* The replay of a start.  What the ledger's proofs show of a record that  *)
(* was saved holds of the record in the file: it was committed by an       *)
(* earlier incarnation, so it can be replayed.                             *)
(***************************************************************************)

\* Hypothesis on the constants: Submissions names what the clients may append.
WireEntries == \A m \in Messages : m.kind \in AppendKind => m.entry \in Submissions

\* The inductive invariant: what was committed, is still to be replayed or is in
\* the file can be replayed, and in a replay the totals are exact.  A request
\* that is an append carries an entry the constants name.
WireKnown == \A c \in Clients : Asked(c).kind \in AppendKind => KnownPost(Asked(c).entry)
RestartInv ==
  /\ CoordInv /\ Quiet /\ FileReadable /\ WireKnown
  /\ BalancedInv
  /\ Replayable(history \o loop.rest)
  /\ \A r \in file : KnownSeq(r.history) /\ Replayable(r.history)
  /\ Replaying => Matches(accounts, history)

\* Clients send no other entries.
LEMMA WireStep ==
  ASSUME WireEntries, CoordInv, WireKnown, [CNext]_allVars
  PROVE  WireKnown'
<1>0. link \in [Clients -> Link] /\ NoLink.request.kind = "none" /\ NoMessage.kind = "none"
  BY NoMessageType DEF CoordInv, NetTypes, NoLink, NoMessage
<1>1. ASSUME NEW c \in Clients,
             \/ link'[c].request = link[c].request
             \/ link'[c].request.kind = "none"
             \/ link'[c].request \in Messages
      PROVE  link'[c].request.kind \in AppendKind => KnownPost(link'[c].request.entry)
  BY <1>1 DEF WireEntries, WireKnown, Asked, KnownPost, AppendKind
<1>2. ASSUME NEW c \in Clients
      PROVE  \/ link'[c].request = link[c].request
             \/ link'[c].request.kind = "none"
             \/ link'[c].request \in Messages
  <2>1. CASE link' = link
    BY <2>1
  <2>2. CASE Disconnect \/ WriteStatus
    BY <1>0, <2>2 DEF Disconnect, HangUp, WriteStatus, Link
  <2>3. CASE Down
    BY <1>0, <2>3 DEF Down
  <2>4. ASSUME NEW k \in Clients, Connect(k) \/ Close(k)
        PROVE  link'[c].request = link[c].request \/ link'[c].request.kind = "none"
    BY <1>0, <2>4 DEF Connect, Close, Link
  <2>5. ASSUME NEW k \in Clients, NEW m \in Messages, Send(k, m)
        PROVE  link'[c].request = link[c].request \/ link'[c].request \in Messages
    BY <1>0, <2>5 DEF Send, Link
  <2>6. CASE \/ LoadTurn \/ Listen \/ Accept \/ HandleRegister \/ HandleAppend \/ HandleQuery
             \/ HandleUnknown \/ HandleShutdown \/ SaveRemoves \/ AcceptFails
             \/ UNCHANGED allVars \/ \E s \in Starts : Start(s)
    <3>1. link' = link
      BY <2>6, Zenon DEF LoadTurn, Listen, Accept, HandleRegister, HandleAppend, HandleQuery,
         HandleUnknown, HandleShutdown, SaveRemoves, AcceptFails, Start, net, cvars, allVars
    <3> QED BY <2>1, <3>1
  <2>7. ASSUME AfterSave PROVE Down \/ link' = link
    BY <2>7 DEF AfterSave, net
  <2> QED BY <2>1, <2>2, <2>3, <2>4, <2>5, <2>6, <2>7, CoordSteps
          DEF SaveRenames, SaveFails, Kill
<1>3. \A c \in Clients : link'[c].request.kind \in AppendKind => KnownPost(link'[c].request.entry)
  BY <1>1, <1>2
<1> QED BY <1>3, Zenon DEF WireKnown, Asked, KnownPost

\* What append_locked is called with in the coordinator.
LEMMA CoordCalls ==
  ASSUME RestartInv, [CNext]_allVars
  PROVE  UNCHANGED books \/ ClearBooks \/ \E e \in Entry : KnownPost(e) /\ append_locked(e)
<1>1. ASSUME NEW s \in Starts, Start(s) PROVE UNCHANGED books \/ ClearBooks
  BY <1>1, Zenon DEF Start, LoadFromString, vars, books
<1>2. CASE LoadTurn
  <2> DEFINE r == loop.rest
  <2>1. r \in Seq(Entry) /\ r # <<>> /\ append_locked(Head(r)) /\ KnownSeq(r)
    BY <1>2 DEF LoadTurn, LoopStep, LockFree, RestartInv, CoordInv, ControlState, LoopBusy,
       BalancedInv, KnownPosts
  <2> HIDE DEF r
  <2>2. Head(r) \in Entry /\ 1 \in DOMAIN r /\ Head(r) = r[1]
    BY <2>1
  <2> QED BY <2>1, <2>2 DEF KnownSeq
<1>3. CASE HandleAppend
  <2>1. /\ Asked(serving) \in Message /\ serving \in Clients
        /\ Asked(serving).kind \in AppendKind /\ append_locked(Asked(serving).entry)
    BY <1>3, RequestType DEF HandleAppend, AppendEntry, Serving, RestartInv, CoordInv, AppendKind
  <2>2. Asked(serving).entry \in Entry /\ KnownPost(Asked(serving).entry)
    BY <2>1 DEF Message, RestartInv, WireKnown
  <2> QED BY <2>1, <2>2
<1>4. CASE Down
  BY <1>4 DEF Down, Fresh
<1>5. ASSUME AfterSave PROVE UNCHANGED books \/ ClearBooks
  BY <1>4, <1>5 DEF AfterSave, Down, Fresh
<1>6. CASE \/ Listen \/ Accept \/ HandleRegister \/ HandleQuery \/ HandleUnknown \/ HandleShutdown
           \/ Disconnect \/ SaveRemoves \/ WriteStatus \/ AcceptFails \/ UNCHANGED allVars
           \/ \E c \in Clients : Connect(c) \/ Close(c) \/ \E m \in Messages : Send(c, m)
  <2>1. UNCHANGED vars \/ UNCHANGED books
    BY <1>6, Zenon DEF Listen, SetEpoch, Accept, HandleRegister, RegisterWorker, HandleQuery,
       HandleUnknown, HandleShutdown, Disconnect, UnregisterWorker, SaveRemoves, SaveToString,
       WriteStatus, AcceptFails, Connect, Close, Send, allVars
  <2> QED BY <2>1 DEF vars, books
<1> QED BY <1>1, <1>2, <1>3, <1>4, <1>5, <1>6, CoordSteps DEF SaveRenames, SaveFails, Kill

\* What moves the history, the totals or the replay.
LEMMA CoordLoop ==
  ASSUME [CNext]_allVars
  PROVE  \/ UNCHANGED <<loop, history, accounts>>
         \/ LoadTurn \/ HandleAppend \/ Down \/ \E r \in file : LoadFromString(r)
<1>1. ASSUME NEW s \in Starts, Start(s)
      PROVE  UNCHANGED <<loop, history, accounts>> \/ \E r \in file : LoadFromString(r)
  BY <1>1, Zenon DEF Start, vars
<1>2. ASSUME AfterSave PROVE UNCHANGED <<loop, history, accounts>> \/ Down
  BY <1>2 DEF AfterSave, books
<1>3. CASE \/ Listen \/ Accept \/ HandleRegister \/ HandleQuery \/ HandleUnknown \/ HandleShutdown
           \/ Disconnect \/ SaveRemoves \/ WriteStatus \/ AcceptFails \/ UNCHANGED allVars
           \/ \E c \in Clients : Connect(c) \/ Close(c) \/ \E m \in Messages : Send(c, m)
  BY <1>3, Zenon DEF Listen, SetEpoch, Accept, HandleRegister, RegisterWorker, HandleQuery,
     HandleUnknown, HandleShutdown, Disconnect, UnregisterWorker, SaveRemoves, SaveToString,
     WriteStatus, AcceptFails, Connect, Close, Send, allVars, vars, books
<1> QED BY <1>1, <1>2, <1>3, CoordSteps DEF SaveRenames, SaveFails, Kill

\* The record that is being written is that of the ledger.
LEMMA CoordSaved ==
  ASSUME [CNext]_allVars
  PROVE  saved' = saved \/ saved' = {} \/ \A r \in saved' : r.history = history
<1>1. ASSUME NEW s \in Starts, Start(s) PROVE saved' = saved
  BY <1>1, Zenon DEF Start, LoadFromString, vars
<1>2. ASSUME AfterSave PROVE saved' = {}
  BY <1>2 DEF AfterSave, Down
<1>3. CASE SaveRemoves
  BY <1>3 DEF SaveRemoves, SaveToString
<1>4. CASE Kill
  BY <1>4 DEF Kill, Down
<1>5. CASE \/ LoadTurn \/ Listen \/ Accept \/ HandleRegister \/ HandleAppend \/ HandleQuery
           \/ HandleUnknown \/ HandleShutdown \/ Disconnect \/ WriteStatus \/ AcceptFails
           \/ UNCHANGED allVars
           \/ \E c \in Clients : Connect(c) \/ Close(c) \/ \E m \in Messages : Send(c, m)
  <2>1. saved' = saved
    BY <1>5, Zenon DEF LoadTurn, LoopStep, Listen, SetEpoch, Accept, HandleRegister,
       RegisterWorker, HandleAppend, AppendEntry, HandleQuery, HandleUnknown, HandleShutdown,
       Disconnect, UnregisterWorker, WriteStatus, AcceptFails, Connect, Close, Send, allVars,
       vars
  <2> QED BY <2>1
<1> QED BY <1>1, <1>2, <1>3, <1>4, <1>5, CoordSteps DEF SaveRenames, SaveFails

\* The entries in the ledger, in a replay and in a record are still known ones.
LEMMA RestartKnown ==
  ASSUME RestartInv, [CNext]_allVars
  PROVE  KnownPosts'
<1>0. /\ BookState /\ KnownSeq(history) /\ KnownSeq(loop.rest) /\ KnownSeq(<<>>)
      /\ \A s \in saved : KnownSeq(s.history)
      /\ \A r \in file : KnownSeq(r.history)
      /\ loop \in [kind: LoopKind, rest: Seq(Entry)] /\ LoopBusy /\ Idle.rest = <<>>
  BY DEF RestartInv, CoordInv, BalancedInv, KnownPosts, KnownSeq, ControlState, Idle
<1>1. KnownSeq(history)'
  <2>1. CASE UNCHANGED books
    BY <1>0, <2>1 DEF books, KnownSeq
  <2>2. CASE ClearBooks
    BY <2>2 DEF ClearBooks, KnownSeq
  <2>3. ASSUME NEW e \in Entry, KnownPost(e), append_locked(e) PROVE KnownSeq(history)'
    BY <1>0, <2>3, KnownAppend
  <2> QED BY <2>1, <2>2, <2>3, CoordCalls
<1>2. \A s \in saved' : KnownSeq(s.history)
  BY <1>0, CoordSaved
<1>3. KnownSeq(loop'.rest)
  <2>1. CASE loop' = loop
    BY <1>0, <2>1
  <2>2. CASE LoadTurn
    <3> DEFINE r == loop.rest
    <3>1. r \in Seq(Entry) /\ r # <<>> /\ KnownSeq(r)
          /\ (loop' = Idle \/ loop' = [loop EXCEPT !.rest = Tail(@)])
      BY <1>0, <2>2 DEF LoadTurn, LoopStep, LockFree, LoopBusy
    <3>2. loop'.rest \in {<<>>, Tail(r)}
      BY <1>0, <3>1
    <3> HIDE DEF r
    <3>3. DOMAIN Tail(r) = 1..(Len(r) - 1) /\ Len(r) \in Nat /\ DOMAIN r = 1..Len(r)
      BY <3>1
    <3>4. \A i \in 1..(Len(r) - 1) : Tail(r)[i] = r[i + 1]
      BY <3>1
    <3>5. KnownSeq(Tail(r))
      BY <3>1, <3>3, <3>4 DEF KnownSeq
    <3> QED BY <1>0, <3>2, <3>5
  <2>3. ASSUME NEW r \in file, LoadFromString(r) PROVE KnownSeq(loop'.rest)
    <3>1. loop' = Idle \/ loop' = [kind |-> "load", rest |-> r.history]
      BY <2>3 DEF LoadFromString, StartLoop
    <3> QED BY <1>0, <3>1
  <2>4. CASE HandleAppend
    BY <2>1, <2>4 DEF HandleAppend, AppendEntry
  <2>5. CASE Down
    BY <1>0, <2>5 DEF Down, Fresh
  <2> QED BY <2>1, <2>2, <2>3, <2>4, <2>5, CoordLoop
<1> QED BY <1>1, <1>2, <1>3, Zenon DEF KnownPosts, KnownSeq, KnownPost

\* The books stay balanced in every incarnation.
LEMMA RestartBalanced ==
  ASSUME RestartInv, [CNext]_allVars,
         [\A e \in Entry : Revise(e) => ~Revised(e.target)]_vars
  PROVE  BalancedInv'
<1>1. BookState /\ TablesMatch /\ HistoryPromises /\ CoordInv
  BY DEF RestartInv, BalancedInv, AuthorityInv, CoordInv
<1>2. BookState' /\ ControlState'
  BY <1>1, CoordLedger
<1>3. TablesMatch' /\ HistoryPromises'
  BY <1>1, CoordBookSteps, AuthorityKept
<1>4. BooksInv'
  BY <1>2, InvariantPartsPrime
<1>5. AuthorityInv'
  BY <1>3, <1>4 DEF AuthorityInv
<1>6. KnownPosts' /\ KnownSeq(history)'
  BY RestartKnown DEF KnownPosts
<1>7. /\ Grounded(history)' /\ RevisedOnce' /\ Backed(accounts, history)'
      /\ AllClosed(accounts)'
  BY <1>2, <1>6, CoordCalls, BalancedKept DEF RestartInv
<1> QED BY <1>5, <1>6, <1>7 DEF BalancedInv

\* The replay of a start accepts its next entry.
LEMMA RestartAccepts ==
  ASSUME RestartInv, LoadTurn, ReplaysUnfenced, \A e \in Entry : Revise(e) => ~Revised(e.target)
  PROVE  reply' = "OK"
<1>1. LoopStep /\ Replaying /\ ~shuttingDown
  BY DEF RestartInv, LoadTurn, LoopStep, LockFree, Quiet, Replaying
<1> QED BY <1>1, NextAccepted DEF RestartInv, ReplaysUnfenced

\* During the replay of a start only its turns and a kill touch the ledger.
LEMMA CoordBusy ==
  ASSUME Quiet, Replaying, [CNext]_allVars
  PROVE  LoadTurn \/ Down \/ UNCHANGED vars
<1>1. proc.at = "loading" /\ ~LockFree
  BY DEF Quiet, Replaying, LockFree
<1>2. ASSUME NEW s \in Starts, Start(s) PROVE FALSE
  BY <1>1, <1>2 DEF Start
<1>3. CASE Kill
  BY <1>3 DEF Kill
<1>4. CASE \/ Accept \/ HandleRegister \/ HandleAppend \/ HandleQuery \/ HandleUnknown
           \/ HandleShutdown \/ Disconnect \/ SaveRemoves \/ SaveRenames \/ WriteStatus
           \/ AcceptFails \/ SaveFails
  BY <1>1, <1>4 DEF Accept, HandleRegister, HandleAppend, HandleQuery, HandleUnknown,
     HandleShutdown, Serving, Disconnect, ReadFails, SaveRemoves, SaveRenames, WriteStatus,
     AcceptFails, SaveFails
<1>5. CASE Listen
  BY <1>1, <1>5 DEF Listen
<1>6. CASE UNCHANGED allVars \/ \E c \in Clients : Connect(c) \/ Close(c) \/ \E m \in Messages : Send(c, m)
  BY <1>6, Zenon DEF Connect, Close, Send, allVars
<1> QED BY <1>2, <1>3, <1>4, <1>5, <1>6, CoordSteps

\* The history with what is still to replay, and the totals of a replay.
LEMMA RestartReplayable ==
  ASSUME RestartInv, [CNext]_allVars, ReplaysUnfenced, BalancedInv',
         [\A e \in Entry : Revise(e) => ~Revised(e.target)]_vars
  PROVE  /\ Replayable(history' \o loop'.rest)
         /\ Replaying' => Matches(accounts', history')
<1>0. /\ CoordInv /\ Quiet /\ BalancedInv /\ Replayable(history \o loop.rest)
      /\ history \in Seq(Entry) /\ loop.rest \in Seq(Entry) /\ LoopBusy
      /\ loop \in [kind: LoopKind, rest: Seq(Entry)] /\ file \subseteq Snapshot
      /\ Idle.rest = <<>> /\ Idle.kind = "idle" /\ Replayable(<<>>) /\ <<>> \in Seq(Entry)
  BY DEF RestartInv, CoordInv, BookState, BookTypes, ControlState, ProcTypes, Idle, Replayable
<1>1. CASE UNCHANGED <<loop, history, accounts>>
  BY <1>0, <1>1 DEF RestartInv, Replaying
<1>2. CASE LoadTurn /\ ~UNCHANGED vars
  <2> DEFINE r == loop.rest
  <2>1. \A e \in Entry : Revise(e) => ~Revised(e.target)
    BY <1>2
  <2>2. reply' = "OK"
    BY <1>2, <2>1, RestartAccepts
  <2>3. /\ LoopStep /\ append_locked(Head(r)) /\ r # <<>>
        /\ loop' = IF Len(r) > 1 THEN [loop EXCEPT !.rest = Tail(@)] ELSE Idle
        /\ Replaying
    BY <1>0, <1>2, <2>2 DEF LoadTurn, LoopStep, LockFree, LoopBusy, Quiet, Replaying
  <2>4. history' = Append(history, Head(r))
    BY <2>2, <2>3, OkCommits
  <2>5. loop'.rest = IF Len(r) > 1 THEN Tail(r) ELSE <<>>
    BY <1>0, <2>3
  <2>6. history' \o loop'.rest = history \o r
    BY <1>0, <2>3, <2>4, <2>5, TurnKeepsLog
  <2>7. Matches(accounts', history')
    <3>1. BookState' /\ KnownSeq(history)' /\ RevisedOnce'
      BY InvariantPartsPrime DEF BalancedInv, AuthorityInv, KnownPosts
    <3> QED BY <1>0, <2>2, <2>3, <3>1, TurnExact DEF RestartInv
  <2> QED BY <1>0, <2>6, <2>7
<1>3. ASSUME NEW r \in file, LoadFromString(r)
      PROVE  /\ Replayable(history' \o loop'.rest)
             /\ Replaying' => Matches(accounts', history')
  <2>1. /\ history' = <<>> /\ accounts' = NoTotals
        /\ loop' = IF r.history = <<>> THEN Idle ELSE [kind |-> "load", rest |-> r.history]
    BY <1>3 DEF LoadFromString, ClearBooks, StartLoop
  <2>2. r.history \in Seq(Entry) /\ Replayable(r.history)
    BY <1>0 DEF Snapshot, RestartInv
  <2>3. loop'.rest = r.history
    BY <1>0, <2>1
  <2>4. history' \o loop'.rest = r.history
    BY <2>1, <2>2, <2>3, LogParts
  <2>5. Matches(accounts', history')
    BY <2>1, EmptyMatches
  <2> QED BY <2>2, <2>4, <2>5
<1>4. CASE HandleAppend
  <2>1. LockFree /\ loop' = loop /\ loop.rest = <<>>
    BY <1>0, <1>4 DEF HandleAppend, AppendEntry, Quiet
  <2>2. Replayable(history)
    BY <1>0, <2>1, LogParts
  <2>3. AuthorityInv /\ Backed(accounts, history)' /\ history' \in Seq(Entry)
    BY <1>0, CoordLedger DEF BalancedInv, BookState, BookTypes
  <2>4. Replayable(history')
    BY <1>0, <2>2, <2>3, CoordBookSteps, ReplayableKept
  <2>5. history' \o loop'.rest = history'
    BY <2>1, <2>3, LogParts
  <2>6. ~Replaying'
    BY <2>1 DEF LockFree, Replaying
  <2> QED BY <2>4, <2>5, <2>6
<1>5. CASE Down
  <2>1. history' = <<>> /\ loop' = Idle
    BY <1>5 DEF Down, Fresh, ClearBooks
  <2>2. history' \o loop'.rest = <<>>
    BY <1>0, <2>1, LogParts
  <2>3. ~Replaying'
    BY <1>0, <2>1 DEF Replaying
  <2> QED BY <1>0, <2>2, <2>3
<1>6. CASE UNCHANGED vars
  BY <1>1, <1>6 DEF vars
<1> QED BY <1>1, <1>2, <1>3, <1>4, <1>5, <1>6, CoordLoop

\* What can be replayed stays so, in the ledger and in the file.
LEMMA RestartStep ==
  ASSUME WireEntries, RestartInv, [CNext]_allVars, ReplaysUnfenced,
         [\A e \in Entry : Revise(e) => ~Revised(e.target)]_vars
  PROVE  RestartInv'
<1>1. CoordInv' /\ Quiet' /\ FileReadable' /\ WireKnown'
  BY CoordStep, QuietStep, FileReadableStep, WireStep DEF RestartInv
<1>2. BalancedInv'
  BY RestartBalanced
<1>3. Replayable(history' \o loop'.rest) /\ (Replaying' => Matches(accounts', history'))
  BY <1>2, RestartReplayable
<1>4. \A r \in file' : KnownSeq(r.history) /\ Replayable(r.history)
  <2>1. CASE file' = file \/ file' = {}
    BY <2>1 DEF RestartInv
  <2>2. CASE SaveRenames /\ file' = saved /\ \A r \in saved : r.history = history
    <3>1. proc.at = "rename" /\ history \in Seq(Entry)
      BY <2>2 DEF SaveRenames, RestartInv, CoordInv, BookState, BookTypes
    <3>2. loop.rest = <<>>
      BY <3>1 DEF RestartInv, Quiet, Idle
    <3>3. Replayable(history) /\ KnownSeq(history)
      BY <3>1, <3>2, LogParts DEF RestartInv, BalancedInv, KnownPosts
    <3> QED BY <2>2, <3>3
  <2> QED BY <2>1, <2>2, FileMoves DEF RestartInv
<1>5. /\ Replayable(history \o loop.rest)'
      /\ (\A r \in file : KnownSeq(r.history) /\ Replayable(r.history))'
  BY <1>3, <1>4, Zenon DEF Replayable, Prefix, Fundable, Matches, TotalMatches, Sums, OfClass,
     ClassOf, RevsOf, PostsOf, Part, AdmittedBy, KnownSeq, KnownPost
<1>6. (Replaying => Matches(accounts, history))'
  BY <1>3, Zenon DEF Matches, TotalMatches, Sums, OfClass, ClassOf, RevsOf, PostsOf, Part
<1> QED BY <1>1, <1>2, <1>5, <1>6 DEF RestartInv

\* A start that loads the file gets through it: whatever an incarnation of the
\* coordinator committed and saved is accepted by the next one, entry by entry,
\* after kills, failed saves and refused requests, as long as no entry is revised
\* twice and no --epoch fences off what the file holds.
THEOREM RestartsAreAccepted ==
  ASSUME WireEntries
  PROVE  CSpec /\ RevisionsAreFirst /\ []ReplaysUnfenced => ReplayAccepted
<1>1. CInit => RestartInv
  <2> SUFFICES ASSUME CInit PROVE RestartInv
    OBVIOUS
  <2>1. /\ history = <<>> /\ loop = Idle /\ ~shuttingDown /\ file = {} /\ proc.at = "down"
        /\ accounts = NoTotals /\ saved = {} /\ link = [c \in Clients |-> NoLink]
    BY DEF CInit, Init, At
  <2>2. Idle.rest = <<>> /\ Idle.kind = "idle" /\ <<>> \in Seq(Entry)
    BY DEF Idle
  <2>3. Quiet /\ FileReadable
    BY <2>1, <2>2 DEF Quiet, LockFree, FileReadable, Readable
  <2>4. WireKnown
    BY <2>1, NoMessageType DEF WireKnown, Asked, NoLink, AppendKind
  <2>5. BalancedInv
    <3>1. KnownPosts
      BY <2>1, <2>2 DEF KnownPosts, KnownSeq
    <3>2. AuthorityInv
      BY AuthorityInit DEF CInit
    <3> QED BY <2>1, <3>1, <3>2, EmptyBacked DEF BalancedInv, RevisedOnce
  <2>6. Replayable(history \o loop.rest) /\ ~Replaying
    <3>1. history \o loop.rest = <<>>
      BY <2>1, <2>2, LogParts
    <3>2. Replayable(<<>>)
      BY DEF Replayable
    <3> QED BY <2>1, <2>2, <3>1, <3>2 DEF Replaying
  <2> QED BY <2>1, <2>3, <2>4, <2>5, <2>6, CoordInit DEF RestartInv
<1>2. ASSUME RestartInv, [CNext]_allVars, ReplaysUnfenced,
             [\A e \in Entry : Revise(e) => ~Revised(e.target)]_vars
      PROVE  [Replaying /\ ~shuttingDown => reply' = "OK"]_vars
  <2> SUFFICES ASSUME Replaying, ~UNCHANGED vars PROVE reply' = "OK"
    OBVIOUS
  <2>1. CASE LoadTurn
    <3>1. \A e \in Entry : Revise(e) => ~Revised(e.target)
      BY <1>2
    <3> QED BY <1>2, <2>1, <3>1, RestartAccepts
  <2>2. CASE Down
    BY <2>2 DEF Down, Fresh
  <2>3. Quiet
    BY <1>2 DEF RestartInv
  <2> QED BY <1>2, <2>1, <2>2, <2>3, CoordBusy
<1>3. ASSUME RestartInv, [CNext]_allVars, ReplaysUnfenced,
             [\A e \in Entry : Revise(e) => ~Revised(e.target)]_vars
      PROVE  RestartInv'
  BY <1>3, RestartStep
<1> QED BY <1>1, <1>2, <1>3, PTL DEF CSpec, RevisionsAreFirst, ReplayAccepted

\* The coordinator implements the log of DurableLog, as long as no entry is revised
\* twice and no restart's --epoch fences off what the file holds: whatever is
\* killed, restarted, lost or sent again, no acknowledged entry is lost or
\* reordered unless the file itself has failed.
THEOREM CoordinatorIsDurable ==
  ASSUME WireEntries
  PROVE  CSpec /\ RevisionsAreFirst /\ []ReplaysUnfenced => ImplementsDurableLog
BY RestartsAreAccepted, DurableWhileReplaysAccepted, PTL
=============================================================================
