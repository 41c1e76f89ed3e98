--------------------------- MODULE RecordingsProof ---------------------------
(* Proofs about Recordings, for any number of recordings, goroutines,       *)
(* requests, crashes and failed database calls.                             *)
EXTENDS Recordings, TLAPS

(* Shapes of the values an action builds. *)

LEMMA RowShapes ==
    ASSUME NEW v \in Row
    PROVE  /\ Failed(v) \in Row
           /\ FailedIfStale(v) \in Row
           /\ FailedIfStale(v).status \notin ActiveStatus
           /\ [v EXCEPT !.status = "starting", !.path = TRUE] \in Row
           /\ [v EXCEPT !.status = "running"] \in Row
           /\ [v EXCEPT !.status = "deleted"] \in Row
           /\ [v EXCEPT !.status = "cancelled", !.err = "none"] \in Row
BY DEF Row, Failed, FailedIfStale, Status, ActiveStatus, TerminalStatus

LEMMA NullShapes ==
    /\ NoRow \in Row /\ NewRow \in Row
    /\ NoRow.status = "unborn" /\ NewRow.status = "pending"
    /\ IdleWorker \in WorkerState /\ IdleWorker.pc = "idle"
    /\ IdleClient \in ClientState
    /\ PollOff \in PollState
<1>1. NoRow \in Row /\ NewRow \in Row /\ NoRow.status = "unborn" /\ NewRow.status = "pending"
  BY DEF NoRow, NewRow, Row, Status, ActiveStatus, TerminalStatus
<1>2. IdleWorker \in WorkerState /\ IdleWorker.pc = "idle"
  BY <1>1 DEF IdleWorker, WorkerState, WorkerPc
<1>3. IdleClient \in ClientState
  BY <1>1 DEF IdleClient, ClientState, ClientPc
<1>4. PollOff \in PollState
  BY <1>1 DEF PollOff, PollState
<1>5. QED BY <1>1, <1>2, <1>3, <1>4

LEMMA TypeInit == Init => TypeOK
<1> SUFFICES ASSUME Init PROVE TypeOK OBVIOUS
<1>1. worker \in [Workers -> WorkerState] /\ \A w \in Workers : worker[w].pc = "idle"
  BY NullShapes DEF Init
<1>2. client \in [Clients -> ClientState] /\ \A c \in Clients : client[c].pc = "idle"
  BY NullShapes DEF Init, IdleClient
<1>3. row \in [Recs -> Row] /\ poll \in PollState
  BY NullShapes DEF Init
<1>4. QED BY <1>1, <1>2, <1>3, RecordingsAssumption DEF Init, TypeOK, FileState

LEMMA DbUpdateType ==
    ASSUME TypeOK, NEW r, NEW v \in Row, DbUpdate(r, v)
    PROVE  row' \in [Recs -> Row]
BY DEF TypeOK, DbUpdate

LEMMA SaveType ==
    ASSUME TypeOK, NEW w \in Workers, NEW v \in Row, Save(w, v)
    PROVE  row' \in [Recs -> Row]
BY DbUpdateType DEF TypeOK, Save, DbFails

(* Type correctness: one lemma for a goroutine's step, one for a request's. *)

WorkersOK ==
    /\ worker \in [Workers -> WorkerState]
    /\ \A w \in Workers : worker[w].pc # "idle" => worker[w].rec \in Recs

LEMMA SpawnType ==
    ASSUME TypeOK, NEW r \in Recs, NEW v \in Row, Spawn(r, v)
    PROVE  WorkersOK'
<1>1. [IdleWorker EXCEPT !.pc = "spawned", !.rec = r, !.snap = v] \in WorkerState
  BY NullShapes DEF WorkerState, WorkerPc
<1>2. [IdleWorker EXCEPT !.pc = "spawned", !.rec = r, !.snap = v].rec = r
  BY DEF IdleWorker
<1>3. QED BY <1>1, <1>2 DEF TypeOK, Spawn, WorkersOK

LEMMA WorkerMoves ==
    ASSUME TypeOK, NEW w \in Workers, NEW pc \in WorkerPc, worker[w].pc # "idle", Goto(w, pc)
    PROVE  WorkersOK'
BY DEF TypeOK, Goto, WorkerState, WorkersOK

LEMMA WorkerEnds ==
    ASSUME TypeOK, NEW w \in Workers, worker[w].pc # "idle", Finish(w) \/ Leave(w)
    PROVE  WorkersOK'
<1>1. worker[w].rec \in Recs
  BY DEF TypeOK
<1> DEFINE gone == [IdleWorker EXCEPT !.pc = "cleanup", !.rec = worker[w].rec]
<1>2. gone \in WorkerState /\ gone.rec \in Recs
  BY <1>1, NullShapes DEF WorkerState, WorkerPc, IdleWorker
<1>3. QED BY <1>2, NullShapes DEF TypeOK, Finish, Leave, WorkersOK

\* No other row is touched, and r is not left active, or the database failed.
Settles(r) ==
    /\ \A q \in Recs \ {r} : row'[q] = row[q]
    /\ unsaved \subseteq unsaved'
    /\ r \in unsaved' \/ row'[r].status \notin ActiveStatus

LEMMA SaveSettles ==
    ASSUME TypeOK, NEW w \in Workers, worker[w].rec \in Recs, NEW v, v.status \notin ActiveStatus,
           Save(w, v)
    PROVE  Settles(worker[w].rec)
BY DEF TypeOK, Save, DbUpdate, DbFails, Settles, Status, ActiveStatus

\* The row Finalize writes.
LEMMA FinalizeType ==
    ASSUME TypeOK, NEW w \in Workers, NEW remuxed \in BOOLEAN, Finalize(w, remuxed)
    PROVE  /\ row' \in [Recs -> Row] /\ unsaved' \subseteq Recs /\ file' \in [Paths -> FileState]
           /\ Settles(worker[w].rec)
<1> DEFINE r == worker[w].rec
           p == PathOf[r]
           v == worker[w].snap
           brokenOff == v.status = "cancelled" \/ worker[w].cut
           repairs == brokenOff \/ worker[w].att > 1
           size == \/ HasMedia(v, p)
                   \/ v.size /\ (brokenOff \/ ~ v.path \/ file[p] = "none")
           sized == [v EXCEPT !.size = \/ HasMedia(v, p)
                                       \/ @ /\ (brokenOff \/ ~ v.path \/ file[p] = "none")]
           broken == repairs /\ HasMedia(v, p) /\ ~ remuxed
           new == CASE v.status = "cancelled" ->
                         [sized EXCEPT !.err = IF broken THEN "error" ELSE @]
                    [] v.status # "cancelled" /\ worker[w].cut -> Failed(sized)
                    [] v.status # "cancelled" /\ ~ worker[w].cut
                         /\ sized.size /\ ~ worker[w].err /\ ~ broken ->
                         [sized EXCEPT !.status = "completed", !.err = "none"]
                    [] OTHER -> Failed(sized)
<1>1. v \in Row /\ r \in Recs
  BY DEF TypeOK, WorkerState, Finalize
<1>2. sized \in Row
  BY <1>1 DEF Row, HasMedia
<1>3. new \in Row /\ new.status \notin ActiveStatus
  <2>1. Failed(sized) \in Row /\ Failed(sized).status \notin ActiveStatus
    <3> HIDE DEF sized
    <3> QED BY <1>2, RowShapes DEF Failed, Row, ActiveStatus
  <2>2. /\ [sized EXCEPT !.status = "completed", !.err = "none"] \in Row
        /\ [sized EXCEPT !.status = "completed", !.err = "none"].status \notin ActiveStatus
    BY <1>2 DEF Row, Status, TerminalStatus, ActiveStatus
  <2>3. /\ [sized EXCEPT !.err = IF broken THEN "error" ELSE @] \in Row
        /\ v.status = "cancelled" =>
              [sized EXCEPT !.err = IF broken THEN "error" ELSE @].status \notin ActiveStatus
    BY <1>1, <1>2 DEF Row, ActiveStatus
  <2> HIDE DEF sized, broken
  <2>4. QED BY <2>1, <2>2, <2>3
<1>4. Save(w, new)
  BY DEF Finalize
<1>5. row' \in [Recs -> Row]
  <2> HIDE DEF new
  <2> QED BY <1>3, <1>4, SaveType
<1>6. unsaved' \subseteq Recs
  <2> HIDE DEF new
  <2> QED BY <1>1, <1>4 DEF Save, DbFails, TypeOK
<1>7. file' \in [Paths -> FileState]
  BY DEF Finalize, Repaired, TypeOK, FileState
<1>8. Settles(r)
  <2> HIDE DEF new
  <2> QED BY <1>1, <1>3, <1>4, SaveSettles
<1>9. QED BY <1>5, <1>6, <1>7, <1>8

LEMMA WorkerType ==
    ASSUME TypeOK, NEW w \in Workers, WorkerStep(w)
    PROVE  TypeOK'
<1> DEFINE s == worker[w]
<1>0. s \in WorkerState /\ s.snap \in Row /\ (s.pc # "idle" => s.rec \in Recs)
  BY DEF TypeOK, WorkerState
<1> USE DEF UnchangedByWorker
<1>a. ASSUME WorkersOK', row' \in [Recs -> Row], unsaved' \subseteq Recs,
             file' \in [Paths -> FileState], active' \in [Recs -> Workers \cup {None}],
             UnchangedByWorker
      PROVE  TypeOK'
  BY <1>a DEF TypeOK, WorkersOK
<1>1. CASE ExpireBeforeStart(w)
  BY <1>0, <1>1, <1>a, RowShapes, SaveType, WorkerEnds DEF ExpireBeforeStart, TypeOK, Save, DbFails
<1>2. CASE WriteStarting(w)
  <2> DEFINE new == [s.snap EXCEPT !.status = "starting", !.path = TRUE]
  <2>1. new \in Row BY <1>0, RowShapes
  <2>2. CASE DbUpdate(s.rec, new) /\ worker' = [worker EXCEPT ![w].pc = "starting", ![w].snap = new]
    <3> HIDE DEF new
    <3>1. WorkersOK'
      BY <1>0, <1>2, <2>1, <2>2 DEF WriteStarting, TypeOK, WorkersOK, WorkerState, WorkerPc
    <3>2. QED BY <1>2, <1>a, <2>1, <2>2, <3>1, DbUpdateType DEF WriteStarting, TypeOK, DbFails
  <2>3. CASE DbFails(s.rec) /\ Finish(w)
    BY <1>0, <1>2, <1>a, <2>3, WorkerEnds DEF WriteStarting, TypeOK, DbFails
  <2>4. QED BY <1>2, <2>2, <2>3 DEF WriteStarting
<1>3. CASE CannotCapture(w)
  BY <1>0, <1>3, <1>a, RowShapes, SaveType, WorkerEnds DEF CannotCapture, TypeOK, Save, DbFails
<1>4. CASE WriteRunning(w)
  <2> DEFINE new == [s.snap EXCEPT !.status = "running"]
  <2>1. new \in Row BY <1>0, RowShapes
  <2>2. CASE DbUpdate(s.rec, new) /\ worker' = [worker EXCEPT ![w].pc = "registering", ![w].snap = new]
    <3> HIDE DEF new
    <3>1. WorkersOK'
      BY <1>0, <1>4, <2>1, <2>2 DEF WriteRunning, TypeOK, WorkersOK, WorkerState, WorkerPc
    <3>2. QED BY <1>4, <1>a, <2>1, <2>2, <3>1, DbUpdateType DEF WriteRunning, TypeOK, DbFails
  <2>3. CASE DbFails(s.rec) /\ Finish(w)
    BY <1>0, <1>4, <1>a, <2>3, WorkerEnds DEF WriteRunning, TypeOK, DbFails
  <2>4. QED BY <1>4, <2>2, <2>3 DEF WriteRunning
<1>5. CASE Register(w)
  BY <1>0, <1>5, <1>a, WorkerMoves DEF Register, TypeOK, WorkerPc
<1>6. CASE BeginAttempt(w)
  <2> DEFINE att == IF s.att = 0 THEN 1 ELSE 2
  <2>a. att \in 0..2 /\ worker' = [worker EXCEPT ![w].pc = "capturing", ![w].att = att]
    BY <1>6 DEF BeginAttempt
  <2> HIDE DEF att
  <2>b. s.pc # "idle" BY <1>6 DEF BeginAttempt
  <2>1. WorkersOK'
    BY <1>0, <2>a, <2>b DEF TypeOK, WorkersOK, WorkerState, WorkerPc
  <2>2. QED BY <1>6, <1>a, <2>1 DEF BeginAttempt, TypeOK, FileState
<1>7. CASE OpenFails(w)
  <2> DEFINE att == IF s.att = 0 THEN 1 ELSE 2
             pc == IF Cancelled(w) THEN "interrupted" ELSE "retrying"
  <2>a. /\ att \in 0..2 /\ pc \in WorkerPc
        /\ worker' = [worker EXCEPT ![w].pc = pc, ![w].att = att, ![w].err = TRUE]
    BY <1>7 DEF OpenFails, WorkerPc
  <2> HIDE DEF att, pc
  <2>b. s.pc # "idle" BY <1>7 DEF OpenFails
  <2>1. WorkersOK'
    BY <1>0, <2>a, <2>b DEF TypeOK, WorkersOK, WorkerState
  <2>2. QED BY <1>7, <1>a, <2>1 DEF OpenFails, TypeOK
<1>8. CASE NoTimeLeft(w)
  BY <1>0, <1>8, <1>a, WorkerMoves DEF NoTimeLeft, TypeOK, WorkerPc
<1>9. CASE WriteMedia(w)
  BY <1>0, <1>9, <1>a, WorkerMoves DEF WriteMedia, TypeOK, WorkerPc, FileState
<1>10. CASE \E ok \in BOOLEAN : AttemptEnds(w, ok)
  <2>1. PICK ok \in BOOLEAN : AttemptEnds(w, ok) BY <1>10
  <2>2. WorkersOK'
    BY <1>0, <2>1 DEF AttemptEnds, TypeOK, WorkersOK, WorkerState, WorkerPc, Cancelled
  <2>3. QED BY <1>a, <2>1, <2>2 DEF AttemptEnds, TypeOK
<1>11. CASE RetryWait(w)
  BY <1>0, <1>11, <1>a, WorkerMoves DEF RetryWait, TypeOK, WorkerPc
<1>12. CASE Reload(w)
  <2>1. CASE worker' = [worker EXCEPT ![w].pc = "reloaded", ![w].snap = row[s.rec],
                                      ![w].cut = s.pc = "interrupted"]
    <3>1. row[s.rec] \in Row
      BY <1>0, <1>12 DEF Reload, TypeOK
    <3>2. WorkersOK'
      BY <1>0, <1>12, <2>1, <3>1 DEF Reload, TypeOK, WorkersOK, WorkerState, WorkerPc
    <3>3. QED BY <1>0, <1>12, <1>a, <3>2 DEF Reload, TypeOK, DbFails
  <2>2. CASE Leave(w)
    BY <1>0, <1>12, <1>a, <2>2, WorkerEnds DEF Reload, TypeOK, DbFails
  <2>3. QED BY <1>12, <2>1, <2>2 DEF Reload
<1>13. CASE \E remuxed \in BOOLEAN : Finalize(w, remuxed)
  BY <1>0, <1>13, <1>a, FinalizeType, WorkerEnds DEF Finalize, TypeOK
<1>14. CASE Cleanup(w)
  BY <1>0, <1>14, <1>a, WorkerEnds DEF Cleanup, TypeOK
<1>15. QED BY <1>1, <1>2, <1>3, <1>4, <1>5, <1>6, <1>7, <1>8, <1>9, <1>10, <1>11, <1>12, <1>13, <1>14
           DEF WorkerStep

LEMMA ClientMoves ==
    ASSUME TypeOK, NEW c \in Clients,
           \/ ClientDone(c)
           \/ client[c].pc # "idle" /\ \E pc \in ClientPc : ClientGoto(c, pc)
           \/ \E pc \in ClientPc, r \in Recs, v \in Row :
                 client' = [client EXCEPT ![c] = [pc |-> pc, rec |-> r, snap |-> v]]
    PROVE  /\ client' \in [Clients -> ClientState]
           /\ \A d \in Clients : client'[d].pc # "idle" => client'[d].rec \in Recs
<1>1. CASE ClientDone(c)
  <2>1. IdleClient \in ClientState /\ IdleClient.pc = "idle"
    BY NullShapes DEF IdleClient
  <2>2. QED BY <1>1, <2>1 DEF ClientDone, TypeOK
<1>2. CASE client[c].pc # "idle" /\ \E pc \in ClientPc : ClientGoto(c, pc)
  BY <1>2 DEF ClientGoto, TypeOK, ClientState
<1>3. CASE \E pc \in ClientPc, r \in Recs, v \in Row :
              client' = [client EXCEPT ![c] = [pc |-> pc, rec |-> r, snap |-> v]]
  BY <1>3 DEF TypeOK, ClientState
<1>4. QED BY <1>1, <1>2, <1>3

LEMMA KillType ==
    ASSUME TypeOK, NEW w \in Workers, worker' = [worker EXCEPT ![w].killed = TRUE]
    PROVE  WorkersOK'
<1> DEFINE new == [worker[w] EXCEPT !.killed = TRUE]
<1>1. worker[w] \in WorkerState
  BY DEF TypeOK
<1>2. new \in WorkerState /\ new.pc = worker[w].pc /\ new.rec = worker[w].rec
  BY <1>1 DEF WorkerState
<1>3. worker' = [worker EXCEPT ![w] = new]
  OBVIOUS
<1> HIDE DEF new
<1>4. QED BY <1>2, <1>3 DEF TypeOK, WorkersOK

LEMMA ClientType ==
    ASSUME TypeOK, NEW c \in Clients, ClientStep(c)
    PROVE  TypeOK'
<1> DEFINE s == client[c]
<1>0. s \in ClientState /\ s.snap \in Row /\ (s.pc # "idle" => s.rec \in Recs)
  BY DEF TypeOK, ClientState
<1> USE DEF UnchangedByClient
<1>a. ASSUME client' \in [Clients -> ClientState],
             \A d \in Clients : client'[d].pc # "idle" => client'[d].rec \in Recs,
             WorkersOK', row' \in [Recs -> Row], file' \in [Paths -> FileState],
             active' = active, sealed' \subseteq Recs, UnchangedByClient
      PROVE  TypeOK'
  BY <1>a DEF TypeOK, WorkersOK
<1>b. ASSUME UNCHANGED worker PROVE WorkersOK'
  BY <1>b DEF TypeOK, WorkersOK
<1>1. CASE MaybeStart(c)
  <2>1. WorkersOK'
    BY <1>0, <1>1, <1>b, SpawnType DEF MaybeStart
  <2>2. QED BY <1>1, <1>a, <2>1, ClientMoves DEF MaybeStart, TypeOK
<1>2. CASE CancelWrite(c)
  <2>1. row' \in [Recs -> Row]
    BY <1>0, <1>2, RowShapes, DbUpdateType DEF CancelWrite
  <2>2. ClientDone(c) \/ (s.pc # "idle" /\ \E pc \in ClientPc : ClientGoto(c, pc))
    BY <1>2 DEF CancelWrite, ClientPc
  <2>3. QED BY <1>2, <1>a, <1>b, <2>1, <2>2, ClientMoves DEF CancelWrite, TypeOK
<1>3. CASE CancelSignal(c)
  <2>1. s.rec \in Recs
    BY <1>0, <1>3 DEF CancelSignal
  <2>2. WorkersOK'
    <3>1. CASE worker' = worker
      BY <1>b, <3>1
    <3>2. CASE \E w \in Workers : worker' = [worker EXCEPT ![w].killed = TRUE]
      BY <3>2, KillType
    <3>3. QED BY <1>3, <2>1, <3>1, <3>2 DEF CancelSignal, TypeOK
  <2>3. sealed' \subseteq Recs
    BY <1>3, <2>1 DEF CancelSignal, TypeOK
  <2>4. QED BY <1>3, <1>a, <2>2, <2>3, ClientMoves DEF CancelSignal, TypeOK
<1>4. CASE DeleteFile(c)
  BY <1>4, <1>a, <1>b, ClientMoves DEF DeleteFile, TypeOK, ClientPc, FileState
<1>5. CASE DeleteRow(c)
  <2>1. row' \in [Recs -> Row]
    BY <1>5, RowShapes DEF DeleteRow, TypeOK
  <2>2. QED BY <1>5, <1>a, <1>b, <2>1, ClientMoves DEF DeleteRow, TypeOK
<1>6. CASE RequestFails(c)
  BY <1>6, <1>a, <1>b, ClientMoves DEF RequestFails, TypeOK
<1>7. CASE \E r \in Recs : Create(c, r)
  <2>1. PICK r \in Recs : Create(c, r) BY <1>7
  <2>2. row' \in [Recs -> Row]
    BY <2>1, NullShapes DEF Create, TypeOK
  <2>3. QED BY <1>a, <1>b, <2>1, <2>2, NullShapes, ClientMoves DEF Create, TypeOK, ClientPc
<1>8. CASE \E r \in Recs : CancelGet(c, r)
  <2>1. PICK r \in Recs : CancelGet(c, r) BY <1>8
  <2>2. row[r] \in Row BY DEF TypeOK
  <2>3. /\ client' \in [Clients -> ClientState]
        /\ \A d \in Clients : client'[d].pc # "idle" => client'[d].rec \in Recs
    <3>1. "cancelWrite" \in ClientPc BY DEF ClientPc
    <3>2. CASE ClientDone(c) BY <3>2, ClientMoves
    <3>3. CASE client' = [client EXCEPT ![c] = [pc |-> "cancelWrite", rec |-> r, snap |-> row[r]]]
      BY <2>2, <3>1, <3>3, ClientMoves
    <3>4. QED BY <2>1, <3>2, <3>3 DEF CancelGet
  <2>4. QED BY <1>a, <1>b, <2>1, <2>3 DEF CancelGet, TypeOK
<1>9. CASE \E r \in Recs : DeleteGet(c, r)
  <2>1. PICK r \in Recs : DeleteGet(c, r) BY <1>9
  <2> DEFINE pc == CASE row[r].status = "pending" /\ r \in RuleRecs -> "cancelGet"
                    [] ~ (row[r].status = "pending" /\ r \in RuleRecs) /\ row[r].path
                         -> "deleteFile"
                    [] OTHER -> "deleteRow"
  <2>2. row[r] \in Row /\ pc \in ClientPc BY DEF TypeOK, ClientPc
  <2>3. client' = [client EXCEPT ![c] = [pc |-> pc, rec |-> r, snap |-> row[r]]]
    BY <2>1 DEF DeleteGet
  <2> HIDE DEF pc
  <2>4. /\ client' \in [Clients -> ClientState]
        /\ \A d \in Clients : client'[d].pc # "idle" => client'[d].rec \in Recs
    BY <2>2, <2>3, ClientMoves
  <2>5. QED BY <1>a, <1>b, <2>1, <2>4 DEF DeleteGet, TypeOK
<1>10. QED BY <1>1, <1>2, <1>3, <1>4, <1>5, <1>6, <1>7, <1>8, <1>9 DEF ClientStep

LEMMA ServiceType ==
    ASSUME TypeOK,
           \/ Boot \/ Stop \/ Exit \/ Crash \/ PollList \/ PollExit
           \/ \E r \in Recs : Tick(r) \/ Materialise(r) \/ PollNext(r)
    PROVE  TypeOK'
<1>1. CASE Boot
  <2>1. row' \in [Recs -> Row]
    BY <1>1, RowShapes DEF Boot, TypeOK
  <2>2. poll' \in PollState /\ unsaved' \subseteq Recs
    BY <1>1 DEF Boot, TypeOK, PollState
  <2>3. QED BY <1>1, <2>1, <2>2 DEF Boot, TypeOK
<1>2. CASE Stop
  BY <1>2 DEF Stop, TypeOK
<1>3. ASSUME Lost, crashes' \in 0..MaxCrashes PROVE TypeOK'
  <2>1. worker' \in [Workers -> WorkerState] /\ \A w \in Workers : worker'[w].pc = "idle"
    BY <1>3, NullShapes DEF Lost
  <2>2. client' \in [Clients -> ClientState] /\ \A c \in Clients : client'[c].pc = "idle"
    BY <1>3, NullShapes DEF Lost, IdleClient
  <2>3. poll' \in PollState /\ active' \in [Recs -> Workers \cup {None}]
    BY <1>3, NullShapes DEF Lost
  <2>4. QED BY <1>3, <2>1, <2>2, <2>3 DEF Lost, TypeOK
<1>4. CASE Exit
  BY <1>3, <1>4 DEF Exit, TypeOK
<1>5. CASE Crash
  BY <1>3, <1>5, RecordingsAssumption DEF Crash, TypeOK
<1>6. CASE PollList
  <2>1. poll' \in PollState
    BY <1>6, NullShapes DEF PollList, TypeOK, PollState
  <2>2. QED BY <1>6, <2>1 DEF PollList, TypeOK
<1>7. CASE PollExit
  BY <1>7, NullShapes DEF PollExit, TypeOK
<1>8. ASSUME NEW r \in Recs, Tick(r) PROVE TypeOK'
  BY <1>8 DEF Tick, TypeOK
<1>9. ASSUME NEW r \in Recs, Materialise(r) PROVE TypeOK'
  BY <1>9, NullShapes DEF Materialise, TypeOK
<1>10. ASSUME NEW r \in Recs, PollNext(r) PROVE TypeOK'
  <2>1. poll.due[r] \in Row BY DEF TypeOK, PollState
  <2>2. WorkersOK'
    BY <1>10, <2>1, SpawnType DEF PollNext, TypeOK, WorkersOK
  <2> DEFINE rest == [poll.due EXCEPT ![r] = NoRow]
  <2>3. rest \in [Recs -> Row]
    BY NullShapes DEF TypeOK, PollState
  <2>4. poll' = [pc |-> IF rest = PollOff.due THEN "waiting" ELSE "spawning", due |-> rest]
    BY <1>10 DEF PollNext
  <2> HIDE DEF rest
  <2>5. poll' \in PollState
    BY <2>3, <2>4 DEF PollState
  <2>6. QED BY <1>10, <2>2, <2>5 DEF PollNext, TypeOK, WorkersOK
<1>11. QED BY <1>1, <1>2, <1>4, <1>5, <1>6, <1>7, <1>8, <1>9, <1>10

\* Every state of the DVR is well typed, and only an idle goroutine or request
\* has no recording: all of service.go and pg_recordings.go.
THEOREM TypeCorrect == Spec => []TypeOK
<1>1. TypeOK /\ [Next]_vars => TypeOK'
  <2> SUFFICES ASSUME TypeOK, [Next]_vars PROVE TypeOK' OBVIOUS
  <2>1. CASE UNCHANGED vars
    BY <2>1 DEF vars, TypeOK
  <2>2. CASE Next
    BY <2>2, WorkerType, ClientType, ServiceType DEF Next
  <2>3. QED BY <2>1, <2>2
<1>2. QED BY TypeInit, <1>1, PTL DEF Spec

-----------------------------------------------------------------------------
(* The registry and the ownership of active rows. Each is preserved because *)
(* a goroutine's step changes no other goroutine, and when it leaves the    *)
(* interesting part of its code it has done its final write or lost the     *)
(* database.                                                                *)

LEMMA OthersUntouched ==
    ASSUME TypeOK, NEW w \in Workers, WorkerStep(w), NEW x \in Workers \ {w}
    PROVE  worker'[x] = worker[x]
BY DEF TypeOK, WorkerStep, ExpireBeforeStart, WriteStarting, CannotCapture, WriteRunning,
       Register, BeginAttempt, OpenFails, NoTimeLeft, WriteMedia, AttemptEnds, RetryWait,
       Reload, Finalize, Cleanup, Goto, Finish, Leave

\* The steps of one goroutine, as the registry and the ownership see them.
Moves(w, from, to) ==
    /\ worker[w].pc \in from
    /\ worker'[w].pc \in to
    /\ worker'[w].rec = worker[w].rec

LEMMA StepShapes ==
    ASSUME TypeOK, NEW w \in Workers, WorkerStep(w)
    PROVE  \/ Register(w) /\ Moves(w, {"registering"}, {"attempt"})
           \/ Cleanup(w) /\ worker[w].pc = "cleanup" /\ worker'[w].pc = "idle"
           \/ /\ UNCHANGED active
              /\ \/ worker[w].pc \in {"spawned", "starting"} /\ worker'[w].pc = "idle"
                 \/ Moves(w, {"spawned", "starting"}, {"starting", "registering"})
                 \/ Moves(w, RegisteredPc \ {"cleanup"}, RegisteredPc)
<1>1. worker \in [Workers -> WorkerState]
  BY DEF TypeOK
<1> USE <1>1 DEF Moves, RegisteredPc, CapturePc, WorkerState
<1>2. CASE ExpireBeforeStart(w) \/ WriteStarting(w) \/ CannotCapture(w) \/ WriteRunning(w)
  BY <1>2, NullShapes DEF ExpireBeforeStart, WriteStarting, CannotCapture, WriteRunning, Finish
<1>3. CASE Register(w)
  BY <1>3 DEF Register, Goto
<1>4. CASE BeginAttempt(w) \/ OpenFails(w) \/ NoTimeLeft(w)
  BY <1>4 DEF BeginAttempt, OpenFails, NoTimeLeft, Goto
<1>5. CASE WriteMedia(w) \/ RetryWait(w)
  BY <1>5 DEF WriteMedia, RetryWait, Goto
<1>6. CASE \E ok \in BOOLEAN : AttemptEnds(w, ok)
  BY <1>6 DEF AttemptEnds
<1>7. ASSUME Leave(w) PROVE worker'[w].pc = "cleanup" /\ worker'[w].rec = worker[w].rec
  BY <1>7 DEF Leave, IdleWorker
<1>8. CASE Reload(w)
  BY <1>7, <1>8 DEF Reload
<1>9. CASE \E remuxed \in BOOLEAN : Finalize(w, remuxed)
  BY <1>7, <1>9 DEF Finalize
<1>10. CASE Cleanup(w)
  BY <1>10, NullShapes DEF Cleanup, Finish
<1>11. QED BY <1>2, <1>3, <1>4, <1>5, <1>6, <1>8, <1>9, <1>10 DEF WorkerStep

LEMMA RegistryWorker ==
    ASSUME TypeOK, RegistryPointsAtCapture, NEW w \in Workers, WorkerStep(w)
    PROVE  RegistryPointsAtCapture'
<1> SUFFICES ASSUME NEW r \in Recs, active'[r] # None
             PROVE  worker'[active'[r]].rec = r /\ worker'[active'[r]].pc \in RegisteredPc
  BY DEF RegistryPointsAtCapture
<1>0. active[r] # None => /\ active[r] \in Workers
                         /\ worker[active[r]].rec = r
                         /\ worker[active[r]].pc \in RegisteredPc
  BY DEF TypeOK, RegistryPointsAtCapture
<1>1. CASE Register(w) /\ Moves(w, {"registering"}, {"attempt"})
  BY <1>0, <1>1, OthersUntouched DEF Register, Moves, RegisteredPc, CapturePc, TypeOK
<1>2. CASE Cleanup(w) /\ worker[w].pc = "cleanup" /\ worker'[w].pc = "idle"
  <2>1. active[r] # None /\ active'[r] = active[r] /\ r # worker[w].rec
    BY <1>2 DEF Cleanup, TypeOK
  <2>2. QED BY <1>0, <2>1, OthersUntouched
<1>3. CASE UNCHANGED active
  <2>1. CASE active[r] # w
    BY <1>0, <1>3, <2>1, OthersUntouched
  <2>2. CASE active[r] = w
    <3>1. worker[w].rec = r /\ worker[w].pc \in RegisteredPc /\ w # None
      BY <1>0, <2>2, <1>3, RecordingsAssumption
    <3>2. ~ Moves(w, {"registering"}, {"attempt"})
      BY <3>1 DEF Moves, RegisteredPc, CapturePc
    <3>3. ~ Cleanup(w)
      BY <1>3, <2>2, <3>1 DEF Cleanup, TypeOK
    <3>4. Moves(w, RegisteredPc \ {"cleanup"}, RegisteredPc)
      BY <3>1, <3>2, <3>3, StepShapes DEF Moves, RegisteredPc, CapturePc
    <3>5. QED BY <1>3, <2>2, <3>1, <3>4 DEF Moves
  <2>3. QED BY <2>1, <2>2
<1>4. QED BY <1>1, <1>2, <1>3, StepShapes

\* A new goroutine takes an idle slot; a signal changes neither pc nor id.
LEMMA SpawnKeeps ==
    ASSUME TypeOK, NEW r, NEW v, Spawn(r, v), NEW x \in Workers, worker[x].pc # "idle"
    PROVE  worker'[x] = worker[x]
BY DEF Spawn, TypeOK

LEMMA SignalKeeps ==
    ASSUME TypeOK, NEW c \in Clients, CancelSignal(c), NEW x \in Workers
    PROVE  worker'[x].pc = worker[x].pc /\ worker'[x].rec = worker[x].rec
BY DEF CancelSignal, TypeOK, WorkerState

\* What a request does to the goroutines.
LEMMA ClientKeepsWorkers ==
    ASSUME TypeOK, NEW c \in Clients, ClientStep(c), NEW x \in Workers, worker[x].pc # "idle"
    PROVE  worker'[x].pc = worker[x].pc /\ worker'[x].rec = worker[x].rec /\ active' = active
           /\ proc' = proc /\ unsaved' = unsaved
BY SpawnKeeps, SignalKeeps
   DEF ClientStep, UnchangedByClient, MaybeStart, CancelWrite, CancelSignal, DeleteFile,
       DeleteRow, RequestFails, Create, CancelGet, DeleteGet

THEOREM RegistryTheorem == Spec => []RegistryPointsAtCapture
<1>1. Init => RegistryPointsAtCapture
  BY DEF Init, RegistryPointsAtCapture
<1>2. TypeOK /\ RegistryPointsAtCapture /\ [Next]_vars => RegistryPointsAtCapture'
  <2> SUFFICES ASSUME TypeOK, RegistryPointsAtCapture, [Next]_vars
               PROVE  RegistryPointsAtCapture'
    OBVIOUS
  <2>1. \A r \in Recs : active[r] # None =>
            /\ active[r] \in Workers /\ worker[active[r]].pc # "idle"
            /\ worker[active[r]].rec = r /\ worker[active[r]].pc \in RegisteredPc
    BY DEF TypeOK, RegistryPointsAtCapture, RegisteredPc, CapturePc
  <2>2. CASE UNCHANGED <<worker, active>>
    BY <2>2 DEF RegistryPointsAtCapture
  <2>3. CASE Exit \/ Crash
    BY <2>3 DEF Exit, Crash, Lost, RegistryPointsAtCapture
  <2>4. ASSUME NEW r \in Recs, PollNext(r) PROVE RegistryPointsAtCapture'
    BY <2>1, <2>4, SpawnKeeps DEF PollNext, RegistryPointsAtCapture
  <2>5. ASSUME NEW w \in Workers, WorkerStep(w) PROVE RegistryPointsAtCapture'
    BY <2>5, RegistryWorker
  <2>6. ASSUME NEW c \in Clients, ClientStep(c) PROVE RegistryPointsAtCapture'
    <3>1. active' = active
      BY <2>6 DEF ClientStep, MaybeStart, CancelWrite, CancelSignal, DeleteFile,
                  DeleteRow, RequestFails, Create, CancelGet, DeleteGet
    <3>2. SUFFICES ASSUME NEW r \in Recs, active[r] # None
                   PROVE  worker'[active[r]].rec = r /\ worker'[active[r]].pc \in RegisteredPc
      BY <3>1 DEF RegistryPointsAtCapture
    <3>3. QED BY <2>1, <2>6, <3>2, ClientKeepsWorkers
  <2>7. QED
    BY <2>2, <2>3, <2>4, <2>5, <2>6
       DEF Next, vars, Boot, Stop, PollList, PollExit, Tick, Materialise
<1>3. QED BY <1>1, <1>2, TypeCorrect, PTL DEF Spec

-----------------------------------------------------------------------------
(* Ownership of the active rows.                                            *)

Owns(w, r) == worker[w].rec = r /\ worker[w].pc \in OwnerPc

\* Whatever a goroutine does with its row, it ends up owning it, settles it, or
\* never owned it.
LEMMA OwnershipShapes ==
    ASSUME TypeOK, NEW w \in Workers, WorkerStep(w), NEW r, r = worker[w].rec
    PROVE  /\ \A q \in Recs \ {r} : row'[q] = row[q]
           /\ unsaved \subseteq unsaved' /\ proc' = proc
           /\ \/ Owns(w, r)'
              \/ Settles(r)
              \/ ~ Owns(w, r) /\ row' = row
<1> USE DEF UnchangedByWorker
<1>0. worker \in [Workers -> WorkerState] /\ worker[w].snap \in Row /\ row \in [Recs -> Row]
  BY DEF TypeOK, WorkerState
<1>1. worker[w].pc # "idle"
  BY DEF WorkerStep, ExpireBeforeStart, WriteStarting, CannotCapture, WriteRunning,
         Register, BeginAttempt, OpenFails, NoTimeLeft, WriteMedia, AttemptEnds, RetryWait,
         Reload, Finalize, Cleanup
<1>2. r \in Recs
  BY <1>1 DEF TypeOK
<1>3. proc' = proc
  BY DEF WorkerStep, ExpireBeforeStart, WriteStarting, CannotCapture, WriteRunning,
         Register, BeginAttempt, OpenFails, NoTimeLeft, WriteMedia, AttemptEnds, RetryWait,
         Reload, Finalize, Cleanup
<1>4. ASSUME Save(w, Failed(worker[w].snap)) PROVE Settles(r)
  <2>1. Failed(worker[w].snap).status \notin ActiveStatus
    BY <1>0 DEF Failed, Row, ActiveStatus
  <2>2. QED BY <1>2, <1>4, <2>1, SaveSettles
<1>5. ASSUME NEW v, DbUpdate(r, v) PROVE \A q \in Recs \ {r} : row'[q] = row[q]
  BY <1>0, <1>5 DEF DbUpdate
<1>6. ASSUME DbFails(r) PROVE Settles(r)
  BY <1>6 DEF DbFails, Settles
<1>7. Settles(r) => (\A q \in Recs \ {r} : row'[q] = row[q]) /\ unsaved \subseteq unsaved'
  BY DEF Settles
<1>8. CASE ExpireBeforeStart(w) \/ CannotCapture(w)
  BY <1>3, <1>4, <1>7, <1>8 DEF ExpireBeforeStart, CannotCapture
<1>9. CASE WriteStarting(w)
  <2>1. CASE DbFails(r)
    BY <1>3, <1>6, <1>7, <2>1
  <2>2. CASE ~ DbFails(r)
    BY <1>0, <1>3, <1>5, <1>9, <2>2 DEF WriteStarting, Owns, OwnerPc, WorkerPc, WorkerState
  <2>3. QED BY <2>1, <2>2
<1>10. CASE WriteRunning(w)
  <2>1. CASE DbFails(r)
    BY <1>3, <1>6, <1>7, <2>1
  <2>2. CASE ~ DbFails(r)
    BY <1>0, <1>3, <1>5, <1>10, <2>2 DEF WriteRunning, Owns, OwnerPc, WorkerPc, WorkerState
  <2>3. QED BY <2>1, <2>2
<1>11. CASE Register(w) \/ NoTimeLeft(w) \/ WriteMedia(w) \/ RetryWait(w)
  BY <1>0, <1>3, <1>11
     DEF Register, NoTimeLeft, WriteMedia, RetryWait, Goto, Owns, OwnerPc, WorkerPc, WorkerState
<1>12. CASE BeginAttempt(w) \/ OpenFails(w)
  BY <1>0, <1>3, <1>12 DEF BeginAttempt, OpenFails, Owns, OwnerPc, WorkerPc, WorkerState
<1>13. CASE \E ok \in BOOLEAN : AttemptEnds(w, ok)
  BY <1>0, <1>3, <1>13 DEF AttemptEnds, Owns, OwnerPc, WorkerPc, WorkerState
<1>14. CASE Reload(w)
  <2>1. CASE DbFails(r)
    BY <1>3, <1>6, <1>7, <2>1
  <2>2. CASE ~ Exists(r) /\ UNCHANGED <<row, unsaved>>
    BY <1>3, <2>2 DEF Settles, Exists, Status
  <2>3. CASE ~ DbFails(r) /\ Exists(r)
    BY <1>0, <1>3, <1>14, <2>3 DEF Reload, Owns, OwnerPc, WorkerPc, WorkerState
  <2>4. QED BY <1>14, <2>1, <2>2, <2>3 DEF Reload
<1>15. CASE \E remuxed \in BOOLEAN : Finalize(w, remuxed)
  BY <1>3, <1>7, <1>15, FinalizeType
<1>16. CASE Cleanup(w)
  BY <1>3, <1>16 DEF Cleanup, Owns, OwnerPc
<1>17. QED BY <1>8, <1>9, <1>10, <1>11, <1>12, <1>13, <1>14, <1>15, <1>16 DEF WorkerStep

\* A request writes no active status.
LEMMA ClientRows ==
    ASSUME TypeOK, NEW c \in Clients, ClientStep(c), NEW r \in Recs,
           row'[r].status \in ActiveStatus
    PROVE  row'[r] = row[r]
<1>1. /\ row \in [Recs -> Row] /\ client[c].snap \in Row
  BY DEF TypeOK, ClientState
<1>2. CASE CancelWrite(c)
  <2> DEFINE new == [client[c].snap EXCEPT !.status = "cancelled", !.err = "none"]
  <2>1. new.status = "cancelled" /\ DbUpdate(client[c].rec, new)
    BY <1>1, <1>2 DEF CancelWrite, Row
  <2> HIDE DEF new
  <2>2. QED BY <1>1, <2>1 DEF DbUpdate, ActiveStatus
<1>3. CASE DeleteRow(c)
  BY <1>1, <1>3 DEF DeleteRow, ActiveStatus, Row
<1>4. CASE \E q \in Recs : Create(c, q)
  BY <1>1, <1>4, NullShapes DEF Create, ActiveStatus
<1>5. CASE UNCHANGED row
  BY <1>5
<1>6. QED
  BY <1>2, <1>3, <1>4, <1>5
     DEF ClientStep, MaybeStart, CancelSignal, DeleteFile, RequestFails, CancelGet, DeleteGet

\* No recording is shown as starting or running for ever: whatever the poll, the
\* API, a restart and the captures do, an active row has a goroutine that will
\* still write it, unless the database failed that recording: startRecording and
\* MarkStaleActiveAsFailed.
THEOREM OwnedRowsTheorem == Spec => []OwnedRows
<1>1. Init => OwnedRows
  BY DEF Init, OwnedRows
<1>2. TypeOK /\ OwnedRows /\ [Next]_vars => OwnedRows'
  <2> SUFFICES ASSUME TypeOK, OwnedRows, [Next]_vars, proc' # "down",
                      NEW r \in Recs \ unsaved', row'[r].status \in ActiveStatus
               PROVE  \E w \in Workers : Owns(w, r)'
    BY DEF OwnedRows, Owns
  <2>1. ASSUME proc # "down", unsaved \subseteq unsaved', row'[r] = row[r]
        PROVE  \E w \in Workers : Owns(w, r)
    BY <2>1 DEF OwnedRows, Owns
  <2>2. CASE Boot
    BY <2>2, RowShapes DEF Boot, TypeOK
  <2>3. CASE Exit \/ Crash
    BY <2>3 DEF Exit, Crash, Lost
  <2>4. CASE /\ proc # "down"
             /\ UNCHANGED <<row, worker, unsaved>>
    BY <2>1, <2>4 DEF Owns
  <2>5. ASSUME NEW q \in Recs, Tick(q) PROVE \E w \in Workers : Owns(w, r)'
    BY <2>1, <2>5 DEF Tick, Owns
  <2>6. ASSUME NEW q \in Recs, Materialise(q) PROVE \E w \in Workers : Owns(w, r)'
    <3>1. row'[r] = row[r]
      BY <2>6, NullShapes DEF Materialise, TypeOK, ActiveStatus
    <3>2. QED BY <2>1, <2>6, <3>1 DEF Materialise, Owns
  <2>7. ASSUME NEW q \in Recs, PollNext(q) PROVE \E w \in Workers : Owns(w, r)'
    <3>1. PICK w \in Workers : Owns(w, r)
      BY <2>1, <2>7 DEF PollNext
    <3>2. worker'[w] = worker[w]
      BY <2>7, <3>1, SpawnKeeps DEF PollNext, Owns, OwnerPc
    <3>3. QED BY <3>1, <3>2 DEF Owns
  <2>8. ASSUME NEW w \in Workers, WorkerStep(w) PROVE \E x \in Workers : Owns(x, r)'
    <3>1. CASE Owns(w, r)'
      BY <3>1
    <3>2. CASE worker[w].rec = r /\ ~ Owns(w, r)' /\ ~ Settles(r)
      <4>1. ~ Owns(w, r) /\ row' = row /\ unsaved \subseteq unsaved' /\ proc' = proc
        BY <2>8, <3>2, OwnershipShapes
      <4>2. PICK x \in Workers : Owns(x, r)
        BY <2>1, <4>1
      <4>3. QED BY <2>8, <4>1, <4>2, OthersUntouched DEF Owns
    <3>3. CASE worker[w].rec # r
      <4>1. row'[r] = row[r] /\ unsaved \subseteq unsaved' /\ proc' = proc
        BY <2>8, <3>3, OwnershipShapes
      <4>2. PICK x \in Workers : Owns(x, r)
        BY <2>1, <4>1
      <4>3. QED BY <2>8, <3>3, <4>2, OthersUntouched DEF Owns
    <3>4. ~ Settles(r)
      BY DEF Settles
    <3>5. QED BY <3>1, <3>2, <3>3, <3>4
  <2>9. ASSUME NEW c \in Clients, ClientStep(c) PROVE \E x \in Workers : Owns(x, r)'
    <3>1. row'[r] = row[r] /\ proc' = proc /\ unsaved' = unsaved
      BY <2>9, ClientRows
         DEF ClientStep, UnchangedByClient, MaybeStart, CancelWrite, CancelSignal, DeleteFile,
             DeleteRow, RequestFails, Create, CancelGet, DeleteGet
    <3>2. PICK x \in Workers : Owns(x, r)
      BY <2>1, <3>1
    <3>3. QED BY <2>9, <3>2, ClientKeepsWorkers DEF Owns, OwnerPc
  <2>10. QED
    BY <2>2, <2>3, <2>4, <2>5, <2>6, <2>7, <2>8, <2>9
       DEF Next, vars, Stop, PollList, PollExit
<1>3. QED BY <1>1, <1>2, TypeCorrect, PTL DEF Spec

-----------------------------------------------------------------------------
(* The file of a retried capture.                                           *)

\* Only the final write leads from the reloaded row to the clean-up.
LEMMA FinalStep ==
    ASSUME TypeOK, Next, NEW w \in Workers,
           worker[w].pc = "reloaded", worker'[w].pc = "cleanup"
    PROVE  \E remuxed \in BOOLEAN : Finalize(w, remuxed)
<1>1. CASE Exit \/ Crash
  BY <1>1, NullShapes DEF Exit, Crash, Lost
<1>2. ASSUME NEW r \in Recs, PollNext(r) PROVE FALSE
  <2>1. worker'[w].pc = worker[w].pc
    BY <1>2, SpawnKeeps DEF PollNext
  <2>2. QED BY <2>1
<1>3. ASSUME NEW c \in Clients, ClientStep(c) PROVE FALSE
  <2>1. worker'[w].pc = worker[w].pc
    BY <1>3, ClientKeepsWorkers
  <2>2. QED BY <2>1
<1>4. ASSUME NEW x \in Workers, x # w, WorkerStep(x) PROVE FALSE
  BY <1>4, OthersUntouched
<1>5. CASE WorkerStep(w)
  BY <1>5 DEF WorkerStep, ExpireBeforeStart, WriteStarting, CannotCapture, WriteRunning,
              Register, BeginAttempt, OpenFails, NoTimeLeft, WriteMedia, AttemptEnds,
              RetryWait, Reload, Cleanup
<1>6. CASE UNCHANGED worker
  BY <1>6
<1>7. QED
  BY <1>1, <1>2, <1>3, <1>4, <1>5, <1>6
     DEF Next, Boot, Stop, PollList, PollExit, Tick, Materialise

\* A capture that spanned a retry leaves one timeline or an error in its row,
\* whichever way it ended: repairRecordingOutput before the last Update.
THEOREM RetryTheorem == Spec => RetriedFileIsRepaired
<1> DEFINE Ended(w) ==
        /\ worker[w].pc = "reloaded" /\ worker'[w].pc = "cleanup"
        /\ worker[w].att > 1
        /\ worker[w].rec \notin unsaved' /\ Exists(worker[w].rec) /\ worker[w].snap.path
        /\ OnPath(PathOf[worker[w].rec], OwnerPc) = {w}
           Good(w) == \/ file'[PathOf[worker[w].rec]] # "spliced"
                      \/ row'[worker[w].rec].err = "error"
<1>1. ASSUME TypeOK, Next, NEW w \in Workers, Ended(w) PROVE Good(w)
  <2> DEFINE r == worker[w].rec
             p == PathOf[r]
             v == worker[w].snap
             brokenOff == v.status = "cancelled" \/ worker[w].cut
             repairs == brokenOff \/ worker[w].att > 1
  <2>1. PICK remuxed \in BOOLEAN : Finalize(w, remuxed)
    BY <1>1, FinalStep
  <2>2. /\ worker \in [Workers -> WorkerState] /\ v \in Row /\ row \in [Recs -> Row]
        /\ r \in Recs /\ p \in Paths /\ file \in [Paths -> FileState]
        /\ worker[w].cut \in BOOLEAN
    <3>1. worker[w] \in WorkerState /\ r \in Recs
      BY <1>1 DEF TypeOK
    <3>2. QED BY <1>1, <3>1, RecordingsAssumption DEF TypeOK, WorkerState
  <2>3. repairs
    BY <1>1
  <2>4. CASE ~ HasMedia(v, p)
    <3>1. file' = file
      BY <2>1, <2>4 DEF Finalize
    <3>2. file[p] # "spliced"
      BY <1>1, <2>4 DEF HasMedia
    <3>3. QED BY <3>1, <3>2
  <2>5. CASE HasMedia(v, p) /\ remuxed
    <3>1. Repaired(v, p, remuxed)
      BY <2>1, <2>3, <2>5 DEF Finalize
    <3>2. file'[p] # "spliced"
      BY <2>2, <2>5, <3>1 DEF Repaired
    <3>3. QED BY <3>2
  <2>6. CASE HasMedia(v, p) /\ ~ remuxed
    <3> DEFINE sized == [v EXCEPT !.size = \/ HasMedia(v, p)
                                           \/ @ /\ (brokenOff \/ ~ v.path \/ file[p] = "none")]
               broken == repairs /\ HasMedia(v, p) /\ ~ remuxed
               new == CASE v.status = "cancelled" ->
                             [sized EXCEPT !.err = IF broken THEN "error" ELSE @]
                        [] v.status # "cancelled" /\ worker[w].cut -> Failed(sized)
                        [] v.status # "cancelled" /\ ~ worker[w].cut
                             /\ sized.size /\ ~ worker[w].err /\ ~ broken ->
                             [sized EXCEPT !.status = "completed", !.err = "none"]
                        [] OTHER -> Failed(sized)
    <3>1. Save(w, new)
      BY <2>1 DEF Finalize
    <3>2. broken
      BY <2>3, <2>6
    <3>3. sized \in Row
      BY <2>2, <2>6 DEF Row, HasMedia
    <3> HIDE DEF broken, sized
    <3>4. new.err = "error"
      <4>1. CASE v.status = "cancelled"
        <5>1. new = [sized EXCEPT !.err = "error"]
          BY <3>2, <4>1
        <5>2. QED BY <3>3, <5>1 DEF Row
      <4>2. CASE v.status # "cancelled"
        <5>1. new = Failed(sized)
          BY <2>2, <3>2, <4>2
        <5>2. QED BY <3>3, <5>1 DEF Failed, Row
      <4>3. QED BY <4>1, <4>2
    <3> HIDE DEF new
    <3>5. DbUpdate(r, new)
      BY <1>1, <3>1 DEF Save, DbFails
    <3>6. row'[r] = new
      BY <1>1, <2>2, <3>5 DEF DbUpdate, Exists
    <3>7. QED BY <3>4, <3>6
  <2>7. QED BY <2>4, <2>5, <2>6
<1>2. TypeOK /\ [Next]_vars =>
        [\A w \in Workers :
           LET r == worker[w].rec
               p == PathOf[r] IN
           (/\ worker[w].pc = "reloaded" /\ worker'[w].pc = "cleanup"
            /\ worker[w].att > 1
            /\ r \notin unsaved' /\ Exists(r) /\ worker[w].snap.path
            /\ OnPath(p, OwnerPc) = {w})
           => (file'[p] # "spliced" \/ row'[r].err = "error")]_vars
  BY <1>1
<1>3. QED BY <1>2, TypeCorrect, PTL DEF Spec, RetriedFileIsRepaired

-----------------------------------------------------------------------------
(* A cancel that found the capture.                                         *)

\* Where the goroutine of a sealed recording can be: before its reload, or with a
\* copy that says cancelled.
SealedPc == CapturePc \cup {"finished", "interrupted", "cleanup"}

\* After the seal nobody holds a copy of the row from before the cancel.
SealedOK ==
    \A r \in sealed :
        /\ row[r].status \in {"cancelled", "deleted"}
        /\ poll.due[r] = NoRow
        /\ \A d \in Clients : client[d].pc # "idle" /\ client[d].rec = r
                                => client[d].pc \in {"deleteFile", "deleteRow"}
        /\ \A w \in Workers : Live(w, r)
                                => \/ worker[w].pc \in SealedPc
                                   \/ /\ worker[w].pc = "reloaded"
                                      /\ worker[w].snap.status = "cancelled"

\* What the final write makes of a copy that says cancelled.
LEMMA FinalizeCancelled ==
    ASSUME TypeOK, NEW w \in Workers, NEW remuxed \in BOOLEAN, Finalize(w, remuxed),
           worker[w].snap.status = "cancelled", NEW r \in Recs, r = worker[w].rec,
           row[r].status \in {"cancelled", "deleted"}
    PROVE  row'[r].status \in {"cancelled", "deleted"}
<1> DEFINE p == PathOf[r]
           v == worker[w].snap
           brokenOff == v.status = "cancelled" \/ worker[w].cut
           repairs == brokenOff \/ worker[w].att > 1
           sized == [v EXCEPT !.size = \/ HasMedia(v, p)
                                       \/ @ /\ (brokenOff \/ ~ v.path \/ file[p] = "none")]
           broken == repairs /\ HasMedia(v, p) /\ ~ remuxed
           new == [sized EXCEPT !.err = IF broken THEN "error" ELSE @]
<1>1. v \in Row /\ row \in [Recs -> Row]
  BY DEF TypeOK, WorkerState
<1>2. Save(w, new)
  BY DEF Finalize
<1>3. sized.status = "cancelled" /\ DOMAIN sized = DOMAIN v
  BY <1>1 DEF Row
<1> HIDE DEF sized, broken
<1>4. new.status = "cancelled"
  BY <1>3
<1> HIDE DEF new
<1>5. QED BY <1>1, <1>2, <1>4 DEF Save, DbUpdate, DbFails

LEMMA SealedWorker ==
    ASSUME TypeOK, SealedOK, NEW w \in Workers, WorkerStep(w)
    PROVE  SealedOK'
<1>1. /\ poll' = poll /\ client' = client /\ sealed' = sealed
      /\ worker[w].pc # "idle"
  BY DEF WorkerStep, UnchangedByWorker, ExpireBeforeStart, WriteStarting, CannotCapture,
         WriteRunning, Register, BeginAttempt, OpenFails, NoTimeLeft, WriteMedia,
         AttemptEnds, RetryWait, Reload, Finalize, Cleanup
<1>2. /\ worker \in [Workers -> WorkerState] /\ row \in [Recs -> Row]
      /\ sealed \subseteq Recs /\ worker[w].rec \in Recs
  BY <1>1 DEF TypeOK
<1>3. ASSUME NEW r \in sealed
      PROVE  /\ row'[r].status \in {"cancelled", "deleted"}
             /\ Live(w, r)' => \/ worker'[w].pc \in SealedPc
                               \/ /\ worker'[w].pc = "reloaded"
                                  /\ worker'[w].snap.status = "cancelled"
  <2>1. row[r].status \in {"cancelled", "deleted"} /\ r \in Recs
    BY <1>2 DEF SealedOK
  <2>2. CASE worker[w].rec # r
    <3>1. row'[r] = row[r]
      BY <2>1, <2>2, OwnershipShapes
    <3>2. ~ Live(w, r)'
      BY <2>2, StepShapes DEF Live, Moves
    <3>3. QED BY <2>1, <3>1, <3>2
  <2>3. CASE worker[w].rec = r
    <3>1. \/ worker[w].pc \in SealedPc
          \/ worker[w].pc = "reloaded" /\ worker[w].snap.status = "cancelled"
      BY <1>1, <2>3 DEF SealedOK, Live
    <3> USE <1>2 DEF SealedPc, CapturePc, WorkerState
    <3>2. CASE \/ BeginAttempt(w) \/ OpenFails(w) \/ NoTimeLeft(w) \/ WriteMedia(w)
               \/ RetryWait(w) \/ \E ok \in BOOLEAN : AttemptEnds(w, ok)
      BY <2>1, <3>2 DEF BeginAttempt, OpenFails, NoTimeLeft, WriteMedia, RetryWait,
                        AttemptEnds, Goto
    <3>3. CASE Reload(w)
      <4>1. row' = row
        BY <3>3 DEF Reload, DbFails
      <4>2. CASE Leave(w)
        BY <2>1, <4>1, <4>2 DEF Leave, IdleWorker
      <4>3. CASE ~ Leave(w)
        <5>1. Exists(r) /\ worker'[w].pc = "reloaded" /\ worker'[w].snap = row[r]
          BY <2>3, <3>3, <4>3 DEF Reload
        <5>2. row[r].status = "cancelled"
          BY <2>1, <5>1 DEF Exists, Status, ActiveStatus, TerminalStatus
        <5>3. QED BY <2>1, <4>1, <5>1, <5>2
      <4>4. QED BY <4>2, <4>3
    <3>4. CASE \E remuxed \in BOOLEAN : Finalize(w, remuxed)
      <4>1. worker'[w].pc = "cleanup"
        BY <3>4 DEF Finalize, Leave, IdleWorker
      <4>2. worker[w].snap.status = "cancelled"
        BY <3>1, <3>4 DEF Finalize
      <4>3. row'[r].status \in {"cancelled", "deleted"}
        BY <2>1, <2>3, <3>4, <4>2, FinalizeCancelled
      <4>4. QED BY <4>1, <4>3
    <3>5. CASE Cleanup(w)
      BY <2>1, <3>5, NullShapes DEF Cleanup, Finish, Live
    <3>6. QED
      BY <3>1, <3>2, <3>3, <3>4, <3>5
         DEF WorkerStep, ExpireBeforeStart, WriteStarting, CannotCapture, WriteRunning,
             Register
  <2>4. QED BY <2>2, <2>3
<1>4. \A x \in Workers \ {w} : worker'[x] = worker[x]
  BY OthersUntouched
<1>5. QED BY <1>1, <1>3, <1>4 DEF SealedOK, Live

LEMMA SealedClient ==
    ASSUME TypeOK, RegistryPointsAtCapture, SealedOK, NEW c \in Clients, ClientStep(c)
    PROVE  SealedOK'
<1>1. /\ poll' = poll /\ client \in [Clients -> ClientState] /\ row \in [Recs -> Row]
      /\ sealed \subseteq Recs /\ worker \in [Workers -> WorkerState]
  BY DEF TypeOK, ClientStep, UnchangedByClient, MaybeStart, CancelWrite, CancelSignal,
         DeleteFile, DeleteRow, RequestFails, Create, CancelGet, DeleteGet
<1>2. \A d \in Clients \ {c} : client'[d] = client[d]
  BY <1>1 DEF ClientStep, MaybeStart, CancelWrite, CancelSignal, DeleteFile, DeleteRow,
              RequestFails, Create, CancelGet, DeleteGet, ClientGoto, ClientDone
\* What the step does to a recording that was sealed before.
<1> DEFINE Kept(r) ==
        /\ row'[r].status \in {"cancelled", "deleted"}
        /\ client'[c].pc # "idle" /\ client'[c].rec = r
             => client'[c].pc \in {"deleteFile", "deleteRow"}
        /\ \A w \in Workers : Live(w, r)'
             => \/ Live(w, r)
                   /\ worker'[w].pc = worker[w].pc /\ worker'[w].snap = worker[w].snap
<1>3. ASSUME NEW r \in sealed PROVE Kept(r)
  <2>1. /\ row[r].status \in {"cancelled", "deleted"} /\ r \in Recs
        /\ client[c].pc # "idle" /\ client[c].rec = r
             => client[c].pc \in {"deleteFile", "deleteRow"}
    BY <1>1 DEF SealedOK
  <2>2. CASE MaybeStart(c)
    <3>1. client[c].rec # r /\ client'[c] = IdleClient /\ row' = row
      BY <1>1, <2>1, <2>2 DEF MaybeStart, ClientDone
    <3>2. ASSUME NEW w \in Workers, Live(w, r)' PROVE worker'[w] = worker[w]
      <4>1. CASE UNCHANGED worker
        BY <4>1
      <4>2. CASE Spawn(client[c].rec, client[c].snap)
        <5>1. PICK x \in Workers :
                 worker' = [worker EXCEPT ![x] =
                             [IdleWorker EXCEPT !.pc = "spawned", !.rec = client[c].rec,
                                                !.snap = client[c].snap]]
          BY <4>2 DEF Spawn
        <5>2. w # x
          BY <1>1, <3>1, <3>2, <5>1 DEF Live, IdleWorker
        <5>3. QED BY <1>1, <5>1, <5>2
      <4>3. QED BY <2>2, <4>1, <4>2 DEF MaybeStart
    <3>3. QED BY <2>1, <3>1, <3>2 DEF IdleClient, Live
  <2>3. CASE CancelWrite(c)
    <3>1. client[c].rec # r
      BY <2>1, <2>3 DEF CancelWrite
    <3>2. row'[r] = row[r]
      BY <1>1, <2>1, <2>3, <3>1 DEF CancelWrite, DbUpdate
    <3>3. worker' = worker /\ client'[c].pc # "idle" => client'[c].rec = client[c].rec
      BY <1>1, <2>3 DEF CancelWrite, ClientGoto, ClientDone, ClientState, IdleClient
    <3>4. worker' = worker
      BY <2>3 DEF CancelWrite
    <3>5. QED BY <2>1, <3>1, <3>2, <3>3, <3>4 DEF Live
  <2>4. CASE CancelSignal(c)
    <3>1. client'[c] = IdleClient /\ row' = row
      BY <1>1, <2>4 DEF CancelSignal, ClientDone
    <3>2. \A w \in Workers : /\ worker'[w].pc = worker[w].pc /\ worker'[w].rec = worker[w].rec
                             /\ worker'[w].snap = worker[w].snap
      BY <1>1, <2>4 DEF CancelSignal, WorkerState
    <3>3. QED BY <2>1, <3>1, <3>2 DEF IdleClient, Live
  <2>5. CASE DeleteFile(c)
    BY <1>1, <2>1, <2>5 DEF DeleteFile, ClientGoto, ClientState, Live
  <2>6. CASE DeleteRow(c)
    <3>1. row'[r].status \in {"cancelled", "deleted"}
      BY <1>1, <2>1, <2>6 DEF DeleteRow, Row
    <3>2. client'[c] = IdleClient /\ worker' = worker
      BY <1>1, <2>6 DEF DeleteRow, ClientDone
    <3>3. QED BY <3>1, <3>2 DEF IdleClient, Live
  <2>7. CASE RequestFails(c)
    BY <1>1, <2>1, <2>7 DEF RequestFails, ClientDone, IdleClient, Live
  <2>8. ASSUME NEW q \in Recs, Create(c, q) PROVE Kept(r)
    <3>1. q # r
      BY <2>1, <2>8 DEF Create
    <3>2. row'[r] = row[r] /\ client'[c].rec = q /\ worker' = worker
      BY <1>1, <2>1, <2>8, <3>1 DEF Create
    <3>3. QED BY <2>1, <3>1, <3>2 DEF Live
  <2>9. ASSUME NEW q \in Recs, CancelGet(c, q) PROVE Kept(r)
    <3>1. row' = row /\ worker' = worker
      BY <2>9 DEF CancelGet
    <3>2. CASE client'[c] = IdleClient
      BY <2>1, <3>1, <3>2 DEF IdleClient, Live
    <3>3. CASE client'[c] # IdleClient
      <4>1. row[q].status \in {"pending"} \cup ActiveStatus /\ client'[c].rec = q
        BY <1>1, <2>9, <3>3 DEF CancelGet, ClientDone
      <4>2. q # r
        BY <2>1, <4>1 DEF ActiveStatus
      <4>3. QED BY <2>1, <3>1, <4>1, <4>2 DEF Live
    <3>4. QED BY <3>2, <3>3
  <2>10. ASSUME NEW q \in Recs, DeleteGet(c, q) PROVE Kept(r)
    <3>1. row' = row /\ worker' = worker /\ client'[c].rec = q
      BY <1>1, <2>10 DEF DeleteGet
    <3>2. CASE q # r
      BY <2>1, <3>1, <3>2 DEF Live
    <3>3. CASE q = r
      <4>1. client'[c].pc \in {"deleteFile", "deleteRow"}
        BY <1>1, <2>1, <2>10, <3>3 DEF DeleteGet
      <4>2. QED BY <2>1, <3>1, <4>1 DEF Live
    <3>4. QED BY <3>2, <3>3
  <2>11. QED
    BY <2>2, <2>3, <2>4, <2>5, <2>6, <2>7, <2>8, <2>9, <2>10 DEF ClientStep
<1> HIDE DEF Kept
<1>4. ASSUME NEW r \in sealed
      PROVE  /\ row'[r].status \in {"cancelled", "deleted"}
             /\ poll'.due[r] = NoRow
             /\ \A d \in Clients : client'[d].pc # "idle" /\ client'[d].rec = r
                                     => client'[d].pc \in {"deleteFile", "deleteRow"}
             /\ \A w \in Workers : Live(w, r)'
                                     => \/ worker'[w].pc \in SealedPc
                                        \/ /\ worker'[w].pc = "reloaded"
                                           /\ worker'[w].snap.status = "cancelled"
  <2>1. Kept(r)
    BY <1>3
  <2>2. \A w \in Workers : Live(w, r)'
           => \/ worker'[w].pc \in SealedPc
              \/ worker'[w].pc = "reloaded" /\ worker'[w].snap.status = "cancelled"
    BY <2>1 DEF Kept, SealedOK
  <2>3. \A d \in Clients : client'[d].pc # "idle" /\ client'[d].rec = r
           => client'[d].pc \in {"deleteFile", "deleteRow"}
    BY <1>2, <2>1 DEF Kept, SealedOK
  <2>4. poll'.due[r] = NoRow /\ row'[r].status \in {"cancelled", "deleted"}
    BY <1>1, <2>1 DEF Kept, SealedOK
  <2>5. QED BY <2>2, <2>3, <2>4
\* A recording is sealed by the signal that finds its capture.
<1>5. ASSUME NEW r \in sealed', r \notin sealed
      PROVE  /\ row'[r].status \in {"cancelled", "deleted"}
             /\ poll'.due[r] = NoRow
             /\ \A d \in Clients : client'[d].pc # "idle" /\ client'[d].rec = r
                                     => client'[d].pc \in {"deleteFile", "deleteRow"}
             /\ \A w \in Workers : Live(w, r)' => worker'[w].pc \in SealedPc
  <2>1. CancelSignal(c)
    BY <1>5 DEF ClientStep, MaybeStart, CancelWrite, DeleteFile, DeleteRow, RequestFails,
                Create, CancelGet, DeleteGet
  <2>2. /\ r = client[c].rec /\ active[r] # None /\ row[r].status = "cancelled"
        /\ worker[active[r]].pc \in {"attempt", "capturing", "recording", "retrying",
                                     "finished", "interrupted"}
        /\ ~ HeldElsewhere(r, c, {active[r]})
        /\ client'[c] = IdleClient /\ row' = row
    BY <1>1, <1>5, <2>1 DEF CancelSignal, ClientDone
  <2>3. \A w \in Workers : worker'[w].pc = worker[w].pc /\ worker'[w].rec = worker[w].rec
    BY <2>1, SignalKeeps
  <2>4. \A w \in Workers : Live(w, r)' => worker'[w].pc \in SealedPc
    BY <2>2, <2>3 DEF HeldElsewhere, Live, SealedPc, CapturePc
  <2>5. \A d \in Clients : ~(client'[d].pc # "idle" /\ client'[d].rec = r)
    BY <1>2, <2>2 DEF HeldElsewhere, IdleClient
  <2>6. poll'.due[r] = NoRow
    BY <1>1, <2>2 DEF HeldElsewhere
  <2>7. QED BY <2>2, <2>4, <2>5, <2>6
<1>6. QED BY <1>4, <1>5 DEF SealedOK

LEMMA SealedInvariant == Spec => []SealedOK
<1>1. Init => SealedOK
  BY DEF Init, SealedOK
<1>2. TypeOK /\ RegistryPointsAtCapture /\ SealedOK /\ [Next]_vars => SealedOK'
  <2> SUFFICES ASSUME TypeOK, RegistryPointsAtCapture, SealedOK, [Next]_vars
               PROVE  SealedOK'
    OBVIOUS
  <2>1. /\ row \in [Recs -> Row] /\ sealed \subseteq Recs
        /\ worker \in [Workers -> WorkerState]
        /\ \A r \in sealed : row[r].status \in {"cancelled", "deleted"}
    BY DEF TypeOK, SealedOK
  <2>2. CASE Boot
    <3>1. \A r \in sealed : row'[r] = row[r]
      <4>1. \A r \in sealed : FailedIfStale(row[r]) = row[r]
        BY <2>1 DEF FailedIfStale, ActiveStatus
      <4>2. QED BY <2>1, <2>2, <4>1 DEF Boot
    <3>2. poll'.due = poll.due
      BY <2>2 DEF Boot, TypeOK, PollState
    <3>3. QED BY <2>2, <3>1, <3>2 DEF Boot, SealedOK, Live
  <2>3. CASE Exit \/ Crash
    BY <2>1, <2>3 DEF Exit, Crash, Lost, SealedOK, Live, PollOff, IdleWorker, IdleClient
  <2>4. CASE PollList
    <3>1. \A r \in sealed : poll'.due[r] = NoRow
      BY <2>1, <2>4 DEF PollList, Due
    <3>2. QED BY <2>4, <3>1 DEF PollList, SealedOK, Live
  <2>5. CASE PollExit
    BY <2>1, <2>5 DEF PollExit, PollOff, SealedOK, Live
  <2>6. ASSUME NEW r \in Recs, Materialise(r) PROVE SealedOK'
    <3>1. \A q \in sealed : row'[q] = row[q]
      BY <2>1, <2>6 DEF Materialise
    <3>2. QED BY <2>6, <3>1 DEF Materialise, SealedOK, Live
  <2>7. ASSUME NEW r \in Recs, PollNext(r) PROVE SealedOK'
    <3>1. \A q \in sealed : q # r /\ poll'.due[q] = NoRow
      BY <2>1, <2>7 DEF PollNext, SealedOK, TypeOK, PollState
    <3>2. ASSUME NEW q \in sealed, NEW w \in Workers, Live(w, q)'
          PROVE  worker'[w] = worker[w]
      <4>1. CASE UNCHANGED worker
        BY <4>1
      <4>2. CASE Spawn(r, poll.due[r])
        <5>1. PICK x \in Workers :
                 worker' = [worker EXCEPT ![x] =
                             [IdleWorker EXCEPT !.pc = "spawned", !.rec = r,
                                                !.snap = poll.due[r]]]
          BY <4>2 DEF Spawn
        <5>2. w # x
          BY <2>1, <3>1, <3>2, <5>1 DEF Live, IdleWorker
        <5>3. QED BY <2>1, <5>1, <5>2
      <4>3. QED BY <2>7, <4>1, <4>2 DEF PollNext
    <3>3. row' = row /\ client' = client /\ sealed' = sealed
      BY <2>7 DEF PollNext
    <3>4. QED BY <3>1, <3>2, <3>3 DEF SealedOK, Live
  <2>8. ASSUME NEW w \in Workers, WorkerStep(w) PROVE SealedOK'
    BY <2>8, SealedWorker
  <2>9. ASSUME NEW c \in Clients, ClientStep(c) PROVE SealedOK'
    BY <2>9, SealedClient
  <2>10. CASE UNCHANGED <<row, poll, client, worker, sealed>>
    BY <2>10 DEF SealedOK, Live
  <2>11. QED
    BY <2>2, <2>3, <2>4, <2>5, <2>6, <2>7, <2>8, <2>9, <2>10 DEF Next, vars, Stop, Tick
<1>3. QED BY <1>1, <1>2, TypeCorrect, RegistryTheorem, PTL DEF Spec

\* A Cancel that found the capture registered sticks, for any number of goroutines,
\* requests, crashes and failed calls: the reload before startRecording's last Update.
THEOREM CancelTheorem == Spec => []SignalledCancelSticks
<1>1. SealedOK => SignalledCancelSticks
  BY DEF SealedOK, SignalledCancelSticks
<1>2. QED BY <1>1, SealedInvariant, PTL

-----------------------------------------------------------------------------
(* What becomes of the capture that was signalled.                          *)

\* A recording is sealed when Cancel signalled it and nobody else held it. Every goroutine
\* it has later has had its cancel function called, or has only its deferred clean-up
\* left: nobody starts another one.
SealedCaptureIsKilled ==
    \A r \in sealed : \A w \in Workers :
        Live(w, r) => worker[w].killed \/ worker[w].pc = "cleanup"

\* After a Cancel that found the capture, no goroutine starts for the recording and
\* none adds media to a file: maybeStartRecordingImmediately and runDueRecordings
\* against Cancel, and the ctx of runRecordingAttempt.
NothingRecordedAfterSeal ==
    [][\A r \in sealed : \A w \in Workers :
         /\ Live(w, r)' => Live(w, r)
         /\ Live(w, r) => ~ (worker[w].pc = "capturing" /\ worker'[w].pc = "recording")]_vars

\* A goroutine's own step leaves its signal in place until only the clean-up is left,
\* and records only without it.
LEMMA SignalStays ==
    ASSUME TypeOK, NEW w \in Workers, WorkerStep(w)
    PROVE  /\ worker'[w].pc \in {"idle", "cleanup"} \/ worker'[w].killed = worker[w].killed
           /\ worker[w].pc = "cleanup" => worker'[w].pc = "idle"
           /\ worker[w].killed => ~ (worker[w].pc = "capturing" /\ worker'[w].pc = "recording")
<1>1. worker \in [Workers -> WorkerState]
  BY DEF TypeOK
<1> USE <1>1 DEF WorkerState
<1>2. CASE ExpireBeforeStart(w) \/ WriteStarting(w) \/ CannotCapture(w) \/ WriteRunning(w)
  BY <1>2, NullShapes DEF ExpireBeforeStart, WriteStarting, CannotCapture, WriteRunning, Finish
<1>3. CASE Register(w) \/ NoTimeLeft(w) \/ RetryWait(w)
  BY <1>3 DEF Register, NoTimeLeft, RetryWait, Goto
<1>4. CASE BeginAttempt(w) \/ OpenFails(w)
  BY <1>4 DEF BeginAttempt, OpenFails
<1>5. CASE WriteMedia(w)
  BY <1>5 DEF WriteMedia, Goto, Cancelled
<1>6. CASE \E ok \in BOOLEAN : AttemptEnds(w, ok)
  BY <1>6 DEF AttemptEnds
<1>7. ASSUME Leave(w) PROVE worker'[w].pc = "cleanup"
  BY <1>7 DEF Leave, IdleWorker
<1>8. CASE Reload(w)
  BY <1>7, <1>8 DEF Reload
<1>9. CASE \E remuxed \in BOOLEAN : Finalize(w, remuxed)
  BY <1>7, <1>9 DEF Finalize
<1>10. CASE Cleanup(w)
  BY <1>10, NullShapes DEF Cleanup, Finish
<1>11. QED BY <1>2, <1>3, <1>4, <1>5, <1>6, <1>8, <1>9, <1>10 DEF WorkerStep

\* Starting the goroutine of one recording adds none to another.
LEMMA SpawnForAnother ==
    ASSUME TypeOK, NEW q \in Recs, NEW v \in Row, Spawn(q, v), NEW r \in Recs \ {q},
           NEW w \in Workers, Live(w, r)'
    PROVE  worker'[w] = worker[w]
<1>1. worker \in [Workers -> WorkerState]
  BY DEF TypeOK
<1>2. PICK x \in Workers :
         worker' = [worker EXCEPT ![x] =
                     [IdleWorker EXCEPT !.pc = "spawned", !.rec = q, !.snap = v]]
  BY DEF Spawn
<1>3. w # x
  BY <1>1, <1>2 DEF Live, IdleWorker
<1>4. QED BY <1>1, <1>2, <1>3

\* One step, as a goroutine of a recording sealed before it sees it: it was there
\* already, and its signal stays.
LEMMA SealedStep ==
    ASSUME TypeOK, SealedOK, [Next]_vars, NEW r \in sealed, NEW w \in Workers, Live(w, r)'
    PROVE  /\ Live(w, r)
           /\ worker[w].killed \/ worker[w].pc = "cleanup"
                => worker'[w].killed \/ worker'[w].pc = "cleanup"
<1>1. /\ r \in Recs /\ poll.due[r] = NoRow
      /\ \A c \in Clients : client[c].pc = "created" => client[c].rec # r
  BY DEF TypeOK, SealedOK
<1>2. CASE worker'[w] = worker[w]
  BY <1>2 DEF Live
<1>3. CASE Exit \/ Crash
  BY <1>3 DEF Exit, Crash, Lost, Live, IdleWorker
<1>4. ASSUME NEW q \in Recs, PollNext(q) PROVE worker'[w] = worker[w]
  <2>1. CASE UNCHANGED worker
    BY <2>1
  <2>2. CASE Spawn(q, poll.due[q])
    <3>1. q # r /\ poll.due[q] \in Row
      BY <1>1, <1>4 DEF PollNext, TypeOK, PollState
    <3>2. QED BY <1>1, <2>2, <3>1, SpawnForAnother
  <2>3. QED BY <1>4, <2>1, <2>2 DEF PollNext
<1>5. ASSUME NEW x \in Workers, WorkerStep(x) PROVE worker'[w] = worker[w] \/ x = w
  BY <1>5, OthersUntouched
<1>6. CASE WorkerStep(w)
  BY <1>6, SignalStays, StepShapes DEF Live, Moves, RegisteredPc, CapturePc
<1>7. ASSUME NEW c \in Clients, MaybeStart(c) PROVE worker'[w] = worker[w]
  <2>1. CASE UNCHANGED worker
    BY <2>1
  <2>2. CASE Spawn(client[c].rec, client[c].snap)
    <3>1. client[c].rec \in Recs \ {r} /\ client[c].snap \in Row
      BY <1>1, <1>7 DEF MaybeStart, TypeOK, ClientState
    <3>2. QED BY <1>1, <2>2, <3>1, SpawnForAnother
  <2>3. QED BY <1>7, <2>1, <2>2 DEF MaybeStart
<1>8. ASSUME NEW c \in Clients, CancelSignal(c)
      PROVE  /\ worker'[w].pc = worker[w].pc /\ worker'[w].rec = worker[w].rec
             /\ worker[w].killed => worker'[w].killed
  BY <1>8 DEF CancelSignal, TypeOK, WorkerState
<1>9. ASSUME NEW c \in Clients, ClientStep(c)
      PROVE  worker' = worker \/ MaybeStart(c) \/ CancelSignal(c)
  BY <1>9 DEF ClientStep, CancelWrite, DeleteFile, DeleteRow, RequestFails, Create,
              CancelGet, DeleteGet
<1>10. CASE \E c \in Clients : ClientStep(c)
  BY <1>2, <1>7, <1>8, <1>9, <1>10 DEF Live
<1>11. CASE UNCHANGED worker
  BY <1>2, <1>11
<1>12. Next => \/ Exit \/ Crash
               \/ UNCHANGED worker
               \/ \E q \in Recs : PollNext(q)
               \/ \E x \in Workers : WorkerStep(x)
               \/ \E c \in Clients : ClientStep(c)
  BY DEF Next, Boot, Stop, PollList, PollExit, Tick, Materialise
<1>13. QED BY <1>2, <1>3, <1>4, <1>5, <1>6, <1>10, <1>11, <1>12 DEF vars

\* The signal that seals a recording reaches the only goroutine it has.
LEMMA SealingStep ==
    ASSUME TypeOK, [Next]_vars, NEW r \in sealed', r \notin sealed,
           NEW w \in Workers, Live(w, r)'
    PROVE  worker'[w].killed
<1>1. PICK c \in Clients : CancelSignal(c)
  <2>1. ASSUME NEW x \in Workers, WorkerStep(x) PROVE sealed' = sealed
    BY <2>1 DEF WorkerStep, UnchangedByWorker, ExpireBeforeStart, WriteStarting,
                CannotCapture, WriteRunning, Register, BeginAttempt, OpenFails, NoTimeLeft,
                WriteMedia, AttemptEnds, RetryWait, Reload, Finalize, Cleanup
  <2>2. ASSUME NEW d \in Clients, ClientStep(d) PROVE sealed' = sealed \/ CancelSignal(d)
    BY <2>2 DEF ClientStep, MaybeStart, CancelWrite, DeleteFile, DeleteRow, RequestFails,
                Create, CancelGet, DeleteGet
  <2>3. \/ sealed' = sealed
        \/ \E x \in Workers : WorkerStep(x)
        \/ \E d \in Clients : ClientStep(d)
    BY DEF Next, vars, Boot, Stop, Exit, Crash, Lost, PollList, PollExit, Tick,
           Materialise, PollNext
  <2>4. QED BY <2>1, <2>2, <2>3
<1>2. /\ active[r] # None /\ ~ HeldElsewhere(r, c, {active[r]})
      /\ worker' = [worker EXCEPT ![active[r]].killed = TRUE]
  BY <1>1 DEF CancelSignal
<1>3. Live(w, r)
  BY <1>1, SignalKeeps DEF Live
<1>4. w = active[r]
  BY <1>2, <1>3 DEF HeldElsewhere
<1>5. QED BY <1>2, <1>4 DEF TypeOK, WorkerState

\* What is live of a sealed recording has been signalled: nothing was, but for the capture
\* that Cancel found, when the seal was set, and nothing comes alive later.
LEMMA SealedIsKilled == Spec => []SealedCaptureIsKilled
<1>1. Init => SealedCaptureIsKilled
  BY DEF Init, SealedCaptureIsKilled
<1>2. TypeOK /\ SealedOK /\ SealedCaptureIsKilled /\ [Next]_vars => SealedCaptureIsKilled'
  <2> SUFFICES ASSUME TypeOK, SealedOK, SealedCaptureIsKilled, [Next]_vars,
                      NEW r \in sealed', NEW w \in Workers, Live(w, r)'
               PROVE  worker'[w].killed \/ worker'[w].pc = "cleanup"
    BY DEF SealedCaptureIsKilled, Live
  <2>1. CASE r \in sealed
    BY <2>1, SealedStep DEF SealedCaptureIsKilled
  <2>2. CASE r \notin sealed
    BY <2>2, SealingStep
  <2>3. QED BY <2>1, <2>2
<1>3. QED BY <1>1, <1>2, TypeCorrect, SealedInvariant, PTL DEF Spec

\* Once sealed, a recording gets no new goroutine and no new media, in every interleaving
\* of pollers, requests and restarts. It is sealed by a Cancel that signals its capture
\* while no other starter, poller or request holds a copy of it: of a Cancel that finds a
\* second one there, as H1 has it, this says nothing.
THEOREM SealTheorem == Spec => NothingRecordedAfterSeal
<1>1. ASSUME TypeOK, SealedOK, SealedCaptureIsKilled, [Next]_vars,
             NEW r \in sealed, NEW w \in Workers
      PROVE  /\ Live(w, r)' => Live(w, r)
             /\ Live(w, r)
                  => ~ (worker[w].pc = "capturing" /\ worker'[w].pc = "recording")
  <2>1. Live(w, r)' => Live(w, r)
    BY <1>1, SealedStep
  <2>2. ASSUME Live(w, r), worker[w].pc = "capturing", worker'[w].pc = "recording"
        PROVE  FALSE
    <3>1. worker[w].killed
      BY <1>1, <2>2 DEF SealedCaptureIsKilled
    <3>2. ~ WorkerStep(w)
      BY <1>1, <2>2, <3>1, SignalStays
    <3>3. \A x \in Workers : WorkerStep(x) => worker'[w].pc = worker[w].pc
      BY <1>1, <3>2, OthersUntouched
    <3>4. \A c \in Clients : ClientStep(c) => worker'[w].pc = worker[w].pc
      BY <1>1, <2>2, ClientKeepsWorkers
    <3>5. \A q \in Recs : PollNext(q) => worker'[w].pc = worker[w].pc
      BY <1>1, <2>2, SpawnKeeps DEF PollNext
    <3>6. Exit \/ Crash => worker'[w].pc = "idle"
      BY DEF Exit, Crash, Lost, IdleWorker
    <3>7. QED
      BY <1>1, <2>2, <3>3, <3>4, <3>5, <3>6
         DEF Next, vars, Boot, Stop, PollList, PollExit, Tick, Materialise
  <2>3. QED BY <2>1, <2>2
<1>2. TypeOK /\ SealedOK /\ SealedCaptureIsKilled /\ [Next]_vars =>
        [\A r \in sealed : \A w \in Workers :
           /\ Live(w, r)' => Live(w, r)
           /\ Live(w, r)
                => ~ (worker[w].pc = "capturing" /\ worker'[w].pc = "recording")]_vars
  BY <1>1
<1>3. QED
  BY <1>2, TypeCorrect, SealedInvariant, SealedIsKilled, PTL
     DEF Spec, NothingRecordedAfterSeal
=============================================================================
