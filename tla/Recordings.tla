----------------------------- MODULE Recordings -----------------------------
(***************************************************************************)
(* The DVR of backend/services/recordings: rows of the recordings table,   *)
(* the 15 second poll, the goroutines running startRecording, the registry *)
(* of cancel functions (Service.active), the API calls that create, cancel *)
(* and delete, and the process starting, stopping and crashing.            *)
(*                                                                         *)
(* Every write of the code is a whole-row UPDATE computed from a copy of   *)
(* the row read earlier, so a worker and a client each carry the snapshot  *)
(* they will write back. A step is one database call, one file operation   *)
(* or one critical section under Service.mu.                               *)
(***************************************************************************)
EXTENDS Naturals, FiniteSets

CONSTANTS
    Recs,       \* recording ids (uuids: a deleted id is never used again)
    RuleRecs,   \* the ids materialised by a recurring rule
    Workers,    \* bound: goroutines running startRecording at one time
    Clients,    \* bound: API requests in progress at one time
    Paths,      \* output files
    PathOf,     \* buildOutputPath: the file of a recording
    DueLimit,   \* the LIMIT of the due query (20 in the code)
    MaxCrashes, \* bound: process crashes
    MaxFaults,  \* bound: recordings that meet a failed database call
    None

ASSUME RecordingsAssumption ==
    /\ RuleRecs \subseteq Recs
    /\ PathOf \in [Recs -> Paths]
    /\ DueLimit \in Nat \ {0}
    /\ MaxCrashes \in Nat
    /\ MaxFaults \in Nat
    /\ None \notin Workers

VARIABLES
    row,      \* the recordings table
    file,     \* what is on disk at each output path
    window,   \* where "now" is in a recording's padded window
    proc,     \* the server process: "down", "up", "stopping"
    poll,     \* the loop goroutine: its pc and the due rows still to be started
    worker,   \* the goroutines running startRecording
    client,   \* the API requests in progress
    active,   \* Service.active: the worker whose cancel function is registered
    crashes,  \* crashes so far
    unsaved,  \* history: recordings whose starter had a database call fail
    sealed    \* history: see SignalledCancelSticks

vars == <<row, file, window, proc, poll, worker, client, active, crashes,
          unsaved, sealed>>

-----------------------------------------------------------------------------
(* Types *)

ActiveStatus   == {"starting", "running"}
TerminalStatus == {"completed", "failed", "cancelled"}
Status == {"pending"} \cup ActiveStatus \cup TerminalStatus

\* path: output_path is set; size: output_size_bytes > 0; err: the error column,
\* "paused" being the text 'recording rule paused'.
Row == [status : Status \cup {"unborn", "deleted"}, path : BOOLEAN,
        size : BOOLEAN, err : {"none", "error", "paused"}]

NewRow == [status |-> "pending", path |-> FALSE, size |-> FALSE, err |-> "none"]
NoRow  == [NewRow EXCEPT !.status = "unborn"]

WorkerPc == {"idle", "spawned", "starting", "registering", "attempt", "capturing",
             "recording", "retrying", "finished", "interrupted", "reloaded", "cleanup"}
ClientPc == {"idle", "created", "cancelGet", "cancelWrite", "cancelSignal",
             "deleteFile", "deleteRow"}
FileState == {"none", "empty", "clean", "spliced", "mixed"}

IdleWorker == [pc |-> "idle", rec |-> None, snap |-> NoRow, att |-> 0,
               err |-> FALSE, cut |-> FALSE, killed |-> FALSE]
IdleClient == [pc |-> "idle", rec |-> None, snap |-> NoRow]
PollOff == [pc |-> "off", due |-> [r \in Recs |-> NoRow]]

WorkerState == [pc : WorkerPc, rec : Recs \cup {None}, snap : Row, att : 0..2,
                err : BOOLEAN, cut : BOOLEAN, killed : BOOLEAN]
ClientState == [pc : ClientPc, rec : Recs \cup {None}, snap : Row]
PollState   == [pc : {"off", "waiting", "spawning"}, due : [Recs -> Row]]

TypeOK ==
    /\ row \in [Recs -> Row]
    /\ file \in [Paths -> FileState]
    /\ window \in [Recs -> {"before", "open", "over"}]
    /\ proc \in {"down", "up", "stopping"}
    /\ poll \in PollState
    /\ worker \in [Workers -> WorkerState]
    /\ client \in [Clients -> ClientState]
    /\ \A w \in Workers : worker[w].pc # "idle" => worker[w].rec \in Recs
    /\ \A c \in Clients : client[c].pc # "idle" => client[c].rec \in Recs
    /\ active \in [Recs -> Workers \cup {None}]
    /\ crashes \in 0..MaxCrashes
    /\ unsaved \subseteq Recs
    /\ sealed \subseteq Recs

-----------------------------------------------------------------------------
(* Database and helpers *)

Exists(r) == row[r].status \in Status

\* UPDATE recordings SET ... WHERE id = $1: no row, no effect.
DbUpdate(r, new) ==
    row' = [row EXCEPT ![r] = IF row[r].status \in Status THEN new ELSE @]

\* A database call of the goroutine recording r returns an error.
DbFails(r) ==
    /\ r \notin unsaved
    /\ Cardinality(unsaved) < MaxFaults
    /\ unsaved' = unsaved \cup {r}
    /\ UNCHANGED row

\* Slip: the capture's context is not derived from the service's.
CancelledByRequestOnly(w) == worker[w].killed

\* Slip: the capture's own cancel function is never wired to its context.
CancelledByStopOnly(w) == proc = "stopping"

\* ctx of the goroutine: its own cancel function was called, or the service's.
Cancelled(w) == worker[w].killed \/ proc = "stopping"

Goto(w, pc) == worker' = [worker EXCEPT ![w].pc = pc]

Live(w, r) == worker[w].pc # "idle" /\ worker[w].rec = r

\* Service.startRecording on a new goroutine, with the copy it was given.
Spawn(r, snap) ==
    \E w \in Workers :
        /\ worker[w].pc = "idle"
        /\ worker' = [worker EXCEPT ![w] =
                        [IdleWorker EXCEPT !.pc = "spawned", !.rec = r, !.snap = snap]]

\* Somebody, other than the workers of M, holds a copy of r read earlier.
HeldElsewhere(r, c, M) ==
    \/ poll.due[r] # NoRow
    \/ \E d \in Clients \ {c} : client[d].pc # "idle" /\ client[d].rec = r
    \/ \E w \in Workers \ M : Live(w, r)

-----------------------------------------------------------------------------
Init ==
    /\ row = [r \in Recs |-> NoRow]
    /\ file = [p \in Paths |-> "none"]
    /\ window = [r \in Recs |-> "before"]
    /\ proc = "down"
    /\ poll = PollOff
    /\ worker = [w \in Workers |-> IdleWorker]
    /\ client = [c \in Clients |-> IdleClient]
    /\ active = [r \in Recs |-> None]
    /\ crashes = 0
    /\ unsaved = {}
    /\ sealed = {}

(* Time: the padded start, then the padded end, of r's window passes. *)
Tick(r) ==
    /\ \/ window[r] = "before" /\ window' = [window EXCEPT ![r] = "open"]
       \/ window[r] = "open"   /\ window' = [window EXCEPT ![r] = "over"]
    /\ UNCHANGED <<row, file, proc, poll, worker, client, active, crashes,
                   unsaved, sealed>>

-----------------------------------------------------------------------------
(* The process *)

\* Slip: only "running" rows are reconciled.
FailedIfRunning(v) ==
    IF v.status = "running" THEN [v EXCEPT !.status = "failed", !.err = "error"] ELSE v

\* MarkStaleActiveAsFailed on one row.
FailedIfStale(v) ==
    IF v.status \in ActiveStatus
    THEN [v EXCEPT !.status = "failed", !.err = IF @ = "none" THEN "error" ELSE @]
    ELSE v

\* Start: reconcile the rows of the process before (an error is only logged),
\* then run the loop.
Boot ==
    /\ proc = "down"
    /\ \/ /\ row' = [r \in Recs |-> FailedIfStale(row[r])]
          /\ UNCHANGED unsaved
       \/ /\ MaxFaults > 0
          /\ unsaved' = Recs
          /\ UNCHANGED row
    /\ proc' = "up"
    /\ poll' = [poll EXCEPT !.pc = "waiting"]
    /\ UNCHANGED <<file, window, worker, client, active, crashes, sealed>>

\* Stop: cancel the service context; running = false.
Stop ==
    /\ proc = "up"
    /\ proc' = "stopping"
    /\ UNCHANGED <<row, file, window, poll, worker, client, active, crashes,
                   unsaved, sealed>>

\* The process is gone: goroutines, requests and registry with it.
Lost ==
    /\ proc' = "down"
    /\ poll' = PollOff
    /\ worker' = [w \in Workers |-> IdleWorker]
    /\ client' = [c \in Clients |-> IdleClient]
    /\ active' = [r \in Recs |-> None]
    /\ UNCHANGED <<row, file, window, unsaved, sealed>>

\* Stop's wg.Wait has returned and main returns.
Exit ==
    /\ proc = "stopping"
    /\ poll.pc = "off"
    /\ \A w \in Workers : worker[w].pc = "idle"
    /\ Lost
    /\ UNCHANGED crashes

\* Killed, or Stop gave up at its deadline.
Crash ==
    /\ proc # "down"
    /\ crashes < MaxCrashes
    /\ crashes' = crashes + 1
    /\ Lost

-----------------------------------------------------------------------------
(* The poll *)

\* Slip: the due query also asks for a stop time in the future.
DueAndNotOver == {r \in Recs : row[r].status = "pending" /\ window[r] = "open"}

Due == {r \in Recs : row[r].status = "pending" /\ window[r] # "before"}

\* runDueRecordings: the List call.
PollList ==
    /\ poll.pc = "waiting"
    /\ \E S \in SUBSET Due :
         /\ Cardinality(S) <= DueLimit
         /\ S # Due => Cardinality(S) = DueLimit
         /\ S # {}
         /\ poll' = [pc |-> "spawning",
                     due |-> [r \in Recs |-> IF r \in S THEN row[r] ELSE NoRow]]
    /\ UNCHANGED <<row, file, window, proc, worker, client, active, crashes,
                   unsaved, sealed>>

\* One turn of its loop: skip a recording that is registered, start the others.
PollNext(r) ==
    /\ poll.pc = "spawning"
    /\ poll.due[r] # NoRow
    /\ IF active[r] # None THEN UNCHANGED worker ELSE Spawn(r, poll.due[r])
    /\ poll' = LET rest == [poll.due EXCEPT ![r] = NoRow]
               IN  [pc |-> IF rest = PollOff.due THEN "waiting" ELSE "spawning",
                    due |-> rest]
    /\ UNCHANGED <<row, file, window, proc, client, active, crashes,
                   unsaved, sealed>>

\* The loop sees the service context done.
PollExit ==
    /\ proc = "stopping"
    /\ poll.pc = "waiting"
    /\ poll' = PollOff
    /\ UNCHANGED <<row, file, window, proc, worker, client, active, crashes,
                   unsaved, sealed>>

-----------------------------------------------------------------------------
(* startRecording, run by worker w *)

UnchangedByWorker == UNCHANGED <<window, proc, poll, client, crashes, sealed>>

\* The starter's own copy, written back as the whole row.
Save(w, new) ==
    \/ /\ DbUpdate(worker[w].rec, new)
       /\ UNCHANGED unsaved
    \/ DbFails(worker[w].rec)

Failed(v) == [v EXCEPT !.status = "failed", !.err = "error"]

Finish(w) == worker' = [worker EXCEPT ![w] = IdleWorker]

\* Slip: the id is lost on the way to the deferred clean-up.
LeaveWithoutId(w) == worker' = [worker EXCEPT ![w] = [IdleWorker EXCEPT !.pc = "cleanup"]]

\* Nothing of the goroutine's state matters any more but the id.
Leave(w) == worker' = [worker EXCEPT ![w] =
                        [IdleWorker EXCEPT !.pc = "cleanup", !.rec = worker[w].rec]]

\* The stop time has passed before the goroutine ran.
ExpireBeforeStart(w) ==
    /\ worker[w].pc = "spawned"
    /\ window[worker[w].rec] = "over"
    /\ Save(w, Failed(worker[w].snap))
    /\ Finish(w)
    /\ UNCHANGED <<file, active>>
    /\ UnchangedByWorker

\* Status "starting" and the output path.
WriteStarting(w) ==
    LET new == [worker[w].snap EXCEPT !.status = "starting", !.path = TRUE] IN
    /\ worker[w].pc = "spawned"
    /\ window[worker[w].rec] # "over"
    /\ \/ /\ DbUpdate(worker[w].rec, new)
          /\ UNCHANGED unsaved
          /\ worker' = [worker EXCEPT ![w].pc = "starting", ![w].snap = new]
       \/ /\ DbFails(worker[w].rec)
          /\ Finish(w)
    /\ UNCHANGED <<file, active>>
    /\ UnchangedByWorker

\* Slip: the early return does not write the row.
ReturnWithoutSaving(w) ==
    /\ worker[w].pc = "starting"
    /\ Finish(w)
    /\ UNCHANGED <<row, unsaved, file, active>>
    /\ UnchangedByWorker

\* ffmpeg is not configured, or the output directory cannot be made.
CannotCapture(w) ==
    /\ worker[w].pc = "starting"
    /\ Save(w, Failed(worker[w].snap))
    /\ Finish(w)
    /\ UNCHANGED <<file, active>>
    /\ UnchangedByWorker

\* Status "running": the cancel function exists and is not yet registered.
WriteRunning(w) ==
    LET new == [worker[w].snap EXCEPT !.status = "running"] IN
    /\ worker[w].pc = "starting"
    /\ \/ /\ DbUpdate(worker[w].rec, new)
          /\ UNCHANGED unsaved
          /\ worker' = [worker EXCEPT ![w].pc = "registering", ![w].snap = new]
       \/ /\ DbFails(worker[w].rec)
          /\ Finish(w)
    /\ UNCHANGED <<file, active>>
    /\ UnchangedByWorker

\* active[id] = cancel, whatever was there.
Register(w) ==
    /\ worker[w].pc = "registering"
    /\ active' = [active EXCEPT ![worker[w].rec] = w]
    /\ Goto(w, "attempt")
    /\ UNCHANGED <<row, file, unsaved>>
    /\ UnchangedByWorker

OnPath(p, pcs) == {w \in Workers : /\ worker[w].pc \in pcs
                                   /\ PathOf[worker[w].rec] = p}

\* Head of the attempt loop, and the open of runRecordingAttempt: the first
\* attempt truncates the file, the later ones append. att stays at 2 after.
BeginAttempt(w) ==
    LET p == PathOf[worker[w].rec] IN
    /\ worker[w].pc = "attempt"
    /\ window[worker[w].rec] # "over"
    /\ worker' = [worker EXCEPT ![w].pc = "capturing",
                                ![w].att = IF @ = 0 THEN 1 ELSE 2]
    /\ file' = [file EXCEPT ![p] =
                  IF OnPath(p, {"recording"}) # {} THEN "mixed"
                  ELSE IF worker[w].att = 0 \/ @ = "none" THEN "empty" ELSE @]
    /\ UNCHANGED <<row, active, unsaved>>
    /\ UnchangedByWorker

\* The open fails: the attempt is over without ffmpeg.
OpenFails(w) ==
    /\ worker[w].pc = "attempt"
    /\ window[worker[w].rec] # "over"
    /\ worker' = [worker EXCEPT ![w].pc = IF Cancelled(w) THEN "interrupted" ELSE "retrying",
                                ![w].att = IF @ = 0 THEN 1 ELSE 2,
                                ![w].err = TRUE]
    /\ UNCHANGED <<row, file, active, unsaved>>
    /\ UnchangedByWorker

NoTimeLeft(w) ==
    /\ worker[w].pc = "attempt"
    /\ window[worker[w].rec] = "over"
    /\ Goto(w, "finished")
    /\ UNCHANGED <<row, file, active, unsaved>>
    /\ UnchangedByWorker

\* ffmpeg's first bytes of this attempt reach the file: a second muxer's output
\* after a first one's restarts the timestamps, two at a time mix theirs. A file
\* deleted under the capture takes them to the grave.
WriteMedia(w) ==
    LET p == PathOf[worker[w].rec] IN
    /\ worker[w].pc = "capturing"
    /\ ~ Cancelled(w)
    /\ Goto(w, "recording")
    /\ file' = [file EXCEPT ![p] =
                  CASE @ = "none" -> "none"
                    [] @ = "mixed" \/ OnPath(p, {"recording"}) # {} -> "mixed"
                    [] @ = "empty" -> "clean"
                    [] OTHER -> "spliced"]
    /\ UNCHANGED <<row, active, unsaved>>
    /\ UnchangedByWorker

\* runRecordingAttempt returns: ctx.Err first, then the stop time.
AttemptEnds(w, ok) ==
    /\ worker[w].pc \in {"capturing", "recording"}
    /\ worker' = [worker EXCEPT
          ![w].pc = CASE Cancelled(w) -> "interrupted"
                      [] ~ Cancelled(w) /\ window[worker[w].rec] = "over" -> "finished"
                      [] OTHER -> "retrying",
          ![w].err = IF Cancelled(w) THEN @
                     ELSE ~ ok \/ window[worker[w].rec] # "over"]
    /\ UNCHANGED <<row, file, active, unsaved>>
    /\ UnchangedByWorker

\* The retry timer, or ctx.Done while waiting for it.
RetryWait(w) ==
    /\ worker[w].pc = "retrying"
    /\ \/ Goto(w, "attempt")
       \/ Cancelled(w) /\ Goto(w, "interrupted")
    /\ UNCHANGED <<row, file, active, unsaved>>
    /\ UnchangedByWorker

\* Slip: the final write starts from the copy the goroutine already has.
ReloadNothing(w) ==
    /\ worker[w].pc \in {"finished", "interrupted"}
    /\ worker' = [worker EXCEPT ![w].pc = "reloaded", ![w].cut = worker[w].pc = "interrupted"]
    /\ UNCHANGED <<row, unsaved, file, active>>
    /\ UnchangedByWorker

\* Get of the latest row, on the way out: a deleted row ends the goroutine.
Reload(w) ==
    LET r == worker[w].rec IN
    /\ worker[w].pc \in {"finished", "interrupted"}
    /\ \/ /\ Exists(r)
          /\ worker' = [worker EXCEPT ![w].pc = "reloaded", ![w].snap = row[r],
                                      ![w].cut = worker[w].pc = "interrupted"]
          /\ UNCHANGED <<row, unsaved>>
       \/ /\ ~ Exists(r)
          /\ Leave(w)
          /\ UNCHANGED <<row, unsaved>>
       \/ /\ DbFails(r)
          /\ Leave(w)
    /\ UNCHANGED <<file, active>>
    /\ UnchangedByWorker

\* repairRecordingOutput: nothing to repair, or the remux worked, or it failed.
HasMedia(v, p) == v.path /\ file[p] \in {"clean", "spliced", "mixed"}

\* Slip: the remuxed copy never replaces the recording.
RemuxedAside(v, p, remuxed) == HasMedia(v, p) /\ UNCHANGED file

Repaired(v, p, remuxed) ==
    /\ HasMedia(v, p)
    /\ file' = [file EXCEPT ![p] = IF remuxed /\ @ = "spliced" THEN "clean" ELSE @]

\* The final row: cancelled stays cancelled, an interrupted capture is failed,
\* a retried one is repaired before it may count as completed. Where the capture was not
\* broken off an empty file takes the size back. Stat, remux and UPDATE are one step.
Finalize(w, remuxed) ==
    LET r == worker[w].rec
        p == PathOf[r]
        v == worker[w].snap
        brokenOff == v.status = "cancelled" \/ worker[w].cut
        repairs == brokenOff \/ worker[w].att > 1
        sized == [v EXCEPT !.size = \/ HasMedia(v, p)
                                    \/ @ /\ (brokenOff \/ ~ v.path \/ file[p] = "none")]
        broken == repairs /\ HasMedia(v, p) /\ ~ remuxed
    IN
    /\ worker[w].pc = "reloaded"
    /\ IF repairs /\ HasMedia(v, p) THEN Repaired(v, p, remuxed)
                                    ELSE remuxed /\ UNCHANGED file
    /\ Save(w, CASE v.status = "cancelled" ->
                      [sized EXCEPT !.err = IF broken THEN "error" ELSE @]
                 [] v.status # "cancelled" /\ worker[w].cut -> Failed(sized)
                 [] v.status # "cancelled" /\ ~ worker[w].cut
                      /\ sized.size /\ ~ worker[w].err /\ ~ broken ->
                      [sized EXCEPT !.status = "completed", !.err = "none"]
                 [] OTHER -> Failed(sized))
    /\ Leave(w)
    /\ UNCHANGED active
    /\ UnchangedByWorker

\* Slip: no deferred delete.
CleanupWithoutDelete(w) ==
    /\ worker[w].pc = "cleanup"
    /\ Finish(w)
    /\ UNCHANGED <<row, file, active, unsaved>>
    /\ UnchangedByWorker

\* The deferred delete(active, id): it drops whatever is registered for the id.
Cleanup(w) ==
    /\ worker[w].pc = "cleanup"
    /\ active' = [active EXCEPT ![worker[w].rec] = None]
    /\ Finish(w)
    /\ UNCHANGED <<row, file, unsaved>>
    /\ UnchangedByWorker

-----------------------------------------------------------------------------
(* API requests *)

UnchangedByClient == UNCHANGED <<window, proc, poll, crashes, unsaved>>

ClientGoto(c, pc) == client' = [client EXCEPT ![c].pc = pc]
ClientDone(c) == client' = [client EXCEPT ![c] = IdleClient]

\* createRecording: the INSERT.
Create(c, r) ==
    /\ client[c].pc = "idle"
    /\ r \notin RuleRecs
    /\ row[r].status = "unborn"
    /\ row' = [row EXCEPT ![r] = NewRow]
    /\ client' = [client EXCEPT ![c] = [pc |-> "created", rec |-> r, snap |-> NewRow]]
    /\ UNCHANGED <<file, worker, active, sealed>>
    /\ UnchangedByClient

\* maybeStartRecordingImmediately.
MaybeStart(c) ==
    LET r == client[c].rec IN
    /\ client[c].pc = "created"
    /\ IF proc = "up" /\ active[r] = None /\ window[r] # "before"
       THEN Spawn(r, client[c].snap)
       ELSE UNCHANGED worker
    /\ ClientDone(c)
    /\ UNCHANGED <<row, file, active, sealed>>
    /\ UnchangedByClient

\* The CreateScheduledRecordingIfAbsent of the rule expander, seen as one INSERT.
Materialise(r) ==
    /\ r \in RuleRecs
    /\ row[r].status = "unborn"
    /\ row' = [row EXCEPT ![r] = NewRow]
    /\ UNCHANGED <<file, window, proc, poll, worker, client, active, crashes,
                   unsaved, sealed>>

\* Cancel: the Get. A finished recording needs nothing more.
CancelGet(c, r) ==
    /\ \/ client[c].pc = "idle"
       \/ client[c].pc = "cancelGet" /\ client[c].rec = r
    /\ IF row[r].status \in {"pending"} \cup ActiveStatus
       THEN client' = [client EXCEPT ![c] = [pc |-> "cancelWrite", rec |-> r,
                                             snap |-> row[r]]]
       ELSE client[c].pc = "cancelGet" /\ ClientDone(c)
    /\ UNCHANGED <<row, file, worker, active, sealed>>
    /\ UnchangedByClient

\* Cancel: the Update. Only a copy read as starting or running goes on to the
\* registry.
CancelWrite(c) ==
    LET r == client[c].rec
        v == client[c].snap IN
    /\ client[c].pc = "cancelWrite"
    /\ DbUpdate(r, [v EXCEPT !.status = "cancelled", !.err = "none"])
    /\ IF v.status \in ActiveStatus
       THEN ClientGoto(c, "cancelSignal")
       ELSE ClientDone(c)
    /\ UNCHANGED <<file, worker, active, sealed>>
    /\ UnchangedByClient

\* Cancel: call the registered cancel function, if there is one.
CancelSignal(c) ==
    LET r == client[c].rec
        w == active[r] IN
    /\ client[c].pc = "cancelSignal"
    /\ worker' = IF w = None THEN worker ELSE [worker EXCEPT ![w].killed = TRUE]
    /\ sealed' = IF /\ w # None
                    /\ worker[w].pc \in {"attempt", "capturing", "recording",
                                         "retrying", "finished", "interrupted"}
                    /\ row[r].status = "cancelled"
                    /\ ~ HeldElsewhere(r, c, {w})
                 THEN sealed \cup {r} ELSE sealed
    /\ ClientDone(c)
    /\ UNCHANGED <<row, file, active>>
    /\ UnchangedByClient

\* Delete: the Get and its switch. A pending job of a rule is cancelled instead,
\* an active recording is refused.
DeleteGet(c, r) ==
    /\ client[c].pc = "idle"
    /\ row[r].status \in {"pending"} \cup TerminalStatus
    /\ client' = [client EXCEPT ![c] =
          [pc |-> CASE row[r].status = "pending" /\ r \in RuleRecs -> "cancelGet"
                    [] ~ (row[r].status = "pending" /\ r \in RuleRecs) /\ row[r].path
                         -> "deleteFile"
                    [] OTHER -> "deleteRow",
           rec |-> r, snap |-> row[r]]]
    /\ UNCHANGED <<row, file, worker, active, sealed>>
    /\ UnchangedByClient

DeleteFile(c) ==
    /\ client[c].pc = "deleteFile"
    /\ file' = [file EXCEPT ![PathOf[client[c].rec]] = "none"]
    /\ ClientGoto(c, "deleteRow")
    /\ UNCHANGED <<row, worker, active, sealed>>
    /\ UnchangedByClient

DeleteRow(c) ==
    LET r == client[c].rec IN
    /\ client[c].pc = "deleteRow"
    /\ row' = [row EXCEPT ![r] = IF Exists(r) THEN [@ EXCEPT !.status = "deleted"] ELSE @]
    /\ ClientDone(c)
    /\ UNCHANGED <<file, worker, active, sealed>>
    /\ UnchangedByClient

\* The database call of a request fails: the error goes to the caller.
RequestFails(c) ==
    /\ MaxFaults > 0
    /\ client[c].pc \in {"cancelGet", "cancelWrite", "deleteFile", "deleteRow"}
    /\ ClientDone(c)
    /\ UNCHANGED <<row, file, worker, active, sealed>>
    /\ UnchangedByClient

-----------------------------------------------------------------------------
WorkerStep(w) ==
    \/ ExpireBeforeStart(w)
    \/ WriteStarting(w)
    \/ CannotCapture(w)
    \/ WriteRunning(w)
    \/ Register(w)
    \/ BeginAttempt(w)
    \/ OpenFails(w)
    \/ NoTimeLeft(w)
    \/ WriteMedia(w)
    \/ \E ok \in BOOLEAN : AttemptEnds(w, ok)
    \/ RetryWait(w)
    \/ Reload(w)
    \/ \E remuxed \in BOOLEAN : Finalize(w, remuxed)
    \/ Cleanup(w)

ClientStep(c) ==
    \/ MaybeStart(c)
    \/ CancelWrite(c)
    \/ CancelSignal(c)
    \/ DeleteFile(c)
    \/ DeleteRow(c)
    \/ RequestFails(c)
    \/ \E r \in Recs : Create(c, r) \/ CancelGet(c, r) \/ DeleteGet(c, r)

Next ==
    \/ Boot
    \/ Stop
    \/ Exit
    \/ Crash
    \/ PollList
    \/ PollExit
    \/ \E r \in Recs : Tick(r) \/ Materialise(r) \/ PollNext(r)
    \/ \E w \in Workers : WorkerStep(w)
    \/ \E c \in Clients : ClientStep(c)

Spec == Init /\ [][Next]_vars

-----------------------------------------------------------------------------
(* Properties *)

\* What a goroutine does after its first write of the row and before its last.
OwnerPc == WorkerPc \ {"idle", "spawned", "cleanup"}

CapturePc == {"attempt", "capturing", "recording", "retrying"}

\* Between active[id] = cancel and the deferred delete.
RegisteredPc == CapturePc \cup {"finished", "interrupted", "reloaded", "cleanup"}

\* Crash recovery and bookkeeping of the status column: while the service runs,
\* a row shown as starting or running is backed by a goroutine that still has a
\* final write ahead of it (unless a database call of that recording failed), so
\* no recording is shown as active for ever: startRecording,
\* MarkStaleActiveAsFailed.
OwnedRows ==
    proc # "down" =>
        \A r \in Recs \ unsaved :
            row[r].status \in ActiveStatus =>
                \E w \in Workers : worker[w].rec = r /\ worker[w].pc \in OwnerPc

\* The registry never points at a goroutine that has ended, nor at one of another
\* recording, so a Cancel can only stop what it was asked to stop: the defer of
\* startRecording with two starters of one id.
RegistryPointsAtCapture ==
    \A r \in Recs : active[r] # None =>
        /\ worker[active[r]].rec = r
        /\ worker[active[r]].pc \in RegisteredPc

\* A Cancel that found the capture registered sticks: provided nobody else then
\* held an older copy of the row and the capture had not yet reloaded it, the
\* recording ends cancelled, whatever the capture, the poll and other requests
\* do later: the reload before the final write of startRecording.
SignalledCancelSticks ==
    \A r \in sealed : row[r].status \in {"cancelled", "deleted"}

\* A capture that spanned a retry leaves one continuous timeline, or says that it
\* does not: when its goroutine writes the final row, whichever way it ended, the
\* file is no longer the plain concatenation of two ffmpeg outputs unless the row
\* carries an error (no other goroutine using the file): repairRecordingOutput.
RetriedFileIsRepaired ==
    [][\A w \in Workers :
         LET r == worker[w].rec
             p == PathOf[r] IN
         (/\ worker[w].pc = "reloaded" /\ worker'[w].pc = "cleanup"
          /\ worker[w].att > 1
          /\ r \notin unsaved' /\ Exists(r) /\ worker[w].snap.path
          /\ OnPath(p, OwnerPc) = {w})
         => (file'[p] # "spliced" \/ row'[r].err = "error")]_vars

-----------------------------------------------------------------------------
(* Fairness: the goroutines and the requests in progress go on; nobody has to  *)
(* call the API, stop the service or restart it. ffmpeg ends by itself (-t) or *)
(* is killed.                                                                  *)
CodeFairness ==
    /\ \A w \in Workers : WF_vars(WorkerStep(w))
    /\ \A c \in Clients : WF_vars(MaybeStart(c) \/ CancelWrite(c) \/ CancelSignal(c)
                                 \/ DeleteFile(c) \/ DeleteRow(c))
    /\ WF_vars(PollList)
    /\ WF_vars(\E r \in Recs : PollNext(r))
    /\ WF_vars(PollExit)
    /\ WF_vars(Exit)

CodeSpec == Spec /\ CodeFairness
FairSpec == CodeSpec /\ \A r \in Recs : WF_vars(Tick(r))

\* Shutdown is not held up: when Stop has cancelled the context, every goroutine
\* ends and the process exits, without waiting for any window to end.
StopDrains == proc = "stopping" ~> proc = "down"

\* A capture that was signalled by Cancel ends, without waiting for its window.
SignalledCaptureEnds ==
    \A r \in Recs : r \in sealed ~> ~ \E w \in Workers : Live(w, r)

\* A recording that is due is recorded or reported: it reaches a final status or
\* is deleted, as long as the service stays up.
DueSettles ==
    \A r \in Recs :
        (r \notin unsaved /\ row[r].status = "pending" /\ window[r] # "before")
            ~> (row[r].status \in TerminalStatus \cup {"deleted"} \/ proc # "up")
=============================================================================
