------------------------------ MODULE StreamSlot ------------------------------
(***************************************************************************)
(* One slot of the stream pool (backend/handlers/stream_pool.go): a sliding *)
(* window over a remote file, filled by backgroundReader from the body of   *)
(* one upstream response, and read by any number of range requests in       *)
(* serve. The pool opens the slot for a first request, registers later ones *)
(* and evicts the slot once nobody is registered.                           *)
(*                                                                         *)
(* A byte of the model is a chunk of the code (256 KB), and a byte of the   *)
(* window is the offset in the file it was really read from. A step is one  *)
(* critical section under the slot's lock, or one call of the network.      *)
(***************************************************************************)
EXTENDS Naturals, Sequences

CONSTANTS
    Requests,       \* bound: range requests in progress at one time
    Ranges,         \* what they ask for: pairs <<first byte, byte after the last>>,
                    \* the second Size + 1 in an open range
    Size,           \* of the remote file
    TrimTo,         \* poolSlotBufferTrim: 24 MB
    Max,            \* poolSlotBufferMax: 32 MB
    Hard,           \* poolSlotBufferHard: 128 MB
    Ahead,          \* poolMaxWaitAhead: 8 MB
    PreBuffer,      \* poolMinPreBuffer: 4 MB
    MaxWrite,       \* maxWriteSize: 4 MB
    MaxReconnects   \* poolMaxReconnects: 2

ASSUME SlotAssumption ==
    /\ Size \in Nat
    /\ Ranges \subseteq {r \in (0..Size) \X (0..(Size + 1)) : r[1] < r[2] /\ r[1] < Size}
    /\ {TrimTo, Max, Hard, Ahead, PreBuffer, MaxWrite, MaxReconnects} \subseteq Nat
    /\ TrimTo < Max /\ Max < Hard
    /\ MaxWrite > 0

VARIABLES
    slot,    \* the window and its flags
    reader,  \* backgroundReader: its pc and the variables of its loop
    body,    \* the response it reads from
    stall,   \* the stall timer: its callback has run, or is still to run
    req      \* the requests in serve

vars == <<slot, reader, body, stall, req>>

-----------------------------------------------------------------------------
(* State *)

Offsets == 0..Size

Slot == [start : Offsets, data : Seq(Offsets), done : BOOLEAN, failed : BOOLEAN,
         cancelled : BOOLEAN]

ReaderPc == {"none", "park", "parked", "check", "read", "notify", "decide", "reopen",
             "closing", "lastNotify", "ended"}

\* resume: waiting to reconnect. got, end: what the last Read returned. stalls:
\* consecutiveNoProgressReconnects.
Reader == [pc : ReaderPc, resume : BOOLEAN, got : 0..1,
           end : {"more", "eof", "error"}, stalls : 0..(MaxReconnects + 1)]

Body == [at : Offsets, open : BOOLEAN]

\* waiting, asleep: in a select on the slot's signal.
RequestPc == {"idle", "enter", "waiting", "woken", "serve", "asleep", "write", "leave"}

\* need: the pre-buffer wanted before the first byte is sent. chunk: the copy handed to
\* w.Write. sent: all that Write took, totalWritten bytes; pos is behind it.
Request == [pc : RequestPc, pos : Offsets, to : 0..(Size + 1), need : 0..PreBuffer,
            chunk : Seq(Offsets), sent : Seq(Offsets)]

NoSlot == [start |-> 0, data |-> <<>>, done |-> FALSE, failed |-> FALSE, cancelled |-> TRUE]
NoReader == [pc |-> "none", resume |-> FALSE, got |-> 0, end |-> "more", stalls |-> 0]
NoBody == [at |-> 0, open |-> FALSE]
NoStall == [triggered |-> FALSE, late |-> "no"]
NoRequest == [pc |-> "idle", pos |-> 0, to |-> 0, need |-> 0, chunk |-> <<>>, sent |-> <<>>]

TypeOK ==
    /\ slot \in Slot
    /\ Len(slot.data) <= Hard
    /\ reader \in Reader
    /\ body \in Body
    /\ stall \in [triggered : BOOLEAN, late : {"no", "this", "old"}]
    /\ req \in [Requests -> Request]

Init ==
    /\ slot = NoSlot
    /\ reader = NoReader
    /\ body = NoBody
    /\ stall = NoStall
    /\ req = [r \in Requests |-> NoRequest]

-----------------------------------------------------------------------------
(* The window *)

EndPos == slot.start + Len(slot.data)

Least(S) == CHOOSE x \in S : \A y \in S : x <= y

\* readerPositions.
Registered == {r \in Requests : req[r].pc # "idle"}

\* updateMinReaderPosLocked: where the slowest request is.
SlowestPos(w) == IF Registered = {} THEN w.start + Len(w.data)
                 ELSE Least({req[r].pos : r \in Registered})

\* Slip: the window is trimmed to its target whoever still needs it.
DropOldest(w) ==
    LET n == IF Len(w.data) > TrimTo THEN Len(w.data) - TrimTo ELSE 0 IN
    [w EXCEPT !.start = @ + n, !.data = SubSeq(@, n + 1, Len(@))]

\* trimConsumedBufferLocked: never past the slowest request.
Trim(w) ==
    LET slowest == SlowestPos(w)
        consumed == IF slowest > w.start THEN slowest - w.start ELSE 0
        excess == IF Len(w.data) > TrimTo THEN Len(w.data) - TrimTo ELSE 0
        n == Least({consumed, excess}) IN
    [w EXCEPT !.start = @ + n, !.data = SubSeq(@, n + 1, Len(@))]

\* A closed signal channel wakes whoever holds it: broadcast.
Woken(q) == CASE q.pc = "waiting" -> [q EXCEPT !.pc = "woken"]
              [] q.pc = "asleep" -> [q EXCEPT !.pc = "serve"]
              [] OTHER -> q

Broadcast == req' = [r \in Requests |-> Woken(req[r])]

\* notifyReaderChangedLocked: a parked background reader looks again.
NotifyReaderChanged == reader' = [reader EXCEPT !.pc = IF @ = "parked" THEN "park" ELSE @]

-----------------------------------------------------------------------------
(* The pool: opening, finding and evicting the slot *)

\* initialPreBufferTarget; the total size is not known when the upstream does not
\* send it.
PreBufferOf(range, known) ==
    Least({PreBuffer} \cup (IF range[2] <= Size THEN {range[2] - range[1]} ELSE {})
                     \cup (IF known THEN {Size - range[1]} ELSE {}))

Entering(range, known) ==
    [pc |-> "enter", pos |-> range[1], to |-> range[2],
     need |-> PreBufferOf(range, known), chunk |-> <<>>, sent |-> <<>>]

\* getOrCreateInternal: the upstream has answered from the byte served. A window
\* that begins after the byte wanted is refused before a slot exists.
Open(r, range, served, known) ==
    /\ slot.cancelled
    /\ reader.pc \in {"none", "ended"}
    /\ served <= range[1]
    /\ slot' = [NoSlot EXCEPT !.start = served, !.cancelled = FALSE]
    /\ reader' = [NoReader EXCEPT !.pc = "park"]
    /\ body' = [at |-> served, open |-> TRUE]
    /\ stall' = NoStall
    /\ req' = [req EXCEPT ![r] = Entering(range, known)]

\* findSlotLocked: the byte is in the window, or soon will be.
Offers(pos) ==
    /\ ~ slot.cancelled
    /\ ~ (slot.done /\ slot.failed)
    /\ slot.start <= pos
    /\ pos < EndPos \/ (~ slot.done /\ pos < EndPos + Ahead)

\* acquire on the open slot: found and registered in one critical section.
Acquire(r, range, known) ==
    /\ req[r].pc = "idle"
    /\ Offers(range[1])
    /\ req' = [req EXCEPT ![r] = Entering(range, known)]
    /\ NotifyReaderChanged
    /\ UNCHANGED <<slot, body, stall>>

\* evictIdle, or the eviction of the least recently used slot.
Evict ==
    /\ ~ slot.cancelled
    /\ Registered = {}
    /\ slot' = [slot EXCEPT !.cancelled = TRUE]
    /\ UNCHANGED <<reader, body, stall, req>>

-----------------------------------------------------------------------------
(* backgroundReader *)

\* waitForActiveReader: the count is read, and the channel taken, under one lock.
Park ==
    /\ reader.pc = "park"
    /\ reader' = [reader EXCEPT !.pc = CASE Registered = {} -> "parked"
                                        [] Registered # {} /\ reader.resume -> "reopen"
                                        [] OTHER -> "check"]
    /\ UNCHANGED <<slot, body, stall, req>>

\* Slip: the end of the slot's context is taken for a wake-up.
ParkAgain ==
    /\ reader.pc = "parked"
    /\ slot.cancelled
    /\ reader' = [reader EXCEPT !.pc = "park"]
    /\ UNCHANGED <<slot, body, stall, req>>

ParkedOut ==
    /\ reader.pc = "parked"
    /\ slot.cancelled
    /\ reader' = [reader EXCEPT !.pc = "closing"]
    /\ UNCHANGED <<slot, body, stall, req>>

\* Slip: the hard limit trims, and then reads whatever came of it.
CheckOnce ==
    /\ reader.pc = "check"
    /\ slot' = IF Len(slot.data) >= Hard THEN Trim(slot) ELSE slot
    /\ reader' = [reader EXCEPT !.pc = "read"]
    /\ UNCHANGED <<body, stall, req>>

\* The hard limit: trim what has been read, or sleep and come back.
Check ==
    /\ reader.pc = "check"
    /\ slot' = IF Len(slot.data) >= Hard THEN Trim(slot) ELSE slot
    /\ reader' = [reader EXCEPT !.pc = IF Len(slot'.data) >= Hard THEN "park" ELSE "read"]
    /\ UNCHANGED <<body, stall, req>>

\* The stall timer runs out during the Read and closes the body.
StallFires ==
    /\ reader.pc = "read"
    /\ ~ stall.triggered
    /\ stall' = [stall EXCEPT !.triggered = TRUE]
    /\ body' = [body EXCEPT !.open = FALSE]
    /\ UNCHANGED <<slot, reader, req>>

\* Stop came too late for the timer, and its callback runs after the Read: of this
\* turn of the loop, or of an earlier one.
LateStall ==
    /\ stall.late # "no"
    /\ stall' = [triggered |-> stall.triggered \/ stall.late = "this", late |-> "no"]
    /\ body' = [body EXCEPT !.open = FALSE]
    /\ UNCHANGED <<slot, reader, req>>

\* What Body.Read can return: a chunk, with or without the end of the body, or
\* nothing but its end. A body being closed under the Read may still yield. The upstream
\* may end a body before the end of the file: the reader cannot tell.
Yields(n, end) ==
    /\ n = 1 => body.at < Size /\ ~ slot.cancelled /\ (body.open \/ stall.triggered)
    /\ n = 0 => end # "more"
    /\ end # "error" => (n = 1 /\ end = "more") \/ (body.open /\ ~ slot.cancelled)

\* Body.Read returns; the chunk is appended and the window kept near its maximum.
ReadReturns(n, end) ==
    LET grown == [slot EXCEPT !.data = IF n = 1 THEN Append(@, body.at) ELSE @] IN
    /\ reader.pc = "read"
    /\ Yields(n, end)
    /\ slot' = IF n = 1 /\ Len(grown.data) > Max THEN Trim(grown) ELSE grown
    /\ body' = [body EXCEPT !.at = @ + n]
    /\ reader' = [reader EXCEPT !.pc = IF n = 1 THEN "notify" ELSE "decide",
                                !.got = n, !.end = end]
    /\ \/ UNCHANGED stall
       \/ ~ stall.triggered /\ stall.late = "no" /\ stall' = [stall EXCEPT !.late = "this"]
    /\ UNCHANGED req

Notify ==
    /\ reader.pc = "notify"
    /\ Broadcast
    /\ reader' = [reader EXCEPT !.pc = "decide"]
    /\ UNCHANGED <<slot, body, stall>>

\* The variables of one turn of the loop go out of scope.
TurnEnds(pc, resume, stalls) ==
    /\ reader' = [pc |-> pc, resume |-> resume, got |-> 0, end |-> "more", stalls |-> stalls]
    /\ stall' = [triggered |-> FALSE, late |-> IF stall.late = "no" THEN "no" ELSE "old"]

\* After the Read, when the stall timer has fired: close and reconnect, or give up.
GiveUpOrReconnect ==
    LET stalls == IF reader.got = 0 THEN reader.stalls + 1 ELSE 0 IN
    /\ reader.pc = "decide"
    /\ stall.triggered
    /\ body' = NoBody
    /\ IF stalls > MaxReconnects
       THEN /\ TurnEnds("closing", FALSE, stalls)
            /\ slot' = [slot EXCEPT !.failed = TRUE]
       ELSE /\ TurnEnds("park", TRUE, stalls)
            /\ UNCHANGED slot
    /\ UNCHANGED req

\* After the Read, when it has not: the next turn, or the end.
GoOnOrEnd ==
    /\ reader.pc = "decide"
    /\ ~ stall.triggered
    /\ TurnEnds(IF reader.end = "more" THEN "park" ELSE "closing", FALSE, reader.stalls)
    /\ slot' = [slot EXCEPT !.failed = reader.end = "error"]
    /\ UNCHANGED <<body, req>>

\* Slip: the new body is taken for what was asked.
ReopenAnywhere(served) ==
    /\ reader.pc = "reopen"
    /\ body' = [at |-> served, open |-> TRUE]
    /\ reader' = [reader EXCEPT !.pc = "park", !.resume = FALSE]
    /\ stall' = [stall EXCEPT !.late = "no"]
    /\ UNCHANGED <<slot, req>>

\* The same-source reconnect: refused when it does not resume at the next byte.
Reopen(served) ==
    /\ reader.pc = "reopen"
    /\ IF served = EndPos /\ ~ slot.cancelled
       THEN /\ body' = [at |-> served, open |-> TRUE]
            /\ reader' = [reader EXCEPT !.pc = "park", !.resume = FALSE]
            /\ stall' = [stall EXCEPT !.late = "no"]
            /\ UNCHANGED slot
       ELSE /\ reader' = [reader EXCEPT !.pc = "closing", !.resume = FALSE]
            /\ slot' = [slot EXCEPT !.failed = TRUE]
            /\ UNCHANGED <<body, stall>>
    /\ UNCHANGED req

\* The deferred part: close the body, cdnDone, broadcast.
Closing ==
    /\ reader.pc = "closing"
    /\ slot' = [slot EXCEPT !.done = TRUE]
    /\ body' = NoBody
    /\ reader' = [reader EXCEPT !.pc = "lastNotify"]
    /\ UNCHANGED <<stall, req>>

\* Slip: the end of the upstream wakes nobody.
EndSilently ==
    /\ reader.pc = "lastNotify"
    /\ reader' = [reader EXCEPT !.pc = "ended"]
    /\ UNCHANGED <<slot, body, stall, req>>

LastNotify ==
    /\ reader.pc = "lastNotify"
    /\ Broadcast
    /\ reader' = [reader EXCEPT !.pc = "ended"]
    /\ UNCHANGED <<slot, body, stall>>

-----------------------------------------------------------------------------
(* serve *)

Keeps == UNCHANGED <<slot, reader, body, stall>>

RequestGoto(r, pc) == req' = [req EXCEPT ![r].pc = pc]

\* The first look at the window.
Enter(r) ==
    /\ req[r].pc = "enter"
    /\ RequestGoto(r, CASE req[r].pos < slot.start -> "leave"
                        [] req[r].pos >= slot.start /\ EndPos < req[r].pos + req[r].need
                             -> "waiting"
                        [] OTHER -> "serve")
    /\ Keeps

\* Woken while waiting for the pre-buffer.
LookAgain(r) ==
    /\ req[r].pc = "woken"
    /\ RequestGoto(r, CASE /\ req[r].pos < EndPos
                           /\ EndPos >= req[r].pos + req[r].need \/ slot.done -> "serve"
                        [] slot.done /\ req[r].pos >= EndPos -> "leave"
                        [] OTHER -> "waiting")
    /\ Keeps

\* poolWaitTimeout: serve what there is, or leave it to a direct stream.
WaitTimeout(r) ==
    /\ req[r].pc \in {"waiting", "woken"}
    /\ RequestGoto(r, IF req[r].pos < EndPos THEN "serve" ELSE "leave")
    /\ Keeps

\* The client's context is done; it is only looked at in the two selects.
ClientGone(r) ==
    /\ req[r].pc \in {"waiting", "woken", "asleep"}
    /\ RequestGoto(r, "leave")
    /\ Keeps

\* Bytes of the window, copied under the lock: a trim moves what is left in place.
Copied(pos, n) == SubSeq(slot.data, pos - slot.start + 1, pos - slot.start + n)

\* The head of the copying loop, up to the call of Write.
Serve(r) ==
    LET q == req[r] IN
    /\ q.pc = "serve"
    /\ req' = [req EXCEPT ![r] =
          CASE q.pos >= q.to \/ q.pos < slot.start -> [q EXCEPT !.pc = "leave"]
            [] q.pos < q.to /\ q.pos >= EndPos ->
                 [q EXCEPT !.pc = IF slot.done THEN "leave" ELSE "asleep"]
            [] OTHER -> [q EXCEPT !.pc = "write",
               !.chunk = Copied(q.pos, Least({EndPos - q.pos, MaxWrite, q.to - q.pos}))]]
    /\ Keeps

\* Write returns: the position moves, or the client is gone.
WriteReturns(r) ==
    LET q == req[r] IN
    /\ q.pc = "write"
    /\ \/ req' = [req EXCEPT ![r] = [q EXCEPT !.pc = "serve", !.pos = @ + Len(q.chunk),
                                             !.sent = @ \o q.chunk, !.chunk = <<>>]]
       \/ req' = [req EXCEPT ![r] = [q EXCEPT !.pc = "leave", !.chunk = <<>>]]
    /\ Keeps

\* The deferred unregisterReader.
Leave(r) ==
    /\ req[r].pc = "leave"
    /\ req' = [req EXCEPT ![r] = NoRequest]
    /\ NotifyReaderChanged
    /\ UNCHANGED <<slot, body, stall>>

-----------------------------------------------------------------------------
ReaderStep ==
    \/ Park
    \/ ParkedOut
    \/ Check
    \/ StallFires
    \/ \E n \in 0..1, end \in {"more", "eof", "error"} : ReadReturns(n, end)
    \/ Notify
    \/ GiveUpOrReconnect
    \/ GoOnOrEnd
    \/ \E served \in Offsets : Reopen(served)
    \/ Closing
    \/ LastNotify

RequestStep(r) == Enter(r) \/ LookAgain(r) \/ WaitTimeout(r) \/ Serve(r) \/ Leave(r)

Next ==
    \/ ReaderStep
    \/ LateStall
    \/ Evict
    \/ \E r \in Requests : RequestStep(r) \/ ClientGone(r) \/ WriteReturns(r)
    \/ \E r \in Requests, range \in Ranges, known \in BOOLEAN :
         \/ Acquire(r, range, known)
         \/ \E served \in Offsets : Open(r, range, served, known)

Spec == Init /\ [][Next]_vars

\* The goroutines go on; a Read ends, by the stall timer at the latest. A client
\* need not take what is written to it, nor ask again.
FairSpec == Spec /\ WF_vars(ReaderStep) /\ \A r \in Requests : WF_vars(RequestStep(r))

-----------------------------------------------------------------------------
(* Properties *)

\* The window never moves past a registered request, so "buffer trimmed past reader
\* position" never happens: findSlotLocked registers under the lock that it looks
\* under, and trimConsumedBufferLocked stops at the slowest position, with any mix
\* of fast and slow requests.
KeepsWhatRequestsNeed ==
    \A r \in Registered : slot.start <= req[r].pos

\* The byte at each place of the window is the file's byte at that offset, after shifted
\* upstream windows, trims and reconnects ("never the one we asked for").
WindowIsTheFile ==
    \A i \in 1..Len(slot.data) : slot.data[i] = slot.start + i - 1

\* What the client of a request sees of it; it began at reqStart.
Answer(r) ==
    IF req[r].pc = "idle" THEN [from |-> 0, to |-> 0, sent |-> <<>>]
    ELSE [from |-> req[r].pos - Len(req[r].sent), to |-> req[r].to, sent |-> req[r].sent]

Client == INSTANCE RangeAnswers WITH answer <- [r \in Requests |-> Answer(r)]

\* Every client is sent the part of the file it asked for, from its first byte, in order
\* and without a gap or a repetition, whatever the window has been through between the
\* copy of a chunk and the Write that takes it.
ServesRanges == Client!Spec

\* No wake-up is lost: a request that has caught up with the upstream is woken by
\* its next chunk or by its end, unless the window is full and another request,
\* at its very first byte, keeps it from moving.
HeldUp(r) == /\ Len(slot.data) >= Hard
             /\ \E d \in Registered \ {r} : req[d].pos = slot.start

SleeperIsWoken ==
    \A r \in Requests : req[r].pc = "asleep" ~> (req[r].pc # "asleep" \/ HeldUp(r))

\* An evicted slot lets its upstream connection go, wherever its reader was: parked,
\* reading or reconnecting.
EvictedSlotEnds ==
    slot.cancelled ~> (reader.pc \in {"none", "ended"} /\ ~ body.open)
=============================================================================
