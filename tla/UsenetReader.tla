----------------------------- MODULE UsenetReader -----------------------------
(***************************************************************************)
(* One reader of backend/internal/usenet (usenet_reader.go, segment.go).    *)
(* A manager hands the segments of the range, in order, to a bounded pool   *)
(* of downloads; each writes the article it fetches into the pipe of its    *)
(* segment, under a watchdog that gives up on an attempt; the consumer reads *)
(* the pipes one after the other.                                          *)
(*                                                                         *)
(* Content is counted in pieces. Time is left out: a timer may run out      *)
(* whenever the code arms it. The article pool and the pipe are libraries,  *)
(* modelled as the code uses them.                                          *)
(***************************************************************************)
EXTENDS Naturals, Sequences, FiniteSets

CONSTANTS
    N,         \* segments of the range
    Body,      \* pieces of each article
    Window,    \* pieces asked of each segment: what LimitReader lets through
    Workers,   \* maxDownloadWorkers
    Attempts,  \* segmentFetchAttempts: 3
    Wants      \* sizes of the buffers handed to Read

Segments == 1..N

\* An article that is shorter than its segment was estimated is taken as it is.
Size(s) == IF Body[s] < Window[s] THEN Body[s] ELSE Window[s]

ASSUME ReaderAssumption ==
    /\ N \in Nat \ {0}
    /\ Body \in [Segments -> Nat \ {0}]
    /\ Window \in [Segments -> Nat \ {0}]
    /\ Workers \in Nat \ {0}
    /\ Attempts \in Nat \ {0}
    /\ Wants \subseteq Nat \ {0}

\* The pieces that the segments before each one yield, and the range as a whole: by
\* these the pieces are numbered that Read returns.
Offset[c \in 1..(N + 1)] == IF c = 1 THEN 0 ELSE Offset[c - 1] + Size(c - 1)

VARIABLES
    manager,  \* downloadManager
    fetch,    \* the download of each segment
    pipe,     \* the pipe of each segment
    reader,   \* the consumer's side: Read
    out,      \* the pieces Read returned, by their place in the range
    ctx,      \* "live", or "done": the caller's context ended, or Close did it
    closing   \* Close: "open", "closed", then "cleared" by its clean-up

vars == <<manager, fetch, pipe, reader, out, ctx, closing>>

-----------------------------------------------------------------------------
(* State *)

\* next: the segment the loop is at. waiting: for the first Read, on init.
\* handing: past the test of the context, waiting for a free download.
Manager == [pc : {"waiting", "signalled", "running", "handing", "done"}, next : 1..(N + 1)]

\* sent: bytesWritten of the attempt. cause: what the watchdog cancelled it for.
Fetch == [pc : {"none", "body", "backoff", "done"}, attempt : 0..Attempts,
          sent : Nat, cause : {"none", "retired", "expired", "stalled"}]

\* buf: all that was written. got: how much of it the consumer took.
\* end: what CloseWithError left. closed: the segment is.
Pipe == [buf : Seq(Nat), got : Nat,
         end : {"open", "eof", "error", "canceled"}, closed : BOOLEAN]

\* cur: rg.current + 1. n: pieces this call has so far.
Reader == [pc : {"idle", "reading", "eof", "failed"}, cur : 1..(N + 1),
           want : Nat, n : Nat]

TypeOK ==
    /\ manager \in Manager
    /\ fetch \in [Segments -> Fetch]
    /\ pipe \in [Segments -> Pipe]
    /\ reader \in Reader
    /\ out \in Seq(Nat)
    /\ ctx \in {"live", "done"}
    /\ closing \in {"open", "closed", "cleared"}

Init ==
    /\ manager = [pc |-> "waiting", next |-> 1]
    /\ fetch = [s \in Segments |-> [pc |-> "none", attempt |-> 0, sent |-> 0,
                                    cause |-> "none"]]
    /\ pipe = [s \in Segments |-> [buf |-> <<>>, got |-> 0, end |-> "open",
                                   closed |-> FALSE]]
    /\ reader = [pc |-> "idle", cur |-> 1, want |-> 0, n |-> 0]
    /\ out = <<>>
    /\ ctx = "live"
    /\ closing = "open"

-----------------------------------------------------------------------------
(* downloadManager *)

ManagerStarts ==
    /\ manager.pc = "signalled"
    /\ manager' = [manager EXCEPT !.pc = "running"]
    /\ UNCHANGED <<fetch, pipe, reader, out, ctx, closing>>

\* Slip: until the first Read the manager waits for nothing else.
ManagerQuitsLate ==
    /\ manager.pc = "signalled"
    /\ ctx = "done"
    /\ manager' = [manager EXCEPT !.pc = "done"]
    /\ UNCHANGED <<fetch, pipe, reader, out, ctx, closing>>

\* The context is done, or Close closed the channel; with the signal there as well
\* select takes either.
ManagerQuits ==
    /\ manager.pc \in {"waiting", "signalled"}
    /\ ctx = "done"
    /\ manager' = [manager EXCEPT !.pc = "done"]
    /\ UNCHANGED <<fetch, pipe, reader, out, ctx, closing>>

Downloading == {s \in Segments : fetch[s].pc \in {"body", "backoff"}}

\* The loop tests the context, then waits for the pool with the segment in hand.
ManagerTests ==
    /\ manager.pc = "running"
    /\ manager.next \in Segments
    /\ ctx = "live"
    /\ manager' = [manager EXCEPT !.pc = "handing"]
    /\ UNCHANGED <<fetch, pipe, reader, out, ctx, closing>>

\* A segment that is closed already has no writer and nothing to fetch; with the
\* context over no BODY is sent, and the pipe is told so.
ManagerTakes(s) ==
    /\ manager.pc = "handing"
    /\ manager.next = s
    /\ Cardinality(Downloading) < Workers
    /\ manager' = [manager EXCEPT !.pc = "running", !.next = s + 1]
    /\ fetch' = [fetch EXCEPT
                   ![s].pc = IF pipe[s].closed \/ ctx = "done" THEN "done" ELSE "body",
                   ![s].attempt = 1]
    /\ pipe' = [pipe EXCEPT
                  ![s].end = IF ctx = "done" /\ ~ pipe[s].closed THEN "canceled" ELSE @]
    /\ UNCHANGED <<reader, out, ctx, closing>>

\* The loop is left: the segments after this one get no download.
ManagerBreaks ==
    /\ manager.pc = "running"
    /\ manager.next \in Segments
    /\ ctx = "done"
    /\ manager' = [manager EXCEPT !.next = N + 1]
    /\ UNCHANGED <<fetch, pipe, reader, out, ctx, closing>>

ManagerEnds ==
    /\ manager.pc = "running"
    /\ manager.next = N + 1
    /\ Downloading = {}
    /\ manager' = [manager EXCEPT !.pc = "done"]
    /\ UNCHANGED <<fetch, pipe, reader, out, ctx, closing>>

ManagerStep ==
    \/ ManagerStarts
    \/ ManagerQuits
    \/ ManagerTests
    \/ \E s \in Segments : ManagerTakes(s)
    \/ ManagerBreaks
    \/ ManagerEnds

-----------------------------------------------------------------------------
(* The watchdog of an attempt: one of them at most, and not after BODY returned *)

Watched(s) == fetch[s].pc = "body" /\ fetch[s].cause = "none" /\ ctx = "live"

\* Slip: markRequired is not called.
RequiredUnmarked(s) == FALSE
\* requiredSince is set while the consumer waits for this segment.
Required(s) == reader.pc = "reading" /\ reader.cur = s /\ ~ pipe[s].closed

\* IsComplete: all that the segment was asked for has been read.
Consumed(s) == pipe[s].got >= Window[s]

GivesUp(s, cause) ==
    /\ Watched(s)
    /\ fetch' = [fetch EXCEPT ![s].cause = cause]
    /\ UNCHANGED <<manager, pipe, reader, out, ctx, closing>>

WatchRetires(s) == pipe[s].closed /\ GivesUp(s, "retired")
WatchExpires(s) == Consumed(s) /\ ~ pipe[s].closed /\ GivesUp(s, "expired")

\* No byte for three seconds while the consumer waits. A download ahead of the
\* consumer is never timed out.
WatchStalls(s) == Required(s) /\ GivesUp(s, "stalled")

WatchStep(s) == WatchRetires(s) \/ WatchExpires(s) \/ WatchStalls(s)

-----------------------------------------------------------------------------
(* fetchSegmentBodyWithWatchdog *)

AttemptCancelled(s) == fetch[s].cause # "none" \/ ctx = "done"

\* BODY delivers the next piece of the article; a closed pipe takes none.
BodyWrites(s) ==
    /\ fetch[s].pc = "body"
    /\ fetch[s].sent < Body[s]
    /\ ~ pipe[s].closed
    /\ pipe' = [pipe EXCEPT ![s].buf = Append(@, fetch[s].sent + 1)]
    /\ fetch' = [fetch EXCEPT ![s].sent = @ + 1]
    /\ UNCHANGED <<manager, reader, out, ctx, closing>>

\* The download is over: CloseWithError, with the error or none.
Finish(s, end) ==
    /\ fetch' = [fetch EXCEPT ![s].pc = "done"]
    /\ pipe' = [pipe EXCEPT ![s].end = end]

TryAgain(s) ==
    /\ fetch' = [fetch EXCEPT ![s].pc = "backoff"]
    /\ UNCHANGED pipe

\* What BODY can return: success for a whole article; the cancellation, or a success
\* that raced it, by whomever the attempt was cancelled; any other error.
Results(s) ==
    {"error"} \cup (IF AttemptCancelled(s) THEN {"canceled", "eof"} ELSE {})
              \cup (IF fetch[s].sent = Body[s] THEN {"eof"} ELSE {})

\* Slip: a provider that reports success after the watchdog fired is believed.
OutcomeBelieved(s, result) == result
\* A timeout does not become a success. The end of the context is not looked at.
Outcome(s, result) ==
    IF fetch[s].cause = "stalled" /\ result = "eof" THEN "canceled" ELSE result

\* Slip: an attempt that wrote something is repeated.
MayRetryAfterOutput(s, result) ==
    /\ fetch[s].attempt < Attempts
    /\ result = "canceled" => fetch[s].cause = "stalled"
\* Slip: one attempt too many.
MayRetryOnceMore(s, result) ==
    /\ fetch[s].sent = 0
    /\ fetch[s].attempt <= Attempts
    /\ result = "canceled" => fetch[s].cause = "stalled"
\* Only what wrote nothing, and was not cancelled from outside, is repeated.
MayRetry(s, result) ==
    /\ fetch[s].sent = 0
    /\ fetch[s].attempt < Attempts
    /\ result = "canceled" => fetch[s].cause = "stalled"

BodyReturns(s) ==
    /\ fetch[s].pc = "body"
    /\ \E result \in Results(s) :
         CASE fetch[s].cause = "expired" -> Finish(s, "error")
           [] fetch[s].cause # "expired" /\ Outcome(s, result) = "eof" -> Finish(s, "eof")
           [] fetch[s].cause # "expired" /\ Outcome(s, result) # "eof" ->
                IF MayRetry(s, Outcome(s, result)) THEN TryAgain(s)
                ELSE IF fetch[s].cause = "stalled" THEN Finish(s, "error")
                ELSE Finish(s, Outcome(s, result))
    /\ UNCHANGED <<manager, reader, out, ctx, closing>>

\* The wait before the next attempt ends, or the context does.
BackoffEnds(s) ==
    /\ fetch[s].pc = "backoff"
    /\ IF ctx = "done"
         THEN Finish(s, "canceled")
         ELSE /\ fetch' = [fetch EXCEPT ![s] = [pc |-> "body", attempt |-> @.attempt + 1,
                                               sent |-> 0, cause |-> "none"]]
              /\ UNCHANGED pipe
    /\ UNCHANGED <<manager, reader, out, ctx, closing>>

-----------------------------------------------------------------------------
(* Read, Get and Next *)

\* The first Read signals the manager; one past the last segment is answered at once.
ReadBegins(want) ==
    /\ reader.pc = "idle"
    /\ closing = "open"
    /\ reader' = IF reader.cur = N + 1
                   THEN [reader EXCEPT !.pc = "eof"]
                   ELSE [reader EXCEPT !.pc = "reading", !.want = want, !.n = 0]
    /\ manager' = IF manager.pc = "waiting" THEN [manager EXCEPT !.pc = "signalled"]
                  ELSE manager
    /\ UNCHANGED <<fetch, pipe, out, ctx, closing>>

Current == pipe[reader.cur]

\* A piece is there and within the window. A full buffer ends the call.
ReadTakes ==
    /\ reader.pc = "reading"
    /\ closing # "cleared"
    /\ Current.got < Len(Current.buf)
    /\ Current.got < Window[reader.cur]
    /\ out' = Append(out, Offset[reader.cur] + Current.buf[Current.got + 1])
    /\ pipe' = [pipe EXCEPT ![reader.cur].got = @ + 1]
    /\ reader' = [reader EXCEPT !.n = @ + 1,
                    !.pc = IF reader.n + 1 = reader.want THEN "idle" ELSE "reading"]
    /\ UNCHANGED <<manager, fetch, ctx, closing>>

Drained == Current.got = Len(Current.buf)

\* The segment is at its end: the window is read, or the pipe closed with no error.
SegmentOver == Consumed(reader.cur) \/ (Drained /\ Current.end = "eof")

\* Next closes the segment and moves on. After the last one the call returns what it
\* has; with nothing it returns the end of the file.
ReadMovesOn ==
    /\ reader.pc = "reading"
    /\ closing # "cleared"
    /\ SegmentOver
    /\ pipe' = [pipe EXCEPT ![reader.cur].closed = TRUE]
    /\ reader' = [reader EXCEPT !.cur = @ + 1,
                    !.pc = IF reader.cur < N THEN "reading"
                           ELSE IF reader.n > 0 THEN "idle" ELSE "eof"]
    /\ UNCHANGED <<manager, fetch, out, ctx, closing>>

ReadFails ==
    /\ reader.pc = "reading"
    /\ closing # "cleared"
    /\ ~ Consumed(reader.cur)
    /\ Drained
    /\ Current.end \in {"error", "canceled"}
    /\ reader' = [reader EXCEPT !.pc = "failed"]
    /\ UNCHANGED <<manager, fetch, pipe, out, ctx, closing>>

\* The clean-up took the segments away under the call.
ReadCutShort ==
    /\ reader.pc = "reading"
    /\ closing = "cleared"
    /\ reader' = [reader EXCEPT !.pc = "eof"]
    /\ UNCHANGED <<manager, fetch, pipe, out, ctx, closing>>

ReadStep == ReadTakes \/ ReadMovesOn \/ ReadFails \/ ReadCutShort

-----------------------------------------------------------------------------
(* Close and the caller's context *)

Close ==
    /\ closing = "open"
    /\ closing' = "closed"
    /\ ctx' = "done"
    /\ UNCHANGED <<manager, fetch, pipe, reader, out>>

\* The clean-up waits for the manager, for 30 s at most, and closes what is left.
CleansUp ==
    /\ closing = "closed"
    /\ closing' = "cleared"
    /\ pipe' = [s \in Segments |-> [pipe[s] EXCEPT !.closed = TRUE, !.end = "eof"]]
    /\ UNCHANGED <<manager, fetch, reader, out, ctx>>

CallerLeaves ==
    /\ ctx = "live"
    /\ ctx' = "done"
    /\ UNCHANGED <<manager, fetch, pipe, reader, out, closing>>

Next ==
    \/ ManagerStep
    \/ \E s \in Segments :
         \/ WatchStep(s)
         \/ BodyWrites(s)
         \/ BodyReturns(s)
         \/ BackoffEnds(s)
    \/ \E want \in Wants : ReadBegins(want)
    \/ ReadStep
    \/ Close
    \/ CleansUp
    \/ CallerLeaves

\* Goroutines run on and timers run out. A BODY may be silent for ever, cancelled or
\* not, and the consumer need not come back or close.
Fairness ==
    /\ WF_vars(ManagerStep)
    /\ WF_vars(ReadStep)
    /\ WF_vars(CleansUp)
    /\ \A s \in Segments :
         /\ WF_vars(WatchStep(s))
         /\ WF_vars(BackoffEnds(s))

Spec == Init /\ [][Next]_vars /\ Fairness

-----------------------------------------------------------------------------
(* Properties *)

\* A pipe holds the beginning of its article, each piece once: attempts that failed
\* leave nothing behind that the next one would repeat.
PipesHoldTheArticle ==
    \A s \in Segments : \A i \in 1..Len(pipe[s].buf) : pipe[s].buf[i] = i

\* What the consumer sees of the reader.
End == IF ctx = "done" THEN "abandoned"
       ELSE IF reader.pc \in {"eof", "failed"} THEN reader.pc ELSE "open"

Stream == INSTANCE ByteStream WITH Total <- Offset[N + 1], out <- out, end <- End

\* The reader is such a stream: until the caller's context ends or Close ends it, retries,
\* timeouts and retired segments never repeat, drop or reorder a piece, and never pass
\* for the end of the file. After that pieces may be missing, for a BODY that returns a
\* success as its context ends leaves a short segment that is taken for a whole one; still
\* none is repeated or reordered.
IsByteStream == Stream!Spec

\* What the watchdog counts on: a BODY whose attempt was cancelled comes back.
CancelledBodiesReturn ==
    \A s \in Segments : WF_vars(AttemptCancelled(s) /\ BodyReturns(s))

\* Slowness does not stop a consumer: if BODY heeds the watchdog, a Read comes back,
\* unless the caller's context ended and nobody closed the reader.
ReadReturns ==
    CancelledBodiesReturn =>
      (reader.pc = "reading" ~> reader.pc # "reading" \/ (ctx = "done" /\ closing = "open"))

\* All that may be left of a reader once it is closed: BODY calls that do not come back,
\* each on a pipe that takes nothing any more, and the manager that waits for them.
OnlyStuckBodies ==
    /\ reader.pc # "reading"
    /\ manager.pc = "done" \/ Downloading # {}
    /\ \A s \in Downloading : fetch[s].pc = "body" /\ pipe[s].closed

\* Close releases the Read under way and the manager, and no new attempt begins, though
\* BODY calls may be stuck on the network for ever: the clean-up does not wait for them.
CloseLeavesOnlyStuckBodies == closing # "open" ~> []OnlyStuckBodies
==============================================================================
