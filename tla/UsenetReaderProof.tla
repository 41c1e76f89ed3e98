--------------------------- MODULE UsenetReaderProof ---------------------------
(* Proofs about UsenetReader, for any range of segments, any number of       *)
(* download workers and attempts, and buffers of any size.                   *)
EXTENDS UsenetReader, WellFoundedInduction, TLAPS

LEMMA Constants ==
    /\ N \in Nat \ {0} /\ Segments = 1..N
    /\ Attempts \in Nat \ {0}
    /\ \A s \in Segments :
         /\ Body[s] \in Nat /\ Window[s] \in Nat /\ Size(s) \in Nat
         /\ Size(s) = Body[s] \/ Size(s) = Window[s]
         /\ Size(s) <= Body[s] /\ Size(s) <= Window[s]
<1>1. N \in Nat \ {0} /\ Attempts \in Nat \ {0} /\ Segments = 1..N
  BY ReaderAssumption DEF Segments
<1>2. ASSUME NEW s \in Segments PROVE Body[s] \in Nat /\ Window[s] \in Nat
  <2>1. Body \in [Segments -> Nat] /\ Window \in [Segments -> Nat]
    BY ReaderAssumption
  <2>2. QED BY <2>1
<1>3. ASSUME NEW s \in Segments
      PROVE  /\ Size(s) = Body[s] \/ Size(s) = Window[s]
             /\ Size(s) <= Body[s] /\ Size(s) <= Window[s]
  BY <1>2 DEF Size
<1>4. QED BY <1>1, <1>2, <1>3

LEMMA Places == \A c \in 1..(N + 1) : c = N + 1 \/ c \in Segments
<1>1. N \in Nat
  BY ReaderAssumption
<1>2. QED BY <1>1 DEF Segments

\* A set of natural numbers that is not empty has a least element.
LEMMA LeastOf ==
    ASSUME NEW S \in SUBSET Nat, S # {}
    PROVE  \E x \in S : \A y \in S : x <= y
<1> DEFINE R == {ss \in Nat \X Nat : ss[1] < ss[2]}
<1>1. IsWellFoundedOn(R, Nat)
  BY NatLessThanWellFounded DEF OpToRel
<1>2. \A x, y \in Nat : y < x => <<y, x>> \in R
  OBVIOUS
<1> HIDE DEF R
<1>3. PICK x \in S : \A y \in S : <<y, x>> \notin R
  BY <1>1, WFMin
<1>4. \A y \in S : x <= y
  <2>1. TAKE y \in S
  <2>2. x \in Nat /\ y \in Nat /\ ~(y < x)
    BY <1>2, <1>3
  <2>3. QED BY <2>2
<1>5. QED BY <1>3, <1>4

\* The sums of the sizes of the first segments, which Offset is to be.
IsSums(g, k) ==
    /\ g \in [1..(k + 1) -> Nat]
    /\ g[1] = 0
    /\ \A s \in 1..k : g[s + 1] = g[s] + Size(s)

LEMMA SumsExist == \A k \in 0..N : \E g : IsSums(g, k)
<1> DEFINE Bad == {k \in 0..N : ~ \E g : IsSums(g, k)}
<1>1. SUFFICES ASSUME Bad # {} PROVE FALSE
  OBVIOUS
<1>2. Bad \in SUBSET Nat
  BY Constants
<1>3. PICK k \in Bad : \A y \in Bad : k <= y
  BY <1>1, <1>2, LeastOf
<1>4. k \in 0..N /\ N \in Nat /\ ~ \E g : IsSums(g, k)
  BY <1>3, Constants
<1>5. k # 0
  <2> DEFINE g == [c \in 1..1 |-> 0]
  <2>1. IsSums(g, 0)
    BY DEF IsSums
  <2>2. QED BY <2>1, <1>4
<1>6. k - 1 \in 0..N /\ k - 1 \notin Bad
  BY <1>3, <1>4, <1>5
<1>7. PICK g : IsSums(g, k - 1)
  BY <1>6
<1> DEFINE h == [c \in 1..(k + 1) |-> IF c = k + 1 THEN g[k] + Size(k) ELSE g[c]]
<1>8. k \in Segments /\ Size(k) \in Nat
  BY <1>4, <1>5, Constants
<1>9. g \in [1..k -> Nat] /\ g[1] = 0 /\ \A s \in 1..(k - 1) : g[s + 1] = g[s] + Size(s)
  BY <1>4, <1>7 DEF IsSums
<1>10. IsSums(h, k)
  <2>1. h \in [1..(k + 1) -> Nat]
    BY <1>4, <1>5, <1>8, <1>9
  <2>2. h[1] = 0
    BY <1>4, <1>5, <1>9
  <2>3. ASSUME NEW s \in 1..k PROVE h[s + 1] = h[s] + Size(s)
    <3>1. CASE s = k
      BY <3>1, <1>4, <1>5, <1>8, <1>9
    <3>2. CASE s # k
      <4>1. s \in 1..(k - 1) /\ s + 1 \in 1..(k + 1) /\ s + 1 # k + 1 /\ s \in 1..(k + 1) /\ s # k + 1
        BY <3>2, <1>4, <1>5
      <4>2. h[s + 1] = g[s + 1] /\ h[s] = g[s]
        BY <4>1
      <4>3. QED BY <4>1, <4>2, <1>9
    <3>3. QED BY <3>1, <3>2
  <2> HIDE DEF h
  <2>4. QED BY <2>1, <2>2, <2>3 DEF IsSums
<1>11. QED BY <1>4, <1>10

\* The recursion defines a function, and it is these sums.
LEMMA OffsetIsDefined == IsSums(Offset, N)
<1> DEFINE F(f) == [c \in 1..(N + 1) |-> IF c = 1 THEN 0 ELSE f[c - 1] + Size(c - 1)]
<1>1. N \in Nat /\ N \in 0..N
  BY Constants
<1>2. PICK g : IsSums(g, N)
  BY <1>1, SumsExist
<1>3. g = F(g)
  <2>1. ASSUME NEW c \in 1..(N + 1)
        PROVE  g[c] = IF c = 1 THEN 0 ELSE g[c - 1] + Size(c - 1)
    <3>1. CASE c = 1
      BY <3>1, <1>2 DEF IsSums
    <3>2. CASE c # 1
      <4>1. c - 1 \in 1..N /\ (c - 1) + 1 = c
        BY <1>1, <3>2
      <4>2. g[(c - 1) + 1] = g[c - 1] + Size(c - 1)
        BY <1>2, <4>1 DEF IsSums
      <4>3. QED BY <3>2, <4>1, <4>2
    <3>3. QED BY <3>1, <3>2
  <2>2. QED BY <1>2, <2>1 DEF IsSums
<1>4. Offset = F(Offset)
  <2>1. Offset = CHOOSE f : f = F(f)
    BY DEF Offset
  <2> HIDE DEF F
  <2>2. QED BY <1>3, <2>1
<1>5. \A c \in 1..(N + 1) : Offset[c] = IF c = 1 THEN 0 ELSE Offset[c - 1] + Size(c - 1)
  BY <1>4
<1>6. Offset[1] = 0
  BY <1>1, <1>5
<1>7. \A s \in 1..N : Offset[s + 1] = Offset[s] + Size(s)
  <2>1. TAKE s \in 1..N
  <2>2. s + 1 \in 1..(N + 1) /\ s + 1 # 1 /\ (s + 1) - 1 = s
    BY <1>1
  <2>3. QED BY <1>5, <2>2
<1>8. \A c \in 1..(N + 1) : Offset[c] \in Nat
  <2> DEFINE Bad == {c \in 1..(N + 1) : Offset[c] \notin Nat}
  <2>1. SUFFICES ASSUME Bad # {} PROVE FALSE
    OBVIOUS
  <2>2. PICK c \in Bad : \A y \in Bad : c <= y
    <3>1. Bad \in SUBSET Nat
      BY <1>1
    <3>2. QED BY <2>1, <3>1, LeastOf
  <2>3. c \in 1..(N + 1) /\ c # 1 /\ Offset[c] \notin Nat
    BY <2>2, <1>6
  <2>4. c - 1 \in 1..N /\ c - 1 \in 1..(N + 1) /\ c - 1 \notin Bad /\ (c - 1) + 1 = c
    BY <2>2, <2>3, <1>1
  <2>5. Offset[c - 1] \in Nat /\ Size(c - 1) \in Nat
    BY <2>4, Constants
  <2>6. Offset[(c - 1) + 1] = Offset[c - 1] + Size(c - 1)
    BY <1>7, <2>4
  <2>7. QED BY <2>3, <2>4, <2>5, <2>6
<1>9. Offset \in [1..(N + 1) -> Nat]
  <2>1. Offset = [c \in 1..(N + 1) |-> Offset[c]]
    BY <1>4
  <2>2. QED BY <1>8, <2>1
<1>10. QED BY <1>6, <1>7, <1>9 DEF IsSums

LEMMA Offsets ==
    /\ \A c \in 1..(N + 1) : Offset[c] \in Nat /\ Offset[c] <= Offset[N + 1]
    /\ \A s \in Segments : s + 1 \in 1..(N + 1) /\ Offset[s + 1] = Offset[s] + Size(s)
    /\ Offset[1] = 0
<1>1. N \in Nat /\ Segments = 1..N
  BY Constants
<1>2. /\ Offset \in [1..(N + 1) -> Nat] /\ Offset[1] = 0
      /\ \A s \in 1..N : Offset[s + 1] = Offset[s] + Size(s)
  BY OffsetIsDefined DEF IsSums
<1>3. \A c \in 1..(N + 1) : Offset[c] <= Offset[N + 1]
  <2> DEFINE Bad == {k \in 0..N : ~(Offset[N + 1 - k] <= Offset[N + 1])}
  <2>1. Bad = {}
    <3>1. SUFFICES ASSUME Bad # {} PROVE FALSE
      OBVIOUS
    <3>2. PICK k \in Bad : \A y \in Bad : k <= y
      <4>1. Bad \in SUBSET Nat
        BY <1>1
      <4>2. QED BY <3>1, <4>1, LeastOf
    <3>3. k \in 0..N /\ k # 0
      BY <1>1, <1>2, <3>2
    <3>4. k - 1 \in 0..N /\ k - 1 \notin Bad
      BY <1>1, <3>2, <3>3
    <3>5. PICK s \in 1..N : s = N + 1 - k /\ s + 1 = N + 1 - (k - 1)
      BY <1>1, <3>3
    <3>6. Offset[s + 1] <= Offset[N + 1] /\ ~(Offset[s] <= Offset[N + 1])
      BY <3>2, <3>4, <3>5
    <3>7. Offset[s + 1] = Offset[s] + Size(s) /\ Size(s) \in Nat /\ Offset[s] \in Nat
          /\ Offset[N + 1] \in Nat
      <4>1. s \in 1..(N + 1) /\ N + 1 \in 1..(N + 1) /\ s \in Segments
        BY <1>1
      <4>2. QED BY <1>2, <4>1, Constants
    <3>8. QED BY <3>6, <3>7
  <2>2. TAKE c \in 1..(N + 1)
  <2>3. N + 1 - c \in 0..N /\ N + 1 - (N + 1 - c) = c
    BY <1>1
  <2>4. N + 1 - c \notin Bad
    BY <2>1
  <2>5. QED BY <2>3, <2>4
<1>4. QED BY <1>1, <1>2, <1>3

-----------------------------------------------------------------------------
(* The inductive invariant. What is in a pipe is what the attempt under way   *)
(* wrote, because only an attempt that wrote nothing is repeated; while the     *)
(* context lives its end is the article's, unless the consumer left it behind,  *)
(* and what Read returned is the range up to where it stands; after that it is  *)
(* pieces from before there, in order.                                         *)

PipeHolds(s) ==
    /\ Len(pipe[s].buf) = fetch[s].sent
    /\ \A i \in 1..Len(pipe[s].buf) : pipe[s].buf[i] = i
    /\ fetch[s].sent <= Body[s]
    /\ pipe[s].got <= Len(pipe[s].buf)
    /\ pipe[s].got <= Window[s]
    /\ fetch[s].pc = "backoff" => fetch[s].sent = 0 /\ fetch[s].attempt < Attempts
    /\ fetch[s].cause = "retired" => pipe[s].closed
    /\ pipe[s].end = "eof" /\ ctx = "live" => fetch[s].sent = Body[s] \/ pipe[s].closed

Pipes == \A s \in Segments : PipeHolds(s)

\* Where the consumer stands in the range.
Place == IF reader.cur = N + 1 THEN Offset[N + 1]
         ELSE Offset[reader.cur] + pipe[reader.cur].got

Delivered ==
    /\ ctx = "live" => /\ Len(out) = Place
                       /\ closing = "open"
                       /\ \A s \in Segments : pipe[s].closed => s < reader.cur
    /\ Stream!Latest <= Place
    /\ reader.pc = "reading" => reader.cur \in Segments
    /\ \A s \in Segments : s > reader.cur => pipe[s].got = 0

IInv == TypeOK /\ Pipes /\ Delivered

\* Changing fields of a record leaves a record.
LEMMA FetchUpdates ==
    ASSUME NEW v \in Fetch
    PROVE  /\ \A pc \in {"done", "body", "backoff"} : [v EXCEPT !.pc = pc] \in Fetch
           /\ \A pc \in {"done", "body"} : [v EXCEPT !.pc = pc, !.attempt = 1] \in Fetch
           /\ \A n \in Nat : [v EXCEPT !.sent = n] \in Fetch
           /\ v.sent \in Nat /\ v.attempt \in 0..Attempts
<1>1. 1 \in 0..Attempts
  BY Constants
<1>2. \A pc \in {"done", "body", "backoff"} : [v EXCEPT !.pc = pc] \in Fetch
  BY DEF Fetch
<1>3. \A pc \in {"done", "body"} : [v EXCEPT !.pc = pc, !.attempt = 1] \in Fetch
  BY <1>1 DEF Fetch
<1>4. \A n \in Nat : [v EXCEPT !.sent = n] \in Fetch
  BY DEF Fetch
<1>5. v.sent \in Nat /\ v.attempt \in 0..Attempts
  BY DEF Fetch
<1>6. QED BY <1>2, <1>3, <1>4, <1>5

LEMMA ManagerUpdates ==
    ASSUME NEW m \in Manager
    PROVE  /\ \A pc \in {"waiting", "signalled", "running", "handing", "done"} :
                [m EXCEPT !.pc = pc] \in Manager
           /\ \A next \in 1..(N + 1) : [m EXCEPT !.next = next] \in Manager
           /\ \A next \in 1..(N + 1) : [m EXCEPT !.pc = "running", !.next = next] \in Manager
BY DEF Manager

LEMMA InvInit == Init => IInv
<1> SUFFICES ASSUME Init PROVE IInv
  OBVIOUS
<1>1. TypeOK
  BY Constants DEF Init, TypeOK, Manager, Fetch, Pipe, Reader
<1>2. Pipes
  BY Constants DEF Init, Pipes, PipeHolds
<1>3. Delivered
  BY Constants, Offsets DEF Init, Delivered, Place, Stream!Latest
<1>4. QED BY <1>1, <1>2, <1>3 DEF IInv

-----------------------------------------------------------------------------
(* The steps *)

\* What a step of the manager does to the downloads and their pipes.
LEMMA ManagerMoves ==
    ASSUME TypeOK, ManagerStep, NEW s \in Segments
    PROVE  /\ UNCHANGED <<reader, out, ctx, closing>>
           /\ fetch' = [t \in Segments |-> fetch'[t]] /\ pipe' = [t \in Segments |-> pipe'[t]]
           /\ fetch'[s] \in Fetch /\ pipe'[s] \in Pipe
           /\ fetch'[s].sent = fetch[s].sent /\ fetch'[s].cause = fetch[s].cause
           /\ fetch'[s].pc = "backoff" =>
                fetch[s].pc = "backoff" /\ fetch'[s].attempt = fetch[s].attempt
           /\ pipe'[s].buf = pipe[s].buf /\ pipe'[s].got = pipe[s].got
           /\ pipe'[s].closed = pipe[s].closed
           /\ pipe'[s].end \in {pipe[s].end, "canceled"}
<1>1. /\ fetch \in [Segments -> Fetch] /\ pipe \in [Segments -> Pipe]
      /\ fetch[s] \in Fetch /\ pipe[s] \in Pipe
      /\ UNCHANGED <<reader, out, ctx, closing>>
  BY DEF TypeOK, ManagerStep, ManagerStarts, ManagerQuits, ManagerTests, ManagerTakes, ManagerBreaks,
         ManagerEnds
<1>2. fetch' = [t \in Segments |-> fetch'[t]] /\ pipe' = [t \in Segments |-> pipe'[t]]
  BY <1>1 DEF ManagerStep, ManagerStarts, ManagerQuits, ManagerTests, ManagerTakes, ManagerBreaks, ManagerEnds
<1>3. CASE ~ ManagerTakes(s)
  <2>1. fetch'[s] = fetch[s] /\ pipe'[s] = pipe[s]
    BY <1>1, <1>3 DEF ManagerStep, ManagerStarts, ManagerQuits, ManagerTests, ManagerTakes, ManagerBreaks,
                      ManagerEnds
  <2>2. QED BY <1>1, <1>2, <2>1
<1>4. CASE ManagerTakes(s)
  <2>1. PICK pc \in {"done", "body"} : fetch'[s] = [fetch[s] EXCEPT !.pc = pc, !.attempt = 1]
    <3>1. fetch'[s] = [fetch[s] EXCEPT
                         !.pc = IF pipe[s].closed \/ ctx = "done" THEN "done" ELSE "body",
                         !.attempt = 1]
      BY <1>1, <1>4 DEF ManagerTakes
    <3>2. QED BY <3>1
  <2>2. fetch'[s] \in Fetch
    <3>1. \A c \in {"done", "body"} : [fetch[s] EXCEPT !.pc = c, !.attempt = 1] \in Fetch
      BY <1>1, FetchUpdates
    <3>2. QED BY <2>1, <3>1
  <2>3. /\ fetch'[s].sent = fetch[s].sent /\ fetch'[s].cause = fetch[s].cause
        /\ fetch'[s].pc # "backoff"
    BY <1>1, <2>1 DEF Fetch
  <2>4. PICK end \in {pipe[s].end, "canceled"} : pipe'[s] = [pipe[s] EXCEPT !.end = end]
    BY <1>1, <1>4 DEF ManagerTakes
  <2>5. /\ pipe'[s] \in Pipe
        /\ pipe'[s].buf = pipe[s].buf /\ pipe'[s].got = pipe[s].got
        /\ pipe'[s].closed = pipe[s].closed /\ pipe'[s].end = end
    BY <1>1, <2>4 DEF Pipe
  <2>6. QED BY <1>1, <1>2, <2>2, <2>3, <2>5
<1>5. QED BY <1>3, <1>4

LEMMA ManagerKeeps ==
    ASSUME IInv, ManagerStep
    PROVE  IInv'
<1>1. manager \in Manager /\ UNCHANGED <<reader, out, ctx, closing>>
  BY DEF IInv, TypeOK, ManagerStep, ManagerStarts, ManagerQuits, ManagerTests, ManagerTakes, ManagerBreaks,
         ManagerEnds
<1>2. manager' \in Manager
  <2>1. CASE ManagerStarts \/ ManagerQuits \/ ManagerTests \/ ManagerEnds
    BY <1>1, <2>1, ManagerUpdates DEF ManagerStarts, ManagerQuits, ManagerTests, ManagerEnds
  <2>2. CASE ManagerBreaks
    <3>1. N + 1 \in 1..(N + 1)
      BY Constants
    <3>2. QED BY <1>1, <2>2, <3>1, ManagerUpdates DEF ManagerBreaks
  <2>3. ASSUME NEW s \in Segments, ManagerTakes(s) PROVE manager' \in Manager
    <3>1. s + 1 \in 1..(N + 1)
      BY Constants
    <3>2. QED BY <1>1, <2>3, <3>1, ManagerUpdates DEF ManagerTakes
  <2>4. QED BY <2>1, <2>2, <2>3 DEF ManagerStep
<1>3. \A s \in Segments :
        /\ fetch'[s] \in Fetch /\ pipe'[s] \in Pipe
        /\ fetch'[s].sent = fetch[s].sent /\ fetch'[s].cause = fetch[s].cause
        /\ fetch'[s].pc = "backoff" =>
             fetch[s].pc = "backoff" /\ fetch'[s].attempt = fetch[s].attempt
        /\ pipe'[s].buf = pipe[s].buf /\ pipe'[s].got = pipe[s].got
        /\ pipe'[s].closed = pipe[s].closed
        /\ pipe'[s].end \in {pipe[s].end, "canceled"}
  BY ManagerMoves DEF IInv
<1>4. fetch' = [t \in Segments |-> fetch'[t]] /\ pipe' = [t \in Segments |-> pipe'[t]]
  <2>1. 1 \in Segments
    BY Constants
  <2>2. QED BY <2>1, ManagerMoves DEF IInv
<1>5. TypeOK'
  BY <1>1, <1>2, <1>3, <1>4 DEF IInv, TypeOK
<1>6. Pipes'
  BY <1>1, <1>3 DEF IInv, Pipes, PipeHolds
<1>7. Delivered'
  <2>1. reader.cur \in 1..(N + 1)
    BY DEF IInv, TypeOK, Reader
  <2>2. Place' = Place
    BY <1>1, <1>3, <2>1, Places DEF Place
  <2>3. QED BY <1>1, <1>3, <2>2 DEF IInv, Delivered, Stream!Latest
<1>8. QED BY <1>5, <1>6, <1>7 DEF IInv

LEMMA WatchKeeps ==
    ASSUME IInv, NEW s \in Segments, WatchStep(s)
    PROVE  IInv'
<1>1. PICK cause \in {"retired", "expired", "stalled"} :
        GivesUp(s, cause) /\ (cause = "retired" => pipe[s].closed)
  BY DEF WatchStep, WatchRetires, WatchExpires, WatchStalls
<1>2. UNCHANGED <<manager, pipe, reader, out, ctx, closing>>
      /\ fetch' = [fetch EXCEPT ![s].cause = cause] /\ fetch \in [Segments -> Fetch]
  BY <1>1 DEF GivesUp, IInv, TypeOK
<1>3. fetch[s] \in Fetch /\ [fetch[s] EXCEPT !.cause = cause] \in Fetch
  BY <1>2 DEF Fetch
<1>4. \A t \in Segments : /\ fetch'[t].sent = fetch[t].sent /\ fetch'[t].pc = fetch[t].pc
                          /\ fetch'[t].attempt = fetch[t].attempt
                          /\ fetch'[t].cause = "retired" =>
                               fetch[t].cause = "retired" \/ pipe[t].closed
  <2>1. cause = "retired" => pipe[s].closed
    BY <1>1
  <2>2. QED BY <1>2, <1>3, <2>1 DEF Fetch
<1>5. TypeOK'
  BY <1>2, <1>3 DEF IInv, TypeOK
<1>6. Pipes'
  BY <1>2, <1>4 DEF IInv, Pipes, PipeHolds
<1>7. Delivered'
  BY <1>2 DEF IInv, Delivered, Place, Stream!Latest
<1>8. QED BY <1>5, <1>6, <1>7 DEF IInv

LEMMA WritesKeeps ==
    ASSUME IInv, NEW s \in Segments, BodyWrites(s)
    PROVE  IInv'
<1>1. /\ fetch \in [Segments -> Fetch] /\ fetch[s] \in Fetch
      /\ pipe \in [Segments -> Pipe] /\ pipe[s] \in Pipe
      /\ fetch[s].sent \in Nat /\ pipe[s].buf \in Seq(Nat) /\ pipe[s].got \in Nat
  BY DEF IInv, TypeOK, Fetch, Pipe
<1>2. UNCHANGED <<manager, reader, out, ctx, closing>>
  BY DEF BodyWrites
<1>3. /\ fetch' = [fetch EXCEPT ![s] = [fetch[s] EXCEPT !.sent = fetch[s].sent + 1]]
      /\ pipe' = [pipe EXCEPT ![s] =
                    [pipe[s] EXCEPT !.buf = Append(pipe[s].buf, fetch[s].sent + 1)]]
      /\ fetch[s].pc = "body" /\ fetch[s].sent < Body[s]
  BY <1>1 DEF BodyWrites
<1>4. [fetch[s] EXCEPT !.sent = fetch[s].sent + 1] \in Fetch
  <2>1. fetch[s].sent + 1 \in Nat
    BY <1>1
  <2>2. QED BY <1>1, <2>1, FetchUpdates
<1>5. [pipe[s] EXCEPT !.buf = Append(pipe[s].buf, fetch[s].sent + 1)] \in Pipe
  <2>1. Append(pipe[s].buf, fetch[s].sent + 1) \in Seq(Nat)
    BY <1>1
  <2>2. QED BY <1>1, <2>1 DEF Pipe
<1>6. TypeOK'
  BY <1>1, <1>2, <1>3, <1>4, <1>5 DEF IInv, TypeOK
<1>7. /\ fetch'[s].sent = fetch[s].sent + 1 /\ fetch'[s].pc = "body"
      /\ fetch'[s].cause = fetch[s].cause /\ pipe'[s].closed = pipe[s].closed
      /\ pipe'[s].buf = Append(pipe[s].buf, fetch[s].sent + 1)
      /\ pipe'[s].got = pipe[s].got /\ pipe'[s].end = pipe[s].end
      /\ \A t \in Segments \ {s} : fetch'[t] = fetch[t] /\ pipe'[t] = pipe[t]
  BY <1>1, <1>3 DEF Fetch, Pipe
<1>8. PipeHolds(s)
  BY DEF IInv, Pipes
<1>9. PipeHolds(s)'
  <2>1. /\ Len(pipe'[s].buf) = fetch'[s].sent
        /\ \A i \in 1..Len(pipe'[s].buf) : pipe'[s].buf[i] = i
    BY <1>1, <1>7, <1>8 DEF PipeHolds
  <2>2. fetch'[s].sent <= Body[s] /\ pipe'[s].got <= fetch'[s].sent
    BY <1>1, <1>3, <1>7, <1>8, Constants DEF PipeHolds
  <2>3. ~ (pipe[s].end = "eof" /\ ctx = "live")
    BY <1>1, <1>3, <1>8, Constants DEF PipeHolds, BodyWrites
  <2>4. QED BY <1>2, <1>7, <1>8, <2>1, <2>2, <2>3 DEF PipeHolds
<1>10. Pipes'
  BY <1>2, <1>7, <1>9 DEF IInv, Pipes, PipeHolds
<1>11. Delivered'
  <2>1. \A t \in Segments : pipe'[t].got = pipe[t].got /\ pipe'[t].closed = pipe[t].closed
    BY <1>7
  <2>2. reader.cur \in 1..(N + 1)
    BY DEF IInv, TypeOK, Reader
  <2>3. reader.cur = N + 1 \/ reader.cur \in Segments
    BY <2>2, Places
  <2>4. Place' = Place
    BY <1>2, <2>1, <2>3 DEF Place
  <2>5. QED BY <1>2, <2>1, <2>4 DEF IInv, Delivered, Stream!Latest
<1>12. QED BY <1>6, <1>10, <1>11 DEF IInv

\* A success stands behind the whole article, or does not matter to the stream.
EofIsDue(s) == fetch[s].sent = Body[s] \/ ctx = "done" \/ fetch[s].cause = "retired"

\* A download that ends, or that is to be repeated, leaves its pipe's content alone.
Leaves(s) ==
    /\ UNCHANGED <<manager, reader, out, ctx, closing>>
    /\ fetch' = [fetch EXCEPT ![s] = fetch'[s]] /\ fetch'[s] \in Fetch
    /\ pipe' = [pipe EXCEPT ![s] = pipe'[s]] /\ pipe'[s] \in Pipe
    /\ pipe'[s].buf = pipe[s].buf /\ pipe'[s].got = pipe[s].got
    /\ pipe'[s].closed = pipe[s].closed
    /\ fetch'[s].sent = fetch[s].sent /\ fetch'[s].cause \in {"none", fetch[s].cause}
    /\ fetch'[s].pc = "backoff" => fetch'[s].sent = 0 /\ fetch'[s].attempt < Attempts
    /\ pipe'[s].end = "eof" => pipe[s].end = "eof" \/ EofIsDue(s)

LEMMA LeavesKeeps ==
    ASSUME IInv, NEW s \in Segments, Leaves(s)
    PROVE  IInv'
<1>1. fetch \in [Segments -> Fetch] /\ pipe \in [Segments -> Pipe]
  BY DEF IInv, TypeOK
<1>2. TypeOK'
  BY <1>1 DEF IInv, TypeOK, Leaves
<1>3. \A t \in Segments \ {s} : fetch'[t] = fetch[t] /\ pipe'[t] = pipe[t]
  BY <1>1 DEF Leaves
<1>4. PipeHolds(s)'
  BY DEF IInv, Pipes, PipeHolds, Leaves, EofIsDue
<1>5. Pipes'
  BY <1>3, <1>4 DEF IInv, Pipes, PipeHolds, Leaves
<1>6. Delivered'
  <2>1. \A t \in Segments : pipe'[t].got = pipe[t].got /\ pipe'[t].closed = pipe[t].closed
    BY <1>3 DEF Leaves
  <2>2. reader.cur \in 1..(N + 1)
    BY DEF IInv, TypeOK, Reader
  <2>3. UNCHANGED <<reader, out, ctx, closing>> /\ (reader.cur = N + 1 \/ reader.cur \in Segments)
    BY <2>2, Places DEF Leaves
  <2>4. Place' = Place
    BY <2>1, <2>3 DEF Place
  <2>5. QED BY <2>1, <2>3, <2>4 DEF IInv, Delivered, Stream!Latest
<1>7. QED BY <1>2, <1>5, <1>6 DEF IInv

LEMMA Endings ==
    ASSUME IInv, NEW s \in Segments, NEW end \in {"eof", "error", "canceled"},
           Finish(s, end), UNCHANGED <<manager, reader, out, ctx, closing>>,
           end = "eof" => EofIsDue(s)
    PROVE  Leaves(s)
<1>1. fetch \in [Segments -> Fetch] /\ pipe \in [Segments -> Pipe]
      /\ fetch[s] \in Fetch /\ pipe[s] \in Pipe
  BY DEF IInv, TypeOK
<1>2. /\ fetch' = [fetch EXCEPT ![s] = [fetch[s] EXCEPT !.pc = "done"]]
      /\ pipe' = [pipe EXCEPT ![s] = [pipe[s] EXCEPT !.end = end]]
  BY <1>1 DEF Finish
<1>3. [fetch[s] EXCEPT !.pc = "done"] \in Fetch /\ [pipe[s] EXCEPT !.end = end] \in Pipe
  BY <1>1, FetchUpdates DEF Pipe
<1>4. fetch'[s] = [fetch[s] EXCEPT !.pc = "done"] /\ pipe'[s] = [pipe[s] EXCEPT !.end = end]
  BY <1>1, <1>2
<1>5. fetch'[s].sent = fetch[s].sent /\ fetch'[s].pc = "done" /\ fetch'[s].cause = fetch[s].cause
  BY <1>1, <1>4 DEF Fetch
<1>6. /\ pipe'[s].buf = pipe[s].buf /\ pipe'[s].got = pipe[s].got /\ pipe'[s].end = end
      /\ pipe'[s].closed = pipe[s].closed
  BY <1>1, <1>4 DEF Pipe
<1>7. QED BY <1>2, <1>3, <1>4, <1>5, <1>6 DEF Leaves

LEMMA ReturnsKeeps ==
    ASSUME IInv, NEW s \in Segments, BodyReturns(s)
    PROVE  IInv'
<1>1. UNCHANGED <<manager, reader, out, ctx, closing>> /\ fetch[s].pc = "body"
  BY DEF BodyReturns
<1>2. PICK result \in Results(s) :
         CASE fetch[s].cause = "expired" -> Finish(s, "error")
           [] fetch[s].cause # "expired" /\ Outcome(s, result) = "eof" -> Finish(s, "eof")
           [] fetch[s].cause # "expired" /\ Outcome(s, result) # "eof" ->
                IF MayRetry(s, Outcome(s, result)) THEN TryAgain(s)
                ELSE IF fetch[s].cause = "stalled" THEN Finish(s, "error")
                ELSE Finish(s, Outcome(s, result))
  BY DEF BodyReturns
<1>3. /\ Outcome(s, result) \in {"eof", "error", "canceled"}
      /\ fetch[s].cause # "expired" /\ Outcome(s, result) = "eof" => EofIsDue(s)
  <2>1. fetch[s].cause \in {"none", "retired", "expired", "stalled"}
    BY DEF IInv, TypeOK, Fetch
  <2>2. QED BY <2>1 DEF Results, Outcome, AttemptCancelled, EofIsDue
<1>4. \/ \E end \in {"eof", "error", "canceled"} :
            Finish(s, end) /\ (end = "eof" => EofIsDue(s))
      \/ MayRetry(s, Outcome(s, result)) /\ TryAgain(s)
  <2>1. CASE fetch[s].cause = "expired"
    BY <1>2, <2>1
  <2>2. CASE fetch[s].cause # "expired" /\ Outcome(s, result) = "eof"
    BY <1>2, <1>3, <2>2
  <2>3. CASE fetch[s].cause # "expired" /\ Outcome(s, result) # "eof"
    BY <1>2, <1>3, <2>3
  <2>4. QED BY <2>1, <2>2, <2>3
<1>5. CASE MayRetry(s, Outcome(s, result)) /\ TryAgain(s)
  <2>1. /\ fetch \in [Segments -> Fetch] /\ fetch[s] \in Fetch
        /\ pipe \in [Segments -> Pipe] /\ pipe[s] \in Pipe
    BY DEF IInv, TypeOK
  <2>2. fetch' = [fetch EXCEPT ![s] = [fetch[s] EXCEPT !.pc = "backoff"]] /\ pipe' = pipe
    BY <1>5, <2>1 DEF TryAgain
  <2>3. fetch'[s] = [fetch[s] EXCEPT !.pc = "backoff"]
    BY <2>1, <2>2
  <2>4. /\ fetch'[s] \in Fetch /\ fetch'[s].sent = 0 /\ fetch'[s].sent = fetch[s].sent
        /\ fetch'[s].attempt < Attempts /\ fetch'[s].cause = fetch[s].cause
    <3>1. fetch'[s] \in Fetch
      BY <2>1, <2>3, FetchUpdates
    <3>2. /\ fetch'[s].sent = fetch[s].sent /\ fetch'[s].attempt = fetch[s].attempt
          /\ fetch'[s].cause = fetch[s].cause
      BY <2>1, <2>3 DEF Fetch
    <3>3. QED BY <1>5, <3>1, <3>2 DEF MayRetry
  <2>5. Leaves(s)
    BY <1>1, <2>1, <2>2, <2>3, <2>4 DEF Leaves
  <2>6. QED BY <2>5, LeavesKeeps
<1>6. QED BY <1>1, <1>4, <1>5, Endings, LeavesKeeps

LEMMA BackoffKeeps ==
    ASSUME IInv, NEW s \in Segments, BackoffEnds(s)
    PROVE  IInv'
<1>1. UNCHANGED <<manager, reader, out, ctx, closing>> /\ fetch[s].pc = "backoff"
  BY DEF BackoffEnds
<1>2. CASE ctx = "done"
  BY <1>1, <1>2, Endings, LeavesKeeps DEF BackoffEnds
<1>3. CASE ctx # "done"
  <2>1. /\ fetch \in [Segments -> Fetch] /\ fetch[s] \in Fetch
        /\ pipe \in [Segments -> Pipe] /\ pipe[s] \in Pipe
    BY DEF IInv, TypeOK
  <2>2. fetch[s].sent = 0 /\ fetch[s].attempt < Attempts
    BY <1>1 DEF IInv, Pipes, PipeHolds
  <2>3. /\ fetch' = [fetch EXCEPT ![s] = [pc |-> "body", attempt |-> fetch[s].attempt + 1,
                                         sent |-> 0, cause |-> "none"]]
        /\ pipe' = pipe
    BY <1>3, <2>1 DEF BackoffEnds
  <2>4. fetch[s].attempt + 1 \in 0..Attempts
    <3>1. fetch[s].attempt \in 0..Attempts
      BY <2>1, FetchUpdates
    <3>2. QED BY <2>2, <3>1, Constants
  <2>5. [pc |-> "body", attempt |-> fetch[s].attempt + 1, sent |-> 0, cause |-> "none"] \in Fetch
    BY <2>4 DEF Fetch
  <2>6. fetch'[s] = [pc |-> "body", attempt |-> fetch[s].attempt + 1, sent |-> 0, cause |-> "none"]
    BY <2>1, <2>3
  <2>7. Leaves(s)
    BY <1>1, <2>1, <2>2, <2>3, <2>5, <2>6 DEF Leaves
  <2>8. QED BY <2>7, LeavesKeeps
<1>4. QED BY <1>2, <1>3

\* What a step of the consumer leaves behind.
LEMMA ReadTypes ==
    ASSUME IInv
    PROVE  /\ reader \in Reader /\ pipe \in [Segments -> Pipe] /\ out \in Seq(Nat)
           /\ reader.cur \in 1..(N + 1) /\ reader.n \in Nat /\ reader.want \in Nat
           /\ \A s \in Segments :
                /\ pipe[s] \in Pipe /\ pipe[s].buf \in Seq(Nat) /\ pipe[s].got \in Nat
                /\ Len(pipe[s].buf) \in Nat /\ fetch[s].sent \in Nat
<1>1. reader \in Reader /\ pipe \in [Segments -> Pipe] /\ out \in Seq(Nat)
  BY DEF IInv, TypeOK
<1>2. reader.cur \in 1..(N + 1) /\ reader.n \in Nat /\ reader.want \in Nat
  BY <1>1 DEF Reader
<1>3. ASSUME NEW s \in Segments
      PROVE  /\ pipe[s] \in Pipe /\ pipe[s].buf \in Seq(Nat) /\ pipe[s].got \in Nat
             /\ Len(pipe[s].buf) \in Nat /\ fetch[s].sent \in Nat
  <2>1. pipe[s] \in Pipe /\ pipe[s].buf \in Seq(Nat) /\ pipe[s].got \in Nat
    BY <1>1 DEF Pipe
  <2>2. fetch[s].sent \in Nat
    BY FetchUpdates DEF IInv, TypeOK
  <2>3. QED BY <2>1, <2>2
<1>4. QED BY <1>1, <1>2, <1>3

LEMMA BeginsKeeps ==
    ASSUME IInv, NEW want \in Wants, ReadBegins(want)
    PROVE  IInv'
<1>1. UNCHANGED <<fetch, pipe, out, ctx, closing>> /\ reader.pc = "idle"
      /\ reader.cur \in 1..(N + 1) /\ reader \in Reader /\ manager \in Manager
  BY ReadTypes DEF ReadBegins, IInv, TypeOK
<1>2. want \in Nat
  BY ReaderAssumption
<1>3. /\ reader' \in Reader /\ reader'.cur = reader.cur
      /\ IF reader.cur = N + 1 THEN reader'.pc = "eof" ELSE reader'.pc = "reading"
  <2>1. CASE reader.cur = N + 1
    <3>1. reader' = [reader EXCEPT !.pc = "eof"]
      BY <2>1 DEF ReadBegins
    <3>2. QED BY <1>1, <2>1, <3>1 DEF Reader
  <2>2. CASE reader.cur # N + 1
    <3>1. reader' = [reader EXCEPT !.pc = "reading", !.want = want, !.n = 0]
      BY <2>2 DEF ReadBegins
    <3>2. QED BY <1>1, <1>2, <2>2, <3>1 DEF Reader
  <2>3. QED BY <2>1, <2>2
<1>4. manager' \in Manager
  BY <1>1, ManagerUpdates DEF ReadBegins
<1>5. TypeOK'
  BY <1>1, <1>3, <1>4 DEF IInv, TypeOK
<1>6. Pipes'
  BY <1>1 DEF IInv, Pipes, PipeHolds
<1>7. Delivered'
  <2>1. Place' = Place
    BY <1>1, <1>3 DEF Place
  <2>2. reader.cur # N + 1 => reader.cur \in Segments
    BY <1>1, Places
  <2>3. QED BY <1>1, <1>3, <2>1, <2>2 DEF IInv, Delivered, Stream!Latest
<1>8. QED BY <1>5, <1>6, <1>7 DEF IInv

LEMMA LatestIsNat == ASSUME IInv PROVE Stream!Latest \in Nat
<1>1. out \in Seq(Nat)
  BY DEF IInv, TypeOK
<1>2. CASE out = <<>>
  BY <1>2 DEF Stream!Latest
<1>3. CASE out # <<>>
  <2>1. Len(out) \in 1..Len(out)
    BY <1>1, <1>3
  <2>2. QED BY <1>1, <1>3, <2>1 DEF Stream!Latest
<1>4. QED BY <1>2, <1>3

\* The piece that a Read takes is the one at its place in the range: the next one, while
\* the context lives, and in any case one from after those it returned before.
LEMMA TakesNext ==
    ASSUME IInv, ReadTakes
    PROVE  /\ reader.cur \in Segments
           /\ out' = Append(out, Place + 1)
           /\ Place + 1 \in 1..Offset[N + 1]
           /\ Stream!Latest < Place + 1
           /\ ctx = "live" => Len(out) = Place
<1>1. reader.cur \in Segments
  BY DEF IInv, Delivered, ReadTakes
<1> DEFINE s == reader.cur
           g == pipe[s].got
<1>2. /\ g \in Nat /\ Len(pipe[s].buf) \in Nat /\ g < Len(pipe[s].buf) /\ g < Window[s]
      /\ out' = Append(out, Offset[s] + pipe[s].buf[g + 1])
  BY <1>1, ReadTypes DEF ReadTakes, Current
<1>3. PipeHolds(s)
  BY <1>1 DEF IInv, Pipes
<1>4. pipe[s].buf[g + 1] = g + 1
  BY <1>2, <1>3 DEF PipeHolds
<1>5. s # N + 1 /\ Place = Offset[s] + g /\ Stream!Latest <= Place
      /\ (ctx = "live" => Len(out) = Place)
  BY <1>1, Constants DEF IInv, Delivered, Place
<1>6. Offset[s] \in Nat /\ Offset[s + 1] = Offset[s] + Size(s) /\ Offset[s + 1] <= Offset[N + 1]
      /\ Offset[N + 1] \in Nat
  <2>1. s \in 1..(N + 1) /\ s + 1 \in 1..(N + 1) /\ N + 1 \in 1..(N + 1)
    BY <1>1, Constants
  <2>2. QED BY <1>1, <2>1, Offsets
<1>7. g < Size(s) /\ Size(s) \in Nat
  <2>1. Len(pipe[s].buf) <= Body[s]
    BY <1>3 DEF PipeHolds
  <2>2. QED BY <1>1, <1>2, <2>1, Constants
<1>8. Place + 1 = Offset[s] + (g + 1) /\ Place \in Nat
  <2>1. Place = Offset[s] + g
    BY <1>5
  <2>2. g \in Nat /\ Offset[s] \in Nat
    BY <1>2, <1>6
  <2> HIDE DEF s, g
  <2>3. QED BY <2>1, <2>2
<1>9. Stream!Latest < Place + 1
  <2>1. Stream!Latest \in Nat
    BY LatestIsNat
  <2>2. QED BY <1>5, <1>8, <2>1
<1>10. Place + 1 \in 1..Offset[N + 1]
  BY <1>2, <1>6, <1>7, <1>8
<1>11. QED BY <1>1, <1>2, <1>4, <1>5, <1>8, <1>9, <1>10

LEMMA TakesKeeps ==
    ASSUME IInv, ReadTakes
    PROVE  IInv'
<1> DEFINE s == reader.cur
<1>1. /\ s \in Segments /\ s # N + 1
      /\ out' = Append(out, Place + 1) /\ Place + 1 \in Nat
  <2>1. Place + 1 \in Nat
    <3>1. N + 1 \in 1..(N + 1)
      BY Constants
    <3>2. Offset[N + 1] \in Nat
      BY <3>1, Offsets
    <3>3. QED BY <3>2, TakesNext
  <2>2. QED BY <2>1, TakesNext, Constants
<1>2. UNCHANGED <<manager, fetch, ctx, closing>> /\ reader.pc = "reading"
      /\ pipe[s].got < Len(pipe[s].buf) /\ pipe[s].got < Window[s]
  BY DEF ReadTakes, Current
<1>3. reader \in Reader /\ pipe \in [Segments -> Pipe] /\ pipe[s] \in Pipe
      /\ pipe[s].got \in Nat /\ Len(pipe[s].buf) \in Nat /\ reader.n \in Nat
      /\ Len(out) \in Nat /\ out \in Seq(Nat)
  BY <1>1, ReadTypes
<1>4. PICK pc \in {"idle", "reading"} :
        reader' = [reader EXCEPT !.n = reader.n + 1, !.pc = pc]
  BY <1>3 DEF ReadTakes
<1>5. reader' \in Reader /\ reader'.cur = s /\ reader'.pc = pc
  <2>1. reader.n + 1 \in Nat
    BY <1>3
  <2>2. QED BY <1>3, <1>4, <2>1 DEF Reader
<1>6. pipe' = [pipe EXCEPT ![s] = [pipe[s] EXCEPT !.got = pipe[s].got + 1]]
  BY <1>3 DEF ReadTakes
<1>7. /\ pipe'[s] = [pipe[s] EXCEPT !.got = pipe[s].got + 1]
      /\ \A t \in Segments \ {s} : pipe'[t] = pipe[t]
  BY <1>1, <1>3, <1>6
<1>8. /\ pipe'[s] \in Pipe /\ pipe'[s].got = pipe[s].got + 1
      /\ pipe'[s].buf = pipe[s].buf /\ pipe'[s].end = pipe[s].end
      /\ pipe'[s].closed = pipe[s].closed
  <2>1. pipe[s].got + 1 \in Nat
    BY <1>3
  <2>2. QED BY <1>3, <1>7, <2>1 DEF Pipe
<1>9. TypeOK'
  <2>1. out' \in Seq(Nat)
    BY <1>1, <1>3
  <2>2. pipe' \in [Segments -> Pipe]
    BY <1>3, <1>6, <1>7, <1>8
  <2>3. QED BY <1>2, <1>5, <2>1, <2>2 DEF IInv, TypeOK
<1>10. PipeHolds(s)'
  <2>1. PipeHolds(s)
    BY <1>1 DEF IInv, Pipes
  <2>2. pipe'[s].got <= Len(pipe'[s].buf) /\ pipe'[s].got <= Window[s]
    <3>1. Window[s] \in Nat
      BY <1>1, Constants
    <3>2. QED BY <1>2, <1>3, <1>8, <3>1
  <2>3. /\ Len(pipe'[s].buf) = fetch'[s].sent
        /\ \A i \in 1..Len(pipe'[s].buf) : pipe'[s].buf[i] = i
        /\ fetch'[s].sent <= Body[s]
        /\ fetch'[s].pc = "backoff" => fetch'[s].sent = 0 /\ fetch'[s].attempt < Attempts
        /\ fetch'[s].cause = "retired" => pipe'[s].closed
        /\ pipe'[s].end = "eof" /\ ctx' = "live" => fetch'[s].sent = Body[s] \/ pipe'[s].closed
    BY <1>2, <1>8, <2>1 DEF PipeHolds
  <2>4. \A t : t = s => PipeHolds(t)'
    BY <2>2, <2>3 DEF PipeHolds
  <2>5. QED BY <1>5, <2>4
<1>11. Pipes'
  <2>1. \A t \in Segments \ {s} : PipeHolds(t)'
    BY <1>2, <1>7 DEF IInv, Pipes, PipeHolds
  <2>2. QED BY <1>5, <1>10, <2>1 DEF Pipes
<1>12. Delivered'
  <2>1. Place = Offset[s] + pipe[s].got /\ Place' = Offset[s] + (pipe[s].got + 1)
    BY <1>1, <1>5, <1>8 DEF Place
  <2>2. Offset[s] \in Nat
    <3>1. s \in 1..(N + 1)
      BY ReadTypes
    <3>2. QED BY <3>1, Offsets
  <2>3. Place' = Place + 1
    BY <1>3, <2>1, <2>2
  <2>4. Len(out') = Len(out) + 1 /\ Stream!Latest' = Place + 1
    <3>1. Len(out') = Len(out) + 1 /\ out'[Len(out) + 1] = Place + 1 /\ out' # <<>>
      BY <1>1, <1>3
    <3>2. QED BY <3>1 DEF Stream!Latest
  <2>5. ctx' = "live" => /\ Len(out') = Place' /\ closing' = "open"
                         /\ \A t \in Segments : pipe'[t].closed => t < reader'.cur
    BY <1>1, <1>2, <1>5, <1>7, <1>8, <2>3, <2>4, TakesNext DEF IInv, Delivered
  <2>6. \A t \in Segments : t > reader'.cur => pipe'[t].got = 0
    <3>1. \A t \in Segments : t > s => pipe[t].got = 0
      BY DEF IInv, Delivered
    <3>2. \A t \in Segments : t > s => t # s
      BY <1>1, Constants
    <3>3. QED BY <1>5, <1>7, <3>1, <3>2
  <2>7. Stream!Latest' <= Place'
    BY <1>1, <2>3, <2>4
  <2>8. QED BY <1>1, <1>5, <2>5, <2>6, <2>7 DEF Delivered
<1>13. QED BY <1>9, <1>11, <1>12 DEF IInv

\* No more of a segment is read than it yields.
LEMMA WithinSegment ==
    ASSUME IInv, NEW s \in Segments
    PROVE  pipe[s].got <= Size(s) /\ pipe[s].got \in Nat
<1>1. /\ pipe[s].got \in Nat /\ Len(pipe[s].buf) \in Nat /\ PipeHolds(s)
      /\ Body[s] \in Nat /\ Window[s] \in Nat
  BY ReadTypes, Constants DEF IInv, Pipes
<1>2. QED BY <1>1 DEF PipeHolds, Size

\* A segment is over when all of it within its window was read, whether the window or
\* the article ended first.
LEMMA SegmentWhole ==
    ASSUME IInv, reader.cur \in Segments, ctx = "live", SegmentOver
    PROVE  pipe[reader.cur].got = Size(reader.cur)
<1> DEFINE s == reader.cur
<1>1. /\ pipe[s].got \in Nat /\ Len(pipe[s].buf) \in Nat /\ PipeHolds(s)
      /\ Body[s] \in Nat /\ Window[s] \in Nat
  BY ReadTypes, Constants DEF IInv, Pipes
<1>2. pipe[s].got <= Body[s] /\ pipe[s].got <= Window[s]
  BY <1>1 DEF PipeHolds
<1>3. CASE Consumed(s)
  BY <1>1, <1>2, <1>3 DEF Consumed, Size
<1>4. CASE Drained /\ Current.end = "eof"
  <2>1. pipe[s].got = Body[s]
    <3>1. ~ pipe[s].closed
      BY Constants DEF IInv, Delivered
    <3>2. QED BY <1>1, <1>4, <3>1 DEF Drained, Current, PipeHolds
  <2>2. QED BY <1>1, <1>2, <2>1 DEF Size
<1>5. QED BY <1>3, <1>4 DEF SegmentOver

LEMMA MovesOnKeeps ==
    ASSUME IInv, ReadMovesOn
    PROVE  /\ IInv'
           /\ reader'.pc = "eof" /\ ctx = "live" => Len(out) = Offset[N + 1]
           /\ reader'.pc \in {"reading", "idle", "eof"}
<1> DEFINE s == reader.cur
<1>1. /\ s \in Segments /\ UNCHANGED <<manager, fetch, out, ctx, closing>>
      /\ ctx = "live" => pipe[s].got = Size(s)
  BY SegmentWhole DEF ReadMovesOn, IInv, Delivered
<1>2. reader \in Reader /\ pipe \in [Segments -> Pipe] /\ pipe[s] \in Pipe
  BY <1>1, ReadTypes
<1>3. PICK pc \in {"reading", "idle", "eof"} :
        /\ reader' = [reader EXCEPT !.cur = s + 1, !.pc = pc]
        /\ pc = "reading" => s < N
        /\ pc = "eof" => ~ s < N
  BY <1>2 DEF ReadMovesOn
<1>4. s \in 1..N /\ N \in Nat /\ s + 1 \in 1..(N + 1)
  BY <1>1, Constants
<1>5. reader' \in Reader /\ reader'.cur = s + 1 /\ reader'.pc = pc
  BY <1>2, <1>3, <1>4 DEF Reader
<1>6. pipe' = [pipe EXCEPT ![s] = [pipe[s] EXCEPT !.closed = TRUE]]
  BY <1>2 DEF ReadMovesOn
<1>7. [pipe[s] EXCEPT !.closed = TRUE] \in Pipe
  BY <1>2 DEF Pipe
<1>8. \A t \in Segments : /\ pipe'[t].buf = pipe[t].buf /\ pipe'[t].got = pipe[t].got
                          /\ pipe'[t].end = pipe[t].end
                          /\ pipe'[t].closed <=> pipe[t].closed \/ t = s
  BY <1>2, <1>6 DEF Pipe
<1>9. TypeOK'
  BY <1>1, <1>2, <1>5, <1>6, <1>7 DEF IInv, TypeOK
<1>10. Pipes'
  BY <1>1, <1>8 DEF IInv, Pipes, PipeHolds
<1>11. Place <= Offset[s + 1] /\ (ctx = "live" => Len(out) = Offset[s + 1])
       /\ Offset[s + 1] \in Nat /\ Place \in Nat
  <2>1. s # N + 1 /\ Offset[s + 1] = Offset[s] + Size(s) /\ Offset[s] \in Nat
    BY <1>1, <1>4, Offsets
  <2>2. Place = Offset[s] + pipe[s].got
    BY <2>1 DEF Place
  <2>3. pipe[s].got <= Size(s) /\ pipe[s].got \in Nat /\ Size(s) \in Nat
    BY <1>1, WithinSegment, Constants
  <2>4. ctx = "live" => Len(out) = Place
    BY DEF IInv, Delivered
  <2>5. QED BY <1>1, <2>1, <2>2, <2>3, <2>4
<1>12. Place' = Offset[s + 1]
  <2>1. CASE s + 1 = N + 1
    BY <1>5, <2>1 DEF Place
  <2>2. CASE s + 1 # N + 1
    <3>1. s + 1 \in Segments /\ s + 1 > s
      BY <1>4, <2>2, Constants
    <3>2. pipe'[s + 1].got = 0
      BY <1>8, <3>1 DEF IInv, Delivered
    <3>3. Offset[s + 1] \in Nat
      BY <1>4, Offsets
    <3>4. QED BY <1>5, <2>2, <3>2, <3>3 DEF Place
  <2>3. QED BY <2>1, <2>2
<1>13. Delivered'
  <2>1. reader'.pc = "reading" => reader'.cur \in Segments
    BY <1>3, <1>4, <1>5, Constants
  <2>2. Stream!Latest' <= Place'
    <3>1. Stream!Latest' = Stream!Latest /\ Stream!Latest <= Place /\ Stream!Latest \in Nat
      BY <1>1, LatestIsNat DEF IInv, Delivered, Stream!Latest
    <3>2. QED BY <1>11, <1>12, <3>1
  <2>3. \A t \in Segments : t > reader'.cur => pipe'[t].got = 0
    <3>1. \A t \in Segments : t > s => pipe[t].got = 0
      BY DEF IInv, Delivered
    <3>2. \A t \in Segments : t > s + 1 => t > s
      BY <1>4, Constants
    <3>3. QED BY <1>5, <1>8, <3>1, <3>2
  <2>4. ctx = "live" => \A t \in Segments : pipe'[t].closed => t < reader'.cur
    <3>1. ctx = "live" => \A t \in Segments : pipe[t].closed => t < s
      BY DEF IInv, Delivered
    <3>2. \A t \in Segments : t < s \/ t = s => t < s + 1
      BY <1>4, Constants
    <3>3. QED BY <1>5, <1>8, <3>1, <3>2
  <2>5. ctx = "live" => closing = "open"
    BY DEF IInv, Delivered
  <2>6. QED BY <1>1, <1>11, <1>12, <2>1, <2>2, <2>3, <2>4, <2>5 DEF Delivered
<1>14. reader'.pc = "eof" /\ ctx = "live" => Len(out) = Offset[N + 1]
  BY <1>3, <1>4, <1>5, <1>11
<1>15. QED BY <1>5, <1>9, <1>10, <1>13, <1>14 DEF IInv

LEMMA StopsKeeps ==
    ASSUME IInv, ReadFails \/ ReadCutShort
    PROVE  IInv'
<1>1. PICK pc \in {"failed", "eof"} : reader' = [reader EXCEPT !.pc = pc]
  BY DEF ReadFails, ReadCutShort
<1>2. UNCHANGED <<manager, fetch, pipe, out, ctx, closing>>
  BY DEF ReadFails, ReadCutShort
<1>3. reader' \in Reader /\ reader'.cur = reader.cur /\ reader'.pc = pc
  BY <1>1, ReadTypes DEF Reader
<1>4. TypeOK'
  BY <1>2, <1>3 DEF IInv, TypeOK
<1>5. Pipes'
  BY <1>2 DEF IInv, Pipes, PipeHolds
<1>6. Delivered'
  BY <1>1, <1>2, <1>3 DEF IInv, Delivered, Place, Stream!Latest
<1>7. QED BY <1>4, <1>5, <1>6 DEF IInv

LEMMA ClosingKeeps ==
    ASSUME IInv, Close \/ CleansUp \/ CallerLeaves
    PROVE  IInv'
<1>1. UNCHANGED <<manager, fetch, reader, out>> /\ ctx' = "done"
      /\ closing' \in {"open", "closed", "cleared"}
  BY DEF IInv, TypeOK, Delivered, Close, CleansUp, CallerLeaves
<1>2. /\ pipe' \in [Segments -> Pipe]
      /\ \A t \in Segments : /\ pipe'[t].buf = pipe[t].buf /\ pipe'[t].got = pipe[t].got
                             /\ pipe[t].closed => pipe'[t].closed
  <2>1. CASE CleansUp
    <3>1. ASSUME NEW t \in Segments
          PROVE  /\ pipe'[t] \in Pipe
                 /\ pipe'[t].buf = pipe[t].buf /\ pipe'[t].got = pipe[t].got
                 /\ pipe'[t].closed
      <4>1. pipe[t] \in Pipe /\ pipe'[t] = [pipe[t] EXCEPT !.closed = TRUE, !.end = "eof"]
        BY <2>1, ReadTypes DEF CleansUp
      <4>2. QED BY <4>1 DEF Pipe
    <3>2. pipe' = [t \in Segments |-> pipe'[t]]
      BY <2>1 DEF CleansUp
    <3>3. QED BY <3>1, <3>2
  <2>2. CASE Close \/ CallerLeaves
    BY <2>2 DEF Close, CallerLeaves, IInv, TypeOK
  <2>3. QED BY <2>1, <2>2
<1>3. TypeOK'
  BY <1>1, <1>2 DEF IInv, TypeOK
<1>4. Pipes'
  BY <1>1, <1>2 DEF IInv, Pipes, PipeHolds
<1>5. Delivered'
  <2>1. reader.cur = N + 1 \/ reader.cur \in Segments
    BY ReadTypes, Places
  <2>2. Place' = Place
    BY <1>1, <1>2, <2>1 DEF Place
  <2>3. QED BY <1>1, <1>2, <2>2 DEF IInv, Delivered, Stream!Latest
<1>6. QED BY <1>3, <1>4, <1>5 DEF IInv

LEMMA InvStep == IInv /\ [Next]_vars => IInv'
<1> SUFFICES ASSUME IInv, [Next]_vars PROVE IInv'
  OBVIOUS
<1>1. CASE Next
  BY <1>1, ManagerKeeps, WatchKeeps, WritesKeeps, ReturnsKeeps, BackoffKeeps, BeginsKeeps,
     TakesKeeps, MovesOnKeeps, StopsKeeps, ClosingKeeps DEF Next, ReadStep
<1>2. CASE UNCHANGED vars
  BY <1>2 DEF vars, IInv, TypeOK, Pipes, PipeHolds, Delivered, Place, Stream!Latest
<1>3. QED BY <1>1, <1>2

LEMMA Invariant == Spec => []IInv
BY InvInit, InvStep, PTL DEF Spec

-----------------------------------------------------------------------------
(* Who brings the consumer its next piece. The manager hands out every segment *)
(* up to the end of the context, a download that is over has left an end in   *)
(* its pipe, and the consumer closes the segments it leaves behind.           *)

SegmentSupplied(s) ==
    /\ manager.next <= s => fetch[s].pc = "none"
    /\ fetch[s].pc = "none" => manager.next <= s \/ ctx = "done"
    /\ fetch[s].pc = "done" => pipe[s].end # "open" \/ pipe[s].closed
    /\ closing # "cleared" => (pipe[s].closed <=> s < reader.cur)

Supply ==
    /\ closing # "open" => ctx = "done"
    /\ manager.pc = "waiting" => reader.pc # "reading"
    /\ manager.pc = "done" => ctx = "done" \/ manager.next = N + 1
    /\ \A s \in Segments : SegmentSupplied(s)

\* A step of a download: it had begun, and its pipe has an end when it is over.
DownloadMoves(s) ==
    /\ UNCHANGED <<manager, reader, ctx, closing>>
    /\ fetch[s].pc \in {"body", "backoff"} /\ fetch'[s].pc # "none"
    /\ fetch'[s].pc = "done" => pipe'[s].end # "open"
    /\ pipe'[s].closed = pipe[s].closed
    /\ \A t \in Segments \ {s} : fetch'[t] = fetch[t] /\ pipe'[t] = pipe[t]

LEMMA DownloadSteps ==
    ASSUME TypeOK, NEW s \in Segments,
           WatchStep(s) \/ BodyWrites(s) \/ BodyReturns(s) \/ BackoffEnds(s)
    PROVE  DownloadMoves(s)
<1>1. /\ fetch \in [Segments -> Fetch] /\ fetch[s] \in Fetch
      /\ pipe \in [Segments -> Pipe] /\ pipe[s] \in Pipe
  BY DEF TypeOK
<1>2. UNCHANGED <<manager, reader, ctx, closing>> /\ fetch[s].pc \in {"body", "backoff"}
  BY DEF WatchStep, WatchRetires, WatchExpires, WatchStalls, GivesUp, Watched, BodyWrites,
         BodyReturns, BackoffEnds
<1>3. ASSUME NEW end \in {"eof", "error", "canceled"}, Finish(s, end) PROVE DownloadMoves(s)
  <2>1. /\ fetch'[s] = [fetch[s] EXCEPT !.pc = "done"] /\ pipe'[s] = [pipe[s] EXCEPT !.end = end]
        /\ \A t \in Segments \ {s} : fetch'[t] = fetch[t] /\ pipe'[t] = pipe[t]
    BY <1>1, <1>3 DEF Finish
  <2>2. fetch'[s].pc = "done"
    BY <1>1, <2>1 DEF Fetch
  <2>3. pipe'[s].end = end /\ pipe'[s].closed = pipe[s].closed
    BY <1>1, <2>1 DEF Pipe
  <2>4. QED BY <1>2, <2>1, <2>2, <2>3 DEF DownloadMoves
<1>4. CASE WatchStep(s)
  <2>1. PICK cause \in {"retired", "expired", "stalled"} :
          fetch[s].pc = "body" /\ fetch' = [fetch EXCEPT ![s].cause = cause] /\ pipe' = pipe
    BY <1>4 DEF WatchStep, WatchRetires, WatchExpires, WatchStalls, GivesUp, Watched
  <2>2. fetch'[s].pc = "body" /\ \A t \in Segments \ {s} : fetch'[t] = fetch[t]
    BY <1>1, <2>1 DEF Fetch
  <2>3. QED BY <1>2, <2>1, <2>2 DEF DownloadMoves
<1>5. CASE BodyWrites(s)
  <2>1. /\ fetch'[s] = [fetch[s] EXCEPT !.sent = @ + 1] /\ fetch[s].pc = "body"
        /\ pipe'[s] = [pipe[s] EXCEPT !.buf = Append(@, fetch[s].sent + 1)]
        /\ \A t \in Segments \ {s} : fetch'[t] = fetch[t] /\ pipe'[t] = pipe[t]
    BY <1>1, <1>5 DEF BodyWrites
  <2>2. fetch'[s].pc = "body"
    BY <1>1, <2>1 DEF Fetch
  <2>3. pipe'[s].closed = pipe[s].closed
    BY <1>1, <2>1 DEF Pipe
  <2>4. QED BY <1>2, <2>1, <2>2, <2>3 DEF DownloadMoves
<1>6. CASE TryAgain(s)
  <2>1. /\ fetch'[s] = [fetch[s] EXCEPT !.pc = "backoff"] /\ pipe' = pipe
        /\ \A t \in Segments \ {s} : fetch'[t] = fetch[t]
    BY <1>1, <1>6 DEF TryAgain
  <2>2. fetch'[s].pc = "backoff"
    BY <1>1, <2>1 DEF Fetch
  <2>3. QED BY <1>2, <2>1, <2>2 DEF DownloadMoves
<1>7. CASE BodyReturns(s)
  <2>1. PICK result \in Results(s) :
          CASE fetch[s].cause = "expired" -> Finish(s, "error")
            [] fetch[s].cause # "expired" /\ Outcome(s, result) = "eof" -> Finish(s, "eof")
            [] fetch[s].cause # "expired" /\ Outcome(s, result) # "eof" ->
                 IF MayRetry(s, Outcome(s, result)) THEN TryAgain(s)
                 ELSE IF fetch[s].cause = "stalled" THEN Finish(s, "error")
                 ELSE Finish(s, Outcome(s, result))
    BY <1>7 DEF BodyReturns
  <2>2. Outcome(s, result) \in {"eof", "error", "canceled"}
    BY DEF Results, Outcome
  <2>3. TryAgain(s) \/ \E end \in {"eof", "error", "canceled"} : Finish(s, end)
    <3>1. CASE fetch[s].cause = "expired"
      BY <2>1, <3>1
    <3>2. CASE fetch[s].cause # "expired" /\ Outcome(s, result) = "eof"
      BY <2>1, <3>2
    <3>3. CASE fetch[s].cause # "expired" /\ Outcome(s, result) # "eof"
      BY <2>1, <2>2, <3>3
    <3>4. QED BY <3>1, <3>2, <3>3
  <2>4. QED BY <1>3, <1>6, <2>3
<1>8. CASE BackoffEnds(s)
  <2>1. CASE ctx = "done"
    BY <1>3, <1>8, <2>1 DEF BackoffEnds
  <2>2. CASE ctx # "done"
    <3> DEFINE again == [pc |-> "body", attempt |-> fetch[s].attempt + 1, sent |-> 0,
                         cause |-> "none"]
    <3>1. /\ fetch' = [fetch EXCEPT ![s] = again] /\ pipe' = pipe /\ again.pc = "body"
      BY <1>8, <2>2 DEF BackoffEnds
    <3> HIDE DEF again
    <3>2. fetch'[s].pc = "body" /\ \A t \in Segments \ {s} : fetch'[t] = fetch[t]
      BY <1>1, <3>1
    <3>3. QED BY <1>2, <3>1, <3>2 DEF DownloadMoves
  <2>3. QED BY <2>1, <2>2
<1>9. QED BY <1>4, <1>5, <1>7, <1>8

LEMMA SupplyInit == Init => Supply
<1> SUFFICES ASSUME Init PROVE Supply
  OBVIOUS
<1>1. ASSUME NEW s \in Segments PROVE SegmentSupplied(s)
  <2>1. s \in Nat /\ 1 <= s /\ ~ s < 1
    BY Constants
  <2>2. QED BY <2>1 DEF Init, SegmentSupplied
<1>2. QED BY <1>1 DEF Init, Supply

LEMMA ManagerSupplies == IInv /\ Supply /\ ManagerStep => Supply'
<1> SUFFICES ASSUME IInv, Supply, ManagerStep PROVE Supply'
  OBVIOUS
<1>1. /\ UNCHANGED <<reader, out, ctx, closing>> /\ manager \in Manager
      /\ fetch \in [Segments -> Fetch] /\ manager.next \in Nat /\ N \in Nat
      /\ \A s \in Segments : /\ pipe'[s].closed = pipe[s].closed
                             /\ pipe'[s].end \in {pipe[s].end, "canceled"}
  <2>1. UNCHANGED <<reader, out, ctx, closing>>
    BY DEF ManagerStep, ManagerStarts, ManagerQuits, ManagerTests, ManagerTakes, ManagerBreaks,
           ManagerEnds
  <2>2. manager \in Manager /\ fetch \in [Segments -> Fetch] /\ N \in Nat
    BY Constants DEF IInv, TypeOK
  <2>3. manager.next \in Nat
    BY <2>2 DEF Manager
  <2>4. QED BY <2>1, <2>2, <2>3, ManagerMoves DEF IInv
<1>2. /\ manager'.pc # "waiting" \/ manager' = manager
      /\ manager'.pc = "done" => manager'.next = manager.next
                                   /\ (ctx = "done" \/ manager.next = N + 1)
  <2>1. CASE ManagerStarts \/ ManagerTests
    BY <1>1, <2>1 DEF ManagerStarts, ManagerTests, Manager
  <2>2. CASE ManagerQuits \/ ManagerEnds
    BY <1>1, <2>2 DEF ManagerQuits, ManagerEnds, Manager
  <2>3. CASE ManagerBreaks
    BY <1>1, <2>3 DEF ManagerBreaks, Manager
  <2>4. ASSUME NEW s \in Segments, ManagerTakes(s) PROVE manager'.pc = "running"
    BY <1>1, <2>4 DEF ManagerTakes, Manager
  <2>5. QED BY <2>1, <2>2, <2>3, <2>4 DEF ManagerStep
<1>3. ASSUME NEW s \in Segments PROVE SegmentSupplied(s)'
  <2>1. SegmentSupplied(s) /\ s \in 1..N /\ s \in Nat
    BY Constants DEF Supply
  <2>2. CASE ManagerStarts \/ ManagerQuits \/ ManagerTests \/ ManagerEnds
    <3>1. manager'.next = manager.next /\ fetch' = fetch
      BY <1>1, <2>2 DEF ManagerStarts, ManagerQuits, ManagerTests, ManagerEnds, Manager
    <3>2. QED BY <1>1, <2>1, <3>1 DEF SegmentSupplied
  <2>3. CASE ManagerBreaks
    <3>1. manager'.next = N + 1 /\ fetch' = fetch /\ ctx = "done"
      BY <1>1, <2>3 DEF ManagerBreaks, Manager
    <3>2. ~ N + 1 <= s
      BY <1>1, <2>1
    <3>3. QED BY <1>1, <2>1, <3>1, <3>2 DEF SegmentSupplied
  <2>4. ASSUME NEW t \in Segments, ManagerTakes(t) PROVE SegmentSupplied(s)'
    <3>1. /\ manager.next = t /\ manager'.next = t + 1
          /\ fetch'[t] = [fetch[t] EXCEPT
                            !.pc = IF pipe[t].closed \/ ctx = "done" THEN "done" ELSE "body",
                            !.attempt = 1]
          /\ \A u \in Segments \ {t} : fetch'[u] = fetch[u]
      BY <1>1, <2>4 DEF ManagerTakes, Manager
    <3>2. /\ fetch'[t].pc = IF pipe[t].closed \/ ctx = "done" THEN "done" ELSE "body"
          /\ ctx = "done" /\ ~ pipe[t].closed => pipe'[t].end = "canceled"
      <4>1. pipe \in [Segments -> Pipe] /\ pipe[t] \in Pipe
        BY ReadTypes
      <4>2. ctx = "done" /\ ~ pipe[t].closed => pipe'[t] = [pipe[t] EXCEPT !.end = "canceled"]
        BY <2>4, <4>1 DEF ManagerTakes
      <4>3. ctx = "done" /\ ~ pipe[t].closed => pipe'[t].end = "canceled"
        BY <4>1, <4>2 DEF Pipe
      <4>4. QED BY <1>1, <3>1, <4>3 DEF Fetch
    <3>3. CASE s = t
      <4>1. ~ t + 1 <= s
        BY <2>1, <3>3
      <4>2. QED BY <1>1, <2>1, <3>1, <3>2, <3>3, <4>1 DEF SegmentSupplied
    <3>4. CASE s # t
      <4>1. manager'.next <= s <=> manager.next <= s
        BY <1>1, <2>1, <3>1, <3>4
      <4>2. QED BY <1>1, <2>1, <3>1, <3>4, <4>1 DEF SegmentSupplied
    <3>5. QED BY <3>3, <3>4
  <2>5. QED BY <2>2, <2>3, <2>4 DEF ManagerStep
<1>4. QED BY <1>1, <1>2, <1>3 DEF Supply

LEMMA DownloadSupplies ==
    ASSUME IInv, Supply, NEW s \in Segments, DownloadMoves(s)
    PROVE  Supply'
<1>1. UNCHANGED <<manager, reader, ctx, closing>>
  BY DEF DownloadMoves
<1>2. ASSUME NEW t \in Segments PROVE SegmentSupplied(t)'
  <2>1. SegmentSupplied(t)
    BY DEF Supply
  <2>2. CASE t = s
    BY <1>1, <2>1, <2>2 DEF SegmentSupplied, DownloadMoves
  <2>3. CASE t # s
    BY <1>1, <2>1, <2>3 DEF SegmentSupplied, DownloadMoves
  <2>4. QED BY <2>2, <2>3
<1>3. QED BY <1>1, <1>2 DEF Supply

LEMMA ReaderSupplies ==
    ASSUME IInv, Supply, ReadStep \/ \E want \in Wants : ReadBegins(want)
    PROVE  Supply'
<1>1. /\ reader \in Reader /\ pipe \in [Segments -> Pipe] /\ reader.cur \in 1..(N + 1)
      /\ \A s \in Segments : pipe[s] \in Pipe
      /\ (reader.pc = "reading" => reader.cur \in Segments) /\ N \in Nat
      /\ manager \in Manager
  BY ReadTypes, Constants DEF IInv, Delivered, TypeOK
<1>2. UNCHANGED <<fetch, ctx, closing>>
  BY DEF ReadStep, ReadTakes, ReadMovesOn, ReadFails, ReadCutShort, ReadBegins
<1>3. ASSUME NEW want \in Wants, ReadBegins(want) PROVE Supply'
  <2>1. pipe' = pipe /\ reader'.cur = reader.cur /\ manager'.pc # "waiting"
        /\ manager'.next = manager.next /\ (manager'.pc = "done" => manager.pc = "done")
    BY <1>1, <1>3 DEF ReadBegins, Reader, Manager
  <2>2. QED BY <1>2, <2>1 DEF Supply, SegmentSupplied
<1>4. CASE ReadTakes \/ ReadFails \/ ReadCutShort
  <2>1. reader.pc = "reading" /\ manager' = manager
    BY <1>4 DEF ReadTakes, ReadFails, ReadCutShort
  <2>2. reader'.cur = reader.cur
    BY <1>1, <1>4 DEF ReadTakes, ReadFails, ReadCutShort, Reader
  <2>3. \A s \in Segments : pipe'[s].end = pipe[s].end /\ pipe'[s].closed = pipe[s].closed
    <3>1. CASE ReadTakes
      <4>1. pipe' = [pipe EXCEPT ![reader.cur] =
                       [pipe[reader.cur] EXCEPT !.got = pipe[reader.cur].got + 1]]
        BY <1>1, <2>1, <3>1 DEF ReadTakes
      <4>2. QED BY <1>1, <4>1 DEF Pipe
    <3>2. CASE ReadFails \/ ReadCutShort
      BY <3>2 DEF ReadFails, ReadCutShort
    <3>3. QED BY <1>4, <3>1, <3>2
  <2>4. QED BY <1>2, <2>1, <2>2, <2>3 DEF Supply, SegmentSupplied
<1>5. CASE ReadMovesOn
  <2>1. /\ reader.pc = "reading" /\ manager' = manager /\ reader.cur \in Segments
        /\ closing # "cleared"
    BY <1>1, <1>5 DEF ReadMovesOn
  <2>2. reader'.cur = reader.cur + 1
    BY <1>1, <1>5 DEF ReadMovesOn, Reader
  <2>3. pipe' = [pipe EXCEPT ![reader.cur] = [pipe[reader.cur] EXCEPT !.closed = TRUE]]
    BY <1>1, <1>5 DEF ReadMovesOn
  <2>4. \A s \in Segments : /\ pipe'[s].end = pipe[s].end
                            /\ pipe'[s].closed <=> pipe[s].closed \/ s = reader.cur
    BY <1>1, <2>1, <2>3 DEF Pipe
  <2>5. \A s \in Segments : s < reader.cur + 1 <=> s < reader.cur \/ s = reader.cur
    BY <1>1 DEF Segments
  <2>6. QED BY <1>2, <2>1, <2>2, <2>4, <2>5 DEF Supply, SegmentSupplied
<1>6. QED BY <1>3, <1>4, <1>5 DEF ReadStep

LEMMA ClosingSupplies == IInv /\ Supply /\ (Close \/ CleansUp \/ CallerLeaves) => Supply'
<1> SUFFICES ASSUME IInv, Supply, Close \/ CleansUp \/ CallerLeaves PROVE Supply'
  OBVIOUS
<1>1. CASE Close \/ CallerLeaves
  BY <1>1 DEF Close, CallerLeaves, Supply, SegmentSupplied
<1>2. CASE CleansUp
  <2>1. \A s \in Segments : pipe'[s].closed
    <3>1. TAKE s \in Segments
    <3>2. pipe[s] \in Pipe /\ pipe'[s] = [pipe[s] EXCEPT !.closed = TRUE, !.end = "eof"]
      BY <1>2, ReadTypes DEF CleansUp
    <3>3. QED BY <3>2 DEF Pipe
  <2>2. QED BY <1>2, <2>1 DEF CleansUp, Supply, SegmentSupplied
<1>3. QED BY <1>1, <1>2

LEMMA SupplyStep == IInv /\ Supply /\ [Next]_vars => Supply'
<1> SUFFICES ASSUME IInv, Supply, [Next]_vars PROVE Supply'
  OBVIOUS
<1>1. ASSUME NEW s \in Segments,
             WatchStep(s) \/ BodyWrites(s) \/ BodyReturns(s) \/ BackoffEnds(s)
      PROVE  Supply'
  BY <1>1, DownloadSteps, DownloadSupplies DEF IInv
<1>2. CASE UNCHANGED vars
  BY <1>2 DEF vars, Supply, SegmentSupplied
<1>3. QED BY <1>1, <1>2, ManagerSupplies, ReaderSupplies, ClosingSupplies DEF Next

LEMMA SupplyInvariant == Spec => [](IInv /\ Supply)
BY SupplyInit, SupplyStep, Invariant, PTL DEF Spec

-----------------------------------------------------------------------------
(* The invariants a reader should know of. *)

\* Attempts, positions and ends stay within what they are declared for.
THEOREM TypeCorrect == Spec => []TypeOK
<1>1. IInv => TypeOK
  BY DEF IInv
<1>2. QED BY <1>1, Invariant, PTL

\* No retry, timeout or cancellation leaves a piece in a pipe twice or out of place.
THEOREM PipesAreRight == Spec => []PipesHoldTheArticle
<1>1. IInv => PipesHoldTheArticle
  BY DEF IInv, Pipes, PipeHolds, PipesHoldTheArticle
<1>2. QED BY <1>1, Invariant, PTL

\* A Read that is under way finds a piece or an end in its pipe, or its segment is being
\* downloaded, or the manager will hand it out as soon as a download before it ends. Those
\* downloads are of closed segments: none of them waits for the consumer in its turn.
ReadIsSupplied ==
    reader.pc = "reading" /\ ctx = "live" =>
      \/ Current.got < Len(Current.buf) \/ Consumed(reader.cur) \/ Current.end # "open"
      \/ reader.cur \in Downloading
      \/ /\ manager.pc \in {"signalled", "running", "handing"}
         /\ manager.next <= reader.cur
         /\ \A s \in Downloading : pipe[s].closed

\* The safety half of ReadReturns, for any number of segments and downloads: the pool is
\* never filled by downloads ahead of the segment that Read waits for.
THEOREM ReadIsSuppliedTheorem == Spec => []ReadIsSupplied
<1>1. IInv /\ Supply => ReadIsSupplied
  <2> SUFFICES ASSUME IInv, Supply, reader.pc = "reading", ctx = "live",
                      Current.end = "open", reader.cur \notin Downloading
               PROVE  /\ manager.pc \in {"signalled", "running", "handing"}
                      /\ manager.next <= reader.cur
                      /\ \A s \in Downloading : pipe[s].closed
    BY DEF ReadIsSupplied
  <2> DEFINE c == reader.cur
  <2>1. /\ c \in Segments /\ c \in 1..N /\ N \in Nat /\ fetch[c] \in Fetch
        /\ manager \in Manager /\ closing = "open" /\ SegmentSupplied(c)
    BY Constants DEF IInv, Delivered, TypeOK, Supply
  <2>2. ~ pipe[c].closed
    BY <2>1 DEF SegmentSupplied
  <2>3. fetch[c].pc = "none"
    BY <2>1, <2>2 DEF Fetch, Downloading, SegmentSupplied, Current
  <2>4. manager.next <= c /\ manager.next \in Nat
    BY <2>1, <2>3 DEF SegmentSupplied, Manager
  <2>5. manager.pc \in {"signalled", "running", "handing"}
    <3>1. manager.pc # "done"
      BY <2>1, <2>4 DEF Supply
    <3>2. QED BY <2>1, <3>1 DEF Supply, Manager
  <2>6. ASSUME NEW s \in Downloading PROVE pipe[s].closed
    <3>1. s \in Segments /\ s \in 1..N /\ fetch[s].pc \in {"body", "backoff"}
      BY Constants DEF Downloading
    <3>2. ~ manager.next <= s
      BY <3>1 DEF Supply, SegmentSupplied
    <3>3. s < c
      BY <2>1, <2>4, <3>1, <3>2
    <3>4. QED BY <2>1, <3>1, <3>3 DEF Supply, SegmentSupplied
  <2>7. QED BY <2>4, <2>5, <2>6
<1>2. QED BY <1>1, SupplyInvariant, PTL

-----------------------------------------------------------------------------
(* The refinement: every step is one of the stream, or none.                 *)

LEMMA StreamInit == Init => Stream!Init
BY DEF Init, Stream!Init, End

LEMMA StreamStep == IInv /\ [Next]_vars => [Stream!Next]_<<out, End>>
<1> SUFFICES ASSUME IInv, [Next]_vars PROVE Stream!Next \/ UNCHANGED <<out, End>>
  OBVIOUS
<1>1. CASE ManagerStep \/ \E s \in Segments : WatchStep(s) \/ BodyWrites(s) \/ BodyReturns(s)
           \/ BackoffEnds(s)
  BY <1>1
  DEF ManagerStep, ManagerStarts, ManagerQuits, ManagerTests, ManagerTakes, ManagerBreaks, ManagerEnds,
      WatchStep, WatchRetires, WatchExpires, WatchStalls, GivesUp, BodyWrites, BodyReturns,
      BackoffEnds, End
<1>2. ctx \in {"live", "done"} /\ reader \in Reader
  BY ReadTypes DEF IInv, TypeOK
<1>3. ASSUME NEW want \in Wants, ReadBegins(want) PROVE Stream!Next \/ UNCHANGED <<out, End>>
  <2>1. reader.pc = "idle" /\ UNCHANGED <<out, ctx>>
    BY <1>3 DEF ReadBegins
  <2>2. CASE reader.cur = N + 1
    <3>1. reader'.pc = "eof"
      BY <1>2, <1>3, <2>1, <2>2 DEF ReadBegins, Reader
    <3>2. ctx = "live" => Len(out) = Offset[N + 1]
      BY <2>2 DEF IInv, Delivered, Place
    <3>3. QED BY <1>2, <2>1, <3>1, <3>2 DEF End, Stream!Next, Stream!Finish
  <2>3. CASE reader.cur # N + 1
    <3>1. reader'.pc = "reading"
      BY <1>2, <1>3, <2>1, <2>3 DEF ReadBegins, Reader
    <3>2. QED BY <2>1, <3>1 DEF End
  <2>4. QED BY <2>2, <2>3
<1>4. CASE ReadTakes
  <2>1. reader.pc = "reading" /\ reader'.pc \in {"reading", "idle"} /\ UNCHANGED ctx
    BY <1>2, <1>4 DEF ReadTakes, Reader
  <2>2. End' = End /\ End = (IF ctx = "live" THEN "open" ELSE "abandoned")
    BY <1>2, <2>1 DEF End
  <2>3. /\ out' = Append(out, Place + 1) /\ Place + 1 \in 1..Offset[N + 1]
        /\ Stream!Latest < Place + 1 /\ (ctx = "live" => Len(out) = Place)
    BY <1>4, TakesNext
  <2>4. Offset[N + 1] \in Nat /\ Stream!Latest \in Nat /\ Len(out) \in Nat
    <3>1. N + 1 \in 1..(N + 1) /\ out \in Seq(Nat)
      BY Constants, ReadTypes
    <3>2. QED BY <3>1, Offsets, LatestIsNat
  <2>5. CASE ctx = "live"
    <3>1. Stream!Deliver
      BY <2>2, <2>3, <2>4, <2>5 DEF Stream!Deliver
    <3>2. QED BY <3>1 DEF Stream!Next
  <2>6. CASE ctx = "done"
    <3>1. Place + 1 > Stream!Latest
      BY <2>3, <2>4
    <3>2. Stream!DeliverLeftover
      BY <2>2, <2>3, <2>6, <3>1 DEF Stream!DeliverLeftover
    <3>3. QED BY <3>2 DEF Stream!Next
  <2>7. QED BY <1>2, <2>5, <2>6
<1>5. CASE ReadMovesOn
  <2>1. reader.pc = "reading" /\ UNCHANGED <<out, ctx>>
    BY <1>5 DEF ReadMovesOn
  <2>2. /\ reader'.pc = "eof" /\ ctx = "live" => Len(out) = Offset[N + 1]
        /\ reader'.pc \in {"reading", "idle", "eof"}
    BY <1>5, MovesOnKeeps
  <2>3. QED BY <1>2, <2>1, <2>2 DEF End, Stream!Next, Stream!Finish
<1>6. CASE ReadFails
  <2>1. reader.pc = "reading" /\ reader'.pc = "failed" /\ UNCHANGED <<out, ctx>>
    BY <1>2, <1>6 DEF ReadFails, Reader
  <2>2. QED BY <2>1 DEF End, Stream!Next, Stream!Break
<1>7. CASE ReadCutShort
  <2>1. ctx = "done" /\ UNCHANGED <<out, ctx>>
    BY <1>2, <1>7 DEF ReadCutShort, IInv, Delivered
  <2>2. QED BY <2>1 DEF End
<1>8. CASE Close \/ CleansUp \/ CallerLeaves
  <2>1. ctx' = "done" /\ UNCHANGED out
    BY <1>2, <1>8 DEF Close, CleansUp, CallerLeaves, IInv, Delivered
  <2>2. QED BY <2>1 DEF End, Stream!Next, Stream!Abandon
<1>9. CASE UNCHANGED vars
  BY <1>9 DEF vars, End
<1>10. QED BY <1>1, <1>3, <1>4, <1>5, <1>6, <1>7, <1>8, <1>9 DEF Next, ReadStep

\* The consumer gets the pieces of the range in order, each once, and the end of the file
\* only after the last one, whatever attempt fails, stalls, is repeated or retired: until its
\* context ends or it closes the reader, and in order and each at most once after that.
THEOREM ReaderIsByteStream == Spec => IsByteStream
<1>1. Init => Stream!Init
  BY StreamInit
<1>2. [][Next]_vars /\ []IInv => [][Stream!Next]_<<out, End>>
  BY StreamStep, PTL
<1>3. QED BY <1>1, <1>2, Invariant, PTL DEF Spec, IsByteStream, Stream!Spec
=============================================================================
