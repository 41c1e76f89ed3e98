---------------------------- MODULE StreamSlotProof ----------------------------
(* Proofs about StreamSlot, for a file and a window of any size, any set of   *)
(* ranges and any number of requests.                                         *)
EXTENDS StreamSlot, SequenceTheorems, WellFoundedInduction, TLAPS

LEMMA Constants ==
    /\ Size \in Nat /\ TrimTo \in Nat /\ Max \in Nat /\ Hard \in Nat /\ Ahead \in Nat
    /\ PreBuffer \in Nat /\ MaxWrite \in Nat /\ MaxReconnects \in Nat
    /\ TrimTo < Max /\ Max < Hard /\ MaxWrite > 0
    /\ \A range \in Ranges : /\ range[1] \in Offsets /\ range[2] \in 0..(Size + 1)
                             /\ range[1] < range[2] /\ range[1] < Size
BY SlotAssumption DEF Offsets

\* A set of natural numbers that is not empty has a least element, and only one.
LEMMA LeastOf ==
    ASSUME NEW S \in SUBSET Nat, S # {}
    PROVE  Least(S) \in S /\ \A y \in S : Least(S) <= y
<1> DEFINE R == {ss \in Nat \X Nat : ss[1] < ss[2]}
<1>1. IsWellFoundedOn(R, Nat)
  BY NatLessThanWellFounded DEF OpToRel
<1>2. \A x, y \in Nat : y < x => <<y, x>> \in R
  OBVIOUS
<1> HIDE DEF R
<1>3. PICK x \in S : \A y \in S : <<y, x>> \notin R
  BY <1>1, WFMin
<1>4. \A y \in S : x <= y
  <2>1. TAKE y \in S
  <2>2. x \in Nat /\ y \in Nat /\ ~(y < x)
    BY <1>2, <1>3
  <2>3. QED BY <2>2
<1>5. QED BY <1>3, <1>4 DEF Least

-----------------------------------------------------------------------------
(* The inductive invariant. *)

\* The background reader is about to read, or has read, at the window's end.
Reading == \/ reader.pc \in {"check", "read", "notify", "decide"}
           \/ reader.pc \in {"park", "parked"} /\ ~ reader.resume

\* What is read next belongs at the end of the window, which has room for it.
ReadsOn ==
    /\ Reading => body.at = EndPos
    /\ reader.resume => reader.pc \in {"park", "parked", "reopen", "closing",
                                       "lastNotify", "ended"}
    /\ reader.pc = "read" => Len(slot.data) < Hard
    /\ reader.pc \notin {"closing", "lastNotify", "ended"} => reader.stalls <= MaxReconnects

\* Nothing lies behind the end of the file.
InFile ==
    /\ EndPos <= Size
    /\ \A r \in Requests : req[r].pos + Len(req[r].chunk) <= Size

\* Only a slot that nobody is registered in is evicted.
EvictedIsEmpty == slot.cancelled => Registered = {}

IInv ==
    /\ TypeOK
    /\ ReadsOn
    /\ InFile
    /\ EvictedIsEmpty
    /\ KeepsWhatRequestsNeed
    /\ WindowIsTheFile

USE DEF Offsets

-----------------------------------------------------------------------------
(* The window *)

\* The k elements of a sequence after the first m.
Part(d, m, k) == SubSeq(d, m + 1, m + k)

LEMMA PartIs ==
    ASSUME NEW S, NEW d \in Seq(S), NEW m \in Nat, NEW k \in Nat, m + k <= Len(d)
    PROVE  /\ Part(d, m, k) \in Seq(S) /\ Len(Part(d, m, k)) = k
           /\ \A i \in 1..k : m + i \in 1..Len(d) /\ Part(d, m, k)[i] = d[m + i]
<1> DEFINE c == SubSeq(d, m + 1, m + k)
<1>1. Len(d) \in Nat /\ \A i \in (m + 1)..(m + k) : d[i] \in S
  OBVIOUS
<1>2. /\ c \in Seq(S)
      /\ Len(c) = IF m + 1 <= m + k THEN m + k - (m + 1) + 1 ELSE 0
      /\ \A i \in 1..(m + k - (m + 1) + 1) : c[i] = d[m + 1 + i - 1]
  BY <1>1, SubSeqProperties
<1> HIDE DEF c
<1>3. Len(c) = k /\ m + k - (m + 1) + 1 = k
  BY <1>2
<1>4. \A i \in 1..k : m + 1 + i - 1 = m + i /\ m + i \in 1..Len(d)
  BY <1>1
<1>5. \A i \in 1..k : m + i \in 1..Len(d) /\ c[i] = d[m + i]
  BY <1>2, <1>3, <1>4
<1>6. QED BY <1>2, <1>3, <1>5 DEF c, Part

\* A window that loses its first n bytes keeps the others at their places.
Shifted(w, n) == [w EXCEPT !.start = @ + n, !.data = SubSeq(@, n + 1, Len(@))]

LEMMA Shifting ==
    ASSUME NEW w \in Slot, w.start + Len(w.data) <= Size,
           \A i \in 1..Len(w.data) : w.data[i] = w.start + i - 1,
           NEW n \in 0..Len(w.data)
    PROVE  LET v == Shifted(w, n) IN
           /\ v \in Slot
           /\ v.start = w.start + n
           /\ v.start + Len(v.data) = w.start + Len(w.data)
           /\ Len(v.data) = Len(w.data) - n
           /\ \A i \in 1..Len(v.data) : v.data[i] = v.start + i - 1
           /\ v.cancelled = w.cancelled
<1> DEFINE d == w.data
           s == SubSeq(d, n + 1, Len(d))
           v == Shifted(w, n)
<1>1. /\ w.start \in 0..Size /\ d \in Seq(0..Size) /\ Len(d) \in Nat
      /\ w.start + Len(d) <= Size /\ Size \in Nat
  BY Constants DEF Slot
<1>2. /\ s \in Seq(0..Size) /\ Len(s) = Len(d) - n
      /\ \A i \in 1..Len(s) : s[i] = d[n + i]
  <2>1. n \in Nat /\ Len(d) - n \in Nat /\ n + (Len(d) - n) = Len(d) /\ d \in Seq(0..Size)
    BY <1>1
  <2>2. Part(d, n, Len(d) - n) = s
    BY <2>1 DEF Part
  <2> HIDE DEF d, s
  <2> DEFINE k == Len(d) - n
             p == Part(d, n, k)
  <2>3. k \in Nat /\ n + k <= Len(d)
    BY <2>1
  <2> HIDE DEF k
  <2>4. p \in Seq(0..Size)
    BY <2>1, <2>3, PartIs
  <2>5. Len(p) = k
    BY <2>1, <2>3, PartIs
  <2>6. \A i \in 1..k : p[i] = d[n + i]
    BY <2>1, <2>3, PartIs
  <2> HIDE DEF p
  <2>7. s = p
    BY <2>2 DEF k, p
  <2>8. QED BY <2>4, <2>5, <2>6, <2>7 DEF k
<1> HIDE DEF s
<1>3. \A i \in 1..Len(s) : s[i] = w.start + n + i - 1
  <2>1. TAKE i \in 1..Len(s)
  <2>2. n + i \in 1..Len(d) /\ s[i] = d[n + i]
    BY <1>1, <1>2
  <2>3. d[n + i] = w.start + (n + i) - 1
    BY <2>2
  <2>4. w.start + (n + i) - 1 = w.start + n + i - 1
    BY <1>1
  <2>5. QED BY <2>2, <2>3, <2>4
<1>4. v = [w EXCEPT !.start = @ + n, !.data = s]
  BY DEF Shifted, s
<1>5. w.start + n \in 0..Size
  BY <1>1
<1>6. v.start = w.start + n /\ v.data = s /\ v.cancelled = w.cancelled /\ v \in Slot
  BY <1>4, <1>5, <1>2 DEF Slot
<1> HIDE DEF v
<1>7. v.start + Len(v.data) = w.start + Len(w.data) /\ Len(v.data) = Len(w.data) - n
  BY <1>1, <1>2, <1>6
<1>8. \A i \in 1..Len(v.data) : v.data[i] = v.start + i - 1
  BY <1>3, <1>6
<1>9. QED BY <1>6, <1>7, <1>8 DEF v

\* trimConsumedBufferLocked shifts the window, and not past a registered request.
LEMMA Trimming ==
    ASSUME NEW w \in Slot, req \in [Requests -> Request],
           \A r \in Registered : w.start <= req[r].pos
    PROVE  \E n \in 0..Len(w.data) :
               /\ Trim(w) = Shifted(w, n)
               /\ \A r \in Registered : w.start + n <= req[r].pos
<1> DEFINE slowest == SlowestPos(w)
           consumed == IF slowest > w.start THEN slowest - w.start ELSE 0
           excess == IF Len(w.data) > TrimTo THEN Len(w.data) - TrimTo ELSE 0
           P == {req[r].pos : r \in Registered}
           n == Least({consumed, excess})
<1>1. w.start \in Nat /\ Len(w.data) \in Nat /\ TrimTo \in Nat /\ Size \in Nat
  BY Constants DEF Slot
<1>2. \A r \in Registered : req[r].pos \in Nat
  <2>1. TAKE r \in Registered
  <2>2. req[r] \in Request
    BY DEF Registered
  <2>3. QED BY <1>1, <2>2 DEF Request
<1>3. slowest \in Nat /\ \A r \in Registered : slowest <= req[r].pos
  <2>1. CASE Registered = {}
    BY <2>1, <1>1 DEF SlowestPos
  <2>2. CASE Registered # {}
    <3>1. P \in SUBSET Nat /\ P # {}
      BY <2>2, <1>2
    <3>2. Least(P) \in Nat /\ \A y \in P : Least(P) <= y
      BY <3>1, LeastOf
    <3>3. slowest = Least(P)
      BY <2>2 DEF SlowestPos
    <3>4. QED BY <3>2, <3>3
  <2>3. QED BY <2>1, <2>2
<1> HIDE DEF slowest
<1>4. consumed \in Nat /\ excess \in Nat /\ excess <= Len(w.data)
  BY <1>1, <1>3
<1> HIDE DEF consumed, excess
<1>5. n \in {consumed, excess} /\ n <= consumed /\ n <= excess
  BY <1>4, LeastOf
<1> HIDE DEF n
<1>6. n \in 0..Len(w.data)
  BY <1>1, <1>4, <1>5
<1>7. Trim(w) = Shifted(w, n)
  BY DEF Trim, Shifted, n, consumed, excess, slowest
<1>8. \A r \in Registered : w.start + n <= req[r].pos
  <2>1. TAKE r \in Registered
  <2>2. slowest <= req[r].pos /\ w.start <= req[r].pos /\ req[r].pos \in Nat
    BY <1>2, <1>3
  <2>3. CASE slowest > w.start
    BY <2>2, <2>3, <1>1, <1>3, <1>5, <1>6 DEF consumed
  <2>4. CASE ~(slowest > w.start)
    BY <2>2, <2>4, <1>1, <1>3, <1>5, <1>6 DEF consumed
  <2>5. QED BY <2>3, <2>4
<1>9. QED BY <1>6, <1>7, <1>8

\* The two together: what a trimmed window keeps.
LEMMA Trimmed ==
    ASSUME NEW w \in Slot, req \in [Requests -> Request],
           \A r \in Registered : w.start <= req[r].pos,
           w.start + Len(w.data) <= Size,
           \A i \in 1..Len(w.data) : w.data[i] = w.start + i - 1
    PROVE  LET v == Trim(w) IN
           /\ v \in Slot
           /\ v.start + Len(v.data) = w.start + Len(w.data)
           /\ Len(v.data) <= Len(w.data)
           /\ \A i \in 1..Len(v.data) : v.data[i] = v.start + i - 1
           /\ \A r \in Registered : v.start <= req[r].pos
           /\ v.cancelled = w.cancelled
<1>1. PICK n \in 0..Len(w.data) :
         /\ Trim(w) = Shifted(w, n)
         /\ \A r \in Registered : w.start + n <= req[r].pos
  BY Trimming
<1>2. n \in Nat /\ Len(w.data) \in Nat
  BY DEF Slot
<1>3. LET v == Shifted(w, n) IN
      /\ v \in Slot
      /\ v.start = w.start + n
      /\ v.start + Len(v.data) = w.start + Len(w.data)
      /\ Len(v.data) = Len(w.data) - n
      /\ \A i \in 1..Len(v.data) : v.data[i] = v.start + i - 1
      /\ v.cancelled = w.cancelled
  BY Shifting
<1>4. QED BY <1>1, <1>2, <1>3

-----------------------------------------------------------------------------
(* What the steps of each kind preserve *)

\* A range is entered with a pre-buffer no larger than the usual one.
LEMMA EnteringIs ==
    ASSUME NEW range \in Ranges, NEW known \in BOOLEAN
    PROVE  /\ Entering(range, known) \in Request
           /\ Entering(range, known).pc = "enter"
           /\ Entering(range, known).pos = range[1]
           /\ Entering(range, known).chunk = <<>>
           /\ Entering(range, known).sent = <<>>
           /\ Entering(range, known).to = range[2]
<1> DEFINE S == {PreBuffer} \cup (IF range[2] <= Size THEN {range[2] - range[1]} ELSE {})
                     \cup (IF known THEN {Size - range[1]} ELSE {})
<1>1. /\ range[1] \in 0..Size /\ range[2] \in 0..(Size + 1)
      /\ range[1] < range[2] /\ range[1] < Size
      /\ PreBuffer \in Nat /\ Size \in Nat /\ MaxWrite \in Nat
  BY Constants
<1>2. S \in SUBSET Nat /\ PreBuffer \in S
  BY <1>1
<1> HIDE DEF S
<1>3. Least(S) \in Nat /\ Least(S) <= PreBuffer
  BY <1>2, LeastOf
<1>4. PreBufferOf(range, known) = Least(S)
  BY DEF PreBufferOf, S
<1>5. PreBufferOf(range, known) \in 0..PreBuffer
  BY <1>1, <1>3, <1>4
<1>6. QED BY <1>1, <1>5 DEF Entering, Request, RequestPc

\* A step of a registered request, which stays registered and does not go back.
LEMMA RequestMoves ==
    ASSUME IInv, NEW r \in Requests, NEW q \in Request,
           req[r].pc # "idle", q.pc # "idle", q.pos >= req[r].pos, q.pos + Len(q.chunk) <= Size,
           req' = [req EXCEPT ![r] = q],
           Keeps
    PROVE  IInv'
<1>1. TypeOK /\ slot' = slot /\ reader' = reader /\ body' = body /\ stall' = stall
  BY DEF IInv, Keeps
<1>2. req \in [Requests -> Request] /\ req' \in [Requests -> Request]
  BY <1>1 DEF TypeOK
<1>3. /\ \A p \in Requests : p # r => req'[p] = req[p]
      /\ req'[r] = q
  BY <1>2
<1>4. TypeOK'
  BY <1>1, <1>2 DEF TypeOK
<1>5. Registered' = Registered
  BY <1>3 DEF Registered
<1>6. EndPos' = EndPos /\ ReadsOn'
  BY <1>1 DEF IInv, EndPos, ReadsOn, Reading
<1>7. InFile'
  BY <1>3, <1>6 DEF IInv, InFile
<1>8. EvictedIsEmpty' /\ WindowIsTheFile'
  BY <1>1, <1>5 DEF IInv, EvictedIsEmpty, WindowIsTheFile
<1>9. KeepsWhatRequestsNeed'
  <2>1. ASSUME NEW p \in Registered' PROVE slot'.start <= req'[p].pos
    <3>1. p \in Registered /\ slot.start <= req[p].pos /\ p \in Requests
      BY <1>5, <2>1 DEF IInv, KeepsWhatRequestsNeed, Registered
    <3>2. req[p].pos \in Nat /\ req'[p].pos \in Nat /\ slot.start \in Nat
      BY <1>1, <1>2, <3>1, Constants DEF TypeOK, Request, Slot
    <3>3. CASE p = r
      BY <1>1, <1>3, <3>1, <3>2, <3>3
    <3>4. CASE p # r
      BY <1>1, <1>3, <3>1, <3>4
    <3>5. QED BY <3>3, <3>4
  <2>2. QED BY <2>1 DEF KeepsWhatRequestsNeed
<1>10. QED BY <1>4, <1>6, <1>7, <1>8, <1>9 DEF IInv

\* A step of the background reader, or of its stall timer, that leaves the window and
\* who is registered as they are.
LEMMA ReaderMoves ==
    ASSUME IInv, ReadsOn', slot'.start = slot.start, slot'.data = slot.data,
           slot'.cancelled = slot.cancelled, slot' \in Slot, reader' \in Reader,
           body' \in Body, stall' \in [triggered : BOOLEAN, late : {"no", "this", "old"}],
           req' \in [Requests -> Request],
           \A r \in Requests : /\ req'[r].pc = "idle" <=> req[r].pc = "idle"
                               /\ req'[r].pos = req[r].pos
                               /\ req'[r].chunk = req[r].chunk
    PROVE  IInv'
<1>1. TypeOK'
  BY DEF IInv, TypeOK
<1>2. EndPos' = EndPos /\ Registered' = Registered
  BY DEF EndPos, Registered
<1>3. InFile'
  BY <1>2 DEF IInv, InFile
<1>4. EvictedIsEmpty' /\ WindowIsTheFile'
  BY <1>2 DEF IInv, EvictedIsEmpty, WindowIsTheFile
<1>5. KeepsWhatRequestsNeed'
  BY <1>2 DEF IInv, KeepsWhatRequestsNeed, Registered
<1>6. QED BY <1>1, <1>3, <1>4, <1>5 DEF IInv

\* A step that trims the window, and nothing else of what the requests see.
LEMMA WindowMoves ==
    ASSUME IInv, ReadsOn', EndPos' <= Size, slot' \in Slot, Len(slot'.data) <= Hard,
           slot'.cancelled = slot.cancelled, reader' \in Reader, body' \in Body,
           stall' \in [triggered : BOOLEAN, late : {"no", "this", "old"}],
           req' = req,
           \A r \in Registered : slot'.start <= req[r].pos,
           \A i \in 1..Len(slot'.data) : slot'.data[i] = slot'.start + i - 1
    PROVE  IInv'
<1>1. TypeOK'
  BY DEF IInv, TypeOK
<1>2. Registered' = Registered
  BY DEF Registered
<1>3. InFile' /\ EvictedIsEmpty'
  BY <1>2 DEF IInv, InFile, EvictedIsEmpty
<1>4. KeepsWhatRequestsNeed' /\ WindowIsTheFile'
  BY <1>2 DEF KeepsWhatRequestsNeed, WindowIsTheFile
<1>5. QED BY <1>1, <1>3, <1>4 DEF IInv

\* The signal changes nothing but where the requests are.
LEMMA Broadcasting ==
    ASSUME TypeOK, Broadcast
    PROVE  /\ req' \in [Requests -> Request]
           /\ \A r \in Requests : /\ req'[r].pc = "idle" <=> req[r].pc = "idle"
                                  /\ req'[r].pos = req[r].pos
                                  /\ req'[r].chunk = req[r].chunk
<1>1. ASSUME NEW r \in Requests
      PROVE  /\ Woken(req[r]) \in Request
             /\ Woken(req[r]).pc = "idle" <=> req[r].pc = "idle"
             /\ Woken(req[r]).pos = req[r].pos
             /\ Woken(req[r]).chunk = req[r].chunk
  <2>1. req[r] \in Request
    BY DEF TypeOK
  <2>2. CASE req[r].pc = "waiting"
    BY <2>1, <2>2 DEF Woken, Request, RequestPc
  <2>3. CASE req[r].pc = "asleep"
    BY <2>1, <2>3 DEF Woken, Request, RequestPc
  <2>4. CASE req[r].pc \notin {"waiting", "asleep"}
    BY <2>1, <2>4 DEF Woken
  <2>5. QED BY <2>2, <2>3, <2>4
<1>2. QED BY <1>1 DEF Broadcast

\* What wakes a parked background reader leaves what it will read.
LEMMA Notifying ==
    ASSUME TypeOK, ReadsOn, NotifyReaderChanged, slot' = slot, body' = body
    PROVE  reader' \in Reader /\ ReadsOn'
<1>1. reader \in Reader
  BY DEF TypeOK
<1>2. reader' \in Reader /\ reader'.resume = reader.resume /\ reader'.stalls = reader.stalls
  BY <1>1 DEF NotifyReaderChanged, Reader, ReaderPc
<1>3. reader'.pc = IF reader.pc = "parked" THEN "park" ELSE reader.pc
  BY <1>1 DEF NotifyReaderChanged, Reader
<1>4. ReadsOn'
  BY <1>2, <1>3 DEF ReadsOn, Reading, EndPos
<1>5. QED BY <1>2, <1>4

-----------------------------------------------------------------------------
(* The pool *)

LEMMA StartOK == Init => IInv
<1> SUFFICES ASSUME Init PROVE IInv
  OBVIOUS
<1>1. Size \in Nat /\ Hard \in Nat /\ PreBuffer \in Nat /\ MaxWrite \in Nat
      /\ MaxReconnects \in Nat
  BY Constants
<1>2. NoSlot \in Slot /\ NoSlot.start = 0 /\ NoSlot.data = <<>> /\ Len(NoSlot.data) = 0
  BY <1>1 DEF NoSlot, Slot
<1>3. NoReader \in Reader /\ NoBody \in Body
  BY <1>1 DEF NoReader, Reader, ReaderPc, NoBody, Body
<1>4. NoRequest \in Request /\ NoRequest.pc = "idle" /\ NoRequest.pos = 0 /\ NoRequest.chunk = <<>>
  BY <1>1 DEF NoRequest, Request, RequestPc
<1>5. TypeOK
  BY <1>1, <1>2, <1>3, <1>4 DEF Init, TypeOK, NoStall
<1>6. Registered = {} /\ EndPos = 0
  BY <1>2, <1>4 DEF Init, Registered, EndPos
<1>7. ReadsOn
  BY <1>1 DEF Init, ReadsOn, Reading, NoReader
<1>8. InFile
  BY <1>1, <1>4, <1>6 DEF Init, InFile
<1>9. QED BY <1>2, <1>5, <1>6, <1>7, <1>8
          DEF Init, IInv, EvictedIsEmpty, KeepsWhatRequestsNeed, WindowIsTheFile

LEMMA OpenOK ==
    ASSUME IInv, NEW r \in Requests, NEW range \in Ranges, NEW known \in BOOLEAN,
           NEW served \in Offsets, Open(r, range, served, known)
    PROVE  IInv'
<1> DEFINE q == Entering(range, known)
<1>1. /\ Size \in Nat /\ Hard \in Nat /\ MaxReconnects \in Nat
      /\ range[1] \in 0..Size /\ served \in 0..Size
  BY Constants
<1>2. /\ q \in Request /\ q.pc = "enter" /\ q.pos = range[1]
      /\ q.chunk = <<>> /\ range[1] <= Size /\ range[1] \in 0..Size
  BY EnteringIs, Constants
<1> HIDE DEF q
<1>3. Registered = {} /\ \A p \in Requests : req[p].pc = "idle"
  BY DEF IInv, EvictedIsEmpty, Open, Registered
<1>4. /\ req \in [Requests -> Request] /\ req' = [req EXCEPT ![r] = q]
      /\ req' \in [Requests -> Request]
      /\ req'[r] = q /\ \A p \in Requests : p # r => req'[p] = req[p]
  BY <1>2 DEF IInv, TypeOK, Open, q
<1>5. /\ slot' \in Slot /\ slot'.start = served /\ slot'.data = <<>>
      /\ Len(slot'.data) = 0 /\ ~ slot'.cancelled
  <2>1. slot' = [start |-> served, data |-> <<>>, done |-> FALSE, failed |-> FALSE,
                 cancelled |-> FALSE]
    BY DEF Open, NoSlot
  <2>2. QED BY <1>1, <2>1 DEF Slot
<1>6. reader' \in Reader /\ reader'.pc = "park" /\ ~ reader'.resume /\ reader'.stalls = 0
  <2>1. reader' = [pc |-> "park", resume |-> FALSE, got |-> 0, end |-> "more", stalls |-> 0]
    BY DEF Open, NoReader
  <2>2. QED BY <1>1, <2>1 DEF Reader, ReaderPc
<1>7. body' \in Body /\ body'.at = served
  BY <1>1 DEF Open, Body
<1>8. TypeOK'
  BY <1>1, <1>4, <1>5, <1>6, <1>7 DEF Open, NoStall, TypeOK
<1>9. EndPos' = served
  BY <1>1, <1>5 DEF EndPos
<1>10. ReadsOn'
  BY <1>1, <1>6, <1>7, <1>9 DEF ReadsOn, Reading
<1>11. InFile'
  BY <1>1, <1>2, <1>4, <1>9 DEF IInv, InFile
<1>12. Registered' = {r} /\ served <= range[1]
  BY <1>2, <1>3, <1>4 DEF Open, Registered
<1>13. EvictedIsEmpty' /\ KeepsWhatRequestsNeed' /\ WindowIsTheFile'
  BY <1>2, <1>4, <1>5, <1>12 DEF EvictedIsEmpty, KeepsWhatRequestsNeed, WindowIsTheFile
<1>14. QED BY <1>8, <1>10, <1>11, <1>13 DEF IInv

LEMMA AcquireOK ==
    ASSUME IInv, NEW r \in Requests, NEW range \in Ranges, NEW known \in BOOLEAN,
           Acquire(r, range, known)
    PROVE  IInv'
<1> DEFINE q == Entering(range, known)
<1>1. /\ q \in Request /\ q.pc = "enter" /\ q.pos = range[1]
      /\ q.chunk = <<>> /\ range[1] <= Size /\ range[1] \in 0..Size
  BY EnteringIs, Constants
<1> HIDE DEF q
<1>2. /\ req \in [Requests -> Request] /\ req' = [req EXCEPT ![r] = q]
      /\ req' \in [Requests -> Request]
      /\ req'[r] = q /\ \A p \in Requests : p # r => req'[p] = req[p]
  BY <1>1 DEF IInv, TypeOK, Acquire, q
<1>3. slot' = slot /\ body' = body /\ stall' = stall /\ NotifyReaderChanged
  BY DEF Acquire
<1>4. reader' \in Reader /\ ReadsOn'
  BY <1>3, Notifying DEF IInv
<1>5. TypeOK'
  BY <1>2, <1>3, <1>4 DEF IInv, TypeOK
<1>6. InFile'
  <2>1. Len(q.chunk) = 0 /\ q.pos + Len(q.chunk) <= Size
    BY <1>1
  <2>2. QED BY <1>2, <1>3, <2>1 DEF IInv, InFile, EndPos
<1>7. ~ slot.cancelled /\ slot.start <= range[1]
  BY DEF Acquire, Offers
<1>8. KeepsWhatRequestsNeed'
  <2>1. ASSUME NEW p \in Registered' PROVE slot'.start <= req'[p].pos
    <3>1. CASE p = r
      BY <3>1, <1>1, <1>2, <1>3, <1>7
    <3>2. CASE p # r
      BY <3>2, <1>2, <1>3 DEF IInv, KeepsWhatRequestsNeed, Registered
    <3>3. QED BY <3>1, <3>2
  <2>2. QED BY <2>1 DEF KeepsWhatRequestsNeed
<1>9. EvictedIsEmpty' /\ WindowIsTheFile'
  BY <1>3, <1>7 DEF IInv, EvictedIsEmpty, WindowIsTheFile
<1>10. QED BY <1>4, <1>5, <1>6, <1>8, <1>9 DEF IInv

LEMMA EvictOK ==
    ASSUME IInv, Evict
    PROVE  IInv'
<1>1. /\ slot' = [slot EXCEPT !.cancelled = TRUE] /\ Registered = {}
      /\ reader' = reader /\ body' = body /\ stall' = stall /\ req' = req
  BY DEF Evict
<1>2. slot \in Slot /\ TypeOK
  BY DEF IInv, TypeOK
<1>3. slot' \in Slot /\ slot'.start = slot.start /\ slot'.data = slot.data
  BY <1>1, <1>2 DEF Slot
<1>4. TypeOK'
  BY <1>1, <1>2, <1>3 DEF TypeOK
<1>5. Registered' = {} /\ EndPos' = EndPos
  BY <1>1, <1>3 DEF Registered, EndPos
<1>6. ReadsOn'
  BY <1>1, <1>3, <1>5 DEF IInv, ReadsOn, Reading
<1>7. InFile'
  BY <1>1, <1>5 DEF IInv, InFile
<1>8. EvictedIsEmpty' /\ KeepsWhatRequestsNeed' /\ WindowIsTheFile'
  BY <1>3, <1>5 DEF IInv, EvictedIsEmpty, KeepsWhatRequestsNeed, WindowIsTheFile
<1>9. QED BY <1>4, <1>6, <1>7, <1>8 DEF IInv

-----------------------------------------------------------------------------
(* backgroundReader *)

LEMMA ParkOK ==
    ASSUME IInv, Park
    PROVE  IInv'
<1>1. /\ slot' = slot /\ body' = body /\ stall' = stall /\ req' = req
      /\ reader.pc = "park" /\ reader \in Reader /\ TypeOK /\ ReadsOn
  BY DEF Park, IInv, TypeOK
<1> DEFINE pc == CASE Registered = {} -> "parked"
                   [] Registered # {} /\ reader.resume -> "reopen"
                   [] OTHER -> "check"
<1>2. \/ pc = "parked"
      \/ pc = "reopen" /\ reader.resume
      \/ pc = "check" /\ ~ reader.resume
  BY <1>1 DEF Reader
<1>3. reader' = [reader EXCEPT !.pc = pc]
  BY DEF Park
<1> HIDE DEF pc
<1>4. /\ reader' \in Reader /\ reader'.pc = pc /\ reader'.resume = reader.resume
      /\ reader'.stalls = reader.stalls
  BY <1>1, <1>2, <1>3 DEF Reader, ReaderPc
<1>5. ReadsOn'
  BY <1>1, <1>2, <1>4 DEF ReadsOn, Reading, EndPos
<1>6. QED BY <1>1, <1>4, <1>5, ReaderMoves DEF TypeOK

LEMMA ParkedOutOK ==
    ASSUME IInv, ParkedOut
    PROVE  IInv'
<1>1. /\ slot' = slot /\ body' = body /\ stall' = stall /\ req' = req
      /\ reader.pc = "parked" /\ reader \in Reader /\ TypeOK /\ ReadsOn
      /\ reader' = [reader EXCEPT !.pc = "closing"]
  BY DEF ParkedOut, IInv, TypeOK
<1>2. reader' \in Reader /\ reader'.pc = "closing"
  BY <1>1 DEF Reader, ReaderPc
<1>3. ReadsOn'
  BY <1>2 DEF ReadsOn, Reading
<1>4. QED BY <1>1, <1>2, <1>3, ReaderMoves DEF TypeOK

\* The window as a trim leaves it, whether it was one or not.
LEMMA CheckOK ==
    ASSUME IInv, Check
    PROVE  IInv'
<1>1. /\ body' = body /\ stall' = stall /\ req' = req
      /\ slot' = IF Len(slot.data) >= Hard THEN Trim(slot) ELSE slot
      /\ reader' = [reader EXCEPT !.pc = IF Len(slot'.data) >= Hard THEN "park" ELSE "read"]
      /\ reader.pc = "check"
  BY DEF Check
<1>2. /\ TypeOK /\ ReadsOn /\ slot \in Slot /\ Len(slot.data) <= Hard
      /\ reader \in Reader /\ req \in [Requests -> Request]
      /\ EndPos <= Size
  BY DEF IInv, TypeOK, InFile
<1>3. /\ slot' \in Slot
      /\ EndPos' = EndPos
      /\ Len(slot'.data) <= Len(slot.data)
      /\ \A i \in 1..Len(slot'.data) : slot'.data[i] = slot'.start + i - 1
      /\ \A r \in Registered : slot'.start <= req[r].pos
      /\ slot'.cancelled = slot.cancelled
  <2>1. CASE Len(slot.data) >= Hard
    BY <1>1, <1>2, <2>1, Trimmed DEF IInv, KeepsWhatRequestsNeed, WindowIsTheFile, EndPos
  <2>2. CASE ~(Len(slot.data) >= Hard)
    <3>1. slot' = slot
      BY <1>1, <2>2
    <3>2. Len(slot.data) \in Nat
      BY <1>2 DEF Slot
    <3>3. QED BY <1>2, <3>1, <3>2 DEF IInv, KeepsWhatRequestsNeed, WindowIsTheFile, EndPos
  <2>3. QED BY <2>1, <2>2
<1>4. Len(slot'.data) \in Nat /\ Len(slot.data) \in Nat /\ Hard \in Nat
  BY <1>2, <1>3, Constants DEF Slot
<1>5. /\ reader' \in Reader /\ reader'.resume = reader.resume
      /\ reader'.stalls = reader.stalls
      /\ reader'.pc = IF Len(slot'.data) >= Hard THEN "park" ELSE "read"
  BY <1>1, <1>2 DEF Reader, ReaderPc
<1>6. ReadsOn'
  <2>1. ~ reader.resume /\ body.at = EndPos /\ reader.stalls <= MaxReconnects
    BY <1>1, <1>2 DEF ReadsOn, Reading, Reader
  <2>2. QED BY <1>1, <1>3, <1>4, <1>5, <2>1 DEF ReadsOn, Reading
<1>7. QED BY <1>1, <1>2, <1>3, <1>4, <1>5, <1>6, WindowMoves DEF TypeOK

LEMMA StallOK ==
    ASSUME IInv, StallFires \/ LateStall
    PROVE  IInv'
<1>1. /\ TypeOK /\ ReadsOn /\ slot' = slot /\ reader' = reader /\ req' = req
      /\ body' = [body EXCEPT !.open = FALSE]
  BY DEF IInv, StallFires, LateStall
<1>2. body' \in Body /\ body'.at = body.at
  BY <1>1 DEF TypeOK, Body
<1>3. stall' \in [triggered : BOOLEAN, late : {"no", "this", "old"}]
  <2>1. CASE StallFires
    BY <1>1, <2>1 DEF StallFires, TypeOK
  <2>2. CASE LateStall
    BY <1>1, <2>2 DEF LateStall, TypeOK
  <2>3. QED BY <2>1, <2>2
<1>4. ReadsOn'
  BY <1>1, <1>2 DEF ReadsOn, Reading, EndPos
<1>5. QED BY <1>1, <1>2, <1>3, <1>4, ReaderMoves DEF TypeOK

\* Body.Read returned a chunk: what it has read is the next byte of the file.
LEMMA Appending ==
    ASSUME IInv, reader.pc = "read", body.at < Size,
           NEW g, g = [slot EXCEPT !.data = Append(@, body.at)]
    PROVE  /\ g \in Slot /\ g.start = slot.start /\ g.cancelled = slot.cancelled
           /\ Len(g.data) = Len(slot.data) + 1 /\ Len(g.data) <= Hard
           /\ g.start + Len(g.data) = body.at + 1
           /\ \A i \in 1..Len(g.data) : g.data[i] = g.start + i - 1
<1>1. /\ slot \in Slot /\ body \in Body /\ Size \in Nat /\ Hard \in Nat
      /\ body.at = EndPos /\ Len(slot.data) < Hard
  BY Constants DEF IInv, TypeOK, ReadsOn, Reading
<1>2. /\ slot.start \in 0..Size /\ slot.data \in Seq(0..Size) /\ Len(slot.data) \in Nat
      /\ body.at \in 0..Size
  BY <1>1 DEF Slot, Body
<1> DEFINE d == Append(slot.data, body.at)
<1>3. /\ d \in Seq(0..Size) /\ Len(d) = Len(slot.data) + 1 /\ d[Len(slot.data) + 1] = body.at
      /\ \A i \in 1..Len(slot.data) : d[i] = slot.data[i]
  BY <1>2, AppendProperties
<1> HIDE DEF d
<1>4. g \in Slot /\ g.start = slot.start /\ g.data = d /\ g.cancelled = slot.cancelled
  <2>1. g = [slot EXCEPT !.data = d]
    BY DEF d
  <2>2. QED BY <1>1, <1>3, <2>1 DEF Slot
<1>5. \A i \in 1..Len(d) : d[i] = slot.start + i - 1
  <2>1. TAKE i \in 1..Len(d)
  <2>2. CASE i = Len(slot.data) + 1
    BY <1>1, <1>2, <1>3, <2>2 DEF EndPos
  <2>3. CASE i # Len(slot.data) + 1
    <3>1. i \in 1..Len(slot.data)
      BY <1>2, <1>3, <2>3
    <3>2. QED BY <1>3, <3>1 DEF IInv, WindowIsTheFile
  <2>4. QED BY <2>2, <2>3
<1>6. g.start + Len(g.data) = body.at + 1 /\ Len(g.data) <= Hard
  BY <1>1, <1>2, <1>3, <1>4 DEF EndPos
<1>7. Len(g.data) = Len(slot.data) + 1 /\ \A i \in 1..Len(g.data) : g.data[i] = g.start + i - 1
  BY <1>3, <1>4, <1>5
<1>8. QED BY <1>4, <1>6, <1>7

LEMMA ReadReturnsOK ==
    ASSUME IInv, NEW n \in 0..1, NEW end \in {"more", "eof", "error"}, ReadReturns(n, end)
    PROVE  IInv'
<1> DEFINE g == [slot EXCEPT !.data = IF n = 1 THEN Append(@, body.at) ELSE @]
           pc == IF n = 1 THEN "notify" ELSE "decide"
<1>1. /\ TypeOK /\ ReadsOn /\ slot \in Slot /\ reader \in Reader /\ body \in Body
      /\ reader.pc = "read" /\ req' = req
      /\ slot' = IF n = 1 /\ Len(g.data) > Max THEN Trim(g) ELSE g
      /\ body' = [body EXCEPT !.at = @ + n]
      /\ reader' = [reader EXCEPT !.pc = pc, !.got = n, !.end = end]
      /\ n = 1 => body.at < Size
  BY DEF IInv, TypeOK, ReadReturns, Yields
<1>2. /\ ~ reader.resume /\ body.at = EndPos /\ reader.stalls <= MaxReconnects
      /\ Len(slot.data) \in Nat /\ slot.start \in Nat /\ body.at \in 0..Size
      /\ Size \in Nat /\ Hard \in Nat
  BY <1>1, Constants DEF ReadsOn, Reading, Slot, Body
<1>3. stall' \in [triggered : BOOLEAN, late : {"no", "this", "old"}]
  BY <1>1 DEF ReadReturns, TypeOK
<1>4. /\ reader' \in Reader /\ reader'.pc = pc /\ ~ reader'.resume
      /\ reader'.stalls <= MaxReconnects
  BY <1>1, <1>2 DEF Reader, ReaderPc
<1>5. body' \in Body /\ body'.at = body.at + n
  BY <1>1, <1>2 DEF Body
<1>6. /\ slot' \in Slot /\ Len(slot'.data) <= Hard
      /\ slot'.start + Len(slot'.data) = body.at + n
      /\ slot'.cancelled = slot.cancelled
      /\ \A i \in 1..Len(slot'.data) : slot'.data[i] = slot'.start + i - 1
      /\ \A r \in Registered : slot'.start <= req[r].pos
  <2>1. CASE n = 1
    <3>1. g = [slot EXCEPT !.data = Append(@, body.at)]
      BY <2>1
    <3> HIDE DEF g
    <3>2. /\ g \in Slot /\ g.start = slot.start /\ g.cancelled = slot.cancelled
          /\ Len(g.data) <= Hard
          /\ g.start + Len(g.data) = body.at + 1
          /\ \A i \in 1..Len(g.data) : g.data[i] = g.start + i - 1
      BY <1>1, <2>1, <3>1, Appending
    <3>3. \A r \in Registered : g.start <= req[r].pos
      BY <3>2 DEF IInv, KeepsWhatRequestsNeed
    <3>4. req \in [Requests -> Request] /\ body.at + 1 <= Size
      BY <1>1, <1>2, <2>1 DEF TypeOK
    <3>5. CASE Len(g.data) > Max
      <4> DEFINE v == Trim(g)
      <4>1. /\ v \in Slot
            /\ v.start + Len(v.data) = g.start + Len(g.data)
            /\ Len(v.data) <= Len(g.data)
            /\ \A i \in 1..Len(v.data) : v.data[i] = v.start + i - 1
            /\ \A r \in Registered : v.start <= req[r].pos
            /\ v.cancelled = g.cancelled
        BY <3>2, <3>3, <3>4, Trimmed
      <4>2. slot' = v
        BY <1>1, <2>1, <3>5
      <4> HIDE DEF v
      <4>3. Len(v.data) \in Nat /\ Len(g.data) \in Nat
        BY <4>1, <3>2 DEF Slot
      <4>4. QED BY <1>2, <2>1, <3>2, <4>1, <4>2, <4>3
    <3>6. CASE ~(Len(g.data) > Max)
      <4>1. slot' = g
        BY <1>1, <3>6
      <4>2. QED BY <2>1, <3>2, <3>3, <4>1
    <3>7. QED BY <3>5, <3>6
  <2>2. CASE n = 0
    <3>1. g = slot
      BY <1>1, <2>2 DEF Slot
    <3>2. slot' = slot
      BY <1>1, <2>2, <3>1
    <3>3. QED BY <1>1, <1>2, <2>2, <3>2
              DEF IInv, TypeOK, KeepsWhatRequestsNeed, WindowIsTheFile, EndPos
  <2>3. QED BY <2>1, <2>2
<1> HIDE DEF g
<1>7. EndPos' = body.at + n /\ EndPos' <= Size
  BY <1>1, <1>2, <1>6 DEF EndPos
<1>8. ReadsOn'
  BY <1>4, <1>5, <1>7 DEF ReadsOn, Reading
<1>9. QED BY <1>1, <1>3, <1>4, <1>5, <1>6, <1>7, <1>8, WindowMoves

LEMMA NotifyOK ==
    ASSUME IInv, Notify
    PROVE  IInv'
<1>1. /\ TypeOK /\ ReadsOn /\ slot' = slot /\ body' = body /\ stall' = stall /\ Broadcast
      /\ reader.pc = "notify" /\ reader' = [reader EXCEPT !.pc = "decide"]
      /\ reader \in Reader
  BY DEF IInv, TypeOK, Notify
<1>2. /\ reader' \in Reader /\ reader'.pc = "decide" /\ reader'.resume = reader.resume
      /\ reader'.stalls = reader.stalls
  BY <1>1 DEF Reader, ReaderPc
<1>3. ReadsOn'
  BY <1>1, <1>2 DEF ReadsOn, Reading, EndPos
<1>4. QED BY <1>1, <1>2, <1>3, Broadcasting, ReaderMoves DEF TypeOK

LEMMA GiveUpOrReconnectOK ==
    ASSUME IInv, GiveUpOrReconnect
    PROVE  IInv'
<1> DEFINE stalls == IF reader.got = 0 THEN reader.stalls + 1 ELSE 0
<1>1. /\ TypeOK /\ ReadsOn /\ slot \in Slot /\ reader \in Reader /\ reader.pc = "decide"
      /\ MaxReconnects \in Nat /\ req' = req /\ body' = NoBody
  BY Constants DEF IInv, TypeOK, GiveUpOrReconnect
<1>2. stalls \in 0..(MaxReconnects + 1)
  BY <1>1 DEF ReadsOn, Reader
<1>3. IF stalls > MaxReconnects
      THEN TurnEnds("closing", FALSE, stalls) /\ slot' = [slot EXCEPT !.failed = TRUE]
      ELSE TurnEnds("park", TRUE, stalls) /\ slot' = slot
  BY DEF GiveUpOrReconnect
<1> HIDE DEF stalls
<1>4. body' \in Body
  BY <1>1, Constants DEF NoBody, Body
<1>5. stall' \in [triggered : BOOLEAN, late : {"no", "this", "old"}]
  <2>1. stall' = [triggered |-> FALSE, late |-> IF stall.late = "no" THEN "no" ELSE "old"]
    BY <1>3 DEF TurnEnds
  <2>2. QED BY <2>1
<1>6. /\ slot' \in Slot /\ slot'.start = slot.start /\ slot'.data = slot.data
      /\ slot'.cancelled = slot.cancelled
  BY <1>1, <1>3 DEF Slot
<1>7. /\ reader' \in Reader
      /\ \/ reader'.pc = "closing" /\ ~ reader'.resume
         \/ reader'.pc = "park" /\ reader'.resume /\ reader'.stalls <= MaxReconnects
  <2>1. CASE stalls > MaxReconnects
    <3>1. reader' = [pc |-> "closing", resume |-> FALSE, got |-> 0, end |-> "more",
                     stalls |-> stalls]
      BY <1>3, <2>1 DEF TurnEnds
    <3>2. QED BY <1>2, <3>1 DEF Reader, ReaderPc
  <2>2. CASE ~(stalls > MaxReconnects)
    <3>1. reader' = [pc |-> "park", resume |-> TRUE, got |-> 0, end |-> "more",
                     stalls |-> stalls]
      BY <1>3, <2>2 DEF TurnEnds
    <3>2. reader' \in Reader /\ reader'.pc = "park" /\ reader'.resume
          /\ reader'.stalls = stalls
      BY <1>2, <3>1 DEF Reader, ReaderPc
    <3>3. stalls <= MaxReconnects
      BY <1>1, <1>2, <2>2
    <3>4. QED BY <3>2, <3>3
  <2>3. QED BY <2>1, <2>2
<1>8. ReadsOn'
  BY <1>7 DEF ReadsOn, Reading
<1>9. QED BY <1>1, <1>4, <1>5, <1>6, <1>7, <1>8, ReaderMoves DEF TypeOK

LEMMA GoOnOrEndOK ==
    ASSUME IInv, GoOnOrEnd
    PROVE  IInv'
<1> DEFINE pc == IF reader.end = "more" THEN "park" ELSE "closing"
<1>1. /\ TypeOK /\ ReadsOn /\ slot \in Slot /\ reader \in Reader /\ reader.pc = "decide"
      /\ req' = req /\ body' = body
      /\ slot' = [slot EXCEPT !.failed = reader.end = "error"]
      /\ TurnEnds(pc, FALSE, reader.stalls)
  BY DEF IInv, TypeOK, GoOnOrEnd
<1>2. pc \in {"park", "closing"}
  OBVIOUS
<1> HIDE DEF pc
<1>3. stall' \in [triggered : BOOLEAN, late : {"no", "this", "old"}]
  BY <1>1 DEF TurnEnds
<1>4. /\ slot' \in Slot /\ slot'.start = slot.start /\ slot'.data = slot.data
      /\ slot'.cancelled = slot.cancelled
  BY <1>1 DEF Slot
<1>5. /\ reader' \in Reader /\ reader'.pc = pc /\ ~ reader'.resume
      /\ reader'.stalls = reader.stalls
  BY <1>1, <1>2 DEF TurnEnds, Reader, ReaderPc
<1>6. ReadsOn'
  BY <1>1, <1>2, <1>4, <1>5 DEF ReadsOn, Reading, EndPos
<1>7. QED BY <1>1, <1>3, <1>4, <1>5, <1>6, ReaderMoves DEF TypeOK

LEMMA ReopenOK ==
    ASSUME IInv, NEW served \in Offsets, Reopen(served)
    PROVE  IInv'
<1>1. /\ TypeOK /\ ReadsOn /\ slot \in Slot /\ reader \in Reader /\ reader.pc = "reopen"
      /\ req' = req
  BY DEF IInv, TypeOK, Reopen
<1>2. CASE served = EndPos /\ ~ slot.cancelled
  <2>1. /\ body' = [at |-> served, open |-> TRUE] /\ slot' = slot
        /\ reader' = [reader EXCEPT !.pc = "park", !.resume = FALSE]
        /\ stall' = [stall EXCEPT !.late = "no"]
    BY <1>2 DEF Reopen
  <2>2. body' \in Body /\ body'.at = EndPos
    BY <1>2, <2>1 DEF Body
  <2>3. /\ reader' \in Reader /\ reader'.pc = "park" /\ ~ reader'.resume
        /\ reader'.stalls = reader.stalls
    BY <1>1, <2>1 DEF Reader, ReaderPc
  <2>4. stall' \in [triggered : BOOLEAN, late : {"no", "this", "old"}]
    BY <1>1, <2>1 DEF TypeOK
  <2>5. ReadsOn'
    BY <1>1, <2>1, <2>2, <2>3 DEF ReadsOn, Reading, EndPos
  <2>6. QED BY <1>1, <2>1, <2>2, <2>3, <2>4, <2>5, ReaderMoves DEF TypeOK
<1>3. CASE ~(served = EndPos /\ ~ slot.cancelled)
  <2>1. /\ reader' = [reader EXCEPT !.pc = "closing", !.resume = FALSE]
        /\ slot' = [slot EXCEPT !.failed = TRUE]
        /\ body' = body /\ stall' = stall
    BY <1>3 DEF Reopen
  <2>2. /\ slot' \in Slot /\ slot'.start = slot.start /\ slot'.data = slot.data
        /\ slot'.cancelled = slot.cancelled
    BY <1>1, <2>1 DEF Slot
  <2>3. reader' \in Reader /\ reader'.pc = "closing"
    BY <1>1, <2>1 DEF Reader, ReaderPc
  <2>4. ReadsOn'
    BY <2>3 DEF ReadsOn, Reading
  <2>5. QED BY <1>1, <2>1, <2>2, <2>3, <2>4, ReaderMoves DEF TypeOK
<1>4. QED BY <1>2, <1>3

LEMMA ClosingOK ==
    ASSUME IInv, Closing
    PROVE  IInv'
<1>1. /\ TypeOK /\ slot \in Slot /\ reader \in Reader /\ stall' = stall /\ req' = req
      /\ slot' = [slot EXCEPT !.done = TRUE] /\ body' = NoBody
      /\ reader' = [reader EXCEPT !.pc = "lastNotify"]
  BY DEF IInv, TypeOK, Closing
<1>2. /\ slot' \in Slot /\ slot'.start = slot.start /\ slot'.data = slot.data
      /\ slot'.cancelled = slot.cancelled
  BY <1>1 DEF Slot
<1>3. body' \in Body
  BY <1>1, Constants DEF NoBody, Body
<1>4. reader' \in Reader /\ reader'.pc = "lastNotify"
  BY <1>1 DEF Reader, ReaderPc
<1>5. ReadsOn'
  BY <1>4 DEF ReadsOn, Reading
<1>6. QED BY <1>1, <1>2, <1>3, <1>4, <1>5, ReaderMoves DEF TypeOK

LEMMA LastNotifyOK ==
    ASSUME IInv, LastNotify
    PROVE  IInv'
<1>1. /\ TypeOK /\ reader \in Reader /\ slot' = slot /\ body' = body /\ stall' = stall
      /\ reader' = [reader EXCEPT !.pc = "ended"] /\ Broadcast
  BY DEF IInv, TypeOK, LastNotify
<1>2. reader' \in Reader /\ reader'.pc = "ended"
  BY <1>1 DEF Reader, ReaderPc
<1>3. ReadsOn'
  BY <1>2 DEF ReadsOn, Reading
<1>4. QED BY <1>1, <1>2, <1>3, Broadcasting, ReaderMoves DEF TypeOK

-----------------------------------------------------------------------------
(* serve *)

\* A step that only says where a request goes next.
LEMMA GotoOK ==
    ASSUME IInv, NEW r \in Requests, NEW pc \in RequestPc \ {"idle"},
           req[r].pc # "idle", RequestGoto(r, pc), Keeps
    PROVE  IInv'
<1> DEFINE q == [req[r] EXCEPT !.pc = pc]
<1>1. /\ req \in [Requests -> Request] /\ req[r] \in Request
      /\ req[r].pos + Len(req[r].chunk) <= Size
  BY DEF IInv, TypeOK, InFile
<1>2. /\ q \in Request /\ q.pc = pc /\ q.pos = req[r].pos /\ q.chunk = req[r].chunk
      /\ q.pos \in 0..Size
  BY <1>1 DEF Request
<1>3. req' = [req EXCEPT ![r] = q]
  BY <1>1 DEF RequestGoto
<1> HIDE DEF q
<1>4. q.pos >= req[r].pos
  BY <1>2, Constants
<1>5. QED BY <1>1, <1>2, <1>3, <1>4, RequestMoves

LEMMA EnterOK ==
    ASSUME IInv, NEW r \in Requests, Enter(r)
    PROVE  IInv'
<1> DEFINE pc == CASE req[r].pos < slot.start -> "leave"
                   [] req[r].pos >= slot.start /\ EndPos < req[r].pos + req[r].need
                        -> "waiting"
                   [] OTHER -> "serve"
<1>1. req[r].pc = "enter" /\ RequestGoto(r, pc) /\ Keeps
  BY DEF Enter
<1>2. req[r].pos \in Nat /\ slot.start \in Nat
  BY Constants DEF IInv, TypeOK, Request, Slot
<1>3. pc \in {"leave", "waiting", "serve"}
  BY <1>2
<1> HIDE DEF pc
<1>4. pc \in RequestPc \ {"idle"}
  BY <1>3 DEF RequestPc
<1>5. QED BY <1>1, <1>4, GotoOK

LEMMA LookAgainOK ==
    ASSUME IInv, NEW r \in Requests, LookAgain(r)
    PROVE  IInv'
<1>1. PICK pc \in {"serve", "leave", "waiting"} : RequestGoto(r, pc)
  BY DEF LookAgain
<1>2. pc \in RequestPc \ {"idle"} /\ req[r].pc # "idle" /\ Keeps
  BY DEF RequestPc, LookAgain
<1>3. QED BY <1>1, <1>2, GotoOK

LEMMA WaitTimeoutOK ==
    ASSUME IInv, NEW r \in Requests, WaitTimeout(r)
    PROVE  IInv'
<1>1. PICK pc \in {"serve", "leave"} : RequestGoto(r, pc)
  BY DEF WaitTimeout
<1>2. pc \in RequestPc \ {"idle"} /\ req[r].pc # "idle" /\ Keeps
  BY DEF RequestPc, WaitTimeout
<1>3. QED BY <1>1, <1>2, GotoOK

LEMMA ClientGoneOK ==
    ASSUME IInv, NEW r \in Requests, ClientGone(r)
    PROVE  IInv'
<1>1. /\ RequestGoto(r, "leave") /\ Keeps /\ req[r].pc # "idle"
      /\ "leave" \in RequestPc \ {"idle"}
  BY DEF RequestPc, ClientGone
<1>2. QED BY <1>1, GotoOK

\* What Serve copies: as much of the window as one Write takes and was asked for.
LEMMA Copying ==
    ASSUME IInv, NEW r \in Requests, NEW q, q = req[r], NEW k,
           k = Least({EndPos - q.pos, MaxWrite, q.to - q.pos}),
           slot.start <= q.pos, q.pos < EndPos, q.pos < q.to
    PROVE  /\ k \in Nat /\ q.pos + k <= EndPos /\ q.pos + k <= q.to
           /\ Copied(q.pos, k) \in Seq(Offsets)
           /\ Len(Copied(q.pos, k)) = k
           /\ \A i \in 1..k : Copied(q.pos, k)[i] = q.pos + i - 1
<1>1. /\ q \in Request /\ slot \in Slot /\ Size \in Nat /\ MaxWrite \in Nat
      /\ EndPos <= Size
  BY Constants DEF IInv, TypeOK, InFile
<1>2. /\ q.pos \in 0..Size /\ q.to \in 0..(Size + 1) /\ slot.start \in 0..Size
      /\ slot.data \in Seq(0..Size) /\ Len(slot.data) \in Nat
      /\ EndPos = slot.start + Len(slot.data)
  BY <1>1 DEF Request, Slot, EndPos
<1>3. k \in Nat /\ q.pos + k <= EndPos /\ q.pos + k <= q.to
  <2> DEFINE S == {EndPos - q.pos, MaxWrite, q.to - q.pos}
  <2>1. S \in SUBSET Nat /\ EndPos - q.pos \in S /\ q.to - q.pos \in S
    BY <1>1, <1>2
  <2> HIDE DEF S
  <2>2. Least(S) \in Nat /\ Least(S) <= q.to - q.pos /\ Least(S) <= EndPos - q.pos
    BY <2>1, LeastOf
  <2>3. k = Least(S)
    BY DEF S
  <2>4. QED BY <1>2, <2>2, <2>3
<1>4. PICK m \in Nat : m = q.pos - slot.start
  BY <1>2
<1>5. k \in Nat /\ m + k <= Len(slot.data) /\ slot.start + m = q.pos
  BY <1>2, <1>3, <1>4
<1>6. Copied(q.pos, k) = Part(slot.data, m, k)
  BY <1>4 DEF Copied, Part
<1>7. /\ Copied(q.pos, k) \in Seq(0..Size) /\ Len(Copied(q.pos, k)) = k
      /\ \A i \in 1..k : m + i \in 1..Len(slot.data) /\ Copied(q.pos, k)[i] = slot.data[m + i]
  <2> DEFINE d == slot.data
             p == Part(d, m, k)
  <2>1. d \in Seq(0..Size) /\ m + k <= Len(d)
    BY <1>2, <1>5
  <2> HIDE DEF d
  <2>2. p \in Seq(0..Size)
    BY <1>5, <2>1, PartIs
  <2>3. Len(p) = k
    BY <1>5, <2>1, PartIs
  <2>4. \A i \in 1..k : m + i \in 1..Len(d)
    BY <1>5, <2>1, PartIs
  <2>5. \A i \in 1..k : p[i] = d[m + i]
    BY <1>5, <2>1, PartIs
  <2> HIDE DEF p
  <2>6. Copied(q.pos, k) = p
    BY <1>6 DEF d, p
  <2>7. QED BY <2>2, <2>3, <2>4, <2>5, <2>6 DEF d
<1>8. ASSUME NEW i \in 1..k PROVE Copied(q.pos, k)[i] = q.pos + i - 1
  <2>1. slot.data[m + i] = slot.start + (m + i) - 1
    BY <1>7 DEF IInv, WindowIsTheFile
  <2>2. slot.start + (m + i) - 1 = (slot.start + m) + i - 1
    BY <1>2
  <2>3. QED BY <1>5, <1>7, <2>1, <2>2
<1>9. QED BY <1>3, <1>7, <1>8

\* What the head of the copying loop does: end, wait, or hand a copy to Write.
LEMMA Serving ==
    ASSUME IInv, NEW r \in Requests, Serve(r)
    PROVE  /\ Keeps /\ req[r].pc = "serve" /\ slot.start <= req[r].pos
           /\ \/ req' = [req EXCEPT ![r] = [req[r] EXCEPT !.pc = "leave"]]
              \/ /\ req' = [req EXCEPT ![r] = [req[r] EXCEPT !.pc = "asleep"]]
                 /\ ~ slot.done /\ req[r].pos >= EndPos
              \/ LET k == Least({EndPos - req[r].pos, MaxWrite, req[r].to - req[r].pos}) IN
                 /\ req[r].pos < req[r].to /\ req[r].pos < EndPos
                 /\ req' = [req EXCEPT ![r] = [req[r] EXCEPT !.pc = "write",
                                                             !.chunk = Copied(req[r].pos, k)]]
<1> DEFINE q == req[r]
           k == Least({EndPos - q.pos, MaxWrite, q.to - q.pos})
           Sent == [q EXCEPT !.pc = "write", !.chunk = Copied(q.pos, k)]
           Ended == [q EXCEPT !.pc = "leave"]
           Idle == [q EXCEPT !.pc = IF slot.done THEN "leave" ELSE "asleep"]
           C == CASE q.pos >= q.to \/ q.pos < slot.start -> Ended
                  [] q.pos < q.to /\ q.pos >= EndPos -> Idle
                  [] OTHER -> Sent
<1>1. req' = [req EXCEPT ![r] = C] /\ Keeps /\ q.pc = "serve"
  BY DEF Serve
<1>2. q \in Request /\ slot \in Slot /\ Size \in Nat
  BY Constants DEF IInv, TypeOK
<1>3. q.pos \in Nat /\ q.to \in Nat /\ EndPos \in Nat /\ slot.start \in Nat
  BY <1>2 DEF Request, Slot, EndPos
<1>4. slot.start <= q.pos
  BY <1>1 DEF IInv, KeepsWhatRequestsNeed, Registered
<1>5. \/ C = [q EXCEPT !.pc = "leave"]
      \/ C = [q EXCEPT !.pc = "asleep"] /\ ~ slot.done /\ q.pos >= EndPos
      \/ q.pos < q.to /\ q.pos < EndPos /\ C = Sent
  <2> HIDE DEF Ended, Sent
  <2>1. C = Ended \/ (q.pos >= EndPos /\ C = Idle) \/ (q.pos < q.to /\ q.pos < EndPos /\ C = Sent)
    BY <1>3
  <2> HIDE DEF C
  <2>2. QED BY <2>1 DEF Ended
<1> HIDE DEF C
<1>6. QED BY <1>1, <1>4, <1>5

LEMMA ServeOK ==
    ASSUME IInv, NEW r \in Requests, Serve(r)
    PROVE  IInv'
<1> DEFINE q == req[r]
           k == Least({EndPos - q.pos, MaxWrite, q.to - q.pos})
           Sent == [q EXCEPT !.pc = "write", !.chunk = Copied(q.pos, k)]
<1>1. /\ req \in [Requests -> Request] /\ q \in Request
      /\ q.pos + Len(q.chunk) <= Size /\ EndPos <= Size /\ Size \in Nat
      /\ q.pos \in 0..Size
  BY Constants DEF IInv, TypeOK, InFile, Request
<1>2. Keeps /\ q.pc = "serve" /\ slot.start <= q.pos
  BY Serving
<1>3. ASSUME NEW pc \in {"leave", "asleep"}, req' = [req EXCEPT ![r] = [q EXCEPT !.pc = pc]]
      PROVE  IInv'
  <2>1. RequestGoto(r, pc) /\ pc \in RequestPc \ {"idle"}
    BY <1>1, <1>3 DEF RequestGoto, RequestPc
  <2>2. QED BY <1>2, <2>1, GotoOK
<1>4. CASE q.pos < q.to /\ q.pos < EndPos /\ req' = [req EXCEPT ![r] = Sent]
  <2>1. /\ k \in Nat /\ q.pos + k <= EndPos
        /\ Copied(q.pos, k) \in Seq(Offsets)
        /\ Len(Copied(q.pos, k)) = k
    BY <1>2, <1>4, Copying
  <2> HIDE DEF k
  <2>2. EndPos \in Nat
    BY Constants DEF IInv, TypeOK, EndPos, Slot
  <2>3. Sent \in Request /\ Sent.pc # "idle" /\ Sent.pos = q.pos /\ Len(Sent.chunk) = k
    BY <1>1, <2>1 DEF Request, RequestPc
  <2> HIDE DEF Sent
  <2>4. Sent.pos >= req[r].pos /\ Sent.pos + Len(Sent.chunk) <= Size
    BY <1>1, <2>1, <2>2, <2>3
  <2>5. QED BY <1>2, <1>4, <2>3, <2>4, RequestMoves
<1>5. QED BY <1>3, <1>4, Serving

LEMMA WriteReturnsOK ==
    ASSUME IInv, NEW r \in Requests, WriteReturns(r)
    PROVE  IInv'
<1> DEFINE q == req[r]
           n == Len(q.chunk)
           Moved == [q EXCEPT !.pc = "serve", !.pos = @ + n, !.sent = @ \o q.chunk,
                              !.chunk = <<>>]
           Gone == [q EXCEPT !.pc = "leave", !.chunk = <<>>]
<1>1. /\ req \in [Requests -> Request] /\ q \in Request
      /\ q.pos + n <= Size /\ Size \in Nat
  BY Constants DEF IInv, TypeOK, InFile
<1>2. /\ q.pos \in 0..Size /\ n \in Nat /\ q.sent \o q.chunk \in Seq(0..Size)
      /\ <<>> \in Seq(0..Size)
  BY <1>1 DEF Request
<1>3. /\ Keeps /\ q.pc # "idle"
      /\ req' = [req EXCEPT ![r] = Moved] \/ req' = [req EXCEPT ![r] = Gone]
  BY DEF WriteReturns
<1>4. q.pos + n \in 0..Size
  BY <1>1, <1>2
<1> HIDE DEF q, n
<1>5. Moved \in Request /\ Moved.pc # "idle" /\ Moved.pos = q.pos + n /\ Moved.chunk = <<>>
  BY <1>1, <1>2, <1>4 DEF Request, RequestPc
<1>6. Gone \in Request /\ Gone.pc # "idle" /\ Gone.pos = q.pos /\ Gone.chunk = <<>>
  BY <1>1, <1>2 DEF Request, RequestPc
<1> USE DEF q
<1> HIDE DEF Moved, Gone
<1>7. CASE req' = [req EXCEPT ![r] = Moved]
  <2>1. Moved.pos >= req[r].pos /\ Moved.pos + Len(Moved.chunk) <= Size
    BY <1>1, <1>2, <1>4, <1>5
  <2>2. QED BY <1>3, <1>5, <1>7, <2>1, RequestMoves
<1>8. CASE req' = [req EXCEPT ![r] = Gone]
  <2>1. Gone.pos >= req[r].pos /\ Gone.pos + Len(Gone.chunk) <= Size
    BY <1>1, <1>2, <1>6
  <2>2. QED BY <1>3, <1>6, <1>8, <2>1, RequestMoves
<1>9. QED BY <1>3, <1>7, <1>8

LEMMA LeaveOK ==
    ASSUME IInv, NEW r \in Requests, Leave(r)
    PROVE  IInv'
<1>1. /\ req \in [Requests -> Request] /\ req' = [req EXCEPT ![r] = NoRequest]
      /\ NotifyReaderChanged /\ slot' = slot /\ body' = body /\ stall' = stall
  BY DEF IInv, TypeOK, Leave
<1>2. NoRequest \in Request /\ NoRequest.pc = "idle" /\ NoRequest.pos = 0 /\ NoRequest.chunk = <<>>
  BY Constants DEF NoRequest, Request, RequestPc
<1>3. /\ req' \in [Requests -> Request] /\ req'[r] = NoRequest
      /\ \A p \in Requests : p # r => req'[p] = req[p]
  BY <1>1, <1>2
<1>4. reader' \in Reader /\ ReadsOn'
  BY <1>1, Notifying DEF IInv
<1>5. TypeOK'
  BY <1>1, <1>3, <1>4 DEF IInv, TypeOK
<1>6. Registered' = Registered \ {r}
  BY <1>2, <1>3 DEF Registered
<1>7. InFile'
  BY <1>1, <1>2, <1>3, Constants DEF IInv, InFile, EndPos
<1>8. EvictedIsEmpty' /\ WindowIsTheFile'
  BY <1>1, <1>6 DEF IInv, EvictedIsEmpty, WindowIsTheFile
<1>9. KeepsWhatRequestsNeed'
  BY <1>1, <1>3, <1>6 DEF IInv, KeepsWhatRequestsNeed, Registered
<1>10. QED BY <1>4, <1>5, <1>7, <1>8, <1>9 DEF IInv

-----------------------------------------------------------------------------
(* The first invariant *)

LEMMA StutterOK == IInv /\ UNCHANGED vars => IInv'
<1> SUFFICES ASSUME IInv, UNCHANGED vars PROVE IInv'
  OBVIOUS
<1>1. slot' = slot /\ reader' = reader /\ body' = body /\ stall' = stall /\ req' = req
  BY DEF vars
<1>2. TypeOK' /\ ReadsOn'
  BY <1>1 DEF IInv, TypeOK, ReadsOn, Reading, EndPos
<1>3. InFile' /\ EvictedIsEmpty' /\ KeepsWhatRequestsNeed' /\ WindowIsTheFile'
  BY <1>1 DEF IInv, InFile, EvictedIsEmpty, KeepsWhatRequestsNeed, WindowIsTheFile,
              EndPos, Registered
<1>4. QED BY <1>2, <1>3 DEF IInv

LEMMA StepOK == IInv /\ [Next]_vars => IInv'
<1> SUFFICES ASSUME IInv, [Next]_vars PROVE IInv'
  OBVIOUS
<1>1. CASE ReaderStep
  BY <1>1, ParkOK, ParkedOutOK, CheckOK, StallOK, ReadReturnsOK, NotifyOK,
     GiveUpOrReconnectOK, GoOnOrEndOK, ReopenOK, ClosingOK, LastNotifyOK DEF ReaderStep
<1>2. CASE LateStall
  BY <1>2, StallOK
<1>3. CASE Evict
  BY <1>3, EvictOK
<1>4. ASSUME NEW r \in Requests, RequestStep(r) \/ ClientGone(r) \/ WriteReturns(r)
      PROVE  IInv'
  BY <1>4, EnterOK, LookAgainOK, WaitTimeoutOK, ServeOK, LeaveOK, ClientGoneOK,
     WriteReturnsOK DEF RequestStep
<1>5. ASSUME NEW r \in Requests, NEW range \in Ranges, NEW known \in BOOLEAN,
             \/ Acquire(r, range, known)
             \/ \E served \in Offsets : Open(r, range, served, known)
      PROVE  IInv'
  BY <1>5, AcquireOK, OpenOK
<1>6. CASE UNCHANGED vars
  BY <1>6, StutterOK
<1>7. QED BY <1>1, <1>2, <1>3, <1>4, <1>5, <1>6 DEF Next

LEMMA InvariantOK == Spec => []IInv
<1>1. Init => IInv
  BY StartOK
<1>2. IInv /\ [Next]_vars => IInv'
  BY StepOK
<1>3. QED BY <1>1, <1>2, PTL DEF Spec

-----------------------------------------------------------------------------
(* What clients are sent *)

\* A step that a client sees nothing of.
Unseen(r) ==
    /\ req'[r].pos = req[r].pos /\ req'[r].to = req[r].to
    /\ req'[r].chunk = req[r].chunk /\ req'[r].sent = req[r].sent
    /\ req'[r].pc = "idle" <=> req[r].pc = "idle"
    /\ req'[r].pc = "write" <=> req[r].pc = "write"

Begins(r) ==
    /\ req[r].pc = "idle" /\ req'[r].pc = "enter"
    /\ \E range \in Ranges : req'[r].pos = range[1] /\ req'[r].to = range[2]
    /\ req'[r].chunk = <<>> /\ req'[r].sent = <<>>

Copies(r) ==
    /\ req[r].pc = "serve" /\ req'[r].pc = "write"
    /\ req'[r].pos = req[r].pos /\ req'[r].to = req[r].to /\ req'[r].sent = req[r].sent
    /\ req[r].pos + Len(req'[r].chunk) <= req[r].to
    /\ \A i \in 1..Len(req'[r].chunk) : req'[r].chunk[i] = req[r].pos + i - 1

Takes(r) ==
    /\ req[r].pc = "write" /\ req'[r].pc = "serve"
    /\ req'[r].pos = req[r].pos + Len(req[r].chunk) /\ req'[r].to = req[r].to
    /\ req'[r].sent = req[r].sent \o req[r].chunk /\ req'[r].chunk = <<>>

Drops(r) ==
    /\ req[r].pc = "write" /\ req'[r].pc = "leave"
    /\ req'[r].pos = req[r].pos /\ req'[r].to = req[r].to
    /\ req'[r].sent = req[r].sent /\ req'[r].chunk = <<>>

Ends(r) == req[r].pc = "leave" /\ req'[r].pc = "idle"

ClientStep(r) ==
    /\ \A p \in Requests \ {r} : req'[p] = req[p]
    /\ Unseen(r) \/ Begins(r) \/ Copies(r) \/ Takes(r) \/ Drops(r) \/ Ends(r)

\* One request is replaced by another.
LEMMA Replaced ==
    ASSUME TypeOK, NEW r \in Requests, NEW q, req' = [req EXCEPT ![r] = q]
    PROVE  req'[r] = q /\ \A p \in Requests \ {r} : req'[p] = req[p]
BY DEF TypeOK

LEMMA GotoIsUnseen ==
    ASSUME IInv, NEW r \in Requests, NEW pc \in RequestPc \ {"idle", "write"},
           req[r].pc \notin {"idle", "write"}, RequestGoto(r, pc)
    PROVE  ClientStep(r) /\ req'[r].pc = pc /\ req'[r].pos = req[r].pos
<1> DEFINE q == [req[r] EXCEPT !.pc = pc]
<1>1. req[r] \in Request /\ req' = [req EXCEPT ![r] = q] /\ TypeOK
  BY DEF IInv, TypeOK, RequestGoto
<1>2. /\ q.pc = pc /\ q.pos = req[r].pos /\ q.to = req[r].to
      /\ q.chunk = req[r].chunk /\ q.sent = req[r].sent
  BY <1>1 DEF Request
<1> HIDE DEF q
<1>3. QED BY <1>1, <1>2, Replaced DEF ClientStep, Unseen

\* Where the steps of serve that only look lead a request.
LEMMA Looking ==
    ASSUME IInv, NEW r \in Requests,
           Enter(r) \/ LookAgain(r) \/ WaitTimeout(r) \/ ClientGone(r)
    PROVE  Keeps /\ ClientStep(r) /\ req[r].pc # "idle"
           /\ req'[r].pc \in {"leave", "waiting", "serve"}
<1>1. Keeps /\ req[r].pc \in {"enter", "waiting", "woken", "asleep"}
  BY DEF Enter, LookAgain, WaitTimeout, ClientGone
<1>2. req[r].pos \in Nat /\ slot.start \in Nat /\ EndPos \in Nat /\ req[r].need \in Nat
  BY Constants DEF IInv, TypeOK, Request, Slot, EndPos
<1>3. PICK pc \in {"leave", "waiting", "serve"} : RequestGoto(r, pc)
  <2>1. CASE Enter(r)
    <3> DEFINE pc == CASE req[r].pos < slot.start -> "leave"
                       [] req[r].pos >= slot.start /\ EndPos < req[r].pos + req[r].need
                            -> "waiting"
                       [] OTHER -> "serve"
    <3>1. RequestGoto(r, pc)
      BY <2>1 DEF Enter
    <3>2. pc \in {"leave", "waiting", "serve"}
      BY <1>2
    <3> HIDE DEF pc
    <3>3. QED BY <3>1, <3>2
  <2>2. CASE LookAgain(r)
    BY <2>2 DEF LookAgain
  <2>3. CASE WaitTimeout(r)
    BY <2>3 DEF WaitTimeout
  <2>4. CASE ClientGone(r)
    BY <2>4 DEF ClientGone
  <2>5. QED BY <2>1, <2>2, <2>3, <2>4
<1>4. pc \in RequestPc \ {"idle", "write"} /\ req[r].pc \notin {"idle", "write"}
  BY <1>1 DEF RequestPc
<1>5. ClientStep(r) /\ req'[r].pc = pc
  BY <1>3, <1>4, GotoIsUnseen
<1>6. QED BY <1>1, <1>3, <1>5

\* Every step is one of these for one request, or for none.
LEMMA ClientSteps ==
    ASSUME IInv, [Next]_vars
    PROVE  (\A r \in Requests : Unseen(r)) \/ (\E r \in Requests : ClientStep(r))
<1>1. TypeOK /\ req \in [Requests -> Request] /\ \A r \in Requests : req[r] \in Request
  BY DEF IInv, TypeOK
<1>2. CASE req' = req
  BY <1>2 DEF Unseen
<1>3. CASE Broadcast
  <2>1. ASSUME NEW r \in Requests PROVE Unseen(r)
    <3>1. req'[r] = Woken(req[r])
      BY <1>3 DEF Broadcast
    <3>2. CASE req[r].pc = "waiting"
      BY <1>1, <3>1, <3>2 DEF Woken, Unseen, Request
    <3>3. CASE req[r].pc = "asleep"
      BY <1>1, <3>1, <3>3 DEF Woken, Unseen, Request
    <3>4. CASE req[r].pc \notin {"waiting", "asleep"}
      BY <1>1, <3>1, <3>4 DEF Woken, Unseen
    <3>5. QED BY <3>2, <3>3, <3>4
  <2>2. QED BY <2>1
<1>4. CASE ReaderStep \/ LateStall \/ Evict \/ UNCHANGED vars
  <2>1. req' = req \/ Broadcast
    BY <1>4 DEF ReaderStep, LateStall, Evict, vars, Park, ParkedOut, Check, StallFires,
                ReadReturns, Notify, GiveUpOrReconnect, GoOnOrEnd, Reopen, Closing, LastNotify
  <2>2. QED BY <1>2, <1>3, <2>1
<1>5. ASSUME NEW r \in Requests, Enter(r) \/ LookAgain(r) \/ WaitTimeout(r) \/ ClientGone(r)
      PROVE  ClientStep(r)
  BY <1>5, Looking
<1>6. ASSUME NEW r \in Requests, Serve(r) PROVE ClientStep(r)
  <2>1. slot.start <= req[r].pos /\ req[r].pc = "serve"
    BY <1>6, Serving
  <2>2. ASSUME NEW pc \in {"leave", "asleep"}, req' = [req EXCEPT ![r] = [req[r] EXCEPT !.pc = pc]]
        PROVE  ClientStep(r)
    <3>1. RequestGoto(r, pc) /\ pc \in RequestPc \ {"idle", "write"}
      BY <1>1, <2>2 DEF RequestGoto, RequestPc
    <3>2. QED BY <2>1, <3>1, GotoIsUnseen
  <2>3. ASSUME NEW k, k = Least({EndPos - req[r].pos, MaxWrite, req[r].to - req[r].pos}),
               req[r].pos < req[r].to, req[r].pos < EndPos,
               req' = [req EXCEPT ![r] = [req[r] EXCEPT !.pc = "write",
                                                        !.chunk = Copied(req[r].pos, k)]]
        PROVE  ClientStep(r)
    <3> DEFINE c == Copied(req[r].pos, k)
               q == [req[r] EXCEPT !.pc = "write", !.chunk = c]
    <3>1. /\ req[r].pos + k <= req[r].to /\ Len(c) = k
          /\ \A i \in 1..k : c[i] = req[r].pos + i - 1
      BY <2>1, <2>3, Copying
    <3> HIDE DEF c
    <3>2. /\ q.pc = "write" /\ q.pos = req[r].pos /\ q.to = req[r].to
          /\ q.chunk = c /\ q.sent = req[r].sent
      BY <1>1 DEF Request
    <3>3. req' = [req EXCEPT ![r] = q]
      BY <2>3 DEF c
    <3> HIDE DEF q
    <3>4. req'[r] = q /\ \A p \in Requests \ {r} : req'[p] = req[p]
      BY <1>1, <3>3, Replaced
    <3>5. QED BY <2>1, <3>1, <3>2, <3>4 DEF ClientStep, Copies
  <2>4. QED BY <1>6, <2>2, <2>3, Serving
<1>7. ASSUME NEW r \in Requests, WriteReturns(r) PROVE ClientStep(r)
  <2> DEFINE q == req[r]
             Moved == [q EXCEPT !.pc = "serve", !.pos = @ + Len(q.chunk),
                                !.sent = @ \o q.chunk, !.chunk = <<>>]
             Gone == [q EXCEPT !.pc = "leave", !.chunk = <<>>]
  <2>1. q.pc = "write" /\ (req' = [req EXCEPT ![r] = Moved] \/ req' = [req EXCEPT ![r] = Gone])
    BY <1>7 DEF WriteReturns
  <2>2. /\ Moved.pc = "serve" /\ Moved.pos = q.pos + Len(q.chunk) /\ Moved.to = q.to
        /\ Moved.sent = q.sent \o q.chunk /\ Moved.chunk = <<>>
    BY <1>1 DEF Request
  <2>3. Gone.pc = "leave" /\ Gone.pos = q.pos /\ Gone.to = q.to /\ Gone.sent = q.sent
        /\ Gone.chunk = <<>>
    BY <1>1 DEF Request
  <2> HIDE DEF Moved, Gone
  <2>4. CASE req' = [req EXCEPT ![r] = Moved]
    <3>1. req'[r] = Moved /\ \A p \in Requests \ {r} : req'[p] = req[p]
      BY <1>1, <2>4, Replaced
    <3>2. QED BY <2>1, <2>2, <3>1 DEF ClientStep, Takes
  <2>5. CASE req' = [req EXCEPT ![r] = Gone]
    <3>1. req'[r] = Gone /\ \A p \in Requests \ {r} : req'[p] = req[p]
      BY <1>1, <2>5, Replaced
    <3>2. QED BY <2>1, <2>3, <3>1 DEF ClientStep, Drops
  <2>6. QED BY <2>1, <2>4, <2>5
<1>8. ASSUME NEW r \in Requests, Leave(r) PROVE ClientStep(r)
  <2>1. req[r].pc = "leave" /\ req' = [req EXCEPT ![r] = NoRequest] /\ NoRequest.pc = "idle"
    BY <1>8 DEF Leave, NoRequest
  <2>2. req'[r] = NoRequest /\ \A p \in Requests \ {r} : req'[p] = req[p]
    BY <1>1, <2>1, Replaced
  <2>3. QED BY <2>1, <2>2 DEF ClientStep, Ends
<1>9. ASSUME NEW r \in Requests, NEW range \in Ranges, NEW known \in BOOLEAN,
             \/ Acquire(r, range, known)
             \/ \E served \in Offsets : Open(r, range, served, known)
      PROVE  ClientStep(r)
  <2> DEFINE q == Entering(range, known)
  <2>1. req' = [req EXCEPT ![r] = q]
    BY <1>9 DEF Acquire, Open
  <2>2. req[r].pc = "idle"
    BY <1>9 DEF Acquire, Open, IInv, EvictedIsEmpty, Registered
  <2>3. /\ q.pc = "enter" /\ q.pos = range[1] /\ q.to = range[2]
        /\ q.chunk = <<>> /\ q.sent = <<>>
    BY EnteringIs
  <2> HIDE DEF q
  <2>4. req'[r] = q /\ \A p \in Requests \ {r} : req'[p] = req[p]
    BY <1>1, <2>1, Replaced
  <2>5. QED BY <2>2, <2>3, <2>4 DEF ClientStep, Begins
<1>10. QED BY <1>4, <1>5, <1>6, <1>7, <1>8, <1>9 DEF Next, RequestStep

\* What is in a Write is what comes next of the file, and was asked for.
AnswerOK(r) ==
    req[r].pc # "idle" =>
      /\ req[r].pos + Len(req[r].chunk) <= req[r].to
      /\ Len(req[r].sent) <= req[r].pos
      /\ req[r].to > 0
      /\ req[r].pc # "write" => req[r].chunk = <<>>
      /\ \A i \in 1..Len(req[r].chunk) : req[r].chunk[i] = req[r].pos + i - 1

Answers == \A r \in Requests : AnswerOK(r)

LEMMA AnswersStart == Init => Answers
BY DEF Init, NoRequest, Answers, AnswerOK

LEMMA AnswersOK == IInv /\ Answers /\ [Next]_vars => Answers'
<1> SUFFICES ASSUME IInv, Answers, [Next]_vars, NEW r \in Requests PROVE AnswerOK(r)'
  BY DEF Answers
<1>1. /\ req[r] \in Request /\ AnswerOK(r) /\ Size \in Nat
      /\ \A range \in Ranges : range[1] \in Nat /\ range[2] \in Nat /\ range[1] < range[2]
  BY Constants DEF IInv, TypeOK, Answers
<1>2. /\ req[r].pos \in Nat /\ req[r].to \in Nat /\ Len(req[r].chunk) \in Nat
      /\ Len(req[r].sent) \in Nat
      /\ req[r].chunk \in Seq(Offsets) /\ req[r].sent \in Seq(Offsets)
  BY <1>1 DEF Request
<1>3. CASE Unseen(r)
  BY <1>1, <1>3 DEF Unseen, AnswerOK
<1>4. CASE req'[r] = req[r]
  BY <1>1, <1>4 DEF AnswerOK
<1>5. CASE Begins(r)
  BY <1>1, <1>5 DEF Begins, AnswerOK
<1>6. CASE Copies(r)
  BY <1>1, <1>2, <1>6 DEF Copies, AnswerOK
<1>7. CASE Takes(r)
  <2>1. Len(req[r].sent \o req[r].chunk) = Len(req[r].sent) + Len(req[r].chunk)
    BY <1>2
  <2>2. /\ req[r].pos + Len(req[r].chunk) <= req[r].to /\ Len(req[r].sent) <= req[r].pos
        /\ req[r].to > 0
    BY <1>1, <1>7 DEF Takes, AnswerOK
  <2>3. /\ req'[r].to = req[r].to /\ req'[r].chunk = <<>> /\ req'[r].pc = "serve"
        /\ req'[r].pos = req[r].pos + Len(req[r].chunk)
        /\ Len(req'[r].sent) = Len(req[r].sent) + Len(req[r].chunk)
    BY <1>7, <2>1 DEF Takes
  <2>4. Len(req'[r].chunk) = 0
    BY <2>3
  <2>5. /\ req'[r].pos + Len(req'[r].chunk) <= req'[r].to
        /\ Len(req'[r].sent) <= req'[r].pos
        /\ req'[r].to > 0
    <3> DEFINE pos == req[r].pos
               len == Len(req[r].chunk)
               to == req[r].to
               was == Len(req[r].sent)
    <3>1. /\ pos \in Nat /\ len \in Nat /\ to \in Nat /\ was \in Nat
          /\ pos + len <= to /\ was <= pos /\ to > 0
      BY <1>2, <2>2
    <3>2. /\ req'[r].pos = pos + len /\ req'[r].to = to /\ Len(req'[r].sent) = was + len
          /\ Len(req'[r].chunk) = 0
      BY <2>3, <2>4
    <3> HIDE DEF pos, len, to, was
    <3>3. pos + len + 0 <= to /\ was + len <= pos + len
      BY <3>1
    <3>4. QED BY <3>1, <3>2, <3>3
  <2>6. \A i \in 1..Len(req'[r].chunk) : req'[r].chunk[i] = req'[r].pos + i - 1
    BY <2>4
  <2>7. QED BY <2>3, <2>5, <2>6 DEF AnswerOK
<1>8. CASE Drops(r)
  BY <1>1, <1>2, <1>8 DEF Drops, AnswerOK
<1>9. CASE Ends(r)
  BY <1>9 DEF Ends, AnswerOK
<1>10. QED BY <1>3, <1>4, <1>5, <1>6, <1>7, <1>8, <1>9, ClientSteps DEF ClientStep

LEMMA AnswersInvariant == Spec => []Answers
<1>1. Init => Answers
  BY AnswersStart
<1>2. IInv /\ Answers /\ [Next]_vars => Answers'
  BY AnswersOK
<1>3. QED BY <1>1, <1>2, InvariantOK, PTL DEF Spec

\* Each step is a step of RangeAnswers, or none.
LEMMA RangeSteps == IInv /\ Answers /\ [Next]_vars => [Client!Next]_([r \in Requests |-> Answer(r)])
<1> DEFINE answer == [r \in Requests |-> Answer(r)]
<1> SUFFICES ASSUME IInv, Answers, [Next]_vars PROVE Client!Next \/ answer' = answer
  OBVIOUS
<1>1. \A r \in Requests : (Unseen(r) \/ req'[r] = req[r]) => Answer(r)' = Answer(r)
  BY DEF Unseen, Answer
<1>2. CASE \A r \in Requests : Unseen(r)
  BY <1>1, <1>2
<1>3. ASSUME NEW r \in Requests, ClientStep(r) PROVE Client!Next \/ answer' = answer
  <2>1. /\ req[r] \in Request /\ AnswerOK(r) /\ Size \in Nat
        /\ \A range \in Ranges : range[1] \in Nat
        /\ req[r].pos + Len(req[r].chunk) <= Size
    BY Constants DEF IInv, TypeOK, InFile, Answers
  <2>2. /\ req[r].pos \in Nat /\ req[r].to \in Nat /\ Len(req[r].chunk) \in Nat
        /\ Len(req[r].sent) \in Nat
        /\ req[r].chunk \in Seq(Offsets) /\ req[r].sent \in Seq(Offsets)
    BY <2>1 DEF Request
  <2>3. \A p \in Requests \ {r} : Answer(p)' = Answer(p)
    BY <1>1, <1>3 DEF ClientStep
  <2>4. ASSUME NEW a, Answer(r)' = a PROVE answer' = [answer EXCEPT ![r] = a]
    BY <2>3, <2>4
  <2>5. CASE Answer(r)' = Answer(r)
    BY <2>3, <2>5
  <2>6. CASE Begins(r)
    <3>1. PICK range \in Ranges : req'[r].pos = range[1] /\ req'[r].to = range[2]
      BY <2>6 DEF Begins
    <3>2. Answer(r) = Client!None
      BY <2>6 DEF Begins, Answer, Client!None
    <3>3. Answer(r)' = [from |-> range[1], to |-> range[2], sent |-> <<>>]
      BY <2>1, <2>6, <3>1 DEF Begins, Answer
    <3>4. Client!Begin(r, range)
      BY <2>4, <3>2, <3>3 DEF Client!Begin
    <3>5. QED BY <3>4 DEF Client!Next
  <2>7. CASE Copies(r) \/ Drops(r)
    <3>1. Answer(r)' = Answer(r)
      BY <2>7 DEF Copies, Drops, Answer
    <3>2. QED BY <2>5, <3>1
  <2>8. CASE Takes(r)
    <3> DEFINE n == Len(req[r].chunk)
               sent == req[r].sent
               from == req[r].pos - Len(sent)
    <3>1. req[r].pc # "idle" /\ req'[r].pc # "idle"
      BY <2>8 DEF Takes
    <3>2. /\ req[r].pos + n <= req[r].to /\ Len(sent) <= req[r].pos
          /\ \A i \in 1..n : req[r].chunk[i] = req[r].pos + i - 1
      BY <2>1, <3>1 DEF AnswerOK
    <3>3. req[r].chunk = Client!FileFrom(req[r].pos, n)
      <4>1. req[r].chunk = [i \in 1..n |-> req[r].chunk[i]]
        BY <2>2
      <4>2. QED BY <3>2, <4>1 DEF Client!FileFrom
    <3>4. Answer(r) = [from |-> from, to |-> req[r].to, sent |-> sent]
      BY <3>1 DEF Answer
    <3>5. from + Len(sent) = req[r].pos
      BY <2>2, <3>2
    <3>6. Answer(r)' = [from |-> from, to |-> req[r].to, sent |-> sent \o req[r].chunk]
      <4>1. Len(sent \o req[r].chunk) = Len(sent) + n
        BY <2>2
      <4>2. \A x, y, z \in Nat : (x + y) - (z + y) = x - z
        OBVIOUS
      <4>3. (req[r].pos + n) - (Len(sent) + n) = from
        BY <2>2, <4>2
      <4>4. QED BY <2>8, <3>1, <4>1, <4>3 DEF Takes, Answer
    <3>7. CASE n = 0
      <4>1. sent \o req[r].chunk = sent
        <5>1. req[r].chunk = <<>>
          BY <2>2, <3>7
        <5>2. QED BY <2>2, <5>1, ConcatEmptySeq
      <4>2. QED BY <2>5, <3>4, <3>6, <4>1
    <3>8. CASE n # 0
      <4>1. n \in 1..Size
        BY <2>1, <2>2, <3>8
      <4>2. answer[r] = [from |-> from, to |-> req[r].to, sent |-> sent]
        BY <3>4
      <4> DEFINE b == [from |-> from, to |-> req[r].to,
                       sent |-> sent \o Client!FileFrom(req[r].pos, n)]
      <4>3. answer' = [answer EXCEPT ![r] = b]
        BY <2>4, <3>3, <3>6
      <4>4. b = [answer[r] EXCEPT !.sent = @ \o Client!FileFrom(req[r].pos, n)]
        <5> DEFINE more == sent \o Client!FileFrom(req[r].pos, n)
                   a == answer[r]
        <5>1. a = [from |-> from, to |-> req[r].to, sent |-> sent]
          BY <4>2
        <5> HIDE DEF more, a, from
        <5>2. [from |-> from, to |-> req[r].to, sent |-> more] = [a EXCEPT !.sent = more]
          BY <5>1
        <5>3. a.sent = sent
          BY <5>1
        <5>4. QED BY <5>2, <5>3 DEF more, a, from
      <4>5. Client!Send(r, n)
        <5>1. answer[r].from + Len(answer[r].sent) = req[r].pos /\ answer[r].to = req[r].to
          BY <3>5, <4>2
        <5> HIDE DEF answer, b, from, sent, n
        <5>2. answer' = [answer EXCEPT ![r].sent = @ \o Client!FileFrom(req[r].pos, n)]
          BY <4>3, <4>4
        <5>3. QED BY <2>1, <3>2, <5>1, <5>2 DEF Client!Send, answer, n
      <4>6. QED BY <4>1, <4>5 DEF Client!Next
    <3>9. QED BY <3>7, <3>8
  <2>9. CASE Ends(r)
    <3>1. Answer(r)' = Client!None
      BY <2>9 DEF Ends, Answer, Client!None
    <3>2. Answer(r).to > 0 /\ Client!None.to = 0
      BY <2>1, <2>9 DEF Ends, Answer, AnswerOK, Client!None
    <3>3. Client!End(r)
      BY <2>4, <3>1, <3>2 DEF Client!End
    <3>4. QED BY <3>3 DEF Client!Next
  <2>10. CASE Unseen(r)
    BY <1>1, <2>5, <2>10
  <2>11. QED BY <1>3, <2>6, <2>7, <2>8, <2>9, <2>10 DEF ClientStep
<1>4. QED BY <1>2, <1>3, ClientSteps

-----------------------------------------------------------------------------
(* Wake-ups *)

\* What the wake-ups of serve rest on. A request asleep has caught up with the window,
\* or the broadcast for what it has not seen is the next thing the reader does.
Wakes ==
    /\ reader.pc = "none" => slot.cancelled
    /\ slot.done <=> reader.pc \in {"lastNotify", "ended"}
    /\ reader.pc = "parked" => Registered = {}
    /\ \A r \in Requests : req[r].pc = "asleep" =>
         /\ reader.pc # "ended"
         /\ reader.pc \in {"notify", "lastNotify"} \/ req[r].pos >= EndPos

\* Two steps move the end of the window: a Read that yields, and the opening of a slot.
LEMMA EndMoves ==
    ASSUME IInv, IInv', [Next]_vars
    PROVE  \/ EndPos' = EndPos
           \/ \E end \in {"more", "eof", "error"} : ReadReturns(1, end)
           \/ \E r \in Requests, range \in Ranges, known \in BOOLEAN, served \in Offsets :
                Open(r, range, served, known)
<1>1. slot \in Slot /\ reader \in Reader /\ body \in Body /\ ReadsOn /\ ReadsOn'
  BY DEF IInv, TypeOK
<1>2. CASE slot'.start = slot.start /\ slot'.data = slot.data
  BY <1>2 DEF EndPos
<1>3. CASE Check
  <2>1. Reading /\ ~ reader.resume /\ body' = body
    BY <1>1, <1>3 DEF Check, Reading, ReadsOn
  <2>2. reader'.pc \in {"park", "read"} /\ ~ reader'.resume
    BY <1>1, <1>3, <2>1 DEF Check, Reader
  <2>3. Reading'
    BY <2>2 DEF Reading
  <2>4. QED BY <1>1, <2>1, <2>3 DEF ReadsOn
<1>4. ASSUME NEW end \in {"more", "eof", "error"}, ReadReturns(0, end) PROVE EndPos' = EndPos
  <2> DEFINE grown == [slot EXCEPT !.data = IF 0 = 1 THEN Append(@, body.at) ELSE @]
  <2>1. grown = slot
    BY <1>1 DEF Slot
  <2>2. slot' = IF 0 = 1 /\ Len(grown.data) > Max THEN Trim(grown) ELSE grown
    BY <1>4 DEF ReadReturns
  <2> HIDE DEF grown
  <2>3. slot' = slot
    BY <2>1, <2>2
  <2>4. QED BY <2>3 DEF EndPos
<1>5. CASE ReaderStep
  <2>1. \/ Check
        \/ \E end \in {"more", "eof", "error"} : ReadReturns(0, end) \/ ReadReturns(1, end)
        \/ Park \/ ParkedOut \/ StallFires \/ Notify \/ GiveUpOrReconnect \/ GoOnOrEnd
           \/ (\E served \in Offsets : Reopen(served)) \/ Closing \/ LastNotify
    BY <1>5 DEF ReaderStep
  <2>2. CASE Park \/ ParkedOut \/ StallFires \/ Notify \/ GiveUpOrReconnect \/ GoOnOrEnd
             \/ (\E served \in Offsets : Reopen(served)) \/ Closing \/ LastNotify
    <3>1. slot'.start = slot.start /\ slot'.data = slot.data
      BY <1>1, <2>2 DEF Park, ParkedOut, StallFires, Notify, GiveUpOrReconnect, GoOnOrEnd,
                        Reopen, Closing, LastNotify, Slot
    <3>2. QED BY <1>2, <3>1
  <2>3. QED BY <1>3, <1>4, <2>1, <2>2
<1>6. CASE LateStall \/ Evict \/ UNCHANGED vars
  <2>1. slot'.start = slot.start /\ slot'.data = slot.data
    BY <1>1, <1>6 DEF LateStall, Evict, vars, Slot
  <2>2. QED BY <1>2, <2>1
<1>7. ASSUME NEW r \in Requests,
             \/ RequestStep(r) \/ ClientGone(r) \/ WriteReturns(r)
             \/ \E range \in Ranges, known \in BOOLEAN : Acquire(r, range, known)
      PROVE  EndPos' = EndPos
  <2>1. slot' = slot
    BY <1>7 DEF RequestStep, Enter, LookAgain, WaitTimeout, ClientGone, Serve, WriteReturns,
                Leave, Acquire, Keeps
  <2>2. QED BY <2>1 DEF EndPos
<1>8. QED BY <1>5, <1>6, <1>7 DEF Next

\* A request falls asleep in Serve, with nothing to send and no end seen.
LEMMA FallsAsleep ==
    ASSUME IInv, [Next]_vars, NEW r \in Requests, req'[r].pc = "asleep", req'[r] # req[r]
    PROVE  /\ UNCHANGED <<slot, reader>> /\ ~ slot.done /\ req[r].pos >= EndPos
           /\ req'[r].pos = req[r].pos
<1>1. req \in [Requests -> Request] /\ req[r] \in Request
  BY DEF IInv, TypeOK
<1>2. ~ Broadcast
  BY <1>1 DEF Broadcast, Woken, Request
<1>3. ~ ReaderStep /\ ~ LateStall /\ ~ Evict /\ ~ UNCHANGED vars
  BY <1>2 DEF ReaderStep, LateStall, Evict, vars, Park, ParkedOut, Check, StallFires,
              ReadReturns, Notify, GiveUpOrReconnect, GoOnOrEnd, Reopen, Closing, LastNotify
<1>4. ASSUME NEW p \in Requests, NEW range \in Ranges, NEW known \in BOOLEAN,
             \/ Acquire(p, range, known)
             \/ \E served \in Offsets : Open(p, range, served, known)
      PROVE  FALSE
  <2>1. req' = [req EXCEPT ![p] = Entering(range, known)]
    BY <1>4 DEF Acquire, Open
  <2>2. QED BY <1>1, <2>1, EnteringIs
<1>5. PICK p \in Requests : RequestStep(p) \/ ClientGone(p) \/ WriteReturns(p)
  BY <1>3, <1>4 DEF Next
<1>6. CASE Enter(p) \/ LookAgain(p) \/ WaitTimeout(p) \/ ClientGone(p)
  <2>1. ClientStep(p) /\ req'[p].pc \in {"leave", "waiting", "serve"}
    BY <1>6, Looking
  <2>2. QED BY <2>1 DEF ClientStep
<1>7. CASE WriteReturns(p)
  <2> DEFINE c == req[p]
             taken == [c EXCEPT !.pc = "serve", !.pos = @ + Len(c.chunk),
                                !.sent = @ \o c.chunk, !.chunk = <<>>]
             dropped == [c EXCEPT !.pc = "leave", !.chunk = <<>>]
  <2>1. \/ req' = [req EXCEPT ![p] = taken] /\ taken.pc = "serve"
        \/ req' = [req EXCEPT ![p] = dropped] /\ dropped.pc = "leave"
    BY <1>1, <1>7 DEF WriteReturns, Request
  <2> HIDE DEF taken, dropped
  <2>2. QED BY <1>1, <2>1
<1>8. CASE Leave(p)
  BY <1>1, <1>8 DEF Leave, NoRequest
<1>9. CASE Serve(p)
  <2>1. p = r
    BY <1>1, <1>9 DEF Serve
  <2>2. /\ slot' = slot /\ reader' = reader
        /\ req[r].pos \in Nat /\ req[r].to \in Nat /\ EndPos \in Nat
        /\ slot.start \in Nat
    BY <1>1, <1>9, <2>1, Constants DEF Serve, Keeps, Request, IInv, TypeOK, EndPos, Slot
  <2>3. slot.start <= req[r].pos
    BY <1>9, <2>1, Serving
  <2>4. CASE req[r].pos >= req[r].to
    <3>1. req'[r] = [req[r] EXCEPT !.pc = "leave"]
      BY <1>1, <1>9, <2>1, <2>2, <2>3, <2>4 DEF Serve
    <3>2. QED BY <1>1, <3>1 DEF Request
  <2>5. CASE ~(req[r].pos >= req[r].to) /\ req[r].pos >= EndPos
    <3>1. req'[r] = [req[r] EXCEPT !.pc = IF slot.done THEN "leave" ELSE "asleep"]
      BY <1>1, <1>9, <2>1, <2>2, <2>3, <2>5 DEF Serve
    <3>2. QED BY <1>1, <2>2, <2>5, <3>1 DEF Request
  <2>6. CASE ~(req[r].pos >= req[r].to) /\ ~(req[r].pos >= EndPos)
    <3> DEFINE c == Copied(req[r].pos, Least({EndPos - req[r].pos, MaxWrite,
                                              req[r].to - req[r].pos}))
    <3> HIDE DEF c
    <3>1. req'[r] = [req[r] EXCEPT !.pc = "write", !.chunk = c]
      BY <1>1, <1>9, <2>1, <2>2, <2>3, <2>6 DEF Serve, c
    <3>2. QED BY <1>1, <3>1 DEF Request
  <2>7. QED BY <2>4, <2>5, <2>6
<1>10. QED BY <1>5, <1>6, <1>7, <1>8, <1>9 DEF RequestStep

\* A trim keeps the flags of the slot.
LEMMA TrimFlags ==
    ASSUME NEW w \in Slot
    PROVE  LET v == Trim(w) IN
           v.done = w.done /\ v.failed = w.failed /\ v.cancelled = w.cancelled
<1> DEFINE n == Least({IF SlowestPos(w) > w.start THEN SlowestPos(w) - w.start ELSE 0,
                       IF Len(w.data) > TrimTo THEN Len(w.data) - TrimTo ELSE 0})
<1>1. Trim(w) = Shifted(w, n)
  BY DEF Trim, Shifted
<1> HIDE DEF n
<1>2. QED BY <1>1 DEF Shifted, Slot

\* What each step does with the flags of the slot, and where it leads the reader.
LEMMA Flags ==
    ASSUME IInv, [Next]_vars,
           ~ \E r \in Requests, range \in Ranges, known \in BOOLEAN, served \in Offsets :
               Open(r, range, served, known)
    PROVE  /\ slot.cancelled => slot'.cancelled
           /\ \/ slot'.done = slot.done /\ slot'.failed = slot.failed /\ reader'.pc = reader.pc
              \/ /\ slot'.done = slot.done /\ slot'.failed = slot.failed
                 /\ \/ reader.pc = "parked" /\ reader'.pc = "park"
                    \/ reader.pc = "parked" /\ reader'.pc = "closing" /\ slot.cancelled
                    \/ reader.pc = "park" /\ reader'.pc \in {"reopen", "check"}
                    \/ reader.pc = "park" /\ reader'.pc = "parked" /\ Registered = {} /\ req' = req
                    \/ reader.pc = "check" /\ reader'.pc \in {"park", "read"}
                    \/ reader.pc = "read" /\ reader'.pc \in {"notify", "decide"}
                    \/ reader.pc = "notify" /\ reader'.pc = "decide" /\ Broadcast
                    \/ reader.pc = "reopen" /\ reader'.pc = "park"
                    \/ reader.pc = "lastNotify" /\ reader'.pc = "ended" /\ Broadcast
              \/ /\ slot'.done = slot.done
                 /\ \/ reader.pc = "decide" /\ reader'.pc = "park"
                    \/ reader.pc = "decide" /\ reader'.pc = "closing"
                         /\ (slot'.failed \/ reader.end = "eof")
                    \/ reader.pc = "reopen" /\ reader'.pc = "closing" /\ slot'.failed
              \/ /\ reader.pc = "closing" /\ reader'.pc = "lastNotify"
                 /\ slot'.done /\ slot'.failed = slot.failed
<1>1. slot \in Slot /\ reader \in Reader /\ reader.got \in 0..1
  BY DEF IInv, TypeOK, Reader
<1>2. CASE Check
  BY <1>1, <1>2, TrimFlags DEF Check, Reader
<1>3. ASSUME NEW n \in 0..1, NEW end \in {"more", "eof", "error"}, ReadReturns(n, end)
      PROVE  /\ slot'.done = slot.done /\ slot'.failed = slot.failed
             /\ slot'.cancelled = slot.cancelled
             /\ reader.pc = "read" /\ reader'.pc \in {"notify", "decide"}
  <2> DEFINE grown == [slot EXCEPT !.data = IF n = 1 THEN Append(@, body.at) ELSE @]
             d == IF n = 1 THEN Append(slot.data, body.at) ELSE slot.data
  <2>1. d \in Seq(Offsets) /\ grown = [slot EXCEPT !.data = d]
    <3>1. slot.data \in Seq(Offsets) /\ body.at \in Offsets
      BY <1>1 DEF IInv, TypeOK, Slot, Body
    <3>2. Append(slot.data, body.at) \in Seq(Offsets)
      BY <3>1, AppendProperties
    <3>3. QED BY <3>1, <3>2
  <2> HIDE DEF d
  <2>2. grown \in Slot /\ grown.done = slot.done /\ grown.failed = slot.failed
        /\ grown.cancelled = slot.cancelled
    BY <1>1, <2>1 DEF Slot
  <2>3. slot' = grown \/ slot' = Trim(grown)
    BY <1>3 DEF ReadReturns
  <2> HIDE DEF grown
  <2>4. slot'.done = slot.done /\ slot'.failed = slot.failed /\ slot'.cancelled = slot.cancelled
    BY <2>2, <2>3, TrimFlags
  <2>5. reader.pc = "read" /\ reader'.pc \in {"notify", "decide"}
    BY <1>1, <1>3 DEF ReadReturns, Reader
  <2>6. QED BY <2>4, <2>5
<1>4. CASE Park
  BY <1>1, <1>4 DEF Park, Reader
<1>5. CASE ParkedOut \/ StallFires
  BY <1>1, <1>5 DEF ParkedOut, StallFires, Reader
<1>6. CASE Notify \/ LastNotify \/ Closing
  BY <1>1, <1>6 DEF Notify, LastNotify, Closing, Reader, Slot
<1>7. CASE GiveUpOrReconnect
  BY <1>1, <1>7 DEF GiveUpOrReconnect, TurnEnds, Reader, Slot
<1>8. CASE GoOnOrEnd
  BY <1>1, <1>8 DEF GoOnOrEnd, TurnEnds, Reader, Slot
<1>9. ASSUME NEW served \in Offsets, Reopen(served)
      PROVE  /\ slot'.done = slot.done /\ slot'.cancelled = slot.cancelled /\ reader.pc = "reopen"
             /\ \/ slot'.failed = slot.failed /\ reader'.pc = "park"
                \/ slot'.failed /\ reader'.pc = "closing"
  BY <1>1, <1>9 DEF Reopen, Reader, Slot
<1>10. CASE ReaderStep
  BY <1>2, <1>3, <1>4, <1>5, <1>6, <1>7, <1>8, <1>9, <1>10 DEF ReaderStep
<1>11. CASE LateStall \/ Evict \/ UNCHANGED vars
  BY <1>1, <1>11 DEF LateStall, Evict, vars, Slot
<1>12. ASSUME NEW r \in Requests,
              \/ RequestStep(r) \/ ClientGone(r) \/ WriteReturns(r)
              \/ \E range \in Ranges, known \in BOOLEAN : Acquire(r, range, known)
       PROVE  slot' = slot /\ (reader' = reader \/ NotifyReaderChanged)
  BY <1>12 DEF RequestStep, Enter, LookAgain, WaitTimeout, ClientGone, Serve, WriteReturns,
               Leave, Acquire, Keeps
<1>13. CASE slot' = slot /\ (reader' = reader \/ NotifyReaderChanged)
  BY <1>1, <1>13 DEF NotifyReaderChanged, Reader
<1>14. QED BY <1>10, <1>11, <1>12, <1>13 DEF Next

LEMMA WakesOK == IInv /\ IInv' /\ Wakes /\ [Next]_vars => Wakes'
<1> SUFFICES ASSUME IInv, IInv', Wakes, [Next]_vars PROVE Wakes'
  OBVIOUS
<1>1. /\ slot \in Slot /\ reader \in Reader /\ req \in [Requests -> Request]
      /\ req' \in [Requests -> Request]
      /\ EvictedIsEmpty
  BY DEF IInv, TypeOK
<1>2. CASE \E r \in Requests, range \in Ranges, known \in BOOLEAN, served \in Offsets :
             Open(r, range, served, known)
  <2>1. PICK r \in Requests, range \in Ranges, known \in BOOLEAN, served \in Offsets :
             Open(r, range, served, known)
    BY <1>2
  <2>2. reader'.pc = "park" /\ slot'.done = FALSE
    BY <2>1 DEF Open, NoReader, NoSlot
  <2>3. ASSUME NEW p \in Requests PROVE req'[p].pc # "asleep"
    <3>1. req[p].pc = "idle"
      BY <1>1, <2>1 DEF Open, EvictedIsEmpty, Registered
    <3>2. CASE p = r
      BY <1>1, <2>1, <3>2, EnteringIs DEF Open
    <3>3. CASE p # r
      BY <1>1, <2>1, <3>1, <3>3 DEF Open
    <3>4. QED BY <3>2, <3>3
  <2>4. QED BY <2>2, <2>3 DEF Wakes
<1>3. CASE ~ \E r \in Requests, range \in Ranges, known \in BOOLEAN, served \in Offsets :
             Open(r, range, served, known)
  <2>1. reader'.pc = "none" => slot'.cancelled
    BY <1>3, Flags DEF Wakes
  <2>2. slot'.done <=> reader'.pc \in {"lastNotify", "ended"}
    BY <1>3, Flags DEF Wakes
  <2>3. reader'.pc = "parked" => Registered' = {}
    <3>1. SUFFICES ASSUME reader'.pc = "parked" PROVE Registered' = {}
      OBVIOUS
    <3>2. CASE req' = req
      <4>1. Registered = {}
        BY <1>3, <3>1, Flags DEF Wakes
      <4>2. QED BY <3>2, <4>1 DEF Registered
    <3>3. CASE req' # req
      <4>1. reader.pc = "parked" /\ Registered = {}
        BY <1>3, <3>1, <3>3, Flags DEF Wakes
      <4>2. ~ NotifyReaderChanged
        BY <1>1, <3>1, <4>1 DEF NotifyReaderChanged, Reader
      <4>3. ~ ReaderStep /\ ~ LateStall /\ ~ Evict /\ ~ UNCHANGED vars
        BY <3>3, <4>1 DEF ReaderStep, LateStall, Evict, vars, Park, ParkedOut, Check,
                          StallFires, ReadReturns, Notify, GiveUpOrReconnect, GoOnOrEnd,
                          Reopen, Closing, LastNotify
      <4>4. ASSUME NEW r \in Requests, RequestStep(r) \/ ClientGone(r) \/ WriteReturns(r)
            PROVE  FALSE
        <5>1. req[r].pc = "idle"
          BY <4>1 DEF Registered
        <5>2. QED BY <4>4, <5>1 DEF RequestStep, Enter, LookAgain, WaitTimeout, ClientGone,
                                    Serve, WriteReturns, Leave
      <4>5. QED BY <1>3, <4>2, <4>3, <4>4 DEF Next, Acquire
    <3>4. QED BY <3>2, <3>3
  <2>4. ASSUME NEW r \in Requests, req'[r].pc = "asleep"
        PROVE  /\ reader'.pc # "ended"
               /\ reader'.pc \in {"notify", "lastNotify"} \/ req'[r].pos >= EndPos'
    <3>1. CASE req'[r] # req[r]
      <4>1. /\ slot' = slot /\ reader' = reader /\ ~ slot.done
            /\ req[r].pos >= EndPos /\ req'[r].pos = req[r].pos
        BY <2>4, <3>1, FallsAsleep
      <4>2. EndPos' = EndPos
        BY <4>1 DEF EndPos
      <4>3. QED BY <4>1, <4>2 DEF Wakes
    <3>2. CASE req'[r] = req[r]
      <4>1. /\ req[r].pc = "asleep" /\ reader.pc # "ended"
            /\ reader.pc \in {"notify", "lastNotify"} \/ req[r].pos >= EndPos
        BY <2>4, <3>2 DEF Wakes
      <4>2. ~ Broadcast
        BY <1>1, <2>4, <3>2, <4>1 DEF Broadcast, Woken, Request
      <4>3. CASE \E end \in {"more", "eof", "error"} : ReadReturns(1, end)
        BY <1>1, <4>3 DEF ReadReturns, Reader
      <4>4. CASE EndPos' = EndPos
        BY <1>3, <3>2, <4>1, <4>2, <4>4, Flags
      <4>5. QED BY <1>3, <4>3, <4>4, EndMoves
    <3>3. QED BY <3>1, <3>2
  <2>5. QED BY <2>1, <2>2, <2>3, <2>4 DEF Wakes
<1>4. QED BY <1>2, <1>3

LEMMA WakesInvariant == Spec => [](IInv /\ Wakes)
<1>1. Init => Wakes
  BY DEF Init, NoSlot, NoReader, NoRequest, Wakes
<1>2. IInv /\ IInv' /\ Wakes /\ [Next]_vars => Wakes'
  BY WakesOK
<1>3. QED BY <1>1, <1>2, InvariantOK, PTL DEF Spec

-----------------------------------------------------------------------------
(* The theorems *)

\* The state of the slot stays well formed: in particular the window never grows past
\* the hard limit of backgroundReader, whatever the requests and the upstream do.
THEOREM TypeCorrect == Spec => []TypeOK
<1>1. IInv => TypeOK
  BY DEF IInv
<1>2. QED BY <1>1, InvariantOK, PTL

\* trimConsumedBufferLocked never takes a byte that a registered request has still to
\* send, for windows and write sizes of any proportion and any number of requests.
THEOREM WindowWaitsTheorem == Spec => []KeepsWhatRequestsNeed
<1>1. IInv => KeepsWhatRequestsNeed
  BY DEF IInv
<1>2. QED BY <1>1, InvariantOK, PTL

\* Whatever the upstream serves after a stall, a shifted first response or a late
\* callback of the stall timer, the window is a piece of the file at its place.
THEOREM WindowIsTheFileTheorem == Spec => []WindowIsTheFile
<1>1. IInv => WindowIsTheFile
  BY DEF IInv
<1>2. QED BY <1>1, InvariantOK, PTL

\* serve sends each client the bytes of the file that its range asks for, in order, from
\* the first, although trims move the window while a chunk is being written.
THEOREM ServesRangesTheorem == Spec => ServesRanges
<1>1. Init => Client!Init
  BY DEF Init, NoRequest, Answer, Client!Init, Client!None
<1>2. [][Next]_vars /\ []IInv /\ []Answers => [][Client!Next]_([r \in Requests |-> Answer(r)])
  BY RangeSteps, PTL
<1>3. QED BY <1>1, <1>2, InvariantOK, AnswersInvariant, PTL DEF Spec, ServesRanges, Client!Spec

\* A request asleep is not forgotten: a broadcast is the next thing the background reader
\* does, or the reader is on its way to more bytes, and the request has all there are.
NoLostWakeup ==
    \A r \in Requests : req[r].pc = "asleep" =>
      \/ reader.pc \in {"notify", "lastNotify"}
      \/ /\ reader.pc \notin {"none", "parked", "ended"} /\ ~ slot.done
         /\ req[r].pos >= EndPos

\* The safety half of SleeperIsWoken, for any number of requests: serve takes the channel
\* under the lock it looks under, and nobody parks the reader while a request is there.
THEOREM NoLostWakeupTheorem == Spec => []NoLostWakeup
<1>1. IInv /\ Wakes => NoLostWakeup
  BY DEF IInv, EvictedIsEmpty, Wakes, NoLostWakeup, Registered
<1>2. QED BY <1>1, WakesInvariant, PTL
=============================================================================
