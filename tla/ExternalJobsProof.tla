-------------------------- MODULE ExternalJobsProof --------------------------
(* Proofs about ExternalJobs, for any number of NZBs, requests, pollers and *)
(* jobs.                                                                    *)
EXTENDS ExternalJobs, TLAPS

LEMMA KeysHaveOne == NoKey \in Keys
BY JobsAssumption DEF NoKey

LEMMA IdleShapes == IdleRequest \in Request /\ IdlePoller \in Poller
BY KeysHaveOne DEF IdleRequest, IdlePoller, Request, Poller

LEMMA IdsAreNumbers == MaxJobs \in Nat /\ Ids = 1..MaxJobs /\ NoJob = 0
BY JobsAssumption DEF Ids, NoJob

-----------------------------------------------------------------------------
(* The inductive invariant. AcceptedIsAnswered needs Settled: a poller only  *)
(* deletes a job that has an answer. LastJobIsReused needs that byKey leads  *)
(* to the latest job of an NZB while it is active (IndexLeads), so that a    *)
(* request that found none active may rely on it (Looked); and these need    *)
(* that the job a request is about to record is the newest (Recorders).      *)

Recorders ==
    \A r \in Requests : At(r, "record") =>
        /\ request[r].id \in 1..made
        /\ keyOf[request[r].id] = Key(r)
        /\ \A q \in 1..made : keyOf[q] = Key(r) => q <= request[r].id

Settled ==
    \A p \in Pollers :
        /\ poller[p].pc # "idle" => poller[p].id \in 1..made
        /\ poller[p].pc = "settle" =>
             poller[p].id \in done \cup old \/ engine[poller[p].id] = "failed"

IndexLeads == \A k \in Keys : \A q \in jobs : IsLatest(q, k) => byKey[k] = q

Looked ==
    \A r \in Requests :
        request[r].pc \in {"claim", "probe"} /\ ~ request[r].stale /\ ~ request[r].overtaken
          => \A q \in jobs : ~ IsLatest(q, Key(r))

IInv == TypeOK /\ OneSubmitter /\ Recorders /\ Settled /\ AcceptedIsAnswered
        /\ IndexLeads /\ Looked

-----------------------------------------------------------------------------
(* Type correctness, by who moves. *)

LEMMA TypeInit == Init => TypeOK
BY KeysHaveOne, IdleShapes, IdsAreNumbers DEF Init, TypeOK

LookingStep(r) ==
    \/ \E k \in Keys : Begins(r, k)
    \/ LooksAtResult(r) \/ LooksAtJobs(r) \/ ResultIsThere(r) \/ ResultIsStale(r)
    \/ Claims(r) \/ Waits(r) \/ GivesUpWaiting(r)

PollStep(p) ==
    \/ \E q \in Ids : PollBegins(p, q)
    \/ PollHears(p) \/ PollLearnsNothing(p) \/ PollFinds(p) \/ PollRemembers(p)
    \/ PollDeletes(p)

OutsideStep ==
    \/ \E q \in Ids : EngineFails(q) \/ ResultAges(q)
    \/ \E k \in Keys : FileAppears(k) \/ FileVanishes(k)

LEMMA NextSplits ==
    ASSUME Next
    PROVE  \/ \E r \in Requests : LookingStep(r) \/ Holds(r)
           \/ \E p \in Pollers : PollStep(p)
           \/ OutsideStep
BY DEF Next, LookingStep, PollStep, OutsideStep

LEMMA RequestShapes ==
    ASSUME TypeOK, NEW r \in Requests
    PROVE  /\ request[r] \in Request
           /\ Key(r) \in Keys
           /\ Leaving(r) \in Request /\ Leaving(r).pc = "release" /\ Leaving(r).key = Key(r)
           /\ \A pc \in {"look", "check", "claim", "wait", "probe", "submit", "record",
                         "release"} : [request[r] EXCEPT !.pc = pc] \in Request
BY IdleShapes, KeysHaveOne DEF TypeOK, Request, Key, Leaving, IdleRequest

\* Changing fields of a request leaves a request.
LEMMA RequestUpdates ==
    ASSUME NEW v \in Request
    PROVE  /\ [v EXCEPT !.pc = "check", !.same = TRUE] \in Request
           /\ [v EXCEPT !.pc = "claim", !.overtaken = FALSE, !.stale = FALSE] \in Request
           /\ [v EXCEPT !.pc = "claim", !.stale = TRUE, !.same = FALSE] \in Request
           /\ [v EXCEPT !.same = FALSE] \in Request
           /\ [v EXCEPT !.overtaken = TRUE] \in Request
           /\ \A q \in Ids : [v EXCEPT !.pc = "record", !.id = q] \in Request
           /\ v.id \in Ids \cup {NoJob}
BY DEF Request

LEMMA LookingType ==
    ASSUME TypeOK, NEW r \in Requests, LookingStep(r)
    PROVE  TypeOK'
<1>1. ASSUME NEW k \in Keys, Begins(r, k) PROVE TypeOK'
  <2>1. [IdleRequest EXCEPT !.pc = "look", !.key = k] \in Request
    BY IdleShapes DEF Request
  <2>2. QED BY <1>1, <2>1 DEF Begins, TypeOK, tables, outside
<1>2. CASE LooksAtResult(r)
  <2>1. [request[r] EXCEPT !.pc = "check", !.same = TRUE] \in Request
    BY RequestShapes, RequestUpdates
  <2>2. QED BY <1>2, <2>1 DEF LooksAtResult, TypeOK, tables, outside
<1>3. CASE LooksAtJobs(r)
  <2>1. [request[r] EXCEPT !.pc = "claim", !.overtaken = FALSE, !.stale = FALSE] \in Request
    BY RequestShapes, RequestUpdates
  <2>2. request' \in [Requests -> Request]
    BY <1>3, <2>1, IdleShapes DEF LooksAtJobs, TypeOK
  <2>3. QED BY <1>3, <2>2, RequestShapes, IdsAreNumbers DEF LooksAtJobs, TypeOK, outside
<1>4. CASE ResultIsThere(r)
  BY <1>4, IdleShapes DEF ResultIsThere, TypeOK, tables, outside
<1>5. CASE ResultIsStale(r)
  <2>1. [request[r] EXCEPT !.pc = "claim", !.stale = TRUE, !.same = FALSE] \in Request
    BY RequestShapes, RequestUpdates
  <2>2. \A s \in Requests : [request[s] EXCEPT !.same = FALSE] \in Request
    BY RequestShapes, RequestUpdates
  <2>3. request' \in [Requests -> Request]
    BY <1>5, <2>1, <2>2, RequestShapes DEF ResultIsStale
  <2>4. QED BY <1>5, <2>3, RequestShapes, IdsAreNumbers DEF ResultIsStale, TypeOK, outside
<1>6. CASE Claims(r)
  <2>1. request' \in [Requests -> Request]
    BY <1>6, RequestShapes DEF Claims, TypeOK
  <2>2. QED BY <1>6, <2>1, RequestShapes DEF Claims, TypeOK, outside
<1>7. CASE Waits(r)
  BY <1>7, RequestShapes DEF Waits, TypeOK, tables, outside
<1>8. CASE GivesUpWaiting(r)
  BY <1>8, IdleShapes DEF GivesUpWaiting, TypeOK, tables, outside
<1>9. QED BY <1>1, <1>2, <1>3, <1>4, <1>5, <1>6, <1>7, <1>8 DEF LookingStep

LEMMA HoldsType ==
    ASSUME TypeOK, Recorders, NEW r \in Requests, Holds(r)
    PROVE  TypeOK'
<1>1. CASE FindsExisting(r)
  BY <1>1, RequestShapes DEF FindsExisting, TypeOK, tables, outside
<1>2. CASE FindsNothing(r)
  BY <1>2, RequestShapes DEF FindsNothing, TypeOK, tables, outside
<1>3. CASE Submits(r)
  <2>1. made + 1 \in Ids /\ made + 1 \in 0..MaxJobs
    BY <1>3, IdsAreNumbers DEF Submits, TypeOK
  <2>2. [request[r] EXCEPT !.pc = "record", !.id = made + 1] \in Request
    BY <2>1, RequestShapes, RequestUpdates
  <2>3. request' \in [Requests -> Request]
    BY <1>3, <2>2 DEF Submits, TypeOK
  <2>4. QED BY <1>3, <2>1, <2>3, RequestShapes DEF Submits, TypeOK
<1>4. CASE SubmitFails(r)
  BY <1>4, RequestShapes DEF SubmitFails, TypeOK, tables, outside
<1>5. CASE Records(r)
  <2>1. request[r].id \in Ids
    BY <1>5, IdsAreNumbers DEF Records, Recorders, TypeOK
  <2>2. request[r].id \in Ids \cup {NoJob} /\ \A s \in Requests :
          [request[s] EXCEPT !.overtaken = TRUE] \in Request
    BY RequestShapes, RequestUpdates
  <2>3. request' \in [Requests -> Request]
    BY <1>5, <2>2, RequestShapes DEF Records
  <2>4. QED BY <1>5, <2>1, <2>3, RequestShapes DEF Records, TypeOK, outside
<1>6. CASE Releases(r)
  <2>1. request' \in [Requests -> Request]
    BY <1>6, RequestShapes, IdleShapes DEF Releases
  <2>2. QED BY <1>6, <2>1, RequestShapes DEF Releases, TypeOK, outside
<1>7. QED BY <1>1, <1>2, <1>3, <1>4, <1>5, <1>6 DEF Holds

LEMMA PollType ==
    ASSUME TypeOK, Settled, NEW p \in Pollers, PollStep(p)
    PROVE  TypeOK'
<1> DEFINE q == poller[p].id
<1>1. poller[p] \in Poller /\ (poller[p].pc # "idle" => q \in Ids)
  BY IdsAreNumbers DEF TypeOK, Settled
<1>2. ASSUME NEW j \in Ids, PollBegins(p, j) PROVE TypeOK'
  <2>1. [pc |-> "asked", id |-> j] \in Poller
    BY DEF Poller
  <2>2. QED BY <1>1, <1>2, <2>1 DEF PollBegins, TypeOK, outside
<1>3. \A pc \in {"asked", "looking", "found", "settle"} :
        [poller[p] EXCEPT !.pc = pc] \in Poller
  BY <1>1 DEF Poller
<1>4. CASE PollHears(p)
  BY <1>3, <1>4 DEF PollHears, TypeOK, tables, outside
<1>5. CASE PollLearnsNothing(p)
  BY <1>5, IdleShapes DEF PollLearnsNothing, TypeOK, tables, outside
<1>6. CASE PollFinds(p)
  BY <1>3, <1>6 DEF PollFinds, TypeOK, tables, outside
<1>7. CASE PollRemembers(p)
  <2>1. q \in Ids /\ keyOf[q] \in Keys
    BY <1>1, <1>7 DEF PollRemembers, TypeOK
  <2>2. \A r \in Requests : [request[r] EXCEPT !.same = FALSE] \in Request
    BY RequestShapes, RequestUpdates
  <2>3. request' \in [Requests -> Request]
    BY <1>7, <2>2, RequestShapes DEF PollRemembers
  <2>4. poller' \in [Pollers -> Poller]
    BY <1>3, <1>7 DEF PollRemembers, TypeOK
  <2>5. QED BY <1>7, <2>1, <2>3, <2>4 DEF PollRemembers, TypeOK, outside
<1>8. CASE PollDeletes(p)
  <2>1. q \in Ids /\ keyOf[q] \in Keys
    BY <1>1, <1>8 DEF PollDeletes, TypeOK
  <2>2. QED BY <1>8, <2>1, IdleShapes DEF PollDeletes, WithoutOwnEntry, TypeOK, outside
<1>9. QED BY <1>2, <1>4, <1>5, <1>6, <1>7, <1>8 DEF PollStep

LEMMA OutsideType ==
    ASSUME TypeOK, OutsideStep
    PROVE  TypeOK'
<1>1. ASSUME NEW q \in Ids, EngineFails(q) PROVE TypeOK'
  BY <1>1 DEF EngineFails, TypeOK, tables
<1>2. ASSUME NEW q \in Ids, ResultAges(q) PROVE TypeOK'
  BY <1>2 DEF ResultAges, TypeOK, outside
<1>3. ASSUME NEW k \in Keys, FileAppears(k) \/ FileVanishes(k) PROVE TypeOK'
  BY <1>3 DEF FileAppears, FileVanishes, TypeOK, tables
<1>4. QED BY <1>1, <1>2, <1>3 DEF OutsideStep

-----------------------------------------------------------------------------
(* What a step leaves alone *)

\* What is recorded depends on the jobs made and on who is about to record one.
Quiet ==
    /\ UNCHANGED <<made, keyOf>>
    /\ \A s \in Requests :
         /\ At(s, "record")' <=> At(s, "record")
         /\ At(s, "record") => request'[s].id = request[s].id /\ request'[s].key = request[s].key

LEMMA QuietKeeps ==
    ASSUME Quiet
    PROVE  /\ \A k : Recorded(k)' = Recorded(k)
           /\ \A q, k : IsLatest(q, k)' <=> IsLatest(q, k)
           /\ \A q : Known(q)' <=> Known(q)
<1>1. \A k : Recorded(k)' = Recorded(k)
  BY DEF Quiet, Recorded, At
<1>2. QED BY <1>1 DEF IsLatest, Known, Quiet

\* The fields of a request the invariant speaks of.
Stays(s) ==
    /\ request'[s].pc = request[s].pc
    /\ request'[s].key = request[s].key
    /\ request'[s].id = request[s].id
    /\ request'[s].stale = request[s].stale
    /\ request'[s].overtaken = request[s].overtaken

\* A request that is looking: what it does to the tables, and where it goes.
LookingMoves(r) ==
    /\ UNCHANGED <<made, keyOf, jobs, done, old, engine, poller>>
    /\ \A s \in Requests \ {r} : Stays(s)
    /\ request[r].pc \in {"idle", "look", "check", "claim", "wait"}
    /\ request'[r].pc \in {"idle", "look", "check", "claim", "wait", "probe"}
    /\ \/ claims' = claims /\ request'[r].pc # "probe"
       \/ /\ request[r].pc = "claim" /\ request'[r].pc = "probe"
          /\ claims[Key(r)] = Nobody /\ claims' = [claims EXCEPT ![Key(r)] = r]
          /\ request'[r].key = Key(r)
          /\ request'[r].stale = request[r].stale
          /\ request'[r].overtaken = request[r].overtaken
    /\ \/ request'[r].pc # "claim"
       \/ request'[r].stale
       \/ request'[r].key = Key(r) /\ byKey[Key(r)] \notin jobs
    /\ \A k \in Keys : byKey[k] \in jobs => byKey'[k] = byKey[k]

LEMMA LookingSteps ==
    ASSUME TypeOK, NEW r \in Requests, LookingStep(r)
    PROVE  LookingMoves(r)
<1>1. request \in [Requests -> Request] /\ request[r] \in Request /\ Key(r) \in Keys
  BY RequestShapes DEF TypeOK
<1>2. ASSUME NEW k \in Keys, Begins(r, k) PROVE LookingMoves(r)
  BY <1>1, <1>2 DEF Begins, LookingMoves, Stays, At, Key, tables, outside, IdleRequest
<1>3. CASE LooksAtResult(r)
  BY <1>1, <1>3 DEF LooksAtResult, LookingMoves, Stays, At, Key, tables, outside, Request
<1>4. CASE LooksAtJobs(r)
  <2>1. CASE Active(Key(r))
    <3>1. request' = [request EXCEPT ![r] = IdleRequest] /\ byKey' = byKey
      BY <1>4, <2>1 DEF LooksAtJobs, TypeOK
    <3>2. request'[r].pc = "idle" /\ \A s \in Requests \ {r} : request'[s] = request[s]
      BY <1>1, <3>1 DEF IdleRequest
    <3>3. QED
      BY <1>4, <3>1, <3>2 DEF LooksAtJobs, LookingMoves, Stays, At, outside
  <2>2. CASE ~ Active(Key(r))
    <3>1. /\ request' = [request EXCEPT ![r] = [request[r] EXCEPT !.pc = "claim",
                            !.overtaken = FALSE, !.stale = FALSE]]
          /\ byKey' = [byKey EXCEPT ![Key(r)] = NoJob]
      BY <1>1, <1>4, <2>2 DEF LooksAtJobs
    <3>2. /\ request'[r].pc = "claim" /\ request'[r].key = Key(r)
          /\ \A s \in Requests \ {r} : request'[s] = request[s]
      BY <1>1, <3>1 DEF Request, Key
    <3>3. byKey[Key(r)] \notin jobs
      BY <2>2 DEF Active
    <3>4. \A k \in Keys : byKey[k] \in jobs => byKey'[k] = byKey[k]
      BY <3>1, <3>3 DEF TypeOK
    <3>5. QED
      BY <1>4, <3>2, <3>3, <3>4 DEF LooksAtJobs, LookingMoves, Stays, At, outside
  <2>3. QED BY <2>1, <2>2
<1>5. CASE ResultIsThere(r)
  BY <1>1, <1>5 DEF ResultIsThere, LookingMoves, Stays, At, Key, tables, outside, IdleRequest
<1>6. CASE ResultIsStale(r)
  <2>1. request'[r].pc = "claim" /\ request'[r].stale
    BY <1>1, <1>6 DEF ResultIsStale, Request
  <2>2. \A s \in Requests \ {r} : Stays(s)
    BY <1>1, <1>6 DEF ResultIsStale, Request, Stays
  <2>3. QED BY <1>6, <2>1, <2>2 DEF ResultIsStale, LookingMoves, At, outside
<1>7. CASE Claims(r)
  <2>1. /\ request'[r].pc = "probe" /\ request'[r].key = Key(r)
        /\ request'[r].stale = request[r].stale
        /\ request'[r].overtaken = request[r].overtaken
        /\ \A s \in Requests \ {r} : request'[s] = request[s]
    BY <1>1, <1>7 DEF Claims, Request, Key
  <2>2. QED BY <1>7, <2>1 DEF Claims, Unclaimed, LookingMoves, Stays, At, outside
<1>8. CASE Waits(r)
  BY <1>1, <1>8 DEF Waits, LookingMoves, Stays, At, Key, tables, outside, Request
<1>9. CASE GivesUpWaiting(r)
  BY <1>1, <1>9 DEF GivesUpWaiting, LookingMoves, Stays, At, Key, tables, outside, IdleRequest
<1>10. QED BY <1>2, <1>3, <1>4, <1>5, <1>6, <1>7, <1>8, <1>9 DEF LookingStep

LEMMA LookingKeeps ==
    ASSUME IInv, NEW r \in Requests, LookingStep(r)
    PROVE  IInv'
<1>1. LookingMoves(r) /\ TypeOK'
  BY LookingSteps, LookingType DEF IInv
<1>2. Quiet
  BY <1>1 DEF LookingMoves, Stays, Quiet, At
<1>3. OneSubmitter'
  <2>1. SUFFICES ASSUME NEW s \in Requests, request'[s].pc \in Submitting
                 PROVE  claims'[request'[s].key] = s
    BY DEF OneSubmitter, Key
  <2>2. CASE s = r
    BY <1>1, <2>1, <2>2, RequestShapes DEF IInv, LookingMoves, Submitting, TypeOK
  <2>3. CASE s # r
    <3>1. claims[Key(s)] = s /\ request'[s].key = Key(s) /\ Key(s) \in Keys
      BY <1>1, <2>1, <2>3, RequestShapes
      DEF IInv, OneSubmitter, LookingMoves, Stays, Submitting, Key
    <3>2. claims'[Key(s)] = claims[Key(s)] \/ claims[Key(s)] = Nobody
      BY <1>1, <3>1, RequestShapes DEF IInv, LookingMoves, TypeOK
    <3>3. QED BY <3>1, <3>2, JobsAssumption
  <2>4. QED BY <2>2, <2>3
<1>4. Recorders'
  BY <1>1, <1>2 DEF IInv, Recorders, LookingMoves, Quiet, At, Key
<1>5. Settled'
  BY <1>1 DEF IInv, Settled, LookingMoves
<1>6. AcceptedIsAnswered'
  BY <1>1, <1>2, QuietKeeps DEF IInv, AcceptedIsAnswered, LookingMoves
<1>7. IndexLeads'
  BY <1>1, <1>2, QuietKeeps DEF IInv, IndexLeads, LookingMoves
<1>8. Looked'
  <2>1. SUFFICES ASSUME NEW s \in Requests, request'[s].pc \in {"claim", "probe"},
                        ~ request'[s].stale, ~ request'[s].overtaken
                 PROVE  \A q \in jobs : ~ IsLatest(q, request'[s].key)
    BY <1>1, <1>2, QuietKeeps DEF Looked, Key, LookingMoves
  <2>2. CASE s # r
    BY <1>1, <2>1, <2>2 DEF IInv, Looked, LookingMoves, Stays, Key
  <2>3. CASE s = r /\ request'[r].pc = "probe"
    BY <1>1, <2>1, <2>3 DEF IInv, Looked, LookingMoves, Key
  <2>4. CASE s = r /\ request'[r].pc = "claim"
    BY <1>1, <2>1, <2>4, RequestShapes DEF IInv, IndexLeads, LookingMoves
  <2>5. QED BY <2>1, <2>2, <2>3, <2>4
<1>9. QED BY <1>1, <1>3, <1>4, <1>5, <1>6, <1>7, <1>8 DEF IInv

\* A request that holds the claim and neither submits nor records.
HoldingMoves(r) ==
    /\ UNCHANGED <<made, keyOf, jobs, byKey, done, old, engine, poller>>
    /\ request[r].pc \in {"probe", "submit", "release"}
    /\ \A s \in Requests \ {r} :
         \/ Stays(s)
         \/ request[s].pc = "wait" /\ request'[s].pc = "look"
    /\ request'[r].pc \in {"idle", "submit", "release"}
    /\ \/ claims' = claims /\ request'[r].key = Key(r)
       \/ request'[r].pc = "idle" /\ claims' = [claims EXCEPT ![Key(r)] = Nobody]

LEMMA HoldingSteps ==
    ASSUME TypeOK, NEW r \in Requests,
           FindsExisting(r) \/ FindsNothing(r) \/ SubmitFails(r) \/ Releases(r)
    PROVE  HoldingMoves(r)
<1>1. request \in [Requests -> Request] /\ request[r] \in Request
  BY RequestShapes DEF TypeOK
<1>2. Leaving(r).pc = "release" /\ Leaving(r).key = Key(r)
  BY RequestShapes
<1>3. CASE FindsExisting(r)
  BY <1>1, <1>2, <1>3 DEF FindsExisting, HoldingMoves, Stays, At, tables, outside
<1>4. CASE FindsNothing(r)
  <2>1. /\ request'[r].pc = "submit" /\ request'[r].key = Key(r)
        /\ \A s \in Requests \ {r} : request'[s] = request[s]
    BY <1>1, <1>4 DEF FindsNothing, Request, Key
  <2>2. QED BY <1>4, <2>1 DEF FindsNothing, HoldingMoves, Stays, At, tables, outside
<1>5. CASE SubmitFails(r)
  BY <1>1, <1>2, <1>5 DEF SubmitFails, HoldingMoves, Stays, At, tables, outside
<1>6. CASE Releases(r)
  <2>1. request'[r].pc = "idle"
    BY <1>1, <1>6 DEF Releases, IdleRequest
  <2>2. ASSUME NEW s \in Requests \ {r}
        PROVE  Stays(s) \/ (request[s].pc = "wait" /\ request'[s].pc = "look")
    <3>1. request[s] \in Request
      BY <1>1
    <3>2. CASE At(s, "wait") /\ Key(s) = Key(r)
      BY <1>6, <3>1, <3>2 DEF Releases, Request, At
    <3>3. CASE ~ (At(s, "wait") /\ Key(s) = Key(r))
      <4>1. request'[s] = request[s]
        BY <1>6, <3>3 DEF Releases
      <4>2. QED BY <4>1 DEF Stays
    <3>4. QED BY <3>2, <3>3
  <2>3. QED BY <1>6, <2>1, <2>2 DEF Releases, HoldingMoves, At, outside
<1>7. QED BY <1>3, <1>4, <1>5, <1>6

LEMMA HoldingKeeps ==
    ASSUME IInv, NEW r \in Requests,
           FindsExisting(r) \/ FindsNothing(r) \/ SubmitFails(r) \/ Releases(r)
    PROVE  IInv'
<1>1. HoldingMoves(r) /\ TypeOK'
  BY HoldingSteps, HoldsType DEF IInv, Holds
<1>2. Quiet
  BY <1>1 DEF HoldingMoves, Stays, Quiet, At
<1>3. OneSubmitter'
  <2>1. SUFFICES ASSUME NEW s \in Requests, request'[s].pc \in Submitting
                 PROVE  claims'[request'[s].key] = s
    BY DEF OneSubmitter, Key
  <2>2. claims[Key(r)] = r /\ Key(r) \in Keys
    BY <1>1, RequestShapes DEF IInv, OneSubmitter, HoldingMoves, Submitting
  <2>3. CASE s = r
    BY <1>1, <2>1, <2>2, <2>3 DEF HoldingMoves, Submitting
  <2>4. CASE s # r
    <3>1. claims[Key(s)] = s /\ request'[s].key = Key(s) /\ Key(s) \in Keys
      BY <1>1, <2>1, <2>4, RequestShapes
      DEF IInv, OneSubmitter, HoldingMoves, Stays, Submitting, Key
    <3>2. Key(s) # Key(r)
      BY <2>2, <2>4, <3>1
    <3>3. QED BY <1>1, <3>1, <3>2 DEF IInv, HoldingMoves, TypeOK
  <2>5. QED BY <2>3, <2>4
<1>4. Recorders'
  BY <1>1, <1>2 DEF IInv, Recorders, HoldingMoves, Quiet, At, Key
<1>5. Settled'
  BY <1>1 DEF IInv, Settled, HoldingMoves
<1>6. AcceptedIsAnswered'
  BY <1>1, <1>2, QuietKeeps DEF IInv, AcceptedIsAnswered, HoldingMoves
<1>7. IndexLeads'
  BY <1>1, <1>2, QuietKeeps DEF IInv, IndexLeads, HoldingMoves
<1>8. Looked'
  BY <1>1, <1>2, QuietKeeps DEF IInv, Looked, HoldingMoves, Stays, Key
<1>9. QED BY <1>1, <1>3, <1>4, <1>5, <1>6, <1>7, <1>8 DEF IInv

LEMMA SubmitsKeeps ==
    ASSUME IInv, NEW r \in Requests, Submits(r)
    PROVE  IInv'
<1>1. TypeOK /\ TypeOK'
  BY HoldsType DEF IInv, Holds
<1>2. /\ request[r].pc = "submit"
      /\ request'[r].pc = "record" /\ request'[r].key = Key(r) /\ request'[r].id = made + 1
      /\ \A s \in Requests \ {r} : request'[s] = request[s]
  BY <1>1, RequestShapes DEF Submits, At, Key, TypeOK, Request
<1>3. /\ made' = made + 1 /\ made \in Nat /\ made + 1 \in Ids
      /\ keyOf'[made + 1] = Key(r)
      /\ \A q \in 1..made : q \in Ids /\ keyOf'[q] = keyOf[q] /\ engine'[q] = engine[q]
      /\ \A q \in Ids : engine[q] = "failed" => q = made + 1 \/ engine'[q] = "failed"
  BY <1>1, IdsAreNumbers DEF Submits, TypeOK
<1>4. UNCHANGED <<jobs, byKey, claims, done, old, poller>>
  BY DEF Submits
<1>5. OneSubmitter'
  <2>1. SUFFICES ASSUME NEW s \in Requests, request'[s].pc \in Submitting
                 PROVE  claims'[request'[s].key] = s
    BY DEF OneSubmitter, Key
  <2>2. request[s].pc \in Submitting /\ request'[s].key = Key(s) /\ Key(s) \in Keys
    BY <1>2, <2>1, RequestShapes DEF IInv, Submitting, Key
  <2>3. QED BY <1>4, <2>2 DEF IInv, OneSubmitter
<1>6. Recorders'
  <2>1. SUFFICES ASSUME NEW s \in Requests, request'[s].pc = "record"
                 PROVE  /\ request'[s].id \in 1..made'
                        /\ keyOf'[request'[s].id] = request'[s].key
                        /\ \A q \in 1..made' :
                             keyOf'[q] = request'[s].key => q <= request'[s].id
    BY DEF Recorders, At, Key
  <2>2. CASE s = r
    BY <1>2, <1>3, <2>2
  <2>3. CASE s # r
    <3>1. /\ request[s].id \in 1..made /\ keyOf[request[s].id] = Key(s)
          /\ \A q \in 1..made : keyOf[q] = Key(s) => q <= request[s].id
          /\ request'[s] = request[s] /\ request'[s].key = Key(s)
      BY <1>2, <2>1, <2>3 DEF IInv, Recorders, At, Key
    <3>2. Key(s) # Key(r)
      BY <1>2, <2>1, <2>3, <3>1, RequestShapes DEF IInv, OneSubmitter, Submitting
    <3>3. QED BY <1>3, <3>1, <3>2
  <2>4. QED BY <2>2, <2>3
\* The job made is not recorded yet: what is recorded stays.
<1>7. /\ \A k : Recorded(k)' = Recorded(k)
      /\ \A q, k : IsLatest(q, k)' <=> IsLatest(q, k)
      /\ \A q : Known(q)' => Known(q) /\ q \in 1..made
  <2>1. \A q \in 1..made :
          (\E s \in Requests : request'[s].pc = "record" /\ request'[s].id = q)
             <=> (\E s \in Requests : request[s].pc = "record" /\ request[s].id = q)
    BY <1>2, <1>3
  <2>2. \A k : Recorded(k)' = Recorded(k)
    BY <1>2, <1>3, <2>1 DEF Recorded, At
  <2>3. \A k : Recorded(k) \subseteq 1..made
    BY DEF Recorded
  <2>4. QED BY <1>3, <2>2, <2>3 DEF IsLatest, Known
<1>8. Settled'
  <2>1. SUFFICES ASSUME NEW p \in Pollers
                 PROVE  /\ poller[p].pc # "idle" => poller[p].id \in 1..made'
                        /\ poller[p].pc = "settle" => poller[p].id \in done \cup old
                             \/ engine'[poller[p].id] = "failed"
    BY <1>4 DEF Settled
  <2>2. QED BY <1>3 DEF IInv, Settled, TypeOK, Poller
<1>9. AcceptedIsAnswered'
  BY <1>3, <1>4, <1>7 DEF IInv, AcceptedIsAnswered
<1>10. IndexLeads'
  BY <1>4, <1>7 DEF IInv, IndexLeads
<1>11. Looked'
  BY <1>2, <1>4, <1>7 DEF IInv, Looked, Key
<1>12. QED BY <1>1, <1>5, <1>6, <1>8, <1>9, <1>10, <1>11 DEF IInv

\* Until it is recorded, nobody else records the same job.
LEMMA RecordsAlone ==
    ASSUME IInv, NEW r \in Requests, NEW s \in Requests \ {r},
           At(r, "record"), At(s, "record")
    PROVE  request[s].id # request[r].id /\ Key(s) # Key(r)
<1>1. Key(r) \in Keys /\ Key(s) \in Keys
  BY RequestShapes DEF IInv
<1>2. claims[Key(r)] = r /\ claims[Key(s)] = s
  BY <1>1 DEF IInv, OneSubmitter, Submitting, At
<1>3. keyOf[request[r].id] = Key(r) /\ keyOf[request[s].id] = Key(s)
  BY DEF IInv, Recorders
<1>4. QED BY <1>2, <1>3

LEMMA RecordsKeeps ==
    ASSUME IInv, NEW r \in Requests, Records(r)
    PROVE  IInv'
<1> DEFINE id == request[r].id
<1>1. TypeOK /\ TypeOK'
  BY HoldsType DEF IInv, Holds
<1>2. /\ request[r].pc = "record" /\ request'[r].pc = "release" /\ request'[r].key = Key(r)
      /\ \A s \in Requests \ {r} :
           /\ request'[s].pc = request[s].pc /\ request'[s].key = Key(s)
           /\ request'[s].id = request[s].id /\ request'[s].stale = request[s].stale
           /\ IF Key(s) = Key(r) THEN request'[s].overtaken
              ELSE request'[s].overtaken = request[s].overtaken
  <2>1. request[r].pc = "record" /\ request'[r] = Leaving(r)
    BY DEF Records, At
  <2>2. ASSUME NEW s \in Requests \ {r}
        PROVE  /\ request'[s].pc = request[s].pc /\ request'[s].key = Key(s)
               /\ request'[s].id = request[s].id /\ request'[s].stale = request[s].stale
               /\ IF Key(s) = Key(r) THEN request'[s].overtaken
                  ELSE request'[s].overtaken = request[s].overtaken
    <3>1. request[s] \in Request
      BY <1>1, RequestShapes
    <3>2. QED BY <3>1 DEF Records, Key, Request
  <2>3. QED BY <1>1, <2>1, <2>2, RequestShapes
<1>3. /\ id \in 1..made /\ keyOf[id] = Key(r) /\ Key(r) \in Keys
      /\ \A q \in 1..made : keyOf[q] = Key(r) => q <= id
  BY <1>2, RequestShapes DEF IInv, Recorders, At
<1>4. /\ jobs' = jobs \cup {id} /\ byKey' = [byKey EXCEPT ![Key(r)] = id]
      /\ UNCHANGED <<keyOf, made, claims, done, old, engine, poller>>
  BY DEF Records, outside
<1>5. /\ \A k : Recorded(k) \subseteq Recorded(k)' /\ Recorded(k)' \subseteq Recorded(k) \cup {id}
      /\ \A k : k = Key(r) => id \in Recorded(k)'
      /\ \A k : k # Key(r) => Recorded(k)' = Recorded(k)
  <2>1. \A s \in Requests : request'[s].pc = "record" <=> s # r /\ request[s].pc = "record"
    BY <1>2
  <2>2. \A s \in Requests \ {r} : request[s].pc = "record" => request[s].id # id
    BY <1>2, RecordsAlone DEF At
  <2>3. \A q, k : q \in Recorded(k)' <=>
          /\ q \in 1..made /\ keyOf[q] = k
          /\ ~ \E s \in Requests \ {r} : request[s].pc = "record" /\ request[s].id = q
    BY <1>2, <1>4, <2>1 DEF Recorded, At
  <2>4. \A q, k : q \in Recorded(k) <=>
          /\ q \in 1..made /\ keyOf[q] = k /\ q # id
          /\ ~ \E s \in Requests \ {r} : request[s].pc = "record" /\ request[s].id = q
    BY <1>2 DEF Recorded, At
  <2>5. \A k : Recorded(k) \subseteq Recorded(k)' /\ Recorded(k)' \subseteq Recorded(k) \cup {id}
    BY <2>3, <2>4
  <2>6. \A k : k = Key(r) => id \in Recorded(k)'
    BY <1>3, <2>2, <2>3
  <2>7. \A k : k # Key(r) => Recorded(k)' = Recorded(k)
    <3>1. \A q, k : k # Key(r) => (q \in Recorded(k)' <=> q \in Recorded(k))
      BY <1>3, <2>3, <2>4
    <3>2. QED BY <3>1
  <2>8. QED BY <2>5, <2>6, <2>7
<1>6. OneSubmitter'
  BY <1>2, <1>4 DEF IInv, OneSubmitter, Submitting, Key
<1>7. Recorders'
  BY <1>2, <1>4 DEF IInv, Recorders, At, Key
<1>8. Settled'
  BY <1>4 DEF IInv, Settled
<1>9. AcceptedIsAnswered'
  BY <1>4, <1>5 DEF IInv, AcceptedIsAnswered, Known
<1>10. \A q, k : k # Key(r) => (IsLatest(q, k)' <=> IsLatest(q, k))
  BY <1>5 DEF IsLatest
<1>11. IndexLeads'
  <2>1. SUFFICES ASSUME NEW k \in Keys, NEW q \in jobs', IsLatest(q, k)'
                 PROVE  byKey'[k] = q
    BY DEF IndexLeads
  <2>2. CASE k = Key(r)
    <3>1. q \in 1..made /\ keyOf[q] = Key(r) /\ id <= q
      BY <1>4, <1>5, <2>1, <2>2 DEF IsLatest, Recorded
    <3>2. q = id
      BY <1>1, <1>3, <3>1 DEF TypeOK
    <3>3. QED BY <1>1, <1>3, <1>4, <2>2, <3>2 DEF TypeOK
  <2>3. CASE k # Key(r)
    <3>1. q # id
      BY <1>3, <1>4, <2>1, <2>3 DEF IsLatest, Recorded
    <3>2. q \in jobs /\ IsLatest(q, k)
      BY <1>4, <1>10, <2>1, <2>3, <3>1
    <3>3. QED BY <1>1, <1>4, <2>3, <3>2 DEF IInv, IndexLeads, TypeOK
  <2>4. QED BY <2>2, <2>3
<1>12. Looked'
  <2>1. SUFFICES ASSUME NEW s \in Requests, request'[s].pc \in {"claim", "probe"},
                        ~ request'[s].stale, ~ request'[s].overtaken, NEW q \in jobs',
                        NEW k, k = request'[s].key, IsLatest(q, k)'
                 PROVE  FALSE
    BY DEF Looked, Key
  <2>2. s # r /\ Key(s) # Key(r) /\ k = Key(s)
    BY <1>2, <2>1
  <2>3. q # id
    BY <1>3, <1>4, <2>1, <2>2 DEF IsLatest, Recorded
  <2>4. q \in jobs /\ IsLatest(q, Key(s))
    BY <1>4, <1>10, <2>1, <2>2, <2>3
  <2>5. QED BY <1>2, <2>1, <2>2, <2>4 DEF IInv, Looked
<1>13. QED BY <1>1, <1>6, <1>7, <1>8, <1>9, <1>11, <1>12 DEF IInv

\* A poller: the requests keep what the invariant speaks of.
LEMMA PollLeaves ==
    ASSUME TypeOK, NEW p \in Pollers, PollStep(p)
    PROVE  /\ \A s \in Requests : Stays(s)
           /\ UNCHANGED <<made, keyOf, claims, engine>>
           /\ jobs' \subseteq jobs
<1>1. \A s \in Requests : request[s] \in Request
  BY RequestShapes
<1>2. CASE PollRemembers(p)
  BY <1>1, <1>2 DEF PollRemembers, Stays, Request, outside
<1>3. CASE PollDeletes(p)
  BY <1>3 DEF PollDeletes, Stays, outside
<1>4. CASE (\E q \in Ids : PollBegins(p, q)) \/ PollHears(p) \/ PollLearnsNothing(p)
           \/ PollFinds(p)
  BY <1>4 DEF PollBegins, PollHears, PollLearnsNothing, PollFinds, Stays, tables, outside
<1>5. QED BY <1>2, <1>3, <1>4 DEF PollStep

\* Results come and go, answers stay; a job leaves the table when it has one.
PollAnswers(p) ==
    /\ done \cup old \subseteq (done \cup old)'
    /\ \A q \in jobs \ jobs' : q \in done \cup old \/ engine[q] = "failed"
    /\ \A other \in Pollers \ {p} : poller'[other] = poller[other]
    /\ poller'[p].pc # "idle" => poller'[p].id \in 1..made
    /\ poller'[p].pc = "settle" =>
         poller'[p].id \in (done \cup old)' \/ engine[poller'[p].id] = "failed"
    /\ \A k \in Keys : byKey[k] \in jobs' => byKey'[k] = byKey[k]

LEMMA PollSteps ==
    ASSUME IInv, NEW p \in Pollers, PollStep(p)
    PROVE  PollAnswers(p)
<1>1. /\ poller \in [Pollers -> Poller] /\ poller[p] \in Poller
      /\ poller[p].pc # "idle" => poller[p].id \in 1..made
  BY DEF IInv, TypeOK, Settled
<1>2. ASSUME NEW q \in Ids, PollBegins(p, q) PROVE PollAnswers(p)
  <2>1. poller'[p] = IF q \in jobs THEN [pc |-> "asked", id |-> q] ELSE poller[p]
    BY <1>1, <1>2 DEF PollBegins
  <2>2. poller'[p].pc # "settle" /\ (poller'[p].pc # "idle" => poller'[p].id \in 1..made)
    BY <1>1, <1>2, <2>1 DEF PollBegins
  <2>3. \A other \in Pollers \ {p} : poller'[other] = poller[other]
    BY <1>1, <1>2 DEF PollBegins
  <2>4. QED BY <1>2, <2>2, <2>3 DEF PollBegins, PollAnswers
<1>3. CASE PollHears(p)
  <2>1. poller'[p].id = poller[p].id /\ poller[p].pc # "idle"
        /\ (poller'[p].pc = "settle" => engine[poller[p].id] = "failed")
        /\ \A other \in Pollers \ {p} : poller'[other] = poller[other]
    BY <1>1, <1>3 DEF PollHears, Poller
  <2>2. QED BY <1>1, <1>3, <2>1 DEF PollHears, PollAnswers, tables
<1>4. CASE PollLearnsNothing(p)
  BY <1>1, <1>4 DEF PollLearnsNothing, PollAnswers, tables, IdlePoller
<1>5. CASE PollFinds(p)
  <2>1. poller'[p].id = poller[p].id /\ poller[p].pc # "idle" /\ poller'[p].pc = "found"
        /\ \A other \in Pollers \ {p} : poller'[other] = poller[other]
    BY <1>1, <1>5 DEF PollFinds, Poller
  <2>2. QED BY <1>1, <1>5, <2>1 DEF PollFinds, PollAnswers, tables
<1>6. CASE PollRemembers(p)
  <2>1. poller'[p].id = poller[p].id /\ poller[p].pc # "idle"
        /\ \A other \in Pollers \ {p} : poller'[other] = poller[other]
    BY <1>1, <1>6 DEF PollRemembers, Poller
  <2>2. QED BY <1>1, <1>6, <2>1 DEF PollRemembers, PollAnswers
<1>7. CASE PollDeletes(p)
  <2>1. poller[p].id \in done \cup old \/ engine[poller[p].id] = "failed"
    BY <1>7 DEF PollDeletes, IInv, Settled
  <2>2. poller'[p].pc = "idle" /\ \A other \in Pollers \ {p} : poller'[other] = poller[other]
    BY <1>1, <1>7 DEF PollDeletes, IdlePoller
  <2>3. \A k \in Keys : byKey[k] \in jobs' => byKey'[k] = byKey[k]
    BY <1>7 DEF PollDeletes, WithoutOwnEntry, IInv, TypeOK
  <2>4. QED BY <1>7, <2>1, <2>2, <2>3 DEF PollDeletes, PollAnswers
<1>8. QED BY <1>2, <1>3, <1>4, <1>5, <1>6, <1>7 DEF PollStep

LEMMA PollKeeps ==
    ASSUME IInv, NEW p \in Pollers, PollStep(p)
    PROVE  IInv'
<1>1. TypeOK /\ TypeOK' /\ PollAnswers(p)
  BY PollType, PollSteps DEF IInv
<1>2. /\ \A s \in Requests : Stays(s)
      /\ UNCHANGED <<made, keyOf, claims, engine>> /\ jobs' \subseteq jobs
  BY <1>1, PollLeaves
<1>3. Quiet
  BY <1>2 DEF Quiet, Stays, At
<1>4. OneSubmitter'
  BY <1>2 DEF IInv, OneSubmitter, Stays, Key
<1>5. Recorders'
  BY <1>2, <1>3 DEF IInv, Recorders, Stays, At, Key
<1>6. Looked'
  BY <1>2, <1>3, QuietKeeps DEF IInv, Looked, Stays, Key
<1>7. Settled'
  <2>1. SUFFICES ASSUME NEW o \in Pollers
                 PROVE  /\ poller'[o].pc # "idle" => poller'[o].id \in 1..made
                        /\ poller'[o].pc = "settle" =>
                             poller'[o].id \in (done \cup old)'
                             \/ engine[poller'[o].id] = "failed"
    BY <1>2 DEF Settled
  <2>2. CASE o = p
    BY <1>1, <2>2 DEF PollAnswers
  <2>3. CASE o # p
    BY <1>1, <2>3 DEF PollAnswers, IInv, Settled
  <2>4. QED BY <2>2, <2>3
<1>8. AcceptedIsAnswered'
  BY <1>1, <1>2, <1>3, QuietKeeps DEF IInv, AcceptedIsAnswered, PollAnswers
<1>9. IndexLeads'
  BY <1>1, <1>2, <1>3, QuietKeeps DEF IInv, IndexLeads, PollAnswers
<1>10. QED BY <1>1, <1>4, <1>5, <1>6, <1>7, <1>8, <1>9 DEF IInv

LEMMA OutsideKeeps ==
    ASSUME IInv, OutsideStep
    PROVE  IInv'
<1>1. TypeOK /\ TypeOK'
  BY OutsideType DEF IInv
<1>2. /\ UNCHANGED <<jobs, keyOf, byKey, claims, done, made, request, poller>>
      /\ old \subseteq old'
      /\ \A q \in Ids : engine[q] = "failed" => engine'[q] = "failed"
  BY <1>1 DEF OutsideStep, EngineFails, ResultAges, FileAppears, FileVanishes, tables, outside,
              TypeOK
<1>3. Quiet
  BY <1>2 DEF Quiet, At
<1>4. 1..made \subseteq Ids
  BY <1>1, IdsAreNumbers DEF TypeOK
<1>5. OneSubmitter' /\ Recorders' /\ Looked'
  BY <1>2, <1>3, QuietKeeps DEF IInv, OneSubmitter, Recorders, Looked, Key, At
<1>6. Settled' /\ AcceptedIsAnswered' /\ IndexLeads'
  BY <1>2, <1>3, <1>4, QuietKeeps DEF IInv, Settled, AcceptedIsAnswered, IndexLeads
<1>7. QED BY <1>1, <1>5, <1>6 DEF IInv

-----------------------------------------------------------------------------
(* The invariant, and what follows from it. *)

LEMMA InvInit == Init => IInv
<1> SUFFICES ASSUME Init PROVE IInv
  OBVIOUS
<1>1. TypeOK
  BY TypeInit
<1>2. made = 0 /\ jobs = {} /\ (\A r \in Requests : request[r].pc = "idle")
      /\ (\A p \in Pollers : poller[p].pc = "idle")
  BY DEF Init, IdleRequest, IdlePoller
<1>3. OneSubmitter /\ Recorders /\ Settled
  BY <1>2 DEF OneSubmitter, Recorders, Settled, Submitting, At
<1>4. AcceptedIsAnswered /\ IndexLeads /\ Looked
  BY <1>2 DEF AcceptedIsAnswered, IndexLeads, Looked
<1>5. QED BY <1>1, <1>3, <1>4 DEF IInv

LEMMA InvStep == IInv /\ [Next]_vars => IInv'
<1> SUFFICES ASSUME IInv, [Next]_vars PROVE IInv'
  OBVIOUS
<1>1. CASE Next
  BY <1>1, NextSplits, LookingKeeps, HoldingKeeps, SubmitsKeeps, RecordsKeeps, PollKeeps,
     OutsideKeeps DEF Holds
<1>2. CASE UNCHANGED vars
  <2>1. Quiet
    BY <1>2 DEF vars, tables, outside, Quiet, At
  <2>2. TypeOK' /\ OneSubmitter' /\ Recorders' /\ Settled'
    BY <1>2 DEF IInv, vars, tables, outside, TypeOK, OneSubmitter, Recorders, Settled, Key, At
  <2>3. AcceptedIsAnswered' /\ IndexLeads' /\ Looked'
    BY <1>2, <2>1, QuietKeeps
    DEF IInv, vars, tables, outside, AcceptedIsAnswered, IndexLeads, Looked, Key
  <2>4. QED BY <2>2, <2>3 DEF IInv
<1>3. QED BY <1>1, <1>2

LEMMA Invariant == Spec => []IInv
BY InvInit, InvStep, PTL DEF Spec

-----------------------------------------------------------------------------
(* Claims and those who wait for them *)

\* A claim belongs to a request that is working on it, and who waits, waits for one.
Claimed ==
    /\ \A k \in Keys : claims[k] # Nobody =>
         Key(claims[k]) = k /\ request[claims[k]].pc \in Submitting
    /\ \A r \in Requests : At(r, "wait") => claims[Key(r)] # Nobody

\* A request does not begin or end to hold a claim, and does not begin to wait.
HoldsOn(s) ==
    /\ request[s].pc \in Submitting =>
         request'[s].pc \in Submitting /\ request'[s].key = request[s].key
    /\ request'[s].pc = "wait" =>
         request[s].pc = "wait" /\ request'[s].key = request[s].key

LEMMA ClaimSteps ==
    ASSUME TypeOK, [Next]_vars,
           ~ \E r \in Requests : Claims(r) \/ Waits(r) \/ Releases(r)
    PROVE  claims' = claims /\ \A s \in Requests : HoldsOn(s)
<1>1. request \in [Requests -> Request] /\ \A s \in Requests : request[s] \in Request
  BY DEF TypeOK
<1>2. CASE request' = request /\ claims' = claims
  BY <1>2 DEF HoldsOn
<1>3. CASE UNCHANGED vars \/ OutsideStep
  BY <1>2, <1>3 DEF vars, tables, outside, OutsideStep, EngineFails, ResultAges, FileAppears,
                    FileVanishes
<1>4. ASSUME NEW p \in Pollers, PollStep(p)
      PROVE  claims' = claims /\ \A s \in Requests : HoldsOn(s)
  BY <1>4, PollLeaves DEF Stays, HoldsOn
<1>5. ASSUME NEW r \in Requests, LookingStep(r)
      PROVE  claims' = claims /\ \A s \in Requests : HoldsOn(s)
  <2>1. LookingMoves(r) /\ ~ Claims(r) /\ ~ Waits(r)
    BY <1>5, LookingSteps
  <2>2. claims' = claims
    BY <1>5, <2>1 DEF LookingStep, Begins, LooksAtResult, LooksAtJobs, ResultIsThere,
                      ResultIsStale, GivesUpWaiting, tables
  <2>3. request'[r].pc # "wait"
    <3>1. CASE \E k \in Keys : Begins(r, k)
      BY <1>1, <3>1 DEF Begins, IdleRequest
    <3>2. CASE LooksAtResult(r)
      BY <1>1, <3>2 DEF LooksAtResult, Request
    <3>3. CASE LooksAtJobs(r)
      <4>1. \/ request'[r] = IdleRequest
            \/ request'[r] = [request[r] EXCEPT !.pc = "claim", !.overtaken = FALSE,
                                                !.stale = FALSE]
        BY <1>1, <3>3 DEF LooksAtJobs
      <4>2. IdleRequest.pc = "idle"
        BY DEF IdleRequest
      <4>3. [request[r] EXCEPT !.pc = "claim", !.overtaken = FALSE, !.stale = FALSE].pc = "claim"
        BY <1>1 DEF Request
      <4>4. QED BY <4>1, <4>2, <4>3
    <3>4. CASE ResultIsStale(r)
      <4>1. request'[r] = [request[r] EXCEPT !.pc = "claim", !.stale = TRUE, !.same = FALSE]
        BY <1>1, <3>4 DEF ResultIsStale
      <4>2. QED BY <1>1, <4>1 DEF Request
    <3>5. CASE ResultIsThere(r) \/ GivesUpWaiting(r)
      BY <1>1, <3>5 DEF ResultIsThere, GivesUpWaiting, IdleRequest
    <3>6. \/ \E k \in Keys : Begins(r, k)
          \/ LooksAtResult(r) \/ LooksAtJobs(r) \/ ResultIsStale(r)
          \/ ResultIsThere(r) \/ GivesUpWaiting(r)
      BY <1>5, <2>1 DEF LookingStep
    <3>7. QED BY <3>1, <3>2, <3>3, <3>4, <3>5, <3>6
  <2>4. QED BY <2>1, <2>2, <2>3 DEF LookingMoves, Stays, HoldsOn, Submitting
<1>6. ASSUME NEW r \in Requests, FindsExisting(r) \/ FindsNothing(r) \/ SubmitFails(r)
      PROVE  claims' = claims /\ \A s \in Requests : HoldsOn(s)
  <2>1. /\ request[r].pc \in {"probe", "submit"}
        /\ request'[r].pc \in {"submit", "release"} /\ request'[r].key = Key(r)
        /\ \A s \in Requests \ {r} : request'[s] = request[s]
    <3>1. CASE FindsExisting(r) \/ SubmitFails(r)
      BY <1>1, <3>1, RequestShapes DEF FindsExisting, SubmitFails, At
    <3>2. CASE FindsNothing(r)
      BY <1>1, <3>2 DEF FindsNothing, At, Key, Request
    <3>3. QED BY <1>6, <3>1, <3>2
  <2>2. claims' = claims
    BY <1>6 DEF FindsExisting, FindsNothing, SubmitFails, tables
  <2>3. QED BY <2>1, <2>2 DEF HoldsOn, Submitting, Key
<1>7. ASSUME NEW r \in Requests, Submits(r)
      PROVE  claims' = claims /\ \A s \in Requests : HoldsOn(s)
  <2>1. /\ request[r].pc = "submit" /\ request'[r].pc = "record" /\ request'[r].key = Key(r)
        /\ \A s \in Requests \ {r} : request'[s] = request[s]
    BY <1>1, <1>7 DEF Submits, At, Key, Request
  <2>2. QED BY <1>7, <2>1 DEF Submits, HoldsOn, Submitting, Key
<1>8. ASSUME NEW r \in Requests, Records(r)
      PROVE  claims' = claims /\ \A s \in Requests : HoldsOn(s)
  <2>1. request[r].pc = "record" /\ request'[r] = Leaving(r)
    BY <1>8 DEF Records, At
  <2>2. ASSUME NEW s \in Requests \ {r}
        PROVE  request'[s].pc = request[s].pc /\ request'[s].key = request[s].key
    BY <1>1, <1>8 DEF Records, Request
  <2>3. Leaving(r).pc = "release" /\ Leaving(r).key = Key(r)
    BY RequestShapes
  <2>4. QED BY <1>8, <2>1, <2>2, <2>3 DEF Records, HoldsOn, Submitting, Key
<1>9. QED BY <1>3, <1>4, <1>5, <1>6, <1>7, <1>8, NextSplits DEF Holds

LEMMA ClaimedStep == IInv /\ Claimed /\ [Next]_vars => Claimed'
<1> SUFFICES ASSUME IInv, Claimed, [Next]_vars PROVE Claimed'
  OBVIOUS
<1>1. /\ TypeOK /\ request \in [Requests -> Request] /\ claims \in [Keys -> Requests \cup {Nobody}]
      /\ \A s \in Requests : request[s] \in Request /\ Key(s) \in Keys
  BY RequestShapes DEF IInv, TypeOK
<1>2. ASSUME NEW r \in Requests, Claims(r) PROVE Claimed'
  <2>1. /\ At(r, "claim") /\ claims[Key(r)] = Nobody /\ claims' = [claims EXCEPT ![Key(r)] = r]
        /\ request' = [request EXCEPT ![r].pc = "probe"]
    BY <1>2 DEF Claims, Unclaimed
  <2>2. /\ request'[r].pc = "probe" /\ request'[r].key = Key(r)
        /\ \A s \in Requests \ {r} : request'[s] = request[s]
    BY <1>1, <2>1 DEF Request, Key
  <2>3. \A k \in Keys : k # Key(r) => claims[k] # r
    BY <1>1, <2>1, JobsAssumption DEF Claimed, At, Submitting
  <2>4. claims'[Key(r)] = r /\ r # Nobody /\ \A k \in Keys \ {Key(r)} : claims'[k] = claims[k]
    BY <1>1, <2>1, JobsAssumption
  <2>5. ASSUME NEW k \in Keys, claims'[k] # Nobody
        PROVE  request'[claims'[k]].key = k /\ request'[claims'[k]].pc \in Submitting
    <3>1. CASE k = Key(r)
      BY <2>2, <2>4, <3>1 DEF Submitting
    <3>2. CASE k # Key(r)
      <4>1. claims[k] \in Requests \ {r} /\ claims'[k] = claims[k]
        BY <1>1, <2>3, <2>4, <2>5, <3>2
      <4>2. QED BY <2>2, <2>5, <4>1 DEF Claimed, Key
    <3>3. QED BY <3>1, <3>2
  <2>6. ASSUME NEW s \in Requests, request'[s].pc = "wait"
        PROVE  claims'[request'[s].key] # Nobody
    <3>1. s # r /\ request'[s] = request[s] /\ Key(s) \in Keys /\ claims[Key(s)] # Nobody
      BY <1>1, <2>2, <2>6 DEF Claimed, At
    <3>2. QED BY <2>1, <2>4, <3>1 DEF Key
  <2>7. QED BY <2>5, <2>6 DEF Claimed, Key, At
<1>3. ASSUME NEW r \in Requests, Waits(r) PROVE Claimed'
  <2>1. /\ At(r, "claim") /\ claims[Key(r)] # Nobody /\ claims' = claims
        /\ request' = [request EXCEPT ![r].pc = "wait"]
    BY <1>3 DEF Waits, Unclaimed, tables
  <2>2. /\ request'[r].pc = "wait" /\ request'[r].key = Key(r)
        /\ \A s \in Requests \ {r} : request'[s] = request[s]
    BY <1>1, <2>1 DEF Request, Key
  <2>3. \A k \in Keys : claims[k] # Nobody => claims[k] \in Requests \ {r}
    BY <1>1, <2>1 DEF Claimed, At, Submitting
  <2>4. QED BY <2>1, <2>2, <2>3 DEF Claimed, Key, At
<1>4. ASSUME NEW r \in Requests, Releases(r) PROVE Claimed'
  <2>1. /\ At(r, "release") /\ claims' = [claims EXCEPT ![Key(r)] = Nobody]
        /\ request'[r] = IdleRequest
        /\ \A s \in Requests \ {r} :
             IF At(s, "wait") /\ Key(s) = Key(r)
             THEN request'[s] = [request[s] EXCEPT !.pc = "look"]
             ELSE request'[s] = request[s]
    BY <1>4 DEF Releases
  <2>2. claims[Key(r)] = r
    BY <1>1, <2>1 DEF IInv, OneSubmitter, At, Submitting
  <2>3. claims'[Key(r)] = Nobody /\ \A k \in Keys \ {Key(r)} : claims'[k] = claims[k]
    BY <1>1, <2>1
  <2>4. ASSUME NEW k \in Keys, claims'[k] # Nobody
        PROVE  request'[claims'[k]].key = k /\ request'[claims'[k]].pc \in Submitting
    <3>1. k # Key(r) /\ claims'[k] = claims[k] /\ claims[k] \in Requests
      BY <1>1, <2>3, <2>4
    <3>2. Key(claims[k]) = k /\ request[claims[k]].pc \in Submitting
      BY <2>4, <3>1 DEF Claimed
    <3>3. claims[k] # r /\ ~ At(claims[k], "wait")
      BY <3>1, <3>2 DEF At, Submitting
    <3>4. QED BY <2>1, <3>1, <3>2, <3>3 DEF Key
  <2>5. ASSUME NEW s \in Requests, request'[s].pc = "wait"
        PROVE  claims'[request'[s].key] # Nobody
    <3>1. s # r
      BY <2>1, <2>5 DEF IdleRequest
    <3>2. ~ (At(s, "wait") /\ Key(s) = Key(r))
      BY <1>1, <2>1, <2>5, <3>1 DEF Request
    <3>3. request'[s] = request[s] /\ At(s, "wait") /\ Key(s) # Key(r)
      BY <2>1, <2>5, <3>1, <3>2 DEF At
    <3>4. QED BY <1>1, <2>3, <3>3 DEF Claimed, Key
  <2>6. QED BY <2>4, <2>5 DEF Claimed, Key, At
<1>5. CASE ~ \E r \in Requests : Claims(r) \/ Waits(r) \/ Releases(r)
  <2>1. claims' = claims /\ \A s \in Requests : HoldsOn(s)
    BY <1>1, <1>5, ClaimSteps
  <2>2. \A k \in Keys : claims[k] # Nobody => claims[k] \in Requests
    BY <1>1
  <2>3. QED BY <1>1, <2>1, <2>2 DEF Claimed, HoldsOn, Key, At
<1>6. QED BY <1>2, <1>3, <1>4, <1>5

LEMMA ClaimedInvariant == Spec => [](IInv /\ Claimed)
<1>1. Init => Claimed
  BY DEF Init, Claimed, IdleRequest, At
<1>2. QED BY <1>1, ClaimedStep, Invariant, PTL DEF Spec

-----------------------------------------------------------------------------
(* The theorems *)

\* The tables of jobs, results and claims hold what they are declared for.
THEOREM TypeCorrect == Spec => []TypeOK
<1>1. IInv => TypeOK
  BY DEF IInv
<1>2. QED BY <1>1, Invariant, PTL

\* Two requests for one NZB are never submitting it at the same time.
THEOREM SubmissionsTakeTurns == Spec => []OneSubmitter
<1>1. IInv => OneSubmitter
  BY DEF IInv
<1>2. QED BY <1>1, Invariant, PTL

\* A queue identifier that was handed out stays good for an answer, whichever pollers
\* settle and delete the job and whenever its result ages.
THEOREM EveryQueueIdIsAnswered == Spec => []AcceptedIsAnswered
<1>1. IInv => AcceptedIsAnswered
  BY DEF IInv
<1>2. QED BY <1>1, Invariant, PTL

\* A submission runs beside an active job of its NZB only if that job is not the latest,
\* was recorded after the request looked, or was never looked for.
THEOREM LatestJobIsReused == Spec => LastJobIsReused
<1> DEFINE Kept == \A r \in Requests :
                     Enters(r) /\ ~ request[r].stale /\ ~ request[r].overtaken =>
                        \A q \in jobs : ~ IsLatest(q, Key(r))
<1>1. IInv => Kept
  BY DEF IInv, Looked, Enters, At
<1>2. Spec => [][Kept]_vars
  BY <1>1, Invariant, PTL
<1>3. QED BY <1>2 DEF LastJobIsReused

\* Who waits for a channel of externalClaims waits for another request, which is on its
\* way to close it, and not for one that has ended or that waits itself.
WaitsForWork ==
    \A r \in Requests : At(r, "wait") =>
        \E s \in Requests \ {r} : Key(s) = Key(r) /\ request[s].pc \in Submitting

\* The safety half of ClaimIsReleased: no claim outlives the request that made it, so that
\* nobody waits in vain, nor in a circle, for any number of requests and NZBs.
THEOREM WaitsForWorkTheorem == Spec => []WaitsForWork
<1>1. IInv /\ Claimed => WaitsForWork
  <2> SUFFICES ASSUME IInv, Claimed, NEW r \in Requests, At(r, "wait")
               PROVE  \E s \in Requests \ {r} : Key(s) = Key(r) /\ request[s].pc \in Submitting
    BY DEF WaitsForWork
  <2>1. Key(r) \in Keys /\ claims[Key(r)] # Nobody /\ claims[Key(r)] \in Requests
    BY RequestShapes DEF IInv, TypeOK, Claimed
  <2>2. /\ Key(claims[Key(r)]) = Key(r) /\ request[claims[Key(r)]].pc \in Submitting
        /\ claims[Key(r)] # r
    BY <2>1 DEF Claimed, At, Submitting
  <2>3. QED BY <2>1, <2>2
<1>2. QED BY <1>1, ClaimedInvariant, PTL
=============================================================================
