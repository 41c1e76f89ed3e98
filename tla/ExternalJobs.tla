----------------------------- MODULE ExternalJobs -----------------------------
(***************************************************************************)
(* Releases handed to an external usenet engine: resolveExternalUsenet and  *)
(* externalQueueStatus of backend/services/playback/service.go. Requests    *)
(* submit a release, at most one at a time for each NZB; pollers ask the    *)
(* engine about the job until its stream shows up on the engine's WebDAV    *)
(* share, and leave the result in two caches.                              *)
(*                                                                         *)
(* externalMu is held for one step at a time. The engine and the share are  *)
(* outside services: they change on their own, and a call to them may fail. *)
(***************************************************************************)
EXTENDS Naturals, FiniteSets

CONSTANTS
    Keys,     \* reuse keys: engine, category and hash of the NZB
    Requests, \* bound: calls of Resolve in progress at one time
    Pollers,  \* bound: calls of QueueStatus in progress at one time
    Nobody,
    MaxJobs   \* bound: jobs submitted over a behaviour

ASSUME JobsAssumption ==
    /\ Keys # {}
    /\ Nobody \notin Requests
    /\ MaxJobs \in Nat

Ids == 1..MaxJobs
NoJob == 0
NoKey == CHOOSE k \in Keys : TRUE

VARIABLES
    jobs,     \* externalJobs: identifiers in the map
    keyOf,    \* ReuseKey of each job
    byKey,    \* externalByKey
    claims,   \* externalClaims, by the request that put the channel there
    ready,    \* externalReady, by the job whose result it is
    done,     \* externalDone: jobs with a result
    old,      \* jobs whose result is older than externalResolutionCacheTTL
    made,     \* externalNextID
    request,  \* resolveExternalUsenet
    poller,   \* externalQueueStatus
    engine,   \* what the engine says of a job
    stored    \* keys whose release is on the share

tables == <<jobs, keyOf, byKey, claims, ready, done, old, made>>
outside == <<engine, stored>>
vars == <<tables, request, poller, outside>>

-----------------------------------------------------------------------------
(* State *)

\* id: the job submitted. same: the result it is checking is still the cached one.
\* What it went by since it last looked: stale, a cached result was not there;
\* overtaken, another request has recorded a job of the same NZB.
Request == [pc : {"idle", "look", "check", "claim", "wait", "probe", "submit",
                  "record", "release"},
            key : Keys, id : Ids \cup {NoJob}, same : BOOLEAN, stale : BOOLEAN,
            overtaken : BOOLEAN]

Poller == [pc : {"idle", "asked", "looking", "found", "settle"}, id : Ids \cup {NoJob}]

IdleRequest == [pc |-> "idle", key |-> NoKey, id |-> NoJob, same |-> FALSE,
                stale |-> FALSE, overtaken |-> FALSE]
IdlePoller == [pc |-> "idle", id |-> NoJob]

TypeOK ==
    /\ jobs \subseteq Ids
    /\ keyOf \in [Ids -> Keys]
    /\ byKey \in [Keys -> Ids \cup {NoJob}]
    /\ claims \in [Keys -> Requests \cup {Nobody}]
    /\ ready \in [Keys -> Ids \cup {NoJob}]
    /\ done \subseteq Ids
    /\ old \subseteq Ids
    /\ made \in 0..MaxJobs
    /\ request \in [Requests -> Request]
    /\ poller \in [Pollers -> Poller]
    /\ engine \in [Ids -> {"none", "working", "failed"}]
    /\ stored \subseteq Keys

Init ==
    /\ jobs = {}
    /\ keyOf = [q \in Ids |-> NoKey]
    /\ byKey = [k \in Keys |-> NoJob]
    /\ claims = [k \in Keys |-> Nobody]
    /\ ready = [k \in Keys |-> NoJob]
    /\ done = {}
    /\ old = {}
    /\ made = 0
    /\ request = [r \in Requests |-> IdleRequest]
    /\ poller = [p \in Pollers |-> IdlePoller]
    /\ engine = [q \in Ids |-> "none"]
    /\ stored = {}

-----------------------------------------------------------------------------
(* resolveExternalUsenet *)

At(r, pc) == request[r].pc = pc
Key(r) == request[r].key

\* The jobs of a key that were entered in the tables, settled ones too.
Recorded(k) == {q \in 1..made : keyOf[q] = k /\
                  ~ \E r \in Requests : At(r, "record") /\ request[r].id = q}

Leaving(r) == [IdleRequest EXCEPT !.pc = "release", !.key = Key(r)]

Begins(r, k) ==
    /\ At(r, "idle")
    /\ request' = [request EXCEPT ![r] = [IdleRequest EXCEPT !.pc = "look", !.key = k]]
    /\ UNCHANGED <<tables, poller, outside>>

Cached(k) == ready[k] # NoJob /\ ready[k] \notin old

\* A result in the cache is checked before anything else is looked at.
LooksAtResult(r) ==
    /\ At(r, "look")
    /\ Cached(Key(r))
    /\ request' = [request EXCEPT ![r].pc = "check", ![r].same = TRUE]
    /\ UNCHANGED <<tables, poller, outside>>

\* Slip: the job of the NZB is not looked up.
ActiveUnchecked(k) == FALSE
Active(k) == byKey[k] \in jobs

\* No result, or one that is too old: an active job is handed out, or the call goes on.
LooksAtJobs(r) ==
    /\ At(r, "look")
    /\ ~ Cached(Key(r))
    /\ ready' = [ready EXCEPT ![Key(r)] = NoJob]
    /\ byKey' = [byKey EXCEPT ![Key(r)] = IF Active(Key(r)) THEN @ ELSE NoJob]
    /\ request' = [request EXCEPT ![r] =
         IF Active(Key(r)) THEN IdleRequest
         ELSE [@ EXCEPT !.pc = "claim", !.overtaken = FALSE, !.stale = FALSE]]
    /\ UNCHANGED <<jobs, keyOf, claims, done, old, made, poller, outside>>

ResultIsThere(r) ==
    /\ At(r, "check")
    /\ Key(r) \in stored
    /\ request' = [request EXCEPT ![r] = IdleRequest]
    /\ UNCHANGED <<tables, poller, outside>>

\* Gone, or the question failed. The cached result is dropped if it is still that one;
\* the jobs are not looked at.
ResultIsStale(r) ==
    /\ At(r, "check")
    /\ ready' = [ready EXCEPT ![Key(r)] = IF request[r].same THEN NoJob ELSE @]
    /\ request' = [s \in Requests |->
         IF s = r THEN [request[r] EXCEPT !.pc = "claim", !.stale = TRUE, !.same = FALSE]
         ELSE IF Key(s) = Key(r) /\ request[r].same THEN [request[s] EXCEPT !.same = FALSE]
         ELSE request[s]]
    /\ UNCHANGED <<jobs, keyOf, byKey, claims, done, old, made, poller, outside>>

\* Slip: a claim that is there is not noticed.
UnclaimedIgnored(k) == TRUE
Unclaimed(k) == claims[k] = Nobody

Claims(r) ==
    /\ At(r, "claim")
    /\ Unclaimed(Key(r))
    /\ claims' = [claims EXCEPT ![Key(r)] = r]
    /\ request' = [request EXCEPT ![r].pc = "probe"]
    /\ UNCHANGED <<jobs, keyOf, byKey, ready, done, old, made, poller, outside>>

Waits(r) ==
    /\ At(r, "claim")
    /\ ~ Unclaimed(Key(r))
    /\ request' = [request EXCEPT ![r].pc = "wait"]
    /\ UNCHANGED <<tables, poller, outside>>

\* The caller's context ends.
GivesUpWaiting(r) ==
    /\ At(r, "wait")
    /\ request' = [request EXCEPT ![r] = IdleRequest]
    /\ UNCHANGED <<tables, poller, outside>>

\* findExistingExternalUsenetResolution: the release is on the share already.
FindsExisting(r) ==
    /\ At(r, "probe")
    /\ Key(r) \in stored
    /\ request' = [request EXCEPT ![r] = Leaving(r)]
    /\ UNCHANGED <<tables, poller, outside>>

FindsNothing(r) ==
    /\ At(r, "probe")
    /\ request' = [request EXCEPT ![r].pc = "submit"]
    /\ UNCHANGED <<tables, poller, outside>>

Submits(r) ==
    /\ At(r, "submit")
    /\ made < MaxJobs
    /\ made' = made + 1
    /\ keyOf' = [keyOf EXCEPT ![made + 1] = Key(r)]
    /\ engine' = [engine EXCEPT ![made + 1] = "working"]
    /\ request' = [request EXCEPT ![r].pc = "record", ![r].id = made + 1]
    /\ UNCHANGED <<jobs, byKey, claims, ready, done, old, poller, stored>>

\* Slip: the claim is released only after a submission that worked.
SubmitFailsClaimed(r) ==
    /\ At(r, "submit")
    /\ request' = [request EXCEPT ![r] = IdleRequest]
    /\ UNCHANGED <<tables, poller, outside>>
SubmitFails(r) ==
    /\ At(r, "submit")
    /\ request' = [request EXCEPT ![r] = Leaving(r)]
    /\ UNCHANGED <<tables, poller, outside>>

Records(r) ==
    /\ At(r, "record")
    /\ jobs' = jobs \cup {request[r].id}
    /\ byKey' = [byKey EXCEPT ![Key(r)] = request[r].id]
    /\ request' = [s \in Requests |->
         IF s = r THEN Leaving(r)
         ELSE IF Key(s) = Key(r) THEN [request[s] EXCEPT !.overtaken = TRUE]
         ELSE request[s]]
    /\ UNCHANGED <<keyOf, claims, ready, done, old, made, poller, outside>>

\* Deferred: the channel is closed and those who wait on it start over.
Releases(r) ==
    /\ At(r, "release")
    /\ claims' = [claims EXCEPT ![Key(r)] = Nobody]
    /\ request' = [s \in Requests |->
         IF s = r THEN IdleRequest
         ELSE IF At(s, "wait") /\ Key(s) = Key(r) THEN [request[s] EXCEPT !.pc = "look"]
         ELSE request[s]]
    /\ UNCHANGED <<jobs, keyOf, byKey, ready, done, old, made, poller, outside>>

-----------------------------------------------------------------------------
(* externalQueueStatus *)

\* A caller has the identifier once the job is in the tables.
Known(q) == q \in Recorded(keyOf[q])

\* A job that is active is asked about. Any other is answered from its result, or is
\* not found; a result that is too old goes.
PollBegins(p, q) ==
    /\ poller[p].pc = "idle"
    /\ q \in 1..made /\ Known(q)
    /\ done' = IF q \in old THEN done \ {q} ELSE done
    /\ poller' = [poller EXCEPT ![p] = IF q \in jobs THEN [pc |-> "asked", id |-> q] ELSE @]
    /\ UNCHANGED <<jobs, keyOf, byKey, claims, ready, old, made, request, outside>>

\* The engine's word: a failure settles the job.
PollHears(p) ==
    /\ poller[p].pc = "asked"
    /\ poller' = [poller EXCEPT ![p].pc = IF engine[poller[p].id] = "failed" THEN "settle"
                                          ELSE "looking"]
    /\ UNCHANGED <<tables, request, outside>>

\* The engine does not answer, nothing is on the share yet, or the question fails:
\* the job stays.
\* Slip: an engine that does not answer is taken for a failed job.
PollLearnsNothingSettles(p) ==
    /\ poller[p].pc \in {"asked", "looking"}
    /\ poller' = [poller EXCEPT ![p].pc = "settle"]
    /\ UNCHANGED <<tables, request, outside>>
PollLearnsNothing(p) ==
    /\ poller[p].pc \in {"asked", "looking"}
    /\ poller' = [poller EXCEPT ![p] = IdlePoller]
    /\ UNCHANGED <<tables, request, outside>>

PollFinds(p) ==
    /\ poller[p].pc = "looking"
    /\ keyOf[poller[p].id] \in stored
    /\ poller' = [poller EXCEPT ![p].pc = "found"]
    /\ UNCHANGED <<tables, request, outside>>

\* rememberExternalResolution
PollRemembers(p) ==
    LET q == poller[p].id
    IN  /\ poller[p].pc = "found"
        /\ done' = done \cup {q}
        /\ ready' = [ready EXCEPT ![keyOf[q]] = q]
        /\ old' = old \ {q}
        /\ request' = [r \in Requests |-> IF Key(r) = keyOf[q]
                         THEN [request[r] EXCEPT !.same = FALSE] ELSE request[r]]
        /\ poller' = [poller EXCEPT ![p].pc = "settle"]
        /\ UNCHANGED <<jobs, keyOf, byKey, claims, made, outside>>

\* deleteExternalJob: the NZB may lead to a newer job by now.
\* Slip: the index is cleared whatever it points to.
WithoutEntry(q) == [byKey EXCEPT ![keyOf[q]] = IF q \in jobs THEN NoJob ELSE @]
WithoutOwnEntry(q) == [byKey EXCEPT ![keyOf[q]] = IF q \in jobs /\ @ = q THEN NoJob ELSE @]

PollDeletes(p) ==
    /\ poller[p].pc = "settle"
    /\ byKey' = WithoutOwnEntry(poller[p].id)
    /\ jobs' = jobs \ {poller[p].id}
    /\ poller' = [poller EXCEPT ![p] = IdlePoller]
    /\ UNCHANGED <<keyOf, claims, ready, done, old, made, request, outside>>

-----------------------------------------------------------------------------
(* The outside, and time *)

EngineFails(q) ==
    /\ engine[q] = "working"
    /\ engine' = [engine EXCEPT ![q] = "failed"]
    /\ UNCHANGED <<tables, request, poller, stored>>

\* The engine, or anybody else who has access to it, fetched the release.
FileAppears(k) ==
    /\ k \notin stored
    /\ stored' = stored \cup {k}
    /\ UNCHANGED <<tables, request, poller, engine>>

FileVanishes(k) ==
    /\ k \in stored
    /\ stored' = stored \ {k}
    /\ UNCHANGED <<tables, request, poller, engine>>

ResultAges(q) ==
    /\ q \in done \cup {ready[k] : k \in Keys}
    /\ q # NoJob
    /\ q \notin old
    /\ old' = old \cup {q}
    /\ UNCHANGED <<jobs, keyOf, byKey, claims, ready, done, made, request, poller, outside>>

\* What a claim waits for: the search of the share, the submission, the tables.
Holds(r) == FindsExisting(r) \/ FindsNothing(r) \/ Submits(r) \/ SubmitFails(r)
            \/ Records(r) \/ Releases(r)

Next ==
    \/ \E r \in Requests :
         \/ \E k \in Keys : Begins(r, k)
         \/ LooksAtResult(r)
         \/ LooksAtJobs(r)
         \/ ResultIsThere(r)
         \/ ResultIsStale(r)
         \/ Claims(r)
         \/ Waits(r)
         \/ GivesUpWaiting(r)
         \/ Holds(r)
    \/ \E p \in Pollers :
         \/ \E q \in Ids : PollBegins(p, q)
         \/ PollHears(p)
         \/ PollLearnsNothing(p)
         \/ PollFinds(p)
         \/ PollRemembers(p)
         \/ PollDeletes(p)
    \/ \E q \in Ids : EngineFails(q) \/ ResultAges(q)
    \/ \E k \in Keys : FileAppears(k) \/ FileVanishes(k)

\* A call over the network returns: the client gives up after 60 s.
Spec == Init /\ [][Next]_vars /\ \A r \in Requests : WF_vars(Holds(r))

-----------------------------------------------------------------------------
(* Properties *)

\* An identifier that was handed out is always good for an answer: its job is active,
\* or it has a result, or the engine failed it; a day after its result it is unknown.
AcceptedIsAnswered ==
    \A q \in 1..made :
        Known(q) => q \in jobs \cup done \cup old \/ engine[q] = "failed"

\* Two requests for one NZB are never submitting it at the same time.
Submitting == {"probe", "submit", "record", "release"}
OneSubmitter ==
    \A k \in Keys : \A r \in Requests :
        Key(r) = k /\ request[r].pc \in Submitting => claims[k] = r

\* The search found nothing and the call to the engine is next.
Enters(r) == At(r, "probe") /\ request'[r].pc = "submit"

IsLatest(q, k) == q \in Recorded(k) /\ \A other \in Recorded(k) : other <= q

\* The latest job of an NZB is reused as long as it is active: what a submission runs
\* beside is an older job, one that was recorded after the request looked, or one it
\* did not look for because a cached result turned out stale.
LastJobIsReused ==
    [][\A r \in Requests :
         Enters(r) /\ ~ request[r].stale /\ ~ request[r].overtaken =>
            \A q \in jobs : ~ IsLatest(q, Key(r))]_vars

\* TestResolveExternalUsenetReusesActiveJobByNZBHash: a release whose job is active is
\* not submitted again.
ActiveJobIsReused == [][\A r \in Requests : Enters(r) => ~ Active(Key(r))]_vars

\* A claim comes back, however its holder ends: nobody waits for one that is gone.
ClaimIsReleased == \A k \in Keys : \A r \in Requests : claims[k] = r ~> claims[k] # r
==============================================================================
