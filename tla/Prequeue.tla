------------------------------ MODULE Prequeue ------------------------------
(***************************************************************************)
(* Who works on the prequeue store: the requests of                         *)
(* backend/handlers/prequeue.go, the worker each entry gets, the players    *)
(* that hand over to another stream, and the prewarm service that waits for *)
(* a worker of its own. Each call of the store is a step; between two of    *)
(* them the others move, and what was read before may be gone.              *)
(***************************************************************************)
EXTENDS PrequeueStore

CONSTANTS
    Found,       \* the stream the workers resolve to
    Requests,    \* bound: requests to prequeue in progress at one time
    Players,     \* bound: migrations in progress at one time
    Warmers,     \* bound: prewarm jobs waiting for a worker at one time
    Brings,      \* the stream each player hands over to
    MaxRestarts  \* bound

ASSUME PrequeueAssumption ==
    /\ Found \in Streams
    /\ Brings \in [Players -> Streams]
    /\ MaxRestarts \in Nat

VARIABLES
    worker,    \* runPrequeueWorker, by the identifier of its entry
    request,   \* the Prequeue handler
    player,    \* the AdoptMigration handler
    warm,      \* runWorker of the prewarm service
    restarts   \* restarts so far

vars == <<store, worker, request, player, warm, restarts>>
actors == <<worker, request, player, warm, restarts>>

-----------------------------------------------------------------------------
(* State *)

\* hooked: SetCancelFunc is done. searching, probing: at work on the entry.
WorkerPc == {"none", "spawned", "hooked", "searching", "probing", "done"}

\* id: the entry read, or the one waited for.
Request == [pc : {"idle", "reuse", "create"}, key : Keys, id : Ids \cup {NoId}]
Player == [pc : {"idle", "cancelled", "probing"}, id : Ids \cup {NoId}]
Warm == [pc : {"idle", "waiting", "cancel", "delete"}, key : Keys, id : Ids \cup {NoId}]

IdleRequest == [pc |-> "idle", key |-> Gone.key, id |-> NoId]
IdlePlayer == [pc |-> "idle", id |-> NoId]
IdleWarm == [pc |-> "idle", key |-> Gone.key, id |-> NoId]

TypeOK ==
    /\ StoreTypeOK
    /\ worker \in [Ids -> WorkerPc]
    /\ request \in [Requests -> Request]
    /\ player \in [Players -> Player]
    /\ warm \in [Warmers -> Warm]
    /\ restarts \in 0..MaxRestarts

Init ==
    /\ StoreInit
    /\ worker = [i \in Ids |-> "none"]
    /\ request = [r \in Requests |-> IdleRequest]
    /\ player = [p \in Players |-> IdlePlayer]
    /\ warm = [w \in Warmers |-> IdleWarm]
    /\ restarts = 0

-----------------------------------------------------------------------------
(* The Prequeue handler *)

\* What a request does with the copy it read: it takes the entry over, or resolves
\* afresh (other episode, too large, not prepared, failed, or not found at all).
\* Only a manual request has something left to do when it takes over.
Lookup(r, k) ==
    /\ request[r].pc = "idle"
    /\ \/ \E i \in FoundAt(k) :
            /\ entries[i].status # "failed"
            /\ request' = [request EXCEPT ![r] = [pc |-> "reuse", key |-> k, id |-> i]]
       \/ request' = [request EXCEPT ![r] = [pc |-> "create", key |-> k, id |-> NoId]]
    /\ UNCHANGED <<store, worker, player, warm, restarts>>

PinReused(r) ==
    /\ request[r].pc = "reuse"
    /\ MakePersistent(request[r].id)
    /\ request' = [request EXCEPT ![r] = IdleRequest]
    /\ UNCHANGED <<worker, player, warm, restarts>>

\* validateReadyEntryForReuse finds the stream of a ready entry gone.
DiscardStale(r) ==
    /\ request[r].pc = "reuse"
    /\ Delete(request[r].id)
    /\ request' = [request EXCEPT ![r].pc = "create", ![r].id = NoId]
    /\ UNCHANGED <<worker, player, warm, restarts>>

CreateEntry(r, manual) ==
    /\ request[r].pc = "create"
    /\ CreateScoped(request[r].key, manual)
    /\ worker' = [worker EXCEPT ![NextId] = "spawned"]
    /\ request' = [request EXCEPT ![r] = IdleRequest]
    /\ UNCHANGED <<player, warm, restarts>>

-----------------------------------------------------------------------------
(* runPrequeueWorker *)

\* Until here nobody can cancel the goroutine.
WorkerSetsCancel(i) ==
    /\ worker[i] = "spawned"
    /\ SetCancelFunc(i)
    /\ worker' = [worker EXCEPT ![i] = "hooked"]
    /\ UNCHANGED <<request, player, warm, restarts>>

\* The first update is the only one whose result is looked at.
WorkerStarts(i) ==
    /\ worker[i] = "hooked"
    /\ UpdateWorker(i, [entries[i] EXCEPT !.status = "searching"])
    /\ worker' = [worker EXCEPT ![i] = IF WorkerMayWrite(i) THEN "searching" ELSE "done"]
    /\ UNCHANGED <<request, player, warm, restarts>>

\* A candidate is chosen; a worker that was cancelled may have chosen it before.
WorkerResolves(i) ==
    /\ worker[i] = "searching"
    /\ UpdateWorker(i, [entries[i] EXCEPT !.status = "probing", !.path = Found])
    /\ worker' = [worker EXCEPT ![i] = "probing"]
    /\ UNCHANGED <<request, player, warm, restarts>>

\* failPrequeue: nothing found, an error, cancelled or out of time.
WorkerFails(i) ==
    /\ worker[i] = "searching"
    /\ UpdateWorker(i, [entries[i] EXCEPT !.status = "failed"])
    /\ worker' = [worker EXCEPT ![i] = "done"]
    /\ UNCHANGED <<request, player, warm, restarts>>

\* Probing failed or not, errors are not fatal here: the tracks are stored or left.
WorkerStoresTracks(i) ==
    /\ worker[i] = "probing"
    /\ UpdateWorker(i, [entries[i] EXCEPT !.tracks = Found])
    /\ UNCHANGED actors

WorkerFinishes(i) ==
    /\ worker[i] = "probing"
    /\ UpdateWorker(i, [entries[i] EXCEPT !.status = "ready"])
    /\ worker' = [worker EXCEPT ![i] = "done"]
    /\ UNCHANGED <<request, player, warm, restarts>>

-----------------------------------------------------------------------------
(* AdoptMigration *)

\* The entry is read, the request checked, the work cancelled. A removal in between
\* shows at the update.
PlayerTakesOver(p, i) ==
    /\ player[p].pc = "idle"
    /\ Readable(i)
    /\ CancelWork(i)
    /\ player' = [player EXCEPT ![p] = [pc |-> "cancelled", id |-> i]]
    /\ UNCHANGED <<worker, request, warm, restarts>>

\* The new stream comes with no tracks yet, whatever the worker stored meanwhile.
Adopted(e, path) == [e EXCEPT !.status = "ready", !.path = path,
                              !.tracks = NoStream, !.adopted = TRUE]

\* refreshAdoptedMigrationMetadata follows, which reads the entry and probes for up
\* to 45 s: it may fail, and a path that changed before it shows at its update.
PlayerAdopts(p) ==
    /\ player[p].pc = "cancelled"
    /\ Update(player[p].id, Adopted(entries[player[p].id], Brings[p]))
    /\ \/ /\ Live(player[p].id)
          /\ player' = [player EXCEPT ![p].pc = "probing"]
       \/ player' = [player EXCEPT ![p] = IdlePlayer]
    /\ UNCHANGED <<worker, request, warm, restarts>>

\* Another migration may have come in during the probe.
\* Slip: the path is not compared again.
RefreshedBlindly(e, path) == [e EXCEPT !.tracks = path, !.adopted = TRUE]
Refreshed(e, path) ==
    IF e.path = path THEN [e EXCEPT !.tracks = path, !.adopted = TRUE] ELSE e

PlayerRefreshes(p) ==
    /\ player[p].pc = "probing"
    /\ Update(player[p].id, Refreshed(entries[player[p].id], Brings[p]))
    /\ player' = [player EXCEPT ![p] = IdlePlayer]
    /\ UNCHANGED <<worker, request, warm, restarts>>

-----------------------------------------------------------------------------
(* runWorker of the prewarm service *)

WarmStarts(w, k) ==
    /\ warm[w].pc = "idle"
    /\ CreateScoped(k, FALSE)
    /\ worker' = [worker EXCEPT ![NextId] = "spawned"]
    /\ warm' = [warm EXCEPT ![w] = [pc |-> "waiting", key |-> k, id |-> NextId]]
    /\ UNCHANGED <<request, player, restarts>>

WarmIsAnswered(w) ==
    /\ warm[w].pc = "waiting"
    /\ worker[warm[w].id] = "done"
    /\ warm' = [warm EXCEPT ![w] = IdleWarm]
    /\ UNCHANGED <<store, worker, request, player, restarts>>

\* The wait is over before the worker is. The entry is looked up again by title:
\* one that is ready is taken, any other is to be cancelled and deleted.
WarmTimesOut(w) ==
    /\ warm[w].pc = "waiting"
    /\ worker[warm[w].id] # "done"
    /\ \/ \E i \in FoundAt(warm[w].key) : warm' = [warm EXCEPT ![w].pc = "cancel", ![w].id = i]
       \/ /\ \/ FoundAt(warm[w].key) = {}
             \/ \E i \in FoundAt(warm[w].key) : entries[i].status = "ready"
          /\ warm' = [warm EXCEPT ![w] = IdleWarm]
    /\ UNCHANGED <<store, worker, request, player, restarts>>

WarmCancels(w) ==
    /\ warm[w].pc = "cancel"
    /\ CancelWork(warm[w].id)
    /\ warm' = [warm EXCEPT ![w].pc = "delete"]
    /\ UNCHANGED <<worker, request, player, restarts>>

WarmDeletes(w) ==
    /\ warm[w].pc = "delete"
    /\ Delete(warm[w].id)
    /\ warm' = [warm EXCEPT ![w] = IdleWarm]
    /\ UNCHANGED <<worker, request, player, restarts>>

-----------------------------------------------------------------------------
(* The other callers of the store, and the server itself. A call that finds nothing
   to remove changes nothing and is no step. *)

\* Somebody deletes one entry: the administrator, the user, a failed validation.
DeleteOne(i) == Live(i) /\ Delete(i) /\ UNCHANGED actors

\* A stream proved bad while it played.
DeleteStream(p) ==
    /\ \E i \in LiveIds : entries[i].path = p
    /\ DeleteByStreamPath(p)
    /\ UNCHANGED actors

\* The settings of a profile, or of the server, changed.
DeleteProfile(u) ==
    /\ \E i \in LiveIds : Owner[entries[i].key] = u
    /\ DeleteByUser(u)
    /\ UNCHANGED actors

ClearAll == LiveIds # {} /\ DeleteAll /\ UNCHANGED actors

Clean ==
    /\ \E i \in Ids : entries[i].expired \/ rows[i].expired
    /\ Cleanup
    /\ UNCHANGED actors

TimePasses(i) == Lapse(i) /\ UNCHANGED actors

RestoreLists == ListRows /\ UNCHANGED actors
RestoreFails == ListFails /\ UNCHANGED actors
RestoreIsCutShort(n) == ContextEnds(n) /\ UNCHANGED actors
RestoreMerges == MergeRows /\ UNCHANGED actors
RestoreDeletes(i) == DeleteSuperseded(i) /\ UNCHANGED actors
RestoreEnds == RestoreDone /\ UNCHANGED actors

Restart ==
    /\ restarts < MaxRestarts
    /\ restarts' = restarts + 1
    /\ StoreRestart
    /\ worker' = [i \in Ids |-> "none"]
    /\ request' = [r \in Requests |-> IdleRequest]
    /\ player' = [p \in Players |-> IdlePlayer]
    /\ warm' = [w \in Warmers |-> IdleWarm]

WarmStep(w) ==
    \/ WarmIsAnswered(w)
    \/ WarmTimesOut(w)
    \/ WarmCancels(w)
    \/ WarmDeletes(w)

WorkerStep(i) ==
    \/ WorkerSetsCancel(i)
    \/ WorkerStarts(i)
    \/ WorkerResolves(i)
    \/ WorkerFails(i)
    \/ WorkerFinishes(i)

RestoreStep ==
    \/ RestoreLists
    \/ RestoreFails
    \/ \E n \in Ids : RestoreIsCutShort(n)
    \/ RestoreMerges
    \/ \E i \in Ids : RestoreDeletes(i)
    \/ RestoreEnds

Next ==
    \/ \E r \in Requests :
         \/ \E k \in Keys : Lookup(r, k)
         \/ PinReused(r)
         \/ DiscardStale(r)
         \/ \E manual \in BOOLEAN : CreateEntry(r, manual)
    \/ \E i \in Ids : WorkerStep(i) \/ WorkerStoresTracks(i)
    \/ \E p \in Players :
         \/ \E i \in Ids : PlayerTakesOver(p, i)
         \/ PlayerAdopts(p)
         \/ PlayerRefreshes(p)
    \/ \E w \in Warmers :
         \/ \E k \in Keys : WarmStarts(w, k)
         \/ WarmStep(w)
    \/ \E i \in Ids : DeleteOne(i) \/ TimePasses(i)
    \/ \E p \in Streams : DeleteStream(p)
    \/ \E u \in Users : DeleteProfile(u)
    \/ ClearAll
    \/ Clean
    \/ RestoreStep
    \/ Restart

\* The prewarm service gives up on a worker that does not answer, and the clean-up runs
\* every 30 seconds. Nothing is assumed of the workers: a resolver can be wedged and
\* never return.
Fairness == WF_entries(Clean) /\ \A w \in Warmers : WF_warm(WarmStep(w))

Spec == Init /\ [][Next]_vars /\ Fairness

-----------------------------------------------------------------------------
(* Properties *)

\* The index and the map agree: a title points to its entry, and no entry is left
\* in memory that its title does not lead to (nobody would ever cancel it).
IndexIsExact ==
    /\ \A k \in Keys : index[k] # NoId =>
         Live(index[k]) /\ entries[index[k]].key = k
    /\ \A i \in Ids : Live(i) => index[entries[i].key] = i

\* A worker at work on an entry that was replaced or removed has been told to stop.
\* The merge of the restore puts a row in the place of an entry with its cancel
\* function: such an entry is left out.
NoStrayWorker ==
    \A i \in Ids :
        worker[i] \in {"searching", "probing"} /\ i \notin restore.put =>
            Live(i) \/ i \in stopped

\* What is shown as the tracks of a stream was probed from that stream.
TracksMatchStream ==
    \A i \in Ids : entries[i].tracks \in {NoStream, entries[i].path}

\* What a restart would bring back is what is shown: the row of a ready entry is
\* its current state, and an entry that is not ready has none. Left out: entries
\* the restore put there, whose rows it deletes.
RowsFollowEntries ==
    \A i \in Ids :
        Live(i) /\ ~ entries[i].expired /\ i \notin restore.put \cup unsaved =>
            rows[i] = IF entries[i].status = "ready" THEN Saved(entries[i]) ELSE Gone

\* A stream a player handed over to stays: no worker that is still unwinding and no
\* late probe changes it; only another migration, or the entry goes.
AdoptedStays ==
    [][\A i \in Ids :
         entries[i].adopted /\ Live(i)' /\ restore'.put = restore.put =>
            /\ entries'[i].adopted
            /\ entries'[i].status = "ready"
            /\ entries'[i].path # entries[i].path =>
                 \E p \in Players : player[p].pc = "cancelled" /\ player[p].id = i
                                      /\ player'[p].pc # "cancelled"]_vars

Pinned(k) == index[k] # NoId /\ entries[index[k]].pinned

\* A pinned title stays pinned whoever replaces or works on its entry; it ends when
\* its entry is deleted, and no deadline does that.
PinStays ==
    [][\A k \in Keys :
         Pinned(k) /\ restore'.put = restore.put =>
            /\ ~ entries[index[k]].expired
            /\ Pinned(k)' \/ index'[k] = NoId]_vars

InProgress(i) == entries[i].status \in Progress

\* What ends an entry in progress: its worker is through, its deadline is past, or a
\* prewarm job waits for it.
Ending(i) ==
    \/ worker[i] = "done"
    \/ entries[i].expired
    \/ \E w \in Warmers : warm[w].pc # "idle" /\ warm[w].id = i

\* An entry in progress settles or goes by any of the three, whatever its worker does:
\* one that is wedged for ever holds up nothing but a pinned entry, which has no
\* deadline.
EntrySettles ==
    \A i \in Ids :
        InProgress(i) /\ Ending(i) ~>
            ~ InProgress(i) \/ (entries[i].pinned /\ worker[i] # "done")
==============================================================================
