---------------------------- MODULE PrequeueProof ----------------------------
(* Proofs about Prequeue, for any number of titles, profiles, entries,      *)
(* requests, players and prewarm jobs, and with restores beside them all.   *)
EXTENDS Prequeue, TLAPS

-----------------------------------------------------------------------------
(* The inductive invariant, by what it is about. *)

\* Who acts on an identifier has one.
ActorsOK ==
    /\ \A r \in Requests : request[r].pc = "reuse" => request[r].id \in Ids
    /\ \A p \in Players : player[p].pc # "idle" => player[p].id \in Ids
    /\ \A w \in Warmers : warm[w].pc # "idle" => warm[w].id \in Ids

\* Identifiers are handed out in order.
MadeInOrder ==
    \A i \in Ids : i > made =>
        /\ entries[i].status = "gone"
        /\ rows[i] = Gone
        /\ restore.list[i].status = "gone"
        /\ i \notin restore.todo

\* The copies of one entry are of one title.
KeysAgree ==
    \A i \in Ids :
        /\ Live(i) /\ rows[i].status # "gone" => rows[i].key = entries[i].key
        /\ Live(i) /\ restore.list[i].status # "gone" => restore.list[i].key = entries[i].key
        /\ rows[i].status # "gone" /\ restore.list[i].status # "gone" => rows[i].key = restore.list[i].key

\* Until the merge, what is in memory is newer than what the table holds of its title.
IndexLeads ==
    restore.pc \in {"waiting", "listed", "short"} =>
        \A k \in Keys : index[k] # NoId =>
            \A i \in Ids :
                /\ rows[i].status # "gone" /\ rows[i].key = k => i <= index[k]
                /\ restore.list[i].status # "gone" /\ restore.list[i].key = k => i <= index[k]

\* The restore puts nothing before its merge and deletes rows only of what it put
\* there, or of what is not in memory.
RestoreOK ==
    /\ restore.pc \in {"waiting", "listed", "short"} => restore.put = {} /\ restore.todo = {}
    /\ \A i \in restore.todo : Live(i) => i \in restore.put

StoreInv == StoreTypeOK /\ MadeInOrder /\ KeysAgree /\ IndexIsExact /\ IndexLeads /\ RestoreOK

\* What every copy of an entry is like.
CopyOK(e) ==
    /\ e.tracks \in {NoStream, e.path}
    /\ ~ e.adopted => e.path \in {NoStream, Found}
    /\ ~ e.adopted /\ e.status = "ready" => e.path = Found
    /\ e.adopted => e.status = "ready"
    /\ e.pinned => ~ e.expired

Running(i) == worker[i] \in {"spawned", "hooked", "searching", "probing"}

\* What holds of one entry: while its worker runs, its copies are ready only by a
\* migration; a worker that found a stream works on an entry with that stream; a
\* worker can be stopped, or has been; what is not ready has no row, past its
\* deadline and after failed statements too, and the row of what is ready is its
\* state, unless the last statement on it failed.
EntryInv(i) ==
    /\ CopyOK(entries[i]) /\ CopyOK(rows[i]) /\ CopyOK(restore.list[i])
    /\ Running(i) =>
         /\ entries[i].status = "ready" => entries[i].adopted
         /\ rows[i].status = "ready" => rows[i].adopted
         /\ restore.list[i].status = "ready" => restore.list[i].adopted
    /\ worker[i] = "probing" /\ Live(i) /\ ~ entries[i].adopted => entries[i].path = Found
    /\ i \notin restore.put =>
         /\ worker[i] \in {"hooked", "searching", "probing"} /\ Live(i)
              => entries[i].hook \/ i \in stopped
         /\ worker[i] \in {"searching", "probing"} => Live(i) \/ i \in stopped
         /\ Live(i) /\ entries[i].status # "ready" => rows[i] = Gone
         /\ entries[i].status = "ready" /\ ~ entries[i].expired /\ i \notin unsaved
              => rows[i] = Saved(entries[i])

\* A player that probes has adopted its entry, which is ready or gone.
PlayersOK ==
    \A p \in Players : player[p].pc = "probing" =>
        /\ player[p].id <= made
        /\ Live(player[p].id) => entries[player[p].id].status = "ready"

-----------------------------------------------------------------------------
(* Records and their updates. *)

LEMMA Basics ==
    /\ MaxEntries \in Nat /\ Ids = 1..MaxEntries /\ NoId = 0 /\ NoId \notin Ids
    /\ Found \in Paths /\ NoStream \in Paths
BY StoreAssumption, PrequeueAssumption DEF Ids, NoId, Paths

LEMMA GoneIs ==
    /\ Gone \in Entry
    /\ Gone.status = "gone" /\ Gone.tracks = NoStream /\ Gone.path = NoStream
    /\ Gone.pinned = FALSE /\ Gone.adopted = FALSE /\ Gone.expired = FALSE
    /\ Gone.hook = FALSE
<1>1. (CHOOSE k \in Keys : TRUE) \in Keys
  BY StoreAssumption
<1>2. QED BY <1>1 DEF Gone, Entry, Statuses, Progress, Paths

LEMMA SavedIs ==
    ASSUME NEW e \in Entry
    PROVE  /\ Saved(e) \in Entry
           /\ Saved(e).status = e.status /\ Saved(e).key = e.key
           /\ Saved(e).path = e.path /\ Saved(e).tracks = e.tracks
           /\ Saved(e).pinned = e.pinned /\ Saved(e).adopted = e.adopted
           /\ Saved(e).expired = e.expired
BY DEF Saved, Entry

LEMMA LapsedIs ==
    ASSUME NEW e \in Entry
    PROVE  /\ Lapsed(e) \in Entry
           /\ Lapsed(e).status = e.status /\ Lapsed(e).key = e.key
           /\ Lapsed(e).path = e.path /\ Lapsed(e).tracks = e.tracks
           /\ Lapsed(e).pinned = e.pinned /\ Lapsed(e).adopted = e.adopted
           /\ Lapsed(e).hook = e.hook
           /\ e.status = "gone" \/ e.pinned => Lapsed(e) = e
           /\ ~ Lapsed(e).expired => Lapsed(e) = e /\ (e.status = "gone" \/ e.pinned)
BY DEF Lapsed, Entry

\* The entry that Put stores.
PutOf(i, e) ==
    [e EXCEPT !.expired = e.expired /\ ~ (e.status = "ready" /\ entries[i].status # "ready")]

LEMMA PutIs ==
    ASSUME NEW i \in Ids, NEW e \in Entry
    PROVE  /\ PutOf(i, e) \in Entry
           /\ PutOf(i, e).status = e.status /\ PutOf(i, e).key = e.key
           /\ PutOf(i, e).path = e.path /\ PutOf(i, e).tracks = e.tracks
           /\ PutOf(i, e).pinned = e.pinned /\ PutOf(i, e).adopted = e.adopted
           /\ PutOf(i, e).hook = e.hook
           /\ PutOf(i, e).expired => e.expired
BY DEF PutOf, Entry

\* The row of i after a statement on the rows of S, which were to become those of new.
LEMMA SentRow ==
    ASSUME NEW S, NEW new, Sent(S, new), NEW i \in Ids
    PROVE  /\ i \notin S => rows'[i] = rows[i] /\ (i \in unsaved' <=> i \in unsaved)
           /\ i \in S => \/ rows'[i] = new[i] /\ i \notin unsaved'
                         \/ rows'[i] = rows[i] /\ i \in unsaved'
<1>1. PICK F \in SUBSET S : Fail(S, F) /\ rows' = RowsAfter(S, F, new)
  BY DEF Sent
<1>2. unsaved' = (unsaved \ S) \cup F /\ rows'[i] = IF i \in S \ F THEN new[i] ELSE rows[i]
  BY <1>1 DEF Fail, RowsAfter
<1>3. QED BY <1>2

LEMMA SentType ==
    ASSUME StoreTypeOK, NEW S \in SUBSET Ids, NEW new, \A i \in S : new[i] \in Entry,
           Sent(S, new)
    PROVE  rows' \in [Ids -> Entry] /\ unsaved' \subseteq Ids
<1>1. PICK F \in SUBSET S : Fail(S, F) /\ rows' = RowsAfter(S, F, new)
  BY DEF Sent
<1>2. unsaved' = (unsaved \ S) \cup F /\ rows' = [i \in Ids |-> IF i \in S \ F THEN new[i] ELSE rows[i]]
  BY <1>1 DEF Fail, RowsAfter
<1>3. QED BY <1>2 DEF StoreTypeOK

\* What an attempt to save e as the row of i leaves.
SavedOrNot(i, e) ==
    /\ \A j \in Ids \ {i} : rows'[j] = rows[j] /\ (j \in unsaved' <=> j \in unsaved)
    /\ IF e.status = "ready"
         THEN \/ rows'[i] = Saved(e) /\ i \notin unsaved'
              \/ rows'[i] = rows[i] /\ i \in unsaved'
         ELSE rows'[i] = rows[i] /\ (i \in unsaved' <=> i \in unsaved)

LEMMA SaveIs ==
    ASSUME StoreTypeOK, NEW i \in Ids, NEW e \in Entry, SaveIfReady(i, e)
    PROVE  SavedOrNot(i, e) /\ rows' \in [Ids -> Entry] /\ unsaved' \subseteq Ids
<1> DEFINE S == IF e.status = "ready" THEN {i} ELSE {}
           new == [NoRows EXCEPT ![i] = Saved(e)]
<1>1. Sent(S, new)
  BY DEF SaveIfReady
<1>2. S \in SUBSET Ids /\ (i \in S <=> e.status = "ready") /\ \A j \in Ids \ {i} : j \notin S
  OBVIOUS
<1>3. new[i] = Saved(e)
  BY DEF NoRows
<1>4. \A j \in S : new[j] \in Entry
  BY <1>3, SavedIs
<1> HIDE DEF S, new
<1>5. rows' \in [Ids -> Entry] /\ unsaved' \subseteq Ids
  BY <1>1, <1>2, <1>4, SentType
<1>6. SavedOrNot(i, e)
  BY <1>1, <1>2, <1>3, SentRow DEF SavedOrNot
<1>7. QED BY <1>5, <1>6

LEMMA PutSteps ==
    ASSUME StoreTypeOK, NEW i \in Ids, NEW e \in Entry, Put(i, e)
    PROVE  /\ entries' = [entries EXCEPT ![i] = PutOf(i, e)]
           /\ SavedOrNot(i, PutOf(i, e))
           /\ rows' \in [Ids -> Entry] /\ unsaved' \subseteq Ids
           /\ UNCHANGED <<index, stopped, made, restore>>
<1>1. /\ entries' = [entries EXCEPT ![i] = PutOf(i, e)]
      /\ SaveIfReady(i, PutOf(i, e))
      /\ UNCHANGED <<index, stopped, made, restore>>
  BY DEF Put, PutOf
<1>2. PutOf(i, e) \in Entry
  BY PutIs
<1>3. QED BY <1>1, <1>2, SaveIs

\* What a pin leaves of an entry.
PinOf(i) == [entries[i] EXCEPT !.pinned = TRUE, !.expired = FALSE]

LEMMA PinIs ==
    ASSUME StoreTypeOK, NEW i \in Ids, Live(i), MakePersistent(i)
    PROVE  /\ PinOf(i) \in Entry
           /\ PinOf(i).status = entries[i].status /\ PinOf(i).key = entries[i].key
           /\ PinOf(i).path = entries[i].path /\ PinOf(i).tracks = entries[i].tracks
           /\ PinOf(i).adopted = entries[i].adopted /\ PinOf(i).hook = entries[i].hook
           /\ PinOf(i).pinned = TRUE /\ PinOf(i).expired = FALSE
           /\ entries' = [entries EXCEPT ![i] = PinOf(i)]
           /\ SavedOrNot(i, PinOf(i))
           /\ rows' \in [Ids -> Entry] /\ unsaved' \subseteq Ids
           /\ UNCHANGED <<index, stopped, made, restore>>
<1>1. entries[i] \in Entry
  BY DEF StoreTypeOK
<1>2. /\ PinOf(i) \in Entry
      /\ PinOf(i).status = entries[i].status /\ PinOf(i).key = entries[i].key
      /\ PinOf(i).path = entries[i].path /\ PinOf(i).tracks = entries[i].tracks
      /\ PinOf(i).adopted = entries[i].adopted /\ PinOf(i).hook = entries[i].hook
      /\ PinOf(i).pinned = TRUE /\ PinOf(i).expired = FALSE
  BY <1>1 DEF PinOf, Entry
<1>3. /\ entries' = [entries EXCEPT ![i] = PinOf(i)] /\ SaveIfReady(i, PinOf(i))
      /\ UNCHANGED <<index, stopped, made, restore>>
  BY DEF MakePersistent, PinOf
<1>4. QED BY <1>2, <1>3, SaveIs

LEMMA RestoreIs ==
    ASSUME NEW v \in Restore
    PROVE  /\ v.list \in [Ids -> Entry] /\ v.todo \subseteq Ids /\ v.put \subseteq Ids
           /\ \A l \in [Ids -> Entry] :
                /\ [v EXCEPT !.pc = "listed", !.list = l] \in Restore
                /\ [v EXCEPT !.pc = "short", !.list = l] \in Restore
                /\ [v EXCEPT !.list = l] \in Restore
           /\ [v EXCEPT !.pc = "done"] \in Restore
           /\ \A t \in SUBSET Ids : [v EXCEPT !.todo = t] \in Restore
<1>1. v.list \in [Ids -> Entry] /\ v.todo \subseteq Ids /\ v.put \subseteq Ids
  BY DEF Restore
<1>2. ASSUME NEW l \in [Ids -> Entry]
      PROVE  /\ [v EXCEPT !.pc = "listed", !.list = l] \in Restore
             /\ [v EXCEPT !.pc = "short", !.list = l] \in Restore
  BY DEF Restore
<1>3. ASSUME NEW l \in [Ids -> Entry] PROVE [v EXCEPT !.list = l] \in Restore
  BY DEF Restore
<1>4. [v EXCEPT !.pc = "done"] \in Restore
  BY DEF Restore
<1>5. ASSUME NEW t \in SUBSET Ids PROVE [v EXCEPT !.todo = t] \in Restore
  BY DEF Restore
<1>6. QED BY <1>1, <1>2, <1>3, <1>4, <1>5

-----------------------------------------------------------------------------
(* Every step of the system is a step of the store, or leaves it alone. *)

EditStep == \E i \in Ids, e \in Entry :
    /\ Live(i) /\ Put(i, e) /\ e.status # "gone"
    /\ e.key = entries[i].key /\ e.pinned = entries[i].pinned

TouchStep == \E i \in Ids :
    \/ Live(i) /\ MakePersistent(i)
    \/ CancelWork(i)
    \/ SetCancelFunc(i)
    \/ Lapse(i)

RemoveStep ==
    \/ \E S \in SUBSET LiveIds : Remove(S)
    \/ \E u \in Users : DeleteByUser(u)
    \/ DeleteAll
    \/ Cleanup

RestoresStep ==
    \/ ListRows \/ ListFails \/ MergeRows \/ RestoreDone
    \/ \E i \in Ids : DeleteSuperseded(i) \/ ContextEnds(i)

\* No entry changes its stream, and none is made.
CalmStep == UNCHANGED store \/ TouchStep \/ RemoveStep \/ RestoresStep

\* A new entry comes with its worker.
NewEntry == \E k \in Keys, manual \in BOOLEAN :
    CreateScoped(k, manual) /\ worker' = [worker EXCEPT ![NextId] = "spawned"]

StoreStep ==
    \/ CalmStep \/ EditStep
    \/ \E k \in Keys, manual \in BOOLEAN : CreateScoped(k, manual)
    \/ StoreRestart

CalmOrNew == (CalmStep /\ UNCHANGED worker) \/ NewEntry

\* What the actors hand to Update and UpdateWorker.
LEMMA Handed ==
    ASSUME NEW e \in Entry
    PROVE  /\ \A s \in Statuses : [e EXCEPT !.status = s] \in Entry
           /\ [e EXCEPT !.status = "probing", !.path = Found] \in Entry
           /\ [e EXCEPT !.tracks = Found] \in Entry
           /\ \A path \in Paths : Adopted(e, path) \in Entry /\ Refreshed(e, path) \in Entry
<1>1. ASSUME NEW s \in Statuses PROVE [e EXCEPT !.status = s] \in Entry
  BY DEF Entry
<1>2. [e EXCEPT !.status = "probing", !.path = Found] \in Entry
  BY Basics DEF Entry, Statuses, Progress
<1>3. [e EXCEPT !.tracks = Found] \in Entry
  BY Basics DEF Entry
<1>4. ASSUME NEW path \in Paths PROVE Adopted(e, path) \in Entry
  BY Basics DEF Entry, Adopted, Statuses
<1>5. ASSUME NEW path \in Paths PROVE Refreshed(e, path) \in Entry
  <2>1. [e EXCEPT !.tracks = path, !.adopted = TRUE] \in Entry
    BY DEF Entry
  <2>2. QED BY <2>1 DEF Refreshed
<1>6. QED BY <1>1, <1>2, <1>3, <1>4, <1>5

LEMMA UpdatesAreSteps ==
    ASSUME StoreTypeOK, NEW i \in Ids, NEW e \in Entry, e.key = entries[i].key,
           e.pinned = entries[i].pinned, Live(i) => e.status # "gone", Update(i, e) \/ UpdateWorker(i, e)
    PROVE  StoreStep
<1>1. CASE UNCHANGED store
  BY <1>1 DEF StoreStep, CalmStep
<1>2. CASE Live(i) /\ Put(i, e)
  <2>1. EditStep
    BY <1>2 DEF EditStep
  <2>2. QED BY <2>1 DEF StoreStep
<1>3. QED BY <1>1, <1>2 DEF Update, UpdateWorker, WorkerMayWrite

LEMMA WorkersUpdate ==
    ASSUME StoreTypeOK, NEW i \in Ids
    PROVE  /\ entries[i] \in Entry
           /\ \A s \in Statuses :
                /\ [entries[i] EXCEPT !.status = s].key = entries[i].key
                /\ [entries[i] EXCEPT !.status = s].status = s
                /\ [entries[i] EXCEPT !.status = s].pinned = entries[i].pinned
           /\ [entries[i] EXCEPT !.status = "probing", !.path = Found].key = entries[i].key
           /\ [entries[i] EXCEPT !.status = "probing", !.path = Found].status = "probing"
           /\ [entries[i] EXCEPT !.status = "probing", !.path = Found].pinned = entries[i].pinned
           /\ [entries[i] EXCEPT !.tracks = Found].key = entries[i].key
           /\ [entries[i] EXCEPT !.tracks = Found].status = entries[i].status
           /\ [entries[i] EXCEPT !.tracks = Found].pinned = entries[i].pinned
           /\ \A path \in Paths :
                /\ Adopted(entries[i], path).key = entries[i].key
                /\ Adopted(entries[i], path).status = "ready"
                /\ Adopted(entries[i], path).pinned = entries[i].pinned
                /\ Refreshed(entries[i], path).key = entries[i].key
                /\ Refreshed(entries[i], path).status = entries[i].status
                /\ Refreshed(entries[i], path).pinned = entries[i].pinned
<1>1. entries[i] \in Entry
  BY DEF StoreTypeOK
<1>2. QED BY <1>1 DEF Entry, Adopted, Refreshed

LEMMA WorkersTakeSteps ==
    ASSUME StoreTypeOK, NEW i \in Ids, WorkerStep(i) \/ WorkerStoresTracks(i)
    PROVE  StoreStep
<1>0. {"searching", "failed", "ready"} \subseteq Statuses /\ "gone" \notin {"searching", "failed", "ready"}
  BY DEF Statuses, Progress
<1>1. CASE WorkerSetsCancel(i)
  <2>1. TouchStep
    BY <1>1 DEF WorkerSetsCancel, TouchStep
  <2>2. QED BY <2>1 DEF StoreStep, CalmStep
<1>2. CASE WorkerStarts(i)
  BY <1>0, <1>2, WorkersUpdate, Handed, UpdatesAreSteps DEF WorkerStarts
<1>3. CASE WorkerResolves(i)
  BY <1>3, WorkersUpdate, Handed, UpdatesAreSteps DEF WorkerResolves
<1>4. CASE WorkerFails(i)
  BY <1>0, <1>4, WorkersUpdate, Handed, UpdatesAreSteps DEF WorkerFails
<1>5. CASE WorkerFinishes(i)
  BY <1>0, <1>5, WorkersUpdate, Handed, UpdatesAreSteps DEF WorkerFinishes
<1>6. CASE WorkerStoresTracks(i)
  BY <1>6, WorkersUpdate, Handed, UpdatesAreSteps DEF WorkerStoresTracks, Live
<1>7. QED BY <1>1, <1>2, <1>3, <1>4, <1>5, <1>6 DEF WorkerStep

RequestStep(r) ==
    \/ \E k \in Keys : Lookup(r, k)
    \/ PinReused(r)
    \/ DiscardStale(r)
    \/ \E manual \in BOOLEAN : CreateEntry(r, manual)

PlayerStep(p) ==
    \/ \E i \in Ids : PlayerTakesOver(p, i)
    \/ PlayerAdopts(p)
    \/ PlayerRefreshes(p)

JobStep(w) == (\E k \in Keys : WarmStarts(w, k)) \/ WarmStep(w)

\* The steps that no actor of the model takes.
OtherStep ==
    \/ \E i \in Ids : DeleteOne(i) \/ TimePasses(i)
    \/ \E p \in Streams : DeleteStream(p)
    \/ \E u \in Users : DeleteProfile(u)
    \/ ClearAll
    \/ Clean
    \/ RestoreStep

LEMMA NextSplits ==
    ASSUME Next
    PROVE  \/ \E r \in Requests : RequestStep(r)
           \/ \E i \in Ids : WorkerStep(i) \/ WorkerStoresTracks(i)
           \/ \E p \in Players : PlayerStep(p)
           \/ \E w \in Warmers : JobStep(w)
           \/ OtherStep
           \/ Restart
BY DEF Next, RequestStep, PlayerStep, JobStep, OtherStep

LEMMA DeletesAreSteps ==
    ASSUME NEW i, Delete(i)
    PROVE  CalmStep
<1>1. {i} \cap LiveIds \in SUBSET LiveIds
  OBVIOUS
<1>2. RemoveStep
  BY <1>1 DEF Delete, RemoveStep
<1>3. QED BY <1>2 DEF CalmStep

LEMMA RequestsTakeSteps ==
    ASSUME TypeOK, ActorsOK, NEW r \in Requests, RequestStep(r)
    PROVE  CalmOrNew
<1>1. CASE \E k \in Keys : Lookup(r, k)
  BY <1>1 DEF Lookup, CalmOrNew, CalmStep
<1>2. CASE PinReused(r)
  <2>1. request[r].id \in Ids /\ MakePersistent(request[r].id)
    BY <1>2 DEF PinReused, ActorsOK
  <2>2. CASE Live(request[r].id)
    <3>1. TouchStep
      BY <2>1, <2>2 DEF TouchStep
    <3>2. QED BY <1>2, <3>1 DEF CalmOrNew, CalmStep, PinReused
  <2>3. CASE ~ Live(request[r].id)
    BY <1>2, <2>1, <2>3 DEF MakePersistent, CalmOrNew, CalmStep, PinReused
  <2>4. QED BY <2>2, <2>3
<1>3. CASE DiscardStale(r)
  BY <1>3, DeletesAreSteps DEF DiscardStale, CalmOrNew
<1>4. CASE \E manual \in BOOLEAN : CreateEntry(r, manual)
  <2>1. request[r].key \in Keys
    BY DEF TypeOK, Request
  <2>2. QED BY <1>4, <2>1 DEF CreateEntry, CalmOrNew, NewEntry
<1>5. QED BY <1>1, <1>2, <1>3, <1>4 DEF RequestStep

LEMMA PlayersTakeSteps ==
    ASSUME TypeOK, ActorsOK, NEW p \in Players, PlayerStep(p)
    PROVE  StoreStep
<1>0. Brings[p] \in Paths
  BY PrequeueAssumption DEF Paths
<1>1. CASE \E i \in Ids : PlayerTakesOver(p, i)
  <2>1. TouchStep
    BY <1>1 DEF PlayerTakesOver, TouchStep
  <2>2. QED BY <2>1 DEF StoreStep, CalmStep
<1>2. CASE PlayerAdopts(p)
  <2>1. player[p].id \in Ids
    BY <1>2 DEF PlayerAdopts, ActorsOK
  <2>2. StoreTypeOK /\ entries[player[p].id] \in Entry
    BY <2>1 DEF TypeOK, StoreTypeOK
  <2> DEFINE e == Adopted(entries[player[p].id], Brings[p])
  <2>3. e \in Entry /\ e.key = entries[player[p].id].key /\ e.status = "ready"
        /\ e.pinned = entries[player[p].id].pinned
    BY <1>0, <2>1, <2>2, WorkersUpdate, Handed
  <2>4. Update(player[p].id, e)
    BY <1>2 DEF PlayerAdopts
  <2> HIDE DEF e
  <2>5. QED BY <2>1, <2>2, <2>3, <2>4, UpdatesAreSteps
<1>3. CASE PlayerRefreshes(p)
  <2>1. player[p].id \in Ids
    BY <1>3 DEF PlayerRefreshes, ActorsOK
  <2>2. StoreTypeOK /\ entries[player[p].id] \in Entry
    BY <2>1 DEF TypeOK, StoreTypeOK
  <2> DEFINE e == Refreshed(entries[player[p].id], Brings[p])
  <2>3. e \in Entry /\ e.key = entries[player[p].id].key
        /\ e.status = entries[player[p].id].status
        /\ e.pinned = entries[player[p].id].pinned
    BY <1>0, <2>1, <2>2, WorkersUpdate, Handed
  <2>4. Update(player[p].id, e)
    BY <1>3 DEF PlayerRefreshes
  <2> HIDE DEF e
  <2>5. QED BY <2>1, <2>2, <2>3, <2>4, UpdatesAreSteps DEF Live
<1>4. QED BY <1>1, <1>2, <1>3 DEF PlayerStep

LEMMA WarmersTakeSteps ==
    ASSUME TypeOK, ActorsOK, NEW w \in Warmers, JobStep(w)
    PROVE  CalmOrNew
<1>1. CASE \E k \in Keys : WarmStarts(w, k)
  BY <1>1 DEF WarmStarts, CalmOrNew, NewEntry
<1>2. CASE WarmIsAnswered(w) \/ WarmTimesOut(w)
  BY <1>2 DEF WarmIsAnswered, WarmTimesOut, CalmOrNew, CalmStep
<1>3. CASE WarmCancels(w)
  <2>1. warm[w].id \in Ids /\ CancelWork(warm[w].id)
    BY <1>3 DEF WarmCancels, ActorsOK
  <2>2. TouchStep
    BY <2>1 DEF TouchStep
  <2>3. QED BY <1>3, <2>2 DEF CalmOrNew, CalmStep, WarmCancels
<1>4. CASE WarmDeletes(w)
  BY <1>4, DeletesAreSteps DEF WarmDeletes, CalmOrNew
<1>5. QED BY <1>1, <1>2, <1>3, <1>4 DEF JobStep, WarmStep

LEMMA OthersTakeSteps ==
    ASSUME TypeOK, OtherStep
    PROVE  CalmStep
<1>1. CASE \E i \in Ids : DeleteOne(i)
  BY <1>1, DeletesAreSteps DEF DeleteOne
<1>2. CASE \E i \in Ids : TimePasses(i)
  <2>1. TouchStep
    BY <1>2 DEF TimePasses, TouchStep
  <2>2. QED BY <2>1 DEF CalmStep
<1>3. ASSUME NEW p \in Streams, DeleteStream(p) PROVE CalmStep
  <2>1. {i \in LiveIds : entries[i].path = p} \in SUBSET LiveIds
    OBVIOUS
  <2>2. RemoveStep
    BY <1>3, <2>1 DEF DeleteStream, DeleteByStreamPath, RemoveStep
  <2>3. QED BY <2>2 DEF CalmStep
<1>4. ASSUME NEW u \in Users, DeleteProfile(u) PROVE CalmStep
  <2>1. RemoveStep
    BY <1>4 DEF DeleteProfile, RemoveStep
  <2>2. QED BY <2>1 DEF CalmStep
<1>5. CASE ClearAll \/ Clean
  <2>1. RemoveStep
    BY <1>5 DEF ClearAll, Clean, RemoveStep
  <2>2. QED BY <2>1 DEF CalmStep
<1>6. CASE RestoreStep
  <2>1. RestoresStep
    BY <1>6 DEF RestoreStep, RestoresStep, RestoreLists, RestoreFails, RestoreMerges,
                RestoreDeletes, RestoreEnds, RestoreIsCutShort
  <2>2. QED BY <2>1 DEF CalmStep
<1>7. QED BY <1>1, <1>2, <1>3, <1>4, <1>5, <1>6 DEF OtherStep

LEMMA NextIsStoreStep ==
    ASSUME TypeOK, ActorsOK, [Next]_vars
    PROVE  StoreStep
<1>1. CASE Restart
  BY <1>1 DEF Restart, StoreStep
<1>2. CASE UNCHANGED vars
  BY <1>2 DEF vars, StoreStep, CalmStep, store
<1>3. StoreTypeOK
  BY DEF TypeOK
<1>4. QED BY <1>1, <1>2, <1>3, NextSplits, RequestsTakeSteps, WorkersTakeSteps, PlayersTakeSteps,
             WarmersTakeSteps, OthersTakeSteps DEF StoreStep, CalmOrNew, NewEntry

-----------------------------------------------------------------------------
(* Type correctness. *)

LEMMA ForgetType ==
    ASSUME StoreTypeOK, NEW S \in SUBSET Ids, Forget(S)
    PROVE  /\ entries' \in [Ids -> Entry]
           /\ index' \in [Keys -> Ids \cup {NoId}]
           /\ stopped' \subseteq Ids
BY GoneIs DEF StoreTypeOK, Forget

\* What a removal of the entries of S leaves: their rows too, or not; of the others
\* expired rows may go and ready entries may be saved again.
StillUnsaved(i) == i \in unsaved => i \in unsaved'

SavedAgain(i) ==
    entries[i].status = "ready" /\ ~ entries[i].expired /\ rows'[i] = Saved(entries[i])

Removes(S) ==
    /\ Forget(S)
    /\ UNCHANGED <<made, restore>>
    /\ rows' \in [Ids -> Entry] /\ unsaved' \subseteq Ids
    /\ \A i \in S : rows'[i] \in {rows[i], Gone}
    /\ \A i \in Ids \ S :
         \/ rows'[i] = rows[i] /\ StillUnsaved(i)
         \/ rows'[i] = Gone /\ rows[i].expired /\ StillUnsaved(i)
         \/ SavedAgain(i)

LEMMA RemovalIs ==
    ASSUME StoreTypeOK, RemoveStep
    PROVE  \E S \in SUBSET Ids : Removes(S)
<1>a. /\ rows \in [Ids -> Entry] /\ entries \in [Ids -> Entry] /\ unsaved \subseteq Ids
      /\ Gone \in Entry /\ \A i \in Ids : Saved(entries[i]) \in Entry
  BY GoneIs, SavedIs DEF StoreTypeOK
<1>b. LiveIds \subseteq Ids
  BY DEF LiveIds
<1>n. \A i \in Ids : NoRows[i] = Gone /\ RowsAsEntries[i] = Saved(entries[i])
  BY DEF NoRows, RowsAsEntries
<1>1. ASSUME NEW S \in SUBSET LiveIds, Remove(S) PROVE Removes(S)
  <2>1. S \in SUBSET Ids /\ Forget(S) /\ Sent(S, NoRows) /\ UNCHANGED <<made, restore>>
    BY <1>1, <1>b DEF Remove
  <2>2. \A i \in S : NoRows[i] \in Entry
    BY <1>a, <1>n, <2>1
  <2>3. rows' \in [Ids -> Entry] /\ unsaved' \subseteq Ids
    BY <2>1, <2>2, SentType
  <2>4. \A i \in S : rows'[i] \in {rows[i], Gone}
    BY <1>n, <2>1, SentRow
  <2>5. \A i \in Ids \ S : rows'[i] = rows[i] /\ StillUnsaved(i)
    BY <2>1, SentRow DEF StillUnsaved
  <2>6. QED BY <2>1, <2>3, <2>4, <2>5 DEF Removes
<1>2. ASSUME NEW u \in Users, DeleteByUser(u) PROVE \E S \in SUBSET Ids : Removes(S)
  <2> DEFINE gone == {i \in LiveIds : Owner[entries[i].key] = u}
             T == gone \cup SavedAfter(gone)
             new == [i \in Ids |-> IF i \in gone THEN Gone ELSE RowsAsEntries[i]]
  <2>1. Forget(gone) /\ Sent(T, new) /\ UNCHANGED <<made, restore>>
    BY <1>2 DEF DeleteByUser
  <2>2. gone \in SUBSET Ids
    BY <1>b
  <2>3. /\ \A i \in gone : new[i] = Gone /\ i \in T
        /\ \A i \in Ids \ gone : new[i] = Saved(entries[i])
        /\ \A i \in Ids \ gone : i \in T => entries[i].status = "ready" /\ ~ entries[i].expired
        /\ T \in SUBSET Ids
    BY <1>n, <2>2 DEF SavedAfter
  <2> HIDE DEF gone, T, new
  <2>4. rows' \in [Ids -> Entry] /\ unsaved' \subseteq Ids
    <3>1. \A i \in T : new[i] \in Entry
      BY <1>a, <2>3
    <3>2. QED BY <2>1, <2>3, <3>1, SentType
  <2>5. \A i \in gone : rows'[i] \in {rows[i], Gone}
    BY <2>1, <2>2, <2>3, SentRow
  <2>6. ASSUME NEW i \in Ids \ gone
        PROVE  \/ rows'[i] = rows[i] /\ StillUnsaved(i)
               \/ SavedAgain(i)
    BY <2>1, <2>3, SentRow DEF StillUnsaved, SavedAgain
  <2>7. Removes(gone)
    BY <2>1, <2>4, <2>5, <2>6 DEF Removes
  <2>8. QED BY <2>2, <2>7
<1>3. CASE DeleteAll
  <2>1. Forget(LiveIds) /\ UNCHANGED <<rows, unsaved, made, restore>>
    BY <1>3 DEF DeleteAll
  <2>2. Removes(LiveIds)
    BY <1>a, <2>1 DEF Removes, StillUnsaved
  <2>3. QED BY <1>b, <2>2
<1>4. CASE Cleanup
  <2> DEFINE gone == {i \in LiveIds : entries[i].expired}
  <2>1. Forget(gone) /\ UNCHANGED <<made, restore>>
    BY <1>4 DEF Cleanup
  <2>2. gone \in SUBSET Ids
    BY <1>b
  <2> DEFINE T == SavedAfter(gone)
  <2>3. PICK F \in SUBSET T : Fail(T, F) /\ ExpiredGo(RowsAfter(T, F, RowsAsEntries))
    BY <1>4 DEF Cleanup
  <2>4. \A i \in T : i \in Ids \ gone /\ entries[i].status = "ready" /\ ~ entries[i].expired
    BY DEF SavedAfter
  <2> HIDE DEF gone, T
  <2> DEFINE table == RowsAfter(T, F, RowsAsEntries)
  <2>5. /\ unsaved' = (unsaved \ T) \cup F
        /\ \A i \in Ids : table[i] = IF i \in T \ F THEN Saved(entries[i]) ELSE rows[i]
        /\ table \in [Ids -> Entry]
    BY <1>a, <1>n, <2>3 DEF Fail, RowsAfter
  <2> HIDE DEF table
  <2>6. /\ rows' \in [Ids -> Entry]
        /\ \A i \in Ids : rows'[i] = table[i] \/ (table[i].expired /\ rows'[i] = Gone)
    BY <1>a, <2>3, <2>5 DEF ExpiredGo, table
  <2>7. unsaved' \subseteq Ids
    BY <1>a, <2>3, <2>4, <2>5
  <2>8. \A i \in gone : rows'[i] \in {rows[i], Gone}
    BY <2>2, <2>4, <2>5, <2>6
  <2>9. ASSUME NEW i \in Ids \ gone
        PROVE  \/ rows'[i] = rows[i] /\ StillUnsaved(i)
               \/ rows'[i] = Gone /\ rows[i].expired /\ StillUnsaved(i)
               \/ SavedAgain(i)
    <3>1. CASE i \in T \ F
      <4>1. table[i] = Saved(entries[i]) /\ ~ table[i].expired
        BY <1>a, <2>4, <2>5, <3>1, SavedIs
      <4>2. QED BY <2>4, <2>6, <3>1, <4>1 DEF SavedAgain
    <3>2. CASE i \notin T \ F
      <4>1. table[i] = rows[i] /\ StillUnsaved(i)
        BY <2>5, <3>2 DEF StillUnsaved
      <4>2. QED BY <2>6, <4>1
    <3>3. QED BY <3>1, <3>2
  <2>10. Removes(gone)
    BY <2>1, <2>6, <2>7, <2>8, <2>9 DEF Removes
  <2>11. QED BY <2>2, <2>10
<1>5. QED BY <1>1, <1>2, <1>3, <1>4, <1>b DEF RemoveStep

LEMMA StoreType ==
    ASSUME StoreTypeOK, StoreStep
    PROVE  StoreTypeOK'
<1>a. /\ entries \in [Ids -> Entry] /\ rows \in [Ids -> Entry]
      /\ index \in [Keys -> Ids \cup {NoId}]
      /\ unsaved \subseteq Ids
      /\ stopped \subseteq Ids /\ made \in 0..MaxEntries /\ restore \in Restore
  BY DEF StoreTypeOK
<1>1. CASE UNCHANGED store
  BY <1>1 DEF store, StoreTypeOK
<1>2. ASSUME NEW i \in Ids, NEW e \in Entry, Put(i, e) PROVE StoreTypeOK'
  <2>1. PutOf(i, e) \in Entry
    BY PutIs
  <2>2. entries' \in [Ids -> Entry]
    BY <1>2, <1>a, <2>1, PutSteps
  <2>3. QED BY <1>2, <1>a, <2>2, PutSteps DEF StoreTypeOK
<1>3. ASSUME NEW i \in Ids, Live(i), MakePersistent(i) PROVE StoreTypeOK'
  <2>1. entries' \in [Ids -> Entry]
    BY <1>3, <1>a, PinIs
  <2>2. QED BY <1>3, <1>a, <2>1, PinIs DEF StoreTypeOK
<1>4. ASSUME NEW i \in Ids, CancelWork(i) \/ SetCancelFunc(i) PROVE StoreTypeOK'
  <2>1. \A b \in BOOLEAN : [entries[i] EXCEPT !.hook = b] \in Entry
    BY <1>a DEF Entry
  <2>2. entries' \in [Ids -> Entry]
    BY <1>4, <1>a, <2>1 DEF CancelWork, SetCancelFunc, store
  <2>3. stopped' \subseteq Ids /\ UNCHANGED <<index, rows, unsaved, made, restore>>
    BY <1>4, <1>a DEF CancelWork, SetCancelFunc, store
  <2>4. QED BY <1>a, <2>2, <2>3 DEF StoreTypeOK
<1>5. ASSUME NEW i \in Ids, Lapse(i) PROVE StoreTypeOK'
  <2>1. \A e \in Entry : Lapsed(e) \in Entry
    BY LapsedIs
  <2>2. restore.list \in [Ids -> Entry]
    BY <1>a, RestoreIs
  <2>3. [restore.list EXCEPT ![i] = Lapsed(restore.list[i])] \in [Ids -> Entry]
    BY <2>1, <2>2
  <2>4. restore' = [restore EXCEPT !.list = [restore.list EXCEPT ![i] = Lapsed(restore.list[i])]]
    BY <1>5, <1>a DEF Lapse, Restore
  <2>5. restore' \in Restore
    BY <1>a, <2>3, <2>4, RestoreIs
  <2>6. QED BY <1>5, <1>a, <2>1, <2>5 DEF Lapse, StoreTypeOK
<1>6. CASE RemoveStep
  <2>1. PICK S \in SUBSET Ids : Removes(S)
    BY <1>6, RemovalIs
  <2>2. QED BY <1>a, <2>1, ForgetType DEF Removes, StoreTypeOK
<1>7. ASSUME NEW k \in Keys, NEW manual \in BOOLEAN, CreateScoped(k, manual) PROVE StoreTypeOK'
  <2>0. Gone \in Entry
    BY GoneIs
  <2>1. \A pin \in BOOLEAN : Fresh(k, pin) \in Entry
    BY <2>0 DEF Fresh, Entry, Statuses, Progress
  <2>2. (manual \/ KeepsPin(k)) \in BOOLEAN
    OBVIOUS
  <2>3. Fresh(k, manual \/ KeepsPin(k)) \in Entry
    BY <2>1, <2>2
  <2>4. entries' \in [Ids -> Entry]
    BY <1>7, <1>a, <2>0, <2>3 DEF CreateScoped
  <2>r. rows' \in [Ids -> Entry] /\ unsaved' \subseteq Ids
    <3>1. {index[k]} \ {NoId} \in SUBSET Ids /\ Sent({index[k]} \ {NoId}, NoRows)
      BY <1>7, <1>a DEF CreateScoped
    <3>2. \A i \in {index[k]} \ {NoId} : NoRows[i] \in Entry
      BY <2>0, <3>1 DEF NoRows
    <3>3. QED BY <3>1, <3>2, SentType
  <2>5. NextId \in Ids /\ made' \in 0..MaxEntries
    BY <1>7, <1>a, Basics DEF CreateScoped, NextId
  <2>6. index' \in [Keys -> Ids \cup {NoId}]
    BY <1>7, <1>a, <2>5 DEF CreateScoped
  <2>7. stopped' \subseteq Ids
    BY <1>7, <1>a DEF CreateScoped
  <2>8. QED BY <1>7, <1>a, <2>4, <2>r, <2>5, <2>6, <2>7 DEF CreateScoped, StoreTypeOK
<1>8. CASE ListRows
  <2>1. [i \in Ids |-> IF rows[i].expired THEN Gone ELSE rows[i]] \in [Ids -> Entry]
    BY <1>a, GoneIs
  <2>2. restore' \in Restore
    BY <1>8, <1>a, <2>1, RestoreIs DEF ListRows
  <2>3. QED BY <1>8, <1>a, <2>2 DEF ListRows, StoreTypeOK
<1>9. CASE ListFails
  BY <1>9, <1>a, RestoreIs DEF ListFails, StoreTypeOK
<1>10. CASE MergeRows
  <2>1. restore.list \in [Ids -> Entry]
    BY <1>a, RestoreIs
  <2>2. entries' \in [Ids -> Entry]
    BY <1>10, <1>a, <2>1, GoneIs DEF MergeRows
  <2>3. Restorable \subseteq Ids
    BY DEF Restorable
  <2>4. index' \in [Keys -> Ids \cup {NoId}]
    <3>1. SUFFICES ASSUME NEW k \in Keys
                   PROVE  (IF \E i \in Restorable : restore.list[i].key = k
                             THEN CHOOSE i \in Restorable : restore.list[i].key = k
                             ELSE index[k]) \in Ids \cup {NoId}
      BY <1>10 DEF MergeRows
    <3>2. QED BY <1>a, <2>3
  <2>5. Displaced \subseteq Ids
    <3>1. \A i \in Ids : index[restore.list[i].key] \in Ids \cup {NoId}
      BY <1>a, <2>1 DEF Entry
    <3>2. QED BY <2>3, <3>1 DEF Displaced
  <2>6. NothingRestored.list \in [Ids -> Entry]
    BY GoneIs DEF NothingRestored
  <2>7. restore' \in Restore
    BY <1>10, <2>3, <2>5, <2>6 DEF MergeRows, Restore
  <2>8. QED BY <1>10, <1>a, <2>2, <2>4, <2>7 DEF MergeRows, StoreTypeOK
<1>11. ASSUME NEW i \in Ids, DeleteSuperseded(i) PROVE StoreTypeOK'
  <2>1. restore.todo \ {i} \in SUBSET Ids
    BY <1>a, RestoreIs
  <2>2. restore' = [restore EXCEPT !.todo = restore.todo \ {i}]
    BY <1>11 DEF DeleteSuperseded
  <2>3. restore' \in Restore
    BY <1>a, <2>1, <2>2, RestoreIs
  <2>4. rows' \in [Ids -> Entry] /\ unsaved' \subseteq Ids
    <3>1. Sent({i}, NoRows) /\ \A j \in {i} : NoRows[j] \in Entry
      BY <1>11, GoneIs DEF DeleteSuperseded, NoRows
    <3>2. QED BY <3>1, SentType
  <2>5. QED BY <1>11, <1>a, <2>3, <2>4 DEF DeleteSuperseded, StoreTypeOK
<1>12. CASE RestoreDone
  <2>1. rows' \in [Ids -> Entry]
    BY <1>12, <1>a, GoneIs DEF RestoreDone, ExpiredGo
  <2>2. QED BY <1>12, <1>a, <2>1, RestoreIs DEF RestoreDone, StoreTypeOK
<1>13. CASE StoreRestart
  <2>1. NothingRestored \in Restore
    BY GoneIs DEF NothingRestored, Restore
  <2>2. QED BY <1>13, <1>a, <2>1, GoneIs DEF StoreRestart, StoreTypeOK
<1>14. ASSUME NEW n \in Ids, ContextEnds(n) PROVE StoreTypeOK'
  <2> DEFINE l == [i \in Ids |-> IF i < n THEN restore.list[i] ELSE Gone]
  <2>1. restore.list \in [Ids -> Entry]
    BY <1>a, RestoreIs
  <2>2. l \in [Ids -> Entry]
    BY <2>1, GoneIs
  <2>3. restore' = [restore EXCEPT !.pc = "short", !.list = l]
    BY <1>14 DEF ContextEnds
  <2> HIDE DEF l
  <2>4. restore' \in Restore
    BY <1>a, <2>2, <2>3, RestoreIs
  <2>5. QED BY <1>14, <1>a, <2>4 DEF ContextEnds, StoreTypeOK
<1>15. QED BY <1>1, <1>2, <1>3, <1>4, <1>5, <1>6, <1>7, <1>8, <1>9, <1>10, <1>11,
              <1>12, <1>13, <1>14
           DEF StoreStep, CalmStep, EditStep, TouchStep, RestoresStep

\* The shapes of the actors.
LEMMA IdleShapes ==
    /\ IdleRequest \in Request /\ IdleRequest.pc = "idle"
    /\ IdlePlayer \in Player /\ IdlePlayer.pc = "idle"
    /\ IdleWarm \in Warm /\ IdleWarm.pc = "idle"
<1>1. Gone.key \in Keys
  BY GoneIs DEF Entry
<1>2. QED BY <1>1 DEF IdleRequest, IdlePlayer, IdleWarm, Request, Player, Warm

LEMMA ActorShapes ==
    /\ \A v \in Request : [v EXCEPT !.pc = "create", !.id = NoId] \in Request
    /\ \A v \in Player : [v EXCEPT !.pc = "probing"] \in Player
    /\ \A v \in Warm : [v EXCEPT !.pc = "delete"] \in Warm
    /\ \A v \in Warm : \A i \in Ids : [v EXCEPT !.pc = "cancel", !.id = i] \in Warm
<1>1. \A v \in Request : [v EXCEPT !.pc = "create", !.id = NoId] \in Request
  BY DEF Request
<1>2. \A v \in Player : [v EXCEPT !.pc = "probing"] \in Player
  BY DEF Player
<1>3. \A v \in Warm : [v EXCEPT !.pc = "delete"] \in Warm
  BY DEF Warm
<1>4. \A v \in Warm : \A i \in Ids : [v EXCEPT !.pc = "cancel", !.id = i] \in Warm
  BY DEF Warm
<1>5. QED BY <1>1, <1>2, <1>3, <1>4

Acting == TypeOK /\ ActorsOK

LEMMA FoundAtIsAnId ==
    ASSUME StoreTypeOK, NEW k \in Keys, NEW i \in FoundAt(k)
    PROVE  i \in Ids /\ Live(i) /\ ~ entries[i].expired /\ i = index[k]
BY DEF FoundAt, StoreTypeOK, Readable

LEMMA CreatesNext ==
    ASSUME StoreTypeOK, NEW k \in Keys, NEW manual \in BOOLEAN, CreateScoped(k, manual)
    PROVE  NextId \in Ids /\ made' = NextId /\ made \in Nat
BY Basics DEF CreateScoped, StoreTypeOK, NextId

\* What each actor does to the others, and to itself.
LEMMA RequestActs ==
    ASSUME Acting, NEW r \in Requests, RequestStep(r)
    PROVE  /\ worker' \in [Ids -> WorkerPc] /\ request' \in [Requests -> Request]
           /\ \A q \in Requests : request'[q].pc = "reuse" => request'[q].id \in Ids
           /\ UNCHANGED <<player, warm, restarts>>
<1>a. /\ StoreTypeOK /\ request \in [Requests -> Request] /\ worker \in [Ids -> WorkerPc]
      /\ \A q \in Requests : request[q].pc = "reuse" => request[q].id \in Ids
  BY DEF Acting, TypeOK, ActorsOK
<1>1. ASSUME NEW k \in Keys, Lookup(r, k)
      PROVE  /\ request' \in [Requests -> Request] /\ UNCHANGED <<worker, player, warm, restarts>>
             /\ \A q \in Requests : request'[q].pc = "reuse" => request'[q].id \in Ids
  <2>1. ASSUME NEW i \in FoundAt(k) PROVE [pc |-> "reuse", key |-> k, id |-> i] \in Request
    BY <1>a, <2>1, FoundAtIsAnId DEF Request
  <2>2. [pc |-> "create", key |-> k, id |-> NoId] \in Request
    BY DEF Request
  <2>3. UNCHANGED <<worker, player, warm, restarts>>
    BY <1>1 DEF Lookup
  <2>4. request' \in [Requests -> Request]
    BY <1>1, <1>a, <2>1, <2>2 DEF Lookup
  <2>5. \A q \in Requests : request'[q].pc = "reuse" => request'[q].id \in Ids
    BY <1>1, <1>a, FoundAtIsAnId DEF Lookup
  <2>6. QED BY <2>3, <2>4, <2>5
<1>2. CASE PinReused(r)
  BY <1>2, <1>a, IdleShapes DEF PinReused
<1>3. CASE DiscardStale(r)
  <2>1. [request[r] EXCEPT !.pc = "create", !.id = NoId] \in Request
    BY <1>a, ActorShapes
  <2>2. request' = [request EXCEPT ![r] = [request[r] EXCEPT !.pc = "create", !.id = NoId]]
    BY <1>3, <1>a DEF DiscardStale, Request
  <2>3. [request[r] EXCEPT !.pc = "create", !.id = NoId].pc = "create"
    BY <1>a DEF Request
  <2>4. QED BY <1>3, <1>a, <2>1, <2>2, <2>3 DEF DiscardStale
<1>4. ASSUME NEW manual \in BOOLEAN, CreateEntry(r, manual)
      PROVE  /\ request' \in [Requests -> Request] /\ worker' \in [Ids -> WorkerPc]
             /\ UNCHANGED <<player, warm, restarts>>
             /\ \A q \in Requests : request'[q].pc = "reuse" => request'[q].id \in Ids
  BY <1>4, <1>a, IdleShapes DEF CreateEntry, WorkerPc
<1>5. QED BY <1>1, <1>2, <1>3, <1>4, <1>a DEF RequestStep

LEMMA WorkerActs ==
    ASSUME Acting, NEW i \in Ids, WorkerStep(i) \/ WorkerStoresTracks(i)
    PROVE  worker' \in [Ids -> WorkerPc] /\ UNCHANGED <<request, player, warm, restarts>>
<1>a. worker \in [Ids -> WorkerPc]
  BY DEF Acting, TypeOK
<1>1. CASE WorkerSetsCancel(i) \/ WorkerResolves(i) \/ WorkerFails(i) \/ WorkerFinishes(i)
  BY <1>1, <1>a DEF WorkerSetsCancel, WorkerResolves, WorkerFails, WorkerFinishes, WorkerPc
<1>2. CASE WorkerStarts(i)
  BY <1>2, <1>a DEF WorkerStarts, WorkerPc
<1>3. CASE WorkerStoresTracks(i)
  BY <1>3, <1>a DEF WorkerStoresTracks, actors
<1>4. QED BY <1>1, <1>2, <1>3 DEF WorkerStep

LEMMA PlayerActs ==
    ASSUME Acting, NEW p \in Players, PlayerStep(p)
    PROVE  /\ player' \in [Players -> Player]
           /\ \A q \in Players : player'[q].pc # "idle" => player'[q].id \in Ids
           /\ UNCHANGED <<worker, request, warm, restarts>>
<1>a. /\ player \in [Players -> Player]
      /\ \A q \in Players : player[q].pc # "idle" => player[q].id \in Ids
  BY DEF Acting, TypeOK, ActorsOK
<1>0. UNCHANGED <<worker, request, warm, restarts>>
  BY DEF PlayerStep, PlayerTakesOver, PlayerAdopts, PlayerRefreshes
<1>1. ASSUME NEW i \in Ids, PlayerTakesOver(p, i)
      PROVE  /\ player' \in [Players -> Player]
             /\ \A q \in Players : player'[q].pc # "idle" => player'[q].id \in Ids
  <2>1. [pc |-> "cancelled", id |-> i] \in Player
    BY DEF Player
  <2>2. QED BY <1>1, <1>a, <2>1 DEF PlayerTakesOver
<1>2. CASE PlayerAdopts(p)
  <2>1. [player[p] EXCEPT !.pc = "probing"] \in Player
    BY <1>a, ActorShapes
  <2>2. [player[p] EXCEPT !.pc = "probing"].id = player[p].id /\ player[p].id \in Ids
    BY <1>2, <1>a DEF Player, PlayerAdopts
  <2>3. \/ player' = [player EXCEPT ![p] = [player[p] EXCEPT !.pc = "probing"]]
        \/ player' = [player EXCEPT ![p] = IdlePlayer]
    BY <1>2, <1>a DEF PlayerAdopts, Player
  <2>4. ASSUME NEW v \in Player, v.pc # "idle" => v.id \in Ids,
               player' = [player EXCEPT ![p] = v]
        PROVE  /\ player' \in [Players -> Player]
               /\ \A q \in Players : player'[q].pc # "idle" => player'[q].id \in Ids
    BY <1>a, <2>4
  <2> DEFINE v == [player[p] EXCEPT !.pc = "probing"]
  <2>5. v \in Player /\ (v.pc # "idle" => v.id \in Ids)
    BY <2>1, <2>2
  <2> HIDE DEF v
  <2>6. CASE player' = [player EXCEPT ![p] = v]
    BY <1>0, <2>4, <2>5, <2>6
  <2>7. CASE player' = [player EXCEPT ![p] = IdlePlayer]
    BY <1>0, <2>4, <2>7, IdleShapes
  <2>8. QED BY <2>3, <2>6, <2>7 DEF v
<1>3. CASE PlayerRefreshes(p)
  BY <1>3, <1>a, IdleShapes DEF PlayerRefreshes
<1>4. QED BY <1>0, <1>1, <1>2, <1>3 DEF PlayerStep

LEMMA WarmActs ==
    ASSUME Acting, NEW w \in Warmers, JobStep(w)
    PROVE  /\ worker' \in [Ids -> WorkerPc] /\ warm' \in [Warmers -> Warm]
           /\ \A v \in Warmers : warm'[v].pc # "idle" => warm'[v].id \in Ids
           /\ UNCHANGED <<request, player, restarts>>
<1>a. /\ StoreTypeOK /\ warm \in [Warmers -> Warm] /\ worker \in [Ids -> WorkerPc]
      /\ \A v \in Warmers : warm[v].pc # "idle" => warm[v].id \in Ids
      /\ warm[w] \in Warm
  BY DEF Acting, TypeOK, ActorsOK
<1>0. UNCHANGED <<request, player, restarts>>
  BY DEF JobStep, WarmStep, WarmStarts, WarmIsAnswered, WarmTimesOut, WarmCancels, WarmDeletes
<1>1. ASSUME NEW k \in Keys, WarmStarts(w, k)
      PROVE  /\ worker' \in [Ids -> WorkerPc] /\ warm' \in [Warmers -> Warm]
             /\ \A v \in Warmers : warm'[v].pc # "idle" => warm'[v].id \in Ids
  <2>1. CreateScoped(k, FALSE)
    BY <1>1 DEF WarmStarts
  <2>2. NextId \in Ids
    BY <1>a, <2>1, CreatesNext
  <2>3. [pc |-> "waiting", key |-> k, id |-> NextId] \in Warm
    BY <2>2 DEF Warm
  <2>4. QED BY <1>1, <1>a, <2>2, <2>3 DEF WarmStarts, WorkerPc
<1>2. CASE WarmIsAnswered(w)
  BY <1>2, <1>a, IdleShapes DEF WarmIsAnswered
<1>3. CASE WarmTimesOut(w)
  <2>1. warm[w].key \in Keys
    BY <1>a DEF Warm
  <2>2. \/ \E i \in FoundAt(warm[w].key) :
             warm' = [warm EXCEPT ![w] = [warm[w] EXCEPT !.pc = "cancel", !.id = i]]
        \/ warm' = [warm EXCEPT ![w] = IdleWarm]
    BY <1>3, <1>a DEF WarmTimesOut, Warm
  <2>3. ASSUME NEW i \in FoundAt(warm[w].key)
        PROVE  /\ i \in Ids
               /\ [warm[w] EXCEPT !.pc = "cancel", !.id = i] \in Warm
               /\ [warm[w] EXCEPT !.pc = "cancel", !.id = i].id = i
    BY <1>a, <2>1, FoundAtIsAnId, ActorShapes DEF Warm
  <2>4. UNCHANGED worker
    BY <1>3 DEF WarmTimesOut
  <2>5. ASSUME NEW v \in Warm, v.pc # "idle" => v.id \in Ids,
               warm' = [warm EXCEPT ![w] = v]
        PROVE  /\ warm' \in [Warmers -> Warm]
               /\ \A u \in Warmers : warm'[u].pc # "idle" => warm'[u].id \in Ids
    BY <1>a, <2>5
  <2>6. ASSUME NEW i \in FoundAt(warm[w].key),
               warm' = [warm EXCEPT ![w] = [warm[w] EXCEPT !.pc = "cancel", !.id = i]]
        PROVE  /\ warm' \in [Warmers -> Warm]
               /\ \A u \in Warmers : warm'[u].pc # "idle" => warm'[u].id \in Ids
    <3> DEFINE v == [warm[w] EXCEPT !.pc = "cancel", !.id = i]
    <3>1. v \in Warm /\ (v.pc # "idle" => v.id \in Ids) /\ warm' = [warm EXCEPT ![w] = v]
      BY <2>3, <2>6
    <3> HIDE DEF v
    <3>2. QED BY <2>5, <3>1
  <2>7. CASE warm' = [warm EXCEPT ![w] = IdleWarm]
    BY <1>0, <1>a, <2>4, <2>5, <2>7, IdleShapes
  <2>8. QED BY <1>0, <1>a, <2>2, <2>4, <2>6, <2>7
<1>4. CASE WarmCancels(w)
  <2>1. [warm[w] EXCEPT !.pc = "delete"] \in Warm
    BY <1>a, ActorShapes
  <2>2. [warm[w] EXCEPT !.pc = "delete"].id = warm[w].id /\ warm[w].id \in Ids
    BY <1>4, <1>a DEF Warm, WarmCancels
  <2>3. warm' = [warm EXCEPT ![w] = [warm[w] EXCEPT !.pc = "delete"]]
    BY <1>4, <1>a DEF WarmCancels, Warm
  <2>4. QED BY <1>4, <1>a, <2>1, <2>2, <2>3 DEF WarmCancels
<1>5. CASE WarmDeletes(w)
  BY <1>5, <1>a, IdleShapes DEF WarmDeletes
<1>6. QED BY <1>0, <1>1, <1>2, <1>3, <1>4, <1>5 DEF JobStep, WarmStep

LEMMA OthersDoNotAct ==
    ASSUME OtherStep
    PROVE  UNCHANGED actors
<1>1. CASE \E i \in Ids : DeleteOne(i) \/ TimePasses(i)
  BY <1>1 DEF DeleteOne, TimePasses
<1>2. CASE RestoreStep
  BY <1>2 DEF RestoreStep, RestoreLists, RestoreFails, RestoreMerges, RestoreDeletes, RestoreEnds,
              RestoreIsCutShort
<1>3. QED BY <1>1, <1>2 DEF OtherStep, DeleteStream, DeleteProfile, ClearAll, Clean

LEMMA ActingInit == Init => Acting
<1>1. SUFFICES ASSUME Init PROVE Acting
  OBVIOUS
<1>2. NothingRestored \in Restore
  BY GoneIs DEF NothingRestored, Restore
<1>3. [NothingRestored EXCEPT !.pc = Begins] \in Restore
  BY <1>2, StoreAssumption DEF Restore
<1>4. StoreTypeOK
  BY <1>1, <1>3, GoneIs, Basics DEF Init, StoreInit, StoreTypeOK
<1>5. /\ worker \in [Ids -> WorkerPc] /\ request \in [Requests -> Request]
      /\ player \in [Players -> Player] /\ warm \in [Warmers -> Warm]
      /\ restarts \in 0..MaxRestarts
  BY <1>1, IdleShapes, PrequeueAssumption DEF Init, WorkerPc
<1>6. ActorsOK
  BY <1>1, IdleShapes DEF Init, ActorsOK
<1>7. QED BY <1>4, <1>5, <1>6 DEF Acting, TypeOK

LEMMA ActingNext == Acting /\ [Next]_vars => Acting'
<1>1. SUFFICES ASSUME Acting, [Next]_vars PROVE Acting'
  OBVIOUS
<1>2. StoreTypeOK'
  BY <1>1, NextIsStoreStep, StoreType DEF Acting, TypeOK
<1>a. /\ worker \in [Ids -> WorkerPc] /\ request \in [Requests -> Request]
      /\ player \in [Players -> Player] /\ warm \in [Warmers -> Warm]
      /\ restarts \in 0..MaxRestarts
  BY <1>1 DEF Acting, TypeOK
<1>b. /\ \A r \in Requests : request[r].pc = "reuse" => request[r].id \in Ids
      /\ \A p \in Players : player[p].pc # "idle" => player[p].id \in Ids
      /\ \A w \in Warmers : warm[w].pc # "idle" => warm[w].id \in Ids
  BY <1>1 DEF Acting, ActorsOK
<1> DEFINE Goal ==
      /\ worker' \in [Ids -> WorkerPc] /\ request' \in [Requests -> Request]
      /\ player' \in [Players -> Player] /\ warm' \in [Warmers -> Warm]
      /\ restarts' \in 0..MaxRestarts
      /\ \A r \in Requests : request'[r].pc = "reuse" => request'[r].id \in Ids
      /\ \A p \in Players : player'[p].pc # "idle" => player'[p].id \in Ids
      /\ \A w \in Warmers : warm'[w].pc # "idle" => warm'[w].id \in Ids
<1>3. ASSUME NEW r \in Requests, RequestStep(r) PROVE Goal
  BY <1>1, <1>3, <1>a, <1>b, RequestActs
<1>4. ASSUME NEW i \in Ids, WorkerStep(i) \/ WorkerStoresTracks(i) PROVE Goal
  BY <1>1, <1>4, <1>a, <1>b, WorkerActs
<1>5. ASSUME NEW p \in Players, PlayerStep(p) PROVE Goal
  BY <1>1, <1>5, <1>a, <1>b, PlayerActs
<1>6. ASSUME NEW w \in Warmers, JobStep(w) PROVE Goal
  BY <1>1, <1>6, <1>a, <1>b, WarmActs
<1>7. ASSUME OtherStep PROVE Goal
  BY <1>7, <1>a, <1>b, OthersDoNotAct DEF actors
<1>8. ASSUME Restart PROVE Goal
  <2>1. restarts' \in 0..MaxRestarts
    BY <1>8, <1>a, PrequeueAssumption DEF Restart
  <2>2. QED BY <1>8, <2>1, IdleShapes DEF Restart, WorkerPc
<1>9. ASSUME UNCHANGED vars PROVE Goal
  BY <1>9, <1>a, <1>b DEF vars
<1>10. Goal
  BY <1>1, <1>3, <1>4, <1>5, <1>6, <1>7, <1>8, <1>9, NextSplits
<1>11. QED BY <1>2, <1>10 DEF Acting, TypeOK, ActorsOK

\* Every reachable state of the store and of those who use it is well typed.
THEOREM TypeCorrect == Spec => []TypeOK
<1>1. Acting => TypeOK
  BY DEF Acting
<1>2. QED BY <1>1, ActingInit, ActingNext, PTL DEF Spec

-----------------------------------------------------------------------------
(* The store: one entry per title, and a restore that only adds to it. *)

\* Entries stay what they are, a row changes with its entry or goes.
LEMMA TouchKeeps ==
    ASSUME StoreInv, StoreTypeOK',
           \A j \in Ids : (entries'[j].status = "gone") <=> (entries[j].status = "gone"),
           \A j \in Ids : Live(j) => entries'[j].key = entries[j].key,
           \A j \in Ids : \/ rows'[j] = rows[j] \/ rows'[j] = Gone
                          \/ Live(j) /\ rows'[j].key = entries[j].key
                          \/ rows[j].status # "gone" /\ rows'[j].key = rows[j].key,
           \A j \in Ids : restore'.list[j].status = restore.list[j].status /\ restore'.list[j].key = restore.list[j].key,
           UNCHANGED <<index, made>>,
           restore'.pc = restore.pc \/ restore'.pc \notin {"waiting", "listed", "short"},
           restore'.put = restore.put, restore'.todo \subseteq restore.todo
    PROVE  StoreInv'
<1>1. MadeInOrder'
  BY GoneIs DEF StoreInv, MadeInOrder, Live
<1>2. KeysAgree'
  BY GoneIs DEF StoreInv, KeysAgree, Live
<1>3. IndexIsExact'
  <2>1. /\ \A k \in Keys : index[k] # NoId => Live(index[k]) /\ entries[index[k]].key = k
        /\ \A i \in Ids : Live(i) => index[entries[i].key] = i
    BY DEF StoreInv, IndexIsExact
  <2>2. \A k \in Keys : index[k] \in Ids \cup {NoId}
    BY DEF StoreInv, StoreTypeOK
  <2>3. QED BY <2>1, <2>2 DEF IndexIsExact, Live
<1>4. IndexLeads'
  <2>1. \A i \in Ids : Live(i) => index[entries[i].key] = i
    BY DEF StoreInv, IndexIsExact
  <2>2. \A i \in Ids : i <= i
    BY Basics
  <2>3. QED BY <2>1, <2>2, GoneIs DEF StoreInv, IndexLeads
<1>5. RestoreOK'
  <2>1. restore.todo \subseteq Ids
    BY RestoreIs DEF StoreInv, StoreTypeOK
  <2>2. QED BY <2>1 DEF StoreInv, RestoreOK, Live
<1>6. QED BY <1>1, <1>2, <1>3, <1>4, <1>5 DEF StoreInv

LEMMA ForgetKeeps ==
    ASSUME StoreInv, StoreTypeOK', NEW S \in SUBSET Ids, Removes(S)
    PROVE  StoreInv'
<1>0. \A j \in Ids : entries'[j] = IF j \in S THEN Gone ELSE entries[j]
  BY DEF Removes, Forget
<1>r. UNCHANGED <<made, restore>>
  BY DEF Removes
<1>s. \A j \in Ids : \/ rows'[j] = rows[j] \/ rows'[j] = Gone
                     \/ j \notin S /\ Live(j) /\ rows'[j].key = entries[j].key
  BY SavedIs DEF Removes, SavedAgain, Live, StoreInv, StoreTypeOK
<1>1. MadeInOrder'
  BY <1>0, <1>r, <1>s, GoneIs DEF StoreInv, MadeInOrder, Live
<1>2. KeysAgree'
  BY <1>0, <1>r, <1>s, GoneIs DEF StoreInv, KeysAgree, Live
<1>i. \A k \in Keys : index'[k] = IF index[k] \in S THEN NoId ELSE index[k]
  BY DEF Removes, Forget
<1>t. /\ \A k \in Keys : index[k] \in Ids \cup {NoId}
      /\ \A i \in Ids : entries[i].key \in Keys
  BY DEF StoreInv, StoreTypeOK, Entry
<1>3. IndexIsExact'
  <2>1. /\ \A k \in Keys : index[k] # NoId => Live(index[k]) /\ entries[index[k]].key = k
        /\ \A i \in Ids : Live(i) => index[entries[i].key] = i
    BY DEF StoreInv, IndexIsExact
  <2>2. \A k \in Keys : index'[k] # NoId =>
           /\ entries'[index'[k]].status # "gone"
           /\ entries'[index'[k]].key = k
    BY <1>0, <1>i, <1>t, <2>1 DEF Live
  <2>3. \A i \in Ids : entries'[i].status # "gone" => index'[entries'[i].key] = i
    BY <1>0, <1>i, <1>t, <2>1, GoneIs DEF Live
  <2>4. QED BY <2>2, <2>3 DEF IndexIsExact, Live
<1>4. IndexLeads'
  <2>1. \A i \in Ids : Live(i) => index[entries[i].key] = i
    BY DEF StoreInv, IndexIsExact
  <2>2. \A i \in Ids : i <= i
    BY Basics
  <2>3. QED BY <1>i, <1>r, <1>s, <2>1, <2>2, GoneIs DEF StoreInv, IndexLeads
<1>5. RestoreOK'
  <2>1. restore.todo \subseteq Ids
    BY RestoreIs DEF StoreInv, StoreTypeOK
  <2>2. QED BY <1>0, <1>r, <2>1, GoneIs DEF StoreInv, RestoreOK, Live
<1>6. QED BY <1>1, <1>2, <1>3, <1>4, <1>5 DEF StoreInv

\* A new entry is newer than every copy there is.
LEMMA NewIsNew ==
    ASSUME StoreInv, NextId \in Ids, made \in Nat
    PROVE  /\ entries[NextId].status = "gone" /\ rows[NextId] = Gone
           /\ restore.list[NextId].status = "gone" /\ NextId \notin restore.todo
           /\ \A i \in Ids : Live(i) \/ rows[i].status # "gone" \/ restore.list[i].status # "gone"
                => i <= made /\ i <= NextId /\ i # NextId
           /\ \A i \in Ids : i > NextId => i > made
<1>1. NextId = made + 1 /\ NextId > made
  BY DEF NextId
<1>2. \A i \in Ids : i \in Nat
  BY Basics
<1>3. /\ entries[NextId].status = "gone" /\ rows[NextId] = Gone
      /\ restore.list[NextId].status = "gone" /\ NextId \notin restore.todo
  BY <1>1 DEF StoreInv, MadeInOrder
<1>4. ASSUME NEW i \in Ids, Live(i) \/ rows[i].status # "gone" \/ restore.list[i].status # "gone"
      PROVE  i <= made /\ i <= NextId /\ i # NextId
  <2>1. ~ (i > made)
    BY <1>4, GoneIs DEF StoreInv, MadeInOrder, Live
  <2>2. QED BY <2>1, <1>1, <1>2
<1>5. \A i \in Ids : i > NextId => i > made
  BY <1>1, <1>2
<1>6. QED BY <1>3, <1>4, <1>5

LEMMA FreshIs ==
    ASSUME NEW k \in Keys, NEW pin \in BOOLEAN
    PROVE  /\ Fresh(k, pin) \in Entry
           /\ Fresh(k, pin).status = "queued" /\ Fresh(k, pin).key = k
           /\ Fresh(k, pin).path = NoStream /\ Fresh(k, pin).tracks = NoStream
           /\ Fresh(k, pin).pinned = pin /\ Fresh(k, pin).adopted = FALSE
           /\ Fresh(k, pin).expired = FALSE
BY GoneIs DEF Fresh, Entry, Statuses, Progress

\* What a creation leaves.
LEMMA CreateIs ==
    ASSUME StoreTypeOK, NEW k \in Keys, NEW manual \in BOOLEAN, CreateScoped(k, manual)
    PROVE  /\ NextId \in Ids /\ made' = NextId /\ made \in Nat
           /\ \E pin \in BOOLEAN :
                /\ pin = (manual \/ KeepsPin(k))
                /\ entries'[NextId] = Fresh(k, pin)
           /\ \A i \in Ids : i # NextId =>
                entries'[i] = IF i = index[k] THEN Gone ELSE entries[i]
           /\ \A i \in Ids : \/ i # index[k] /\ rows'[i] = rows[i] /\ StillUnsaved(i)
                             \/ i = index[k] /\ rows'[i] \in {rows[i], Gone}
           /\ \A c \in Keys : index'[c] = IF c = k THEN NextId ELSE index[c]
           /\ \A i \in Ids : i = index[k] /\ entries[i].hook => i \in stopped'
           /\ stopped \subseteq stopped'
           /\ UNCHANGED restore
<1>1. NextId \in Ids /\ made' = NextId /\ made \in Nat
  BY CreatesNext
<1>2. \A i \in Ids : i \in {index[k]} \ {NoId} <=> i = index[k]
  BY Basics
<1>3. (manual \/ KeepsPin(k)) \in BOOLEAN
  OBVIOUS
<1>4. entries'[NextId] = Fresh(k, manual \/ KeepsPin(k))
  BY <1>1 DEF CreateScoped
<1>5. \A i \in Ids : i # NextId => entries'[i] = IF i = index[k] THEN Gone ELSE entries[i]
  BY <1>2 DEF CreateScoped
<1>6. ASSUME NEW i \in Ids
      PROVE  \/ i # index[k] /\ rows'[i] = rows[i] /\ StillUnsaved(i)
             \/ i = index[k] /\ rows'[i] \in {rows[i], Gone}
  <2>1. Sent({index[k]} \ {NoId}, NoRows) /\ NoRows[i] = Gone
    BY DEF CreateScoped, NoRows
  <2>2. QED BY <1>2, <2>1, SentRow DEF StillUnsaved
<1>7. \A c \in Keys : index'[c] = IF c = k THEN NextId ELSE index[c]
  BY DEF CreateScoped, StoreTypeOK
<1>8. \A i \in Ids : i = index[k] /\ entries[i].hook => i \in stopped'
  BY <1>2 DEF CreateScoped
<1>9. stopped \subseteq stopped' /\ UNCHANGED restore
  BY DEF CreateScoped
<1>10. QED BY <1>1, <1>3, <1>4, <1>5, <1>6, <1>7, <1>8, <1>9

LEMMA CreateKeeps ==
    ASSUME StoreInv, StoreTypeOK', NEW k \in Keys, NEW manual \in BOOLEAN,
           CreateScoped(k, manual)
    PROVE  StoreInv'
<1>c. StoreTypeOK
  BY DEF StoreInv
<1>a. /\ NextId \in Ids /\ made' = NextId /\ made \in Nat
      /\ \A i \in Ids : i # NextId => entries'[i] = IF i = index[k] THEN Gone ELSE entries[i]
      /\ \A i \in Ids : rows'[i] \in {rows[i], Gone}
      /\ \A c \in Keys : index'[c] = IF c = k THEN NextId ELSE index[c]
      /\ UNCHANGED restore
  BY <1>c, CreateIs
<1>f. entries'[NextId].status = "queued" /\ entries'[NextId].key = k
  <2>1. PICK pin \in BOOLEAN : entries'[NextId] = Fresh(k, pin)
    BY <1>c, CreateIs
  <2>2. QED BY <2>1, GoneIs DEF Fresh, Entry
<1>n. /\ entries[NextId].status = "gone" /\ rows[NextId] = Gone
      /\ restore.list[NextId].status = "gone" /\ NextId \notin restore.todo
      /\ \A i \in Ids : Live(i) \/ rows[i].status # "gone" \/ restore.list[i].status # "gone"
           => i <= made /\ i <= NextId /\ i # NextId
      /\ \A i \in Ids : i > NextId => i > made
  BY <1>a, NewIsNew
<1>0. ~ (NextId > NextId)
  BY <1>a, Basics
<1>1. MadeInOrder'
  BY <1>0, <1>a, <1>n, GoneIs DEF StoreInv, MadeInOrder
<1>2. KeysAgree'
  BY <1>a, <1>n, GoneIs DEF StoreInv, KeysAgree, Live
<1>3. IndexIsExact'
  <2>1. /\ \A c \in Keys : index[c] # NoId => Live(index[c]) /\ entries[index[c]].key = c
        /\ \A i \in Ids : Live(i) => index[entries[i].key] = i
        /\ \A c \in Keys : index[c] \in Ids \cup {NoId}
        /\ \A i \in Ids : entries[i].key \in Keys
    BY <1>c DEF StoreInv, IndexIsExact, StoreTypeOK, Entry
  <2>2. \A c \in Keys : index'[c] # NoId =>
           entries'[index'[c]].status # "gone" /\ entries'[index'[c]].key = c
    BY <1>a, <1>f, <1>n, <2>1 DEF Live
  <2>3. \A i \in Ids : entries'[i].status # "gone" => index'[entries'[i].key] = i
    BY <1>a, <1>f, <1>n, <2>1, GoneIs DEF Live
  <2>4. QED BY <2>2, <2>3 DEF IndexIsExact, Live
<1>4. IndexLeads'
  BY <1>a, <1>n, GoneIs DEF StoreInv, IndexLeads
<1>5. RestoreOK'
  <2>1. restore.todo \subseteq Ids
    BY <1>c, RestoreIs DEF StoreTypeOK
  <2>2. QED BY <1>a, <1>n, <2>1, GoneIs DEF StoreInv, RestoreOK, Live
<1>6. QED BY <1>1, <1>2, <1>3, <1>4, <1>5 DEF StoreInv

LEMMA ListKeeps ==
    ASSUME StoreInv, StoreTypeOK', ListRows
    PROVE  StoreInv'
<1>1. /\ \A i \in Ids : restore'.list[i] = IF rows[i].expired THEN Gone ELSE rows[i]
      /\ restore'.put = restore.put /\ restore'.todo = restore.todo
      /\ restore.pc = "waiting"
      /\ UNCHANGED <<entries, index, rows, stopped, made>>
  BY DEF ListRows, StoreInv, StoreTypeOK, Restore
<1>2. restore.put = {} /\ restore.todo = {}
  BY <1>1 DEF StoreInv, RestoreOK
<1>3. MadeInOrder' /\ KeysAgree' /\ IndexIsExact'
  BY <1>1, GoneIs DEF StoreInv, MadeInOrder, KeysAgree, IndexIsExact, Live
<1>4. IndexLeads'
  BY <1>1, GoneIs DEF StoreInv, IndexLeads
<1>5. RestoreOK'
  BY <1>1, <1>2 DEF RestoreOK
<1>6. QED BY <1>3, <1>4, <1>5 DEF StoreInv

\* A list that was cut short is a part of it.
LEMMA CutIs ==
    ASSUME StoreTypeOK, NEW n \in Ids, ContextEnds(n)
    PROVE  /\ \A i \in Ids : restore'.list[i] \in {restore.list[i], Gone}
           /\ restore'.put = restore.put /\ restore'.todo = restore.todo
           /\ restore.pc = "listed" /\ restore'.pc = "short"
           /\ UNCHANGED <<entries, index, rows, unsaved, stopped, made>>
BY DEF ContextEnds, StoreTypeOK, Restore

LEMMA CutKeeps ==
    ASSUME StoreInv, StoreTypeOK', NEW n \in Ids, ContextEnds(n)
    PROVE  StoreInv'
<1>1. /\ \A i \in Ids : restore'.list[i] \in {restore.list[i], Gone}
      /\ restore'.put = restore.put /\ restore'.todo = restore.todo
      /\ restore.pc = "listed" /\ restore'.pc = "short"
      /\ UNCHANGED <<entries, index, rows, stopped, made>>
  BY CutIs DEF StoreInv
<1>2. restore.put = {} /\ restore.todo = {}
  BY <1>1 DEF StoreInv, RestoreOK
<1>3. MadeInOrder' /\ KeysAgree' /\ IndexIsExact'
  BY <1>1, GoneIs DEF StoreInv, MadeInOrder, KeysAgree, IndexIsExact, Live
<1>4. IndexLeads'
  BY <1>1, GoneIs DEF StoreInv, IndexLeads
<1>5. RestoreOK'
  BY <1>1, <1>2 DEF RestoreOK
<1>6. QED BY <1>3, <1>4, <1>5 DEF StoreInv

LEMMA RestartKeeps ==
    ASSUME StoreInv, StoreTypeOK', StoreRestart
    PROVE  StoreInv'
<1>1. /\ \A i \in Ids : entries'[i] = Gone /\ restore'.list[i] = Gone
      /\ \A k \in Keys : index'[k] = NoId
      /\ restore'.put = {} /\ restore'.todo = {}
      /\ UNCHANGED <<rows, made>>
  BY DEF StoreRestart, NothingRestored
<1>2. QED BY <1>1, GoneIs
          DEF StoreInv, MadeInOrder, KeysAgree, IndexIsExact, IndexLeads, RestoreOK, Live

\* Until the merge a title leads to the newest copy there is of it. So what the merge
\* displaces it puts back, and what it leaves alone it does not have deleted.
LEMMA MergeFacts ==
    ASSUME StoreInv, restore.pc \in {"listed", "short"}
    PROVE  /\ Restorable \subseteq Ids
           /\ \A i \in Restorable : restore.list[i].status = "ready"
                                    /\ restore.list[i].key \in Keys
           /\ \A i, j \in Restorable : restore.list[i].key = restore.list[j].key => i = j
           /\ Displaced \subseteq Restorable
           /\ \A i \in Ids : Live(i) /\ i \notin Restorable =>
                /\ ~ Usable(i)
                /\ \A j \in Restorable : restore.list[j].key # entries[i].key
<1>1. /\ \A i \in Ids : restore.list[i].key \in Keys /\ entries[i].key \in Keys
      /\ \A k \in Keys : index[k] \in Ids \cup {NoId}
      /\ \A i \in Ids : i \in Nat
  BY Basics DEF StoreInv, StoreTypeOK, Restore, Entry
<1>2. \A i \in Restorable :
        /\ i \in Ids /\ restore.list[i].status = "ready" /\ index[restore.list[i].key] <= i
        /\ \A j \in Ids : Usable(j) /\ restore.list[j].key = restore.list[i].key => j <= i
        /\ Usable(i)
  BY DEF Restorable, Usable, NotSuperseded
<1>3. \A i, j \in Restorable : restore.list[i].key = restore.list[j].key => i = j
  <2>1. ASSUME NEW i \in Restorable, NEW j \in Restorable,
               restore.list[i].key = restore.list[j].key
        PROVE  i = j
    <3>1. i <= j /\ j <= i
      BY <1>2, <2>1
    <3>2. QED BY <1>1, <1>2, <3>1
  <2>2. QED BY <2>1
<1>4. \A k \in Keys : index[k] # NoId =>
        \A i \in Ids : restore.list[i].status # "gone" /\ restore.list[i].key = k => i <= index[k]
  BY DEF StoreInv, IndexLeads
<1>5. Displaced \subseteq Restorable
  <2>1. ASSUME NEW d \in Displaced PROVE d \in Restorable
    <3>1. PICK i \in Restorable : d = index[restore.list[i].key] /\ d # NoId
      BY DEF Displaced
    <3>2. d \in Ids /\ i <= d /\ d <= i
      BY <1>1, <1>2, <1>4, <3>1
    <3>3. QED BY <1>1, <1>2, <3>1, <3>2
  <2>2. QED BY <2>1
<1>6. ASSUME NEW i \in Ids, Live(i), i \notin Restorable
      PROVE  /\ ~ Usable(i)
             /\ \A j \in Restorable : restore.list[j].key # entries[i].key
  <2>1. index[entries[i].key] = i
    BY <1>6 DEF StoreInv, IndexIsExact
  <2>2. i # NoId
    BY Basics
  <2>3. ASSUME NEW j \in Restorable, restore.list[j].key = entries[i].key PROVE FALSE
    <3>1. i \in Displaced
      BY <2>1, <2>2, <2>3 DEF Displaced
    <3>2. QED BY <1>5, <1>6, <3>1
  <2>4. ASSUME Usable(i) PROVE FALSE
    <3>1. restore.list[i].status # "gone"
      BY <2>4 DEF Usable
    <3>2. restore.list[i].key = entries[i].key
      BY <1>6, <3>1 DEF StoreInv, KeysAgree
    <3>3. index[restore.list[i].key] <= i
      BY <1>1, <2>1, <3>2
    <3>4. \A j \in Ids : Usable(j) /\ restore.list[j].key = restore.list[i].key => j <= i
      BY <1>1, <1>4, <2>1, <2>2, <3>2 DEF Usable
    <3>5. i \in Restorable
      BY <2>4, <3>3, <3>4 DEF Restorable, NotSuperseded
    <3>6. QED BY <1>6, <3>5
  <2>5. QED BY <2>3, <2>4
<1>7. QED BY <1>1, <1>2, <1>3, <1>5, <1>6

\* What the merge leaves.
LEMMA MergeIs ==
    ASSUME StoreInv, MergeRows
    PROVE  /\ \A i \in Ids : entries'[i] = IF i \in Restorable THEN restore.list[i]
                                           ELSE entries[i]
           /\ \A i \in Restorable : index'[restore.list[i].key] = i
           /\ \A k \in Keys : (\A i \in Restorable : restore.list[i].key # k)
                                => index'[k] = index[k]
           /\ restore'.pc = "deleting" /\ restore'.put = Restorable
           /\ \A i \in Ids : restore'.list[i] = Gone
           /\ restore'.todo \subseteq {i \in Ids : Usable(i) /\ i \notin Restorable} \cup Displaced
           /\ restore.put = {} /\ restore.pc \in {"listed", "short"}
           /\ UNCHANGED <<rows, unsaved, stopped, made>>
<1>1. /\ restore.pc \in {"listed", "short"} /\ restore.put = {}
      /\ UNCHANGED <<rows, unsaved, stopped, made>>
  BY DEF MergeRows, StoreInv, RestoreOK
<1>2. Displaced \subseteq Restorable
  BY <1>1, MergeFacts
<1>3. \A i \in Ids : entries'[i] = IF i \in Restorable THEN restore.list[i] ELSE entries[i]
  BY <1>2 DEF MergeRows
<1>4. \A k \in Keys : index'[k] = IF \E i \in Restorable : restore.list[i].key = k
                                    THEN CHOOSE i \in Restorable : restore.list[i].key = k
                                    ELSE index[k]
  BY DEF MergeRows
<1>5. ASSUME NEW i \in Restorable PROVE index'[restore.list[i].key] = i
  <2>1. restore.list[i].key \in Keys
    BY <1>1, MergeFacts
  <2>2. \A j \in Restorable : restore.list[j].key = restore.list[i].key => j = i
    BY <1>1, MergeFacts
  <2>3. (CHOOSE j \in Restorable : restore.list[j].key = restore.list[i].key) = i
    BY <2>2
  <2>4. QED BY <1>4, <2>1, <2>3
<1>6. /\ restore'.pc = "deleting" /\ restore'.put = Restorable
      /\ \A i \in Ids : restore'.list[i] = Gone
      /\ restore'.todo \subseteq {i \in Ids : Usable(i) /\ i \notin Restorable} \cup Displaced
  BY DEF MergeRows, NothingRestored
<1>7. \A k \in Keys : (\A i \in Restorable : restore.list[i].key # k) => index'[k] = index[k]
  BY <1>4
<1>8. QED BY <1>1, <1>3, <1>5, <1>6, <1>7

LEMMA MergeKeeps ==
    ASSUME StoreInv, StoreTypeOK', MergeRows
    PROVE  StoreInv'
<1>a. /\ \A i \in Ids : entries'[i] = IF i \in Restorable THEN restore.list[i] ELSE entries[i]
      /\ \A i \in Restorable : index'[restore.list[i].key] = i
      /\ \A k \in Keys : (\A i \in Restorable : restore.list[i].key # k) => index'[k] = index[k]
      /\ restore'.pc = "deleting" /\ restore'.put = Restorable
      /\ \A i \in Ids : restore'.list[i] = Gone
      /\ restore'.todo \subseteq {i \in Ids : Usable(i) /\ i \notin Restorable} \cup Displaced
      /\ restore.pc \in {"listed", "short"}
      /\ UNCHANGED <<rows, stopped, made>>
  BY MergeIs
<1>b. /\ Restorable \subseteq Ids
      /\ \A i \in Restorable : restore.list[i].status = "ready" /\ restore.list[i].key \in Keys
      /\ \A i, j \in Restorable : restore.list[i].key = restore.list[j].key => i = j
      /\ Displaced \subseteq Restorable
      /\ \A i \in Ids : Live(i) /\ i \notin Restorable =>
           /\ ~ Usable(i)
           /\ \A j \in Restorable : restore.list[j].key # entries[i].key
  BY <1>a, MergeFacts
<1>1. MadeInOrder'
  <2>1. \A i \in Ids : i > made => i \notin Restorable /\ ~ Usable(i)
    BY <1>b DEF StoreInv, MadeInOrder, Usable
  <2>2. QED BY <1>a, <1>b, <2>1, GoneIs DEF StoreInv, MadeInOrder
<1>2. KeysAgree'
  BY <1>a, <1>b, GoneIs DEF StoreInv, KeysAgree, Live
<1>3. IndexIsExact'
  <2>1. /\ \A k \in Keys : index[k] # NoId => Live(index[k]) /\ entries[index[k]].key = k
        /\ \A i \in Ids : Live(i) => index[entries[i].key] = i
        /\ \A k \in Keys : index[k] \in Ids \cup {NoId}
        /\ \A i \in Ids : entries[i].key \in Keys
    BY DEF StoreInv, IndexIsExact, StoreTypeOK, Entry
  <2>2. ASSUME NEW k \in Keys, index'[k] # NoId
        PROVE  entries'[index'[k]].status # "gone" /\ entries'[index'[k]].key = k
    <3>1. CASE \E i \in Restorable : restore.list[i].key = k
      BY <1>a, <1>b, <3>1
    <3>2. CASE \A i \in Restorable : restore.list[i].key # k
      <4>1. index'[k] = index[k] /\ index[k] \in Ids
        BY <1>a, <2>1, <2>2, <3>2
      <4>2. Live(index[k]) /\ entries[index[k]].key = k
        BY <2>1, <2>2, <4>1
      <4>3. index[k] \notin Restorable
        BY <3>2, <4>1, <4>2, <1>b DEF StoreInv, KeysAgree
      <4>4. QED BY <1>a, <4>1, <4>2, <4>3 DEF Live
    <3>3. QED BY <3>1, <3>2
  <2>3. ASSUME NEW i \in Ids, entries'[i].status # "gone"
        PROVE  index'[entries'[i].key] = i
    <3>1. CASE i \in Restorable
      BY <1>a, <3>1
    <3>2. CASE i \notin Restorable
      <4>1. entries'[i] = entries[i] /\ Live(i)
        BY <1>a, <2>3, <3>2 DEF Live
      <4>2. index'[entries[i].key] = index[entries[i].key]
        BY <1>a, <1>b, <2>1, <3>2, <4>1
      <4>3. QED BY <2>1, <4>1, <4>2
    <3>3. QED BY <3>1, <3>2
  <2>4. QED BY <2>2, <2>3 DEF IndexIsExact, Live
<1>4. IndexLeads'
  BY <1>a DEF IndexLeads
<1>5. RestoreOK'
  <2>1. \A i \in restore'.todo : entries'[i].status # "gone" => i \in restore'.put
    BY <1>a, <1>b DEF Live
  <2>2. QED BY <1>a, <2>1 DEF RestoreOK, Live
<1>6. QED BY <1>1, <1>2, <1>3, <1>4, <1>5 DEF StoreInv

LEMMA StoreInvNext ==
    ASSUME StoreInv, StoreStep
    PROVE  StoreInv'
<1>0. StoreTypeOK /\ StoreTypeOK'
  BY StoreType DEF StoreInv
<1>a. /\ entries \in [Ids -> Entry] /\ rows \in [Ids -> Entry] /\ restore \in Restore
      /\ restore.list \in [Ids -> Entry]
  BY <1>0, RestoreIs DEF StoreTypeOK
<1>1. CASE UNCHANGED store
  BY <1>1 DEF store, StoreInv, StoreTypeOK, MadeInOrder, KeysAgree, IndexIsExact, IndexLeads,
              RestoreOK, Live
<1>2. ASSUME NEW i \in Ids, NEW e \in Entry, Live(i), e.key = entries[i].key,
             e.status # "gone", Put(i, e)
      PROVE  StoreInv'
  <2>1. /\ entries' = [entries EXCEPT ![i] = PutOf(i, e)]
        /\ SavedOrNot(i, PutOf(i, e))
        /\ UNCHANGED <<index, stopped, made, restore>>
    BY <1>0, <1>2, PutSteps
  <2>2. /\ PutOf(i, e).status = e.status /\ PutOf(i, e).key = e.key
        /\ Saved(PutOf(i, e)).key = e.key
    BY PutIs, SavedIs
  <2>3. \A j \in Ids : rows'[j] = rows[j] \/ (j = i /\ rows'[j].key = e.key)
    BY <2>1, <2>2 DEF SavedOrNot
  <2>4. QED BY <1>0, <1>2, <1>a, <2>1, <2>2, <2>3, TouchKeeps DEF Live
<1>3. ASSUME NEW i \in Ids, Live(i), MakePersistent(i) PROVE StoreInv'
  <2>1. /\ PinOf(i) \in Entry /\ PinOf(i).status = entries[i].status
        /\ PinOf(i).key = entries[i].key
        /\ entries' = [entries EXCEPT ![i] = PinOf(i)]
        /\ SavedOrNot(i, PinOf(i))
        /\ UNCHANGED <<index, stopped, made, restore>>
    BY <1>0, <1>3, PinIs
  <2>2. Saved(PinOf(i)).key = entries[i].key
    BY <2>1, SavedIs
  <2>3. \A j \in Ids : rows'[j] = rows[j] \/ (j = i /\ rows'[j].key = entries[j].key)
    BY <2>1, <2>2 DEF SavedOrNot
  <2>4. QED BY <1>0, <1>3, <1>a, <2>1, <2>3, TouchKeeps DEF Live
<1>4. ASSUME NEW i \in Ids, CancelWork(i) \/ SetCancelFunc(i) PROVE StoreInv'
  <2>1. \A b \in BOOLEAN : [entries[i] EXCEPT !.hook = b].status = entries[i].status
                           /\ [entries[i] EXCEPT !.hook = b].key = entries[i].key
    BY <1>a DEF Entry
  <2>2. \A j \in Ids : entries'[j].status = entries[j].status /\ entries'[j].key = entries[j].key
    BY <1>4, <1>a, <2>1 DEF CancelWork, SetCancelFunc, store
  <2>3. UNCHANGED <<index, rows, made, restore>>
    BY <1>4 DEF CancelWork, SetCancelFunc, store
  <2>4. QED BY <1>0, <2>2, <2>3, TouchKeeps
<1>5. ASSUME NEW i \in Ids, Lapse(i) PROVE StoreInv'
  <2>1. \A e \in Entry : Lapsed(e).status = e.status /\ Lapsed(e).key = e.key
                         /\ (e.status = "gone" => Lapsed(e) = e)
    BY LapsedIs
  <2>2. /\ entries' = [entries EXCEPT ![i] = Lapsed(entries[i])]
        /\ rows' = [rows EXCEPT ![i] = Lapsed(rows[i])]
        /\ restore'.list = [restore.list EXCEPT ![i] = Lapsed(restore.list[i])]
        /\ restore'.pc = restore.pc /\ restore'.put = restore.put /\ restore'.todo = restore.todo
        /\ UNCHANGED <<index, stopped, made>>
    BY <1>5, <1>a DEF Lapse, Restore
  <2>3. QED BY <1>0, <1>a, <2>1, <2>2, TouchKeeps
<1>6. CASE RemoveStep
  BY <1>0, <1>6, RemovalIs, ForgetKeeps
<1>7. ASSUME NEW k \in Keys, NEW manual \in BOOLEAN, CreateScoped(k, manual) PROVE StoreInv'
  BY <1>0, <1>7, CreateKeeps
<1>8. CASE ListFails
  <2>1. /\ restore'.list = restore.list /\ restore'.put = restore.put
        /\ restore'.todo = restore.todo /\ restore'.pc = "done"
        /\ UNCHANGED <<entries, index, rows, stopped, made>>
    BY <1>8, <1>a DEF ListFails, Restore
  <2>2. QED BY <1>0, <2>1, TouchKeeps
<1>9. CASE RestoreDone
  <2>1. /\ restore'.list = restore.list /\ restore'.put = restore.put
        /\ restore'.todo = restore.todo /\ restore'.pc = "done"
        /\ UNCHANGED <<entries, index, stopped, made>>
        /\ \A j \in Ids : rows'[j] = rows[j] \/ rows'[j] = Gone
    BY <1>9, <1>a DEF RestoreDone, Restore, ExpiredGo
  <2>2. QED BY <1>0, <2>1, TouchKeeps
<1>10. ASSUME NEW i \in Ids, DeleteSuperseded(i) PROVE StoreInv'
  <2>1. /\ restore'.list = restore.list /\ restore'.put = restore.put
        /\ restore'.todo \subseteq restore.todo /\ restore'.pc = restore.pc
        /\ UNCHANGED <<entries, index, stopped, made>>
    BY <1>10, <1>a DEF DeleteSuperseded, Restore
  <2>2. \A j \in Ids : rows'[j] = rows[j] \/ rows'[j] = Gone
    BY <1>10, SentRow DEF DeleteSuperseded, NoRows
  <2>3. QED BY <1>0, <2>1, <2>2, TouchKeeps
<1>11. QED BY <1>0, <1>1, <1>2, <1>3, <1>4, <1>5, <1>6, <1>7, <1>8, <1>9, <1>10,
              ListKeeps, MergeKeeps, CutKeeps, RestartKeeps
           DEF StoreStep, CalmStep, EditStep, TouchStep, RestoresStep

LEMMA StoreInvInit == Init => StoreInv
<1>1. SUFFICES ASSUME Init PROVE StoreInv
  OBVIOUS
<1>2. StoreTypeOK
  BY <1>1, ActingInit DEF Acting, TypeOK
<1>3. /\ \A i \in Ids : entries[i] = Gone /\ rows[i] = Gone /\ restore.list[i] = Gone
      /\ \A k \in Keys : index[k] = NoId
      /\ restore.put = {} /\ restore.todo = {}
  BY <1>1 DEF Init, StoreInit, NothingRestored
<1>4. QED BY <1>2, <1>3, GoneIs
          DEF StoreInv, MadeInOrder, KeysAgree, IndexIsExact, IndexLeads, RestoreOK, Live

StoreIInv == Acting /\ StoreInv

LEMMA StoreIInvNext == StoreIInv /\ [Next]_vars => StoreIInv'
BY ActingNext, NextIsStoreStep, StoreInvNext DEF StoreIInv, Acting

\* A title leads to its entry and every entry is led to, whatever requests and
\* removals do while the table is listed and merged.
THEOREM IndexTheorem == Spec => []IndexIsExact
<1>1. Init => StoreIInv
  BY ActingInit, StoreInvInit DEF StoreIInv
<1>2. StoreIInv => IndexIsExact
  BY DEF StoreIInv, StoreInv
<1>3. QED BY <1>1, <1>2, StoreIInvNext, PTL DEF Spec

-----------------------------------------------------------------------------
(* One entry, its row and its worker. *)

LEMMA CopiesOfCopies ==
    /\ CopyOK(Gone)
    /\ \A e \in Entry : CopyOK(e) => CopyOK(Saved(e)) /\ CopyOK(Lapsed(e))
<1>1. CopyOK(Gone)
  BY GoneIs DEF CopyOK
<1>2. ASSUME NEW e \in Entry, CopyOK(e) PROVE CopyOK(Saved(e))
  BY <1>2, SavedIs DEF CopyOK
<1>3. ASSUME NEW e \in Entry, CopyOK(e) PROVE CopyOK(Lapsed(e))
  BY <1>3, LapsedIs DEF CopyOK
<1>4. QED BY <1>1, <1>2, <1>3

LEMMA Copies ==
    ASSUME StoreTypeOK, NEW i \in Ids
    PROVE  entries[i] \in Entry /\ rows[i] \in Entry /\ restore.list[i] \in Entry
BY RestoreIs DEF StoreTypeOK

LEMMA SameEntry ==
    ASSUME NEW i \in Ids, EntryInv(i), entries'[i] = entries[i], rows'[i] = rows[i],
           restore'.list[i] = restore.list[i], worker'[i] = worker[i],
           i \in restore'.put <=> i \in restore.put, stopped \subseteq stopped',
           StillUnsaved(i)
    PROVE  EntryInv(i)'
BY DEF EntryInv, Running, Live, StillUnsaved

\* The store stays, the worker of the entry moves on.
LEMMA MovedEntry ==
    ASSUME NEW i \in Ids, EntryInv(i), UNCHANGED store,
           Running(i)' => Running(i),
           worker'[i] = "probing" => worker[i] = "probing" \/ ~ WorkerMayWrite(i),
           worker'[i] \in {"hooked", "searching", "probing"}
             => worker[i] \in {"hooked", "searching", "probing"},
           worker'[i] \in {"searching", "probing"} => worker[i] \in {"searching", "probing"}
    PROVE  EntryInv(i)'
BY DEF EntryInv, Running, Live, store, WorkerMayWrite

LEMMA ForgottenEntry ==
    ASSUME NEW i \in Ids, EntryInv(i), entries'[i] = Gone,
           rows'[i] = rows[i] \/ rows'[i] = Gone,
           restore'.list[i] = restore.list[i], worker'[i] = worker[i],
           i \in restore'.put <=> i \in restore.put, stopped \subseteq stopped',
           entries[i].hook => i \in stopped'
    PROVE  EntryInv(i)'
BY GoneIs, CopiesOfCopies DEF EntryInv, Running, Live

\* A row goes that was past its deadline, or that is not the entry's.
LEMMA RowlessEntry ==
    ASSUME NEW i \in Ids, StoreTypeOK, EntryInv(i), entries'[i] = entries[i], rows'[i] = Gone,
           (rows[i].expired /\ StillUnsaved(i)) \/ i \in restore.put \/ ~ Live(i),
           restore'.list[i] = restore.list[i], worker'[i] = worker[i],
           i \in restore'.put <=> i \in restore.put, stopped \subseteq stopped'
    PROVE  EntryInv(i)'
<1>1. entries[i] \in Entry /\ Saved(entries[i]).expired = entries[i].expired
  BY Copies, SavedIs
<1>2. CASE entries[i].expired
  BY <1>2, GoneIs, CopiesOfCopies DEF EntryInv, Running, Live
<1>3. CASE ~ entries[i].expired
  BY <1>1, <1>3, GoneIs, CopiesOfCopies DEF EntryInv, Running, Live, StillUnsaved
<1>4. QED BY <1>2, <1>3

\* The row of a ready entry is saved again.
LEMMA ResavedEntry ==
    ASSUME NEW i \in Ids, StoreTypeOK, EntryInv(i), entries'[i] = entries[i], SavedAgain(i),
           restore'.list[i] = restore.list[i], worker'[i] = worker[i],
           i \in restore'.put <=> i \in restore.put, stopped \subseteq stopped'
    PROVE  EntryInv(i)'
<1>1. /\ entries[i].status = "ready" /\ rows'[i] = Saved(entries[i])
      /\ rows'[i].status = "ready" /\ rows'[i].adopted = entries[i].adopted
  BY Copies, SavedIs DEF SavedAgain
<1>2. CopyOK(rows'[i])
  BY <1>1, Copies, CopiesOfCopies DEF EntryInv
<1>3. QED BY <1>1, <1>2 DEF EntryInv, Running, Live

LEMMA LapsedEntry ==
    ASSUME NEW i \in Ids, StoreTypeOK, EntryInv(i), entries'[i] = Lapsed(entries[i]),
           rows'[i] = Lapsed(rows[i]), restore'.list[i] = Lapsed(restore.list[i]),
           worker'[i] = worker[i], restore'.put = restore.put, stopped' = stopped,
           unsaved' = unsaved
    PROVE  EntryInv(i)'
<1> DEFINE e == entries[i]
           r == rows[i]
           l == restore.list[i]
<1>1. e \in Entry /\ r \in Entry /\ l \in Entry
  BY Copies
<1>2. CopyOK(entries'[i]) /\ CopyOK(rows'[i]) /\ CopyOK(restore'.list[i])
  BY <1>1, CopiesOfCopies DEF EntryInv
<1>3. /\ entries'[i].status = e.status /\ entries'[i].adopted = e.adopted
      /\ entries'[i].path = e.path /\ entries'[i].hook = e.hook
      /\ rows'[i].status = r.status /\ rows'[i].adopted = r.adopted
      /\ restore'.list[i].status = l.status /\ restore'.list[i].adopted = l.adopted
  BY <1>1, LapsedIs
<1>4. r = Gone => rows'[i] = Gone
  BY GoneIs, LapsedIs
<1>5. ASSUME i \notin restore.put, e.status = "ready", ~ entries'[i].expired, i \notin unsaved
      PROVE  rows'[i] = Saved(entries'[i])
  <2>1. entries'[i] = e /\ e.pinned
    BY <1>1, <1>5, LapsedIs
  <2>2. r = Saved(e)
    BY <1>5, <2>1 DEF EntryInv
  <2>3. r.pinned
    BY <1>1, <2>1, <2>2, SavedIs
  <2>4. QED BY <1>1, <2>1, <2>2, <2>3, LapsedIs
<1>6. QED BY <1>2, <1>3, <1>4, <1>5 DEF EntryInv, Running, Live

LEMMA PinnedEntry ==
    ASSUME NEW i \in Ids, StoreTypeOK, EntryInv(i), Live(i), MakePersistent(i),
           worker' = worker
    PROVE  EntryInv(i)'
<1> DEFINE e == entries[i]
           new == PinOf(i)
<1>1. e \in Entry /\ entries \in [Ids -> Entry]
  BY Copies DEF StoreTypeOK
<1>2. /\ new \in Entry /\ new.status = e.status /\ new.path = e.path /\ new.tracks = e.tracks
      /\ new.adopted = e.adopted /\ new.hook = e.hook /\ new.pinned = TRUE /\ new.expired = FALSE
      /\ entries' = [entries EXCEPT ![i] = new]
      /\ SavedOrNot(i, new)
      /\ UNCHANGED <<index, stopped, made, restore>>
  BY PinIs
<1> HIDE DEF new
<1>3. entries'[i] = new
  BY <1>1, <1>2
<1>4. CopyOK(new)
  BY <1>2 DEF EntryInv, CopyOK
<1>5. CopyOK(Saved(new)) /\ Saved(new).status = new.status /\ Saved(new).adopted = new.adopted
  BY <1>2, <1>4, CopiesOfCopies, SavedIs
<1>6. IF new.status = "ready"
        THEN \/ rows'[i] = Saved(new)
             \/ rows'[i] = rows[i] /\ i \in unsaved'
        ELSE rows'[i] = rows[i]
  BY <1>2 DEF SavedOrNot
<1>7. QED BY <1>2, <1>3, <1>4, <1>5, <1>6 DEF EntryInv, Running, Live

\* Setting or taking the cancel function: it is called when it is taken.
LEMMA HookedEntry ==
    ASSUME NEW i \in Ids, StoreTypeOK, EntryInv(i), NEW b \in BOOLEAN,
           entries' = [entries EXCEPT ![i].hook = b],
           UNCHANGED <<rows, unsaved, restore>>, stopped \subseteq stopped', b \/ i \in stopped',
           \/ worker'[i] = worker[i]
           \/ worker[i] = "spawned" /\ worker'[i] = "hooked"
    PROVE  EntryInv(i)'
<1> DEFINE e == entries[i]
           new == [e EXCEPT !.hook = b]
<1>1. e \in Entry /\ entries \in [Ids -> Entry]
  BY Copies DEF StoreTypeOK
<1>2. /\ new.status = e.status /\ new.path = e.path /\ new.tracks = e.tracks
      /\ new.adopted = e.adopted /\ new.pinned = e.pinned /\ new.expired = e.expired
      /\ (new.hook <=> b) /\ Saved(new) = Saved(e)
  BY <1>1 DEF Entry, Saved
<1>3. entries'[i] = new
  BY <1>1
<1> HIDE DEF new
<1>4. CopyOK(new)
  BY <1>2 DEF EntryInv, CopyOK
<1>5. QED BY <1>2, <1>3, <1>4 DEF EntryInv, Running, Live

\* An update by whoever writes the entry.
LEMMA PutEntry ==
    ASSUME NEW i \in Ids, NEW e \in Entry, StoreTypeOK, EntryInv(i), Live(i), Put(i, e),
           CopyOK(e), e.status # "gone", e.hook = entries[i].hook,
           e.status # "ready" => entries[i].status # "ready",
           Running(i)' => Running(i) /\ (e.status = "ready" => e.adopted),
           worker'[i] = "probing" /\ ~ e.adopted => e.path = Found,
           worker'[i] \in {"hooked", "searching", "probing"}
             => worker[i] \in {"hooked", "searching", "probing"}
    PROVE  EntryInv(i)'
<1> DEFINE new == PutOf(i, e)
<1>1. /\ new \in Entry /\ new.status = e.status /\ new.path = e.path /\ new.tracks = e.tracks
      /\ new.adopted = e.adopted /\ new.hook = e.hook /\ new.pinned = e.pinned
      /\ (new.expired => e.expired)
  BY PutIs
<1>2. /\ entries' = [entries EXCEPT ![i] = new]
      /\ SavedOrNot(i, new)
      /\ UNCHANGED <<index, stopped, made, restore>>
  BY PutSteps
<1> HIDE DEF new
<1>3. CopyOK(new)
  BY <1>1 DEF CopyOK
<1>4. CopyOK(Saved(new)) /\ Saved(new).status = new.status /\ Saved(new).adopted = new.adopted
  BY <1>1, <1>3, CopiesOfCopies, SavedIs
<1>5. /\ entries'[i] = new
      /\ IF e.status = "ready"
           THEN \/ rows'[i] = Saved(new)
                \/ rows'[i] = rows[i] /\ i \in unsaved'
           ELSE rows'[i] = rows[i]
  BY <1>1, <1>2 DEF StoreTypeOK, SavedOrNot
<1>6. QED BY <1>1, <1>2, <1>3, <1>4, <1>5 DEF EntryInv, Running, Live

-----------------------------------------------------------------------------
(* Every entry, and what is settled stays settled. *)

EntriesOK == \A i \in Ids : EntryInv(i)

Settles ==
    /\ made' >= made
    /\ \A i \in Ids : i <= made /\ entries[i].status \in {"ready", "gone"}
                        => entries'[i].status \in {"ready", "gone"}

Keeps == EntriesOK' /\ Settles

LEMMA OneEntry ==
    ASSUME EntriesOK, NEW i \in Ids, EntryInv(i)', restore'.list = restore.list,
           restore'.put = restore.put, stopped \subseteq stopped', made' = made, made \in Nat,
           \A j \in Ids \ {i} : /\ entries'[j] = entries[j] /\ rows'[j] = rows[j]
                                /\ worker'[j] = worker[j] /\ StillUnsaved(j),
           entries[i].status \in {"ready", "gone"} => entries'[i].status \in {"ready", "gone"}
    PROVE  Keeps
<1>1. \A j \in Ids \ {i} : EntryInv(j)'
  BY SameEntry DEF EntriesOK
<1>2. Settles
  BY DEF Settles
<1>3. QED BY <1>1, <1>2 DEF EntriesOK, Keeps

LEMMA NothingWritten ==
    ASSUME StoreTypeOK, EntriesOK, UNCHANGED store, \A i \in Ids : worker'[i] = worker[i]
    PROVE  Keeps
<1>1. \A i \in Ids : EntryInv(i)'
  BY SameEntry DEF EntriesOK, store, StillUnsaved
<1>2. Settles
  BY DEF Settles, store, StoreTypeOK
<1>3. QED BY <1>1, <1>2 DEF EntriesOK, Keeps

\* An update of one entry, by its worker or a player.
LEMMA OnePut ==
    ASSUME StoreTypeOK, EntriesOK, NEW i \in Ids, NEW e \in Entry, Live(i), Put(i, e),
           CopyOK(e), e.status # "gone", e.hook = entries[i].hook,
           e.status # "ready" => entries[i].status # "ready",
           Running(i)' => Running(i) /\ (e.status = "ready" => e.adopted),
           worker'[i] = "probing" /\ ~ e.adopted => e.path = Found,
           worker'[i] \in {"hooked", "searching", "probing"}
             => worker[i] \in {"hooked", "searching", "probing"},
           \A j \in Ids \ {i} : worker'[j] = worker[j]
    PROVE  Keeps
<1>1. EntryInv(i)'
  BY PutEntry DEF EntriesOK
<1>2. /\ entries' = [entries EXCEPT ![i] = PutOf(i, e)]
      /\ SavedOrNot(i, PutOf(i, e))
      /\ UNCHANGED <<index, stopped, made, restore>>
  BY PutSteps
<1>3. entries'[i].status = e.status
  BY <1>2, PutIs DEF StoreTypeOK
<1>4. \A j \in Ids \ {i} : entries'[j] = entries[j] /\ rows'[j] = rows[j] /\ StillUnsaved(j)
  BY <1>2 DEF StoreTypeOK, SavedOrNot, StillUnsaved
<1>5. made \in Nat
  BY DEF StoreTypeOK
<1>6. entries[i].status \in {"ready", "gone"} => entries'[i].status \in {"ready", "gone"}
  BY <1>3 DEF Live
<1>7. QED BY <1>1, <1>2, <1>4, <1>5, <1>6, OneEntry

-----------------------------------------------------------------------------
(* The worker of an entry. *)

\* What a worker that may write finds, and what its updates leave.
LEMMA WorkerCopies ==
    ASSUME StoreTypeOK, NEW i \in Ids, EntryInv(i), WorkerMayWrite(i), Running(i)
    PROVE  /\ entries[i].status # "ready" /\ ~ entries[i].adopted
           /\ \A s \in {"searching", "failed"} :
                LET e == [entries[i] EXCEPT !.status = s]
                IN  CopyOK(e) /\ e.hook = entries[i].hook /\ e.status = s
           /\ LET e == [entries[i] EXCEPT !.status = "probing", !.path = Found]
              IN  CopyOK(e) /\ e.hook = entries[i].hook /\ e.status = "probing" /\ e.path = Found
           /\ worker[i] = "probing" =>
                LET t == [entries[i] EXCEPT !.tracks = Found]
                    e == [entries[i] EXCEPT !.status = "ready"]
                IN  /\ CopyOK(t) /\ t.hook = entries[i].hook /\ t.status = entries[i].status
                    /\ t.path = Found
                    /\ CopyOK(e) /\ e.hook = entries[i].hook /\ e.status = "ready"
<1>1. /\ entries[i] \in Entry /\ CopyOK(entries[i]) /\ ~ entries[i].adopted
      /\ entries[i].status # "ready"
      /\ worker[i] = "probing" => entries[i].path = Found
  BY Copies DEF EntryInv, WorkerMayWrite
<1> DEFINE c == entries[i]
<1>2. c \in Entry /\ CopyOK(c) /\ ~ c.adopted /\ c.status # "ready"
  BY <1>1
<1> HIDE DEF c
<1>3. ASSUME NEW s \in {"searching", "failed"}
      PROVE  LET e == [c EXCEPT !.status = s]
             IN  CopyOK(e) /\ e.hook = c.hook /\ e.status = s
  BY <1>2 DEF CopyOK, Entry
<1>4. LET e == [c EXCEPT !.status = "probing", !.path = Found]
      IN  CopyOK(e) /\ e.hook = c.hook /\ e.status = "probing" /\ e.path = Found
  BY <1>2 DEF CopyOK, Entry
<1>5. c.path = Found =>
        LET t == [c EXCEPT !.tracks = Found]
            e == [c EXCEPT !.status = "ready"]
        IN  /\ CopyOK(t) /\ t.hook = c.hook /\ t.status = c.status /\ t.path = Found
            /\ CopyOK(e) /\ e.hook = c.hook /\ e.status = "ready"
  BY <1>2 DEF CopyOK, Entry
<1>6. QED BY <1>1, <1>3, <1>4, <1>5 DEF c

LEMMA WorkersKeep ==
    ASSUME Acting, EntriesOK, NEW i \in Ids, WorkerStep(i) \/ WorkerStoresTracks(i)
    PROVE  Keeps
<1>a. /\ StoreTypeOK /\ worker \in [Ids -> WorkerPc] /\ EntryInv(i) /\ entries[i] \in Entry
      /\ entries \in [Ids -> Entry] /\ made \in Nat
  BY Copies DEF Acting, TypeOK, EntriesOK, StoreTypeOK
\* The worker of an entry it may not write, gone or adopted, changes nothing.
<1>b. ASSUME UNCHANGED store, \A j \in Ids \ {i} : worker'[j] = worker[j],
             ~ WorkerMayWrite(i), worker[i] \in {"hooked", "searching", "probing"},
             worker'[i] \in {"probing", "done"}, worker'[i] = "probing" => worker[i] \in {"searching", "probing"}
      PROVE  Keeps
  <2>1. EntryInv(i)'
    BY <1>a, <1>b, MovedEntry DEF Running
  <2>2. QED BY <1>a, <1>b, <2>1, OneEntry DEF store, StillUnsaved
<1>1. CASE WorkerSetsCancel(i)
  <2>1. worker[i] = "spawned" /\ worker' = [worker EXCEPT ![i] = "hooked"] /\ SetCancelFunc(i)
    BY <1>1 DEF WorkerSetsCancel
  <2>2. /\ UNCHANGED <<index, rows, unsaved, stopped, made, restore>>
        /\ worker'[i] = "hooked" /\ \A j \in Ids \ {i} : worker'[j] = worker[j] /\ StillUnsaved(j)
    BY <1>a, <2>1 DEF SetCancelFunc, StillUnsaved
  <2>3. CASE Live(i)
    <3>1. entries' = [entries EXCEPT ![i].hook = TRUE]
      BY <2>1, <2>3 DEF SetCancelFunc
    <3>2. EntryInv(i)'
      BY <1>a, <2>1, <2>2, <3>1, HookedEntry
    <3>3. entries'[i].status = entries[i].status
      BY <1>a, <3>1 DEF Entry
    <3>4. \A j \in Ids \ {i} : entries'[j] = entries[j]
      BY <1>a, <3>1
    <3>5. QED BY <1>a, <2>2, <3>2, <3>3, <3>4, OneEntry
  <2>4. CASE ~ Live(i)
    <3>1. entries' = entries
      BY <2>1, <2>4 DEF SetCancelFunc
    <3>2. EntryInv(i)'
      BY <1>a, <2>1, <2>2, <2>4, <3>1 DEF EntryInv, Running, Live
    <3>3. QED BY <1>a, <2>2, <3>1, <3>2, OneEntry
  <2>5. QED BY <2>3, <2>4
<1>2. CASE WorkerStarts(i)
  <2> DEFINE e == [entries[i] EXCEPT !.status = "searching"]
  <2>1. worker[i] = "hooked" /\ UpdateWorker(i, e)
    BY <1>2 DEF WorkerStarts
  <2>2. /\ worker'[i] = (IF WorkerMayWrite(i) THEN "searching" ELSE "done")
        /\ \A j \in Ids \ {i} : worker'[j] = worker[j]
    BY <1>2, <1>a DEF WorkerStarts
  <2>3. Running(i) /\ "searching" \in Statuses
    BY <2>1 DEF Running, Statuses, Progress
  <2>4. e \in Entry
    BY <1>a, <2>3, Handed
  <2>5. WorkerMayWrite(i) => /\ entries[i].status # "ready" /\ CopyOK(e)
                             /\ e.hook = entries[i].hook /\ e.status = "searching"
    BY <1>a, <2>3, WorkerCopies
  <2> HIDE DEF e
  <2>6. CASE WorkerMayWrite(i)
    <3>1. Live(i) /\ Put(i, e)
      BY <2>1, <2>6 DEF UpdateWorker, WorkerMayWrite
    <3>2. QED BY <1>a, <2>1, <2>2, <2>3, <2>4, <2>5, <2>6, <3>1, OnePut
  <2>7. CASE ~ WorkerMayWrite(i)
    BY <1>b, <2>1, <2>2, <2>7 DEF UpdateWorker
  <2>8. QED BY <2>6, <2>7
<1>3. CASE WorkerResolves(i)
  <2> DEFINE e == [entries[i] EXCEPT !.status = "probing", !.path = Found]
  <2>1. worker[i] = "searching" /\ UpdateWorker(i, e)
    BY <1>3 DEF WorkerResolves
  <2>2. worker'[i] = "probing" /\ \A j \in Ids \ {i} : worker'[j] = worker[j]
    BY <1>3, <1>a DEF WorkerResolves
  <2>3. Running(i)
    BY <2>1 DEF Running
  <2>4. e \in Entry
    BY <1>a, Handed
  <2>5. WorkerMayWrite(i) => /\ entries[i].status # "ready" /\ CopyOK(e)
                             /\ e.hook = entries[i].hook /\ e.status = "probing" /\ e.path = Found
    BY <1>a, <2>3, WorkerCopies
  <2> HIDE DEF e
  <2>6. CASE WorkerMayWrite(i)
    <3>1. Live(i) /\ Put(i, e)
      BY <2>1, <2>6 DEF UpdateWorker, WorkerMayWrite
    <3>2. QED BY <1>a, <2>1, <2>2, <2>3, <2>4, <2>5, <2>6, <3>1, OnePut
  <2>7. CASE ~ WorkerMayWrite(i)
    BY <1>b, <2>1, <2>2, <2>7 DEF UpdateWorker
  <2>8. QED BY <2>6, <2>7
<1>4. CASE WorkerFails(i)
  <2> DEFINE e == [entries[i] EXCEPT !.status = "failed"]
  <2>1. worker[i] = "searching" /\ UpdateWorker(i, e)
    BY <1>4 DEF WorkerFails
  <2>2. worker'[i] = "done" /\ \A j \in Ids \ {i} : worker'[j] = worker[j]
    BY <1>4, <1>a DEF WorkerFails
  <2>3. Running(i) /\ ~ Running(i)' /\ "failed" \in Statuses
    BY <2>1, <2>2 DEF Running, Statuses
  <2>4. e \in Entry
    BY <1>a, <2>3, Handed
  <2>5. WorkerMayWrite(i) => /\ entries[i].status # "ready" /\ CopyOK(e)
                             /\ e.hook = entries[i].hook /\ e.status = "failed"
    BY <1>a, <2>3, WorkerCopies
  <2> HIDE DEF e
  <2>6. CASE WorkerMayWrite(i)
    <3>1. Live(i) /\ Put(i, e)
      BY <2>1, <2>6 DEF UpdateWorker, WorkerMayWrite
    <3>2. QED BY <1>a, <2>1, <2>2, <2>3, <2>4, <2>5, <2>6, <3>1, OnePut
  <2>7. CASE ~ WorkerMayWrite(i)
    BY <1>b, <2>1, <2>2, <2>7 DEF UpdateWorker
  <2>8. QED BY <2>6, <2>7
<1>5. CASE WorkerStoresTracks(i)
  <2> DEFINE e == [entries[i] EXCEPT !.tracks = Found]
  <2>1. worker[i] = "probing" /\ UpdateWorker(i, e)
    BY <1>5 DEF WorkerStoresTracks
  <2>2. worker'[i] = "probing" /\ \A j \in Ids \ {i} : worker'[j] = worker[j]
    BY <1>5, <2>1 DEF WorkerStoresTracks, actors
  <2>3. Running(i)
    BY <2>1 DEF Running
  <2>4. e \in Entry
    BY <1>a, Handed
  <2>5. WorkerMayWrite(i) => /\ entries[i].status # "ready" /\ CopyOK(e)
                             /\ e.hook = entries[i].hook /\ e.status = entries[i].status
                             /\ e.path = Found
    BY <1>a, <2>1, <2>3, WorkerCopies
  <2> HIDE DEF e
  <2>6. CASE WorkerMayWrite(i)
    <3>1. Live(i) /\ Put(i, e)
      BY <2>1, <2>6 DEF UpdateWorker, WorkerMayWrite
    <3>2. e.status # "gone" /\ e.status # "ready"
      BY <2>5, <2>6, <3>1 DEF Live
    <3>3. QED BY <1>a, <2>1, <2>2, <2>3, <2>4, <2>5, <2>6, <3>1, <3>2, OnePut
  <2>7. CASE ~ WorkerMayWrite(i)
    BY <1>b, <2>1, <2>2, <2>7 DEF UpdateWorker
  <2>8. QED BY <2>6, <2>7
<1>6. CASE WorkerFinishes(i)
  <2> DEFINE e == [entries[i] EXCEPT !.status = "ready"]
  <2>1. worker[i] = "probing" /\ UpdateWorker(i, e)
    BY <1>6 DEF WorkerFinishes
  <2>2. worker'[i] = "done" /\ \A j \in Ids \ {i} : worker'[j] = worker[j]
    BY <1>6, <1>a DEF WorkerFinishes
  <2>3. Running(i) /\ ~ Running(i)' /\ "ready" \in Statuses
    BY <2>1, <2>2 DEF Running, Statuses
  <2>4. e \in Entry
    BY <1>a, <2>3, Handed
  <2>5. WorkerMayWrite(i) => CopyOK(e) /\ e.hook = entries[i].hook /\ e.status = "ready"
    BY <1>a, <2>1, <2>3, WorkerCopies
  <2> HIDE DEF e
  <2>6. CASE WorkerMayWrite(i)
    <3>1. Live(i) /\ Put(i, e)
      BY <2>1, <2>6 DEF UpdateWorker, WorkerMayWrite
    <3>2. QED BY <1>a, <2>1, <2>2, <2>3, <2>4, <2>5, <2>6, <3>1, OnePut
  <2>7. CASE ~ WorkerMayWrite(i)
    BY <1>b, <2>1, <2>2, <2>7 DEF UpdateWorker
  <2>8. QED BY <2>6, <2>7
<1>7. QED BY <1>1, <1>2, <1>3, <1>4, <1>5, <1>6 DEF WorkerStep

-----------------------------------------------------------------------------
(* The steps of everybody else. *)

LEMMA StoreShapes ==
    ASSUME StoreTypeOK
    PROVE  /\ entries \in [Ids -> Entry] /\ rows \in [Ids -> Entry] /\ made \in Nat
           /\ restore \in Restore /\ restore.list \in [Ids -> Entry]
<1>1. made \in Nat
  BY DEF StoreTypeOK
<1>2. restore \in Restore
  BY DEF StoreTypeOK
<1>3. restore.list \in [Ids -> Entry]
  BY <1>2, RestoreIs
<1>4. QED BY <1>1, <1>2, <1>3 DEF StoreTypeOK

LEMMA CancelKeeps ==
    ASSUME StoreTypeOK, EntriesOK, UNCHANGED worker, NEW i \in Ids,
           CancelWork(i) \/ SetCancelFunc(i)
    PROVE  Keeps
<1>a. entries \in [Ids -> Entry] /\ made \in Nat /\ EntryInv(i)
  BY DEF StoreTypeOK, EntriesOK
<1>1. CASE UNCHANGED store
  BY <1>1, NothingWritten
<1>2. ASSUME NEW b \in BOOLEAN, entries' = [entries EXCEPT ![i].hook = b],
             UNCHANGED <<index, rows, unsaved, made, restore>>, stopped \subseteq stopped', b \/ i \in stopped'
      PROVE  Keeps
  <2>1. EntryInv(i)'
    BY <1>a, <1>2, HookedEntry
  <2>2. entries'[i].status = entries[i].status
    BY <1>a, <1>2 DEF Entry
  <2>3. \A j \in Ids \ {i} : entries'[j] = entries[j] /\ StillUnsaved(j)
    BY <1>a, <1>2 DEF StillUnsaved
  <2>4. QED BY <1>a, <1>2, <2>1, <2>2, <2>3, OneEntry
<1>3. CASE CancelWork(i) /\ entries[i].hook
  BY <1>2, <1>3 DEF CancelWork
<1>4. CASE CancelWork(i) /\ ~ entries[i].hook
  BY <1>1, <1>4 DEF CancelWork
<1>5. CASE SetCancelFunc(i) /\ Live(i)
  BY <1>2, <1>5 DEF SetCancelFunc
<1>6. CASE SetCancelFunc(i) /\ ~ Live(i)
  BY <1>1, <1>6 DEF SetCancelFunc, store
<1>7. QED BY <1>3, <1>4, <1>5, <1>6

LEMMA PinKeeps ==
    ASSUME StoreTypeOK, EntriesOK, UNCHANGED worker, NEW i \in Ids, Live(i), MakePersistent(i)
    PROVE  Keeps
<1>a. entries \in [Ids -> Entry] /\ made \in Nat /\ EntryInv(i)
  BY DEF StoreTypeOK, EntriesOK
<1>1. /\ PinOf(i).status = entries[i].status
      /\ entries' = [entries EXCEPT ![i] = PinOf(i)]
      /\ SavedOrNot(i, PinOf(i))
      /\ UNCHANGED <<index, stopped, made, restore>>
  BY PinIs
<1>2. EntryInv(i)'
  BY <1>a, PinnedEntry
<1>3. /\ entries'[i].status = entries[i].status
      /\ \A j \in Ids \ {i} : entries'[j] = entries[j] /\ rows'[j] = rows[j] /\ StillUnsaved(j)
  BY <1>a, <1>1 DEF SavedOrNot, StillUnsaved
<1>4. QED BY <1>a, <1>1, <1>2, <1>3, OneEntry

LEMMA LapseKeeps ==
    ASSUME StoreTypeOK, EntriesOK, UNCHANGED worker, NEW i \in Ids, Lapse(i)
    PROVE  Keeps
<1>a. /\ entries \in [Ids -> Entry] /\ rows \in [Ids -> Entry] /\ made \in Nat
      /\ restore \in Restore /\ restore.list \in [Ids -> Entry]
  BY StoreShapes
<1>1. /\ entries' = [entries EXCEPT ![i] = Lapsed(entries[i])]
      /\ rows' = [rows EXCEPT ![i] = Lapsed(rows[i])]
      /\ restore'.list = [restore.list EXCEPT ![i] = Lapsed(restore.list[i])]
      /\ restore'.put = restore.put
      /\ UNCHANGED <<index, unsaved, stopped, made>>
  BY <1>a DEF Lapse, Restore
<1>2. EntryInv(i)'
  BY <1>a, <1>1, LapsedEntry DEF EntriesOK
<1>3. ASSUME NEW j \in Ids \ {i} PROVE EntryInv(j)'
  <2>1. entries'[j] = entries[j] /\ rows'[j] = rows[j] /\ restore'.list[j] = restore.list[j]
    BY <1>a, <1>1
  <2>2. QED BY <1>1, <2>1, SameEntry DEF EntriesOK, StillUnsaved
<1>4. \A j \in Ids : entries'[j].status = entries[j].status
  BY <1>a, <1>1, LapsedIs
<1>5. QED BY <1>a, <1>1, <1>2, <1>3, <1>4 DEF Keeps, EntriesOK, Settles

LEMMA ForgettingKeeps ==
    ASSUME StoreTypeOK, EntriesOK, worker' = worker, NEW S \in SUBSET Ids, Removes(S)
    PROVE  Keeps
<1>1. /\ \A i \in Ids : entries'[i] = IF i \in S THEN Gone ELSE entries[i]
      /\ \A i \in S : entries[i].hook => i \in stopped'
      /\ stopped \subseteq stopped'
      /\ UNCHANGED <<made, restore>>
  BY DEF Removes, Forget
<1>2. ASSUME NEW i \in S PROVE EntryInv(i)'
  <2>1. rows'[i] \in {rows[i], Gone}
    BY DEF Removes
  <2>2. QED BY <1>1, <2>1, ForgottenEntry DEF EntriesOK
<1>3. ASSUME NEW i \in Ids \ S PROVE EntryInv(i)'
  <2>1. CASE rows'[i] = rows[i] /\ StillUnsaved(i)
    BY <1>1, <2>1, SameEntry DEF EntriesOK
  <2>2. CASE rows'[i] = Gone /\ rows[i].expired /\ StillUnsaved(i)
    BY <1>1, <2>2, RowlessEntry DEF EntriesOK
  <2>3. CASE SavedAgain(i)
    BY <1>1, <2>3, ResavedEntry DEF EntriesOK
  <2>4. QED BY <2>1, <2>2, <2>3 DEF Removes
<1>4. EntriesOK'
  BY <1>2, <1>3 DEF EntriesOK
<1>5. Settles
  BY <1>1, GoneIs DEF Settles, StoreTypeOK
<1>6. QED BY <1>4, <1>5 DEF Keeps

LEMMA RestoringKeeps ==
    ASSUME StoreInv, EntriesOK, UNCHANGED worker, RestoresStep
    PROVE  Keeps
<1>a. /\ StoreTypeOK /\ made \in Nat /\ restore \in Restore /\ rows \in [Ids -> Entry]
      /\ restore.list \in [Ids -> Entry] /\ \A i \in Ids : EntryInv(i)
  BY StoreShapes DEF StoreInv, EntriesOK
<1>1. CASE ListRows
  <2>1. /\ \A i \in Ids : restore'.list[i] = rows[i] \/ restore'.list[i] = Gone
        /\ restore'.put = restore.put
        /\ UNCHANGED <<entries, index, rows, unsaved, stopped, made>>
    BY <1>1, <1>a DEF ListRows, Restore
  <2>2. \A i \in Ids : EntryInv(i)'
    BY <1>a, <2>1, GoneIs, CopiesOfCopies DEF EntryInv, Running, Live
  <2>3. QED BY <1>a, <2>1, <2>2 DEF Keeps, EntriesOK, Settles
<1>2. CASE ListFails \/ RestoreDone \/ \E i \in Ids : DeleteSuperseded(i)
  <2>1. /\ restore'.list = restore.list /\ restore'.put = restore.put
        /\ UNCHANGED <<entries, index, stopped, made>>
    BY <1>2, <1>a DEF ListFails, RestoreDone, DeleteSuperseded, Restore
  <2>2. ASSUME NEW j \in Ids
        PROVE  \/ rows'[j] = rows[j] /\ StillUnsaved(j)
               \/ /\ rows'[j] = Gone
                  /\ (rows[j].expired /\ StillUnsaved(j)) \/ j \in restore.put \/ ~ Live(j)
    <3>1. CASE ListFails
      BY <3>1 DEF ListFails, StillUnsaved
    <3>2. CASE RestoreDone
      BY <3>2 DEF RestoreDone, ExpiredGo, StillUnsaved
    <3>3. ASSUME NEW i \in Ids, DeleteSuperseded(i)
          PROVE  \/ rows'[j] = rows[j] /\ StillUnsaved(j)
                 \/ rows'[j] = Gone /\ (j \in restore.put \/ ~ Live(j))
      <4>1. Sent({i}, NoRows) /\ i \in restore.todo /\ NoRows[j] = Gone
        BY <3>3 DEF DeleteSuperseded, NoRows
      <4>2. Live(i) => i \in restore.put
        BY <4>1 DEF StoreInv, RestoreOK
      <4>3. CASE j = i
        BY <4>1, <4>2, <4>3, SentRow DEF StillUnsaved
      <4>4. CASE j # i
        BY <4>1, <4>4, SentRow DEF StillUnsaved
      <4>5. QED BY <4>3, <4>4
    <3>4. QED BY <1>2, <3>1, <3>2, <3>3
  <2>3. ASSUME NEW j \in Ids PROVE EntryInv(j)'
    <3>1. CASE rows'[j] = rows[j] /\ StillUnsaved(j)
      BY <1>a, <2>1, <3>1, SameEntry
    <3>2. CASE /\ rows'[j] = Gone
               /\ (rows[j].expired /\ StillUnsaved(j)) \/ j \in restore.put \/ ~ Live(j)
      BY <1>a, <2>1, <3>2, RowlessEntry
    <3>3. QED BY <2>2, <3>1, <3>2
  <2>4. QED BY <1>a, <2>1, <2>3 DEF Keeps, EntriesOK, Settles
<1>3. CASE MergeRows
  <2>1. /\ \A i \in Ids : entries'[i] = IF i \in Restorable THEN restore.list[i] ELSE entries[i]
        /\ restore'.put = Restorable /\ restore.put = {}
        /\ \A i \in Ids : restore'.list[i] = Gone
        /\ restore.pc \in {"listed", "short"}
        /\ UNCHANGED <<rows, unsaved, stopped, made>>
    BY <1>3, MergeIs
  <2>2. \A i \in Restorable : restore.list[i].status = "ready"
    BY <2>1, MergeFacts
  <2>3. ASSUME NEW i \in Ids, i \in Restorable PROVE EntryInv(i)'
    BY <1>a, <2>1, <2>2, <2>3, GoneIs, CopiesOfCopies DEF EntryInv, CopyOK, Running, Live
  <2>4. ASSUME NEW i \in Ids, i \notin Restorable PROVE EntryInv(i)'
    BY <1>a, <2>1, <2>4, GoneIs, CopiesOfCopies DEF EntryInv, Running, Live
  <2>5. QED BY <1>a, <2>1, <2>2, <2>3, <2>4 DEF Keeps, EntriesOK, Settles
<1>4. ASSUME NEW n \in Ids, ContextEnds(n) PROVE Keeps
  <2>1. /\ \A i \in Ids : restore'.list[i] \in {restore.list[i], Gone}
        /\ restore'.put = restore.put
        /\ UNCHANGED <<entries, index, rows, unsaved, stopped, made>>
    BY <1>4, <1>a, CutIs
  <2>2. \A i \in Ids : EntryInv(i)'
    BY <1>a, <2>1, GoneIs, CopiesOfCopies DEF EntryInv, Running, Live
  <2>3. QED BY <1>a, <2>1, <2>2 DEF Keeps, EntriesOK, Settles
<1>5. QED BY <1>1, <1>2, <1>3, <1>4 DEF RestoresStep

LEMMA CalmKeeps ==
    ASSUME StoreInv, EntriesOK, UNCHANGED worker, CalmStep
    PROVE  Keeps
<1>a. StoreTypeOK
  BY DEF StoreInv
<1>1. CASE TouchStep
  BY <1>1, <1>a, CancelKeeps, PinKeeps, LapseKeeps DEF TouchStep
<1>2. CASE RemoveStep
  BY <1>2, <1>a, RemovalIs, ForgettingKeeps
<1>3. QED BY <1>1, <1>2, <1>a, NothingWritten, RestoringKeeps DEF CalmStep

LEMMA NewKeeps ==
    ASSUME Acting, StoreInv, EntriesOK, NewEntry
    PROVE  Keeps
<1>a. /\ StoreTypeOK /\ worker \in [Ids -> WorkerPc] /\ made \in Nat
      /\ \A i \in Ids : EntryInv(i)
      /\ \A c \in Keys : index[c] \in Ids \cup {NoId}
      /\ \A c \in Keys : index[c] # NoId => Live(index[c])
  BY DEF Acting, TypeOK, StoreInv, StoreTypeOK, IndexIsExact, EntriesOK
<1>1. PICK k \in Keys, manual \in BOOLEAN :
        CreateScoped(k, manual) /\ worker' = [worker EXCEPT ![NextId] = "spawned"]
  BY DEF NewEntry
<1>n. PICK n \in Ids : n = NextId
  BY <1>1, <1>a, CreateIs
<1>2. /\ made' = n
      /\ \A i \in Ids : i # n => entries'[i] = IF i = index[k] THEN Gone ELSE entries[i]
      /\ \A i \in Ids : \/ i # index[k] /\ rows'[i] = rows[i] /\ StillUnsaved(i)
                        \/ i = index[k] /\ rows'[i] \in {rows[i], Gone}
      /\ \A i \in Ids : i = index[k] /\ entries[i].hook => i \in stopped'
      /\ stopped \subseteq stopped'
      /\ UNCHANGED restore
  BY <1>1, <1>n, <1>a, CreateIs
<1>3. PICK pin \in BOOLEAN : entries'[n] = Fresh(k, pin)
  BY <1>1, <1>n, <1>a, CreateIs
<1>4. /\ entries[n].status = "gone" /\ rows[n] = Gone
      /\ restore.list[n].status = "gone"
  BY <1>n, <1>a, NewIsNew
<1>5. rows'[n] = Gone /\ n # index[k]
  BY <1>1, <1>2, <1>4, <1>a, Basics DEF Live
<1>6. /\ worker'[n] = "spawned"
      /\ \A i \in Ids \ {n} : worker'[i] = worker[i]
  BY <1>1, <1>n, <1>a
<1>7. EntryInv(n)'
  <2> DEFINE e == Fresh(k, pin)
  <2>1. /\ e.status = "queued" /\ e.path = NoStream /\ e.tracks = NoStream
        /\ e.adopted = FALSE /\ e.expired = FALSE
    BY FreshIs
  <2> HIDE DEF e
  <2>2. CopyOK(e)
    BY <2>1 DEF CopyOK
  <2>3. entries'[n] = e /\ restore'.list[n] = restore.list[n]
        /\ CopyOK(restore.list[n])
    BY <1>2, <1>3, <1>a DEF e, EntryInv
  <2>4. CopyOK(rows'[n]) /\ rows'[n].status = "gone"
    BY <1>5, GoneIs, CopiesOfCopies
  <2>5. CopyOK(entries[n])' /\ CopyOK(rows[n])' /\ CopyOK(restore.list[n])'
    BY <2>2, <2>3, <2>4 DEF CopyOK
  <2>6. entries'[n].status = "queued" /\ restore'.list[n].status = "gone"
    BY <1>4, <2>1, <2>3
  <2>7. QED BY <1>5, <1>6, <2>4, <2>5, <2>6 DEF EntryInv, Running, Live
<1>8. ASSUME NEW i \in Ids, i # n, i = index[k] PROVE EntryInv(i)'
  BY <1>2, <1>6, <1>8, <1>a, ForgottenEntry
<1>9. ASSUME NEW i \in Ids, i # n, i # index[k] PROVE EntryInv(i)'
  BY <1>2, <1>6, <1>9, <1>a, SameEntry
<1>10. Settles
  <2>1. n > made /\ \A i \in Ids : i \in Nat
    BY <1>n, <1>a, Basics DEF NextId
  <2>2. \A i \in Ids : i <= made => i # n
    BY <1>a, <2>1
  <2>3. made' >= made
    BY <1>a, <1>n, <1>2 DEF NextId
  <2>4. ASSUME NEW i \in Ids, i <= made, entries[i].status \in {"ready", "gone"}
        PROVE  entries'[i].status \in {"ready", "gone"}
    BY <1>2, <2>2, <2>4, GoneIs
  <2>5. QED BY <2>3, <2>4 DEF Settles
<1>11. EntriesOK'
  BY <1>7, <1>8, <1>9 DEF EntriesOK
<1>12. QED BY <1>10, <1>11 DEF Keeps

LEMMA RestartingKeeps ==
    ASSUME StoreTypeOK, EntriesOK, Restart
    PROVE  Keeps
<1>1. /\ \A i \in Ids : entries'[i] = Gone /\ restore'.list[i] = Gone /\ worker'[i] = "none"
      /\ UNCHANGED <<rows, made>>
  BY DEF Restart, StoreRestart, NothingRestored
<1>2. \A i \in Ids : EntryInv(i)'
  BY <1>1, GoneIs, CopiesOfCopies DEF EntriesOK, EntryInv, Running, Live
<1>3. QED BY <1>1, <1>2, GoneIs DEF Keeps, EntriesOK, Settles, StoreTypeOK

\* What the players hand to Update.
LEMMA AdoptedIs ==
    ASSUME NEW e \in Entry, NEW path \in Paths, CopyOK(e)
    PROVE  /\ CopyOK(Adopted(e, path)) /\ Adopted(e, path).adopted
           /\ Adopted(e, path).hook = e.hook
           /\ e.status = "ready" =>
                /\ CopyOK(Refreshed(e, path)) /\ Refreshed(e, path).hook = e.hook
                /\ Refreshed(e, path).path = e.path
                /\ e.adopted => Refreshed(e, path).adopted
BY DEF CopyOK, Entry, Adopted, Refreshed

LEMMA PlayersKeep ==
    ASSUME Acting, EntriesOK, PlayersOK, NEW p \in Players, PlayerStep(p)
    PROVE  Keeps
<1>a. /\ StoreTypeOK /\ Brings[p] \in Paths /\ \A i \in Ids : EntryInv(i)
      /\ UNCHANGED worker
      /\ player[p].pc # "idle" => player[p].id \in Ids
  BY PrequeueAssumption DEF Acting, TypeOK, ActorsOK, EntriesOK, Paths,
     PlayerStep, PlayerTakesOver, PlayerAdopts, PlayerRefreshes
<1>1. ASSUME NEW i \in Ids, PlayerTakesOver(p, i) PROVE Keeps
  <2>1. CancelWork(i)
    BY <1>1 DEF PlayerTakesOver
  <2>2. QED BY <1>a, <2>1, CancelKeeps
<1>2. CASE PlayerAdopts(p)
  <2> DEFINE e == Adopted(entries[player[p].id], Brings[p])
  <2>1. player[p].id \in Ids /\ Update(player[p].id, e)
    BY <1>2, <1>a DEF PlayerAdopts
  <2>2. PICK i \in Ids : i = player[p].id
    BY <2>1
  <2>3. /\ entries[i] \in Entry /\ CopyOK(entries[i]) /\ EntryInv(i)
    BY <1>a, Copies DEF EntryInv
  <2>4. e \in Entry /\ CopyOK(e) /\ e.status = "ready" /\ e.adopted /\ e.hook = entries[i].hook
    BY <1>a, <2>2, <2>3, Handed, AdoptedIs, WorkersUpdate
  <2> HIDE DEF e
  <2>5. CASE Live(i)
    <3>1. Put(i, e)
      BY <2>1, <2>2, <2>5 DEF Update
    <3>2. Running(i)' => Running(i)
      BY <1>a DEF Running
    <3>3. QED BY <1>a, <2>4, <2>5, <3>1, <3>2, OnePut
  <2>6. CASE ~ Live(i)
    BY <1>a, <2>1, <2>2, <2>6, NothingWritten DEF Update
  <2>7. QED BY <2>5, <2>6
<1>3. CASE PlayerRefreshes(p)
  <2> DEFINE e == Refreshed(entries[player[p].id], Brings[p])
  <2>1. player[p].id \in Ids /\ Update(player[p].id, e) /\ player[p].pc = "probing"
    BY <1>3, <1>a DEF PlayerRefreshes
  <2>2. PICK i \in Ids : i = player[p].id
    BY <2>1
  <2>3. /\ entries[i] \in Entry /\ CopyOK(entries[i]) /\ EntryInv(i)
    BY <1>a, Copies DEF EntryInv
  <2>4. CASE Live(i)
    <3>1. entries[i].status = "ready"
      BY <2>1, <2>2, <2>4 DEF PlayersOK
    <3>2. /\ e \in Entry /\ CopyOK(e) /\ e.status = "ready" /\ e.hook = entries[i].hook
          /\ e.path = entries[i].path /\ (entries[i].adopted => e.adopted)
      BY <1>a, <2>2, <2>3, <3>1, Handed, AdoptedIs, WorkersUpdate
    <3>3. Put(i, e)
      BY <2>1, <2>2, <2>4 DEF Update
    <3>4. Running(i)' => Running(i) /\ e.adopted
      BY <1>a, <2>3, <3>1, <3>2 DEF Running, EntryInv
    <3>5. worker'[i] = "probing" /\ ~ e.adopted => e.path = Found
      BY <1>a, <2>3, <2>4, <3>2 DEF EntryInv
    <3> HIDE DEF e
    <3>6. QED BY <1>a, <2>4, <3>2, <3>3, <3>4, <3>5, OnePut
  <2>5. CASE ~ Live(i)
    BY <1>a, <2>1, <2>2, <2>5, NothingWritten DEF Update
  <2>6. QED BY <2>4, <2>5
<1>4. QED BY <1>1, <1>2, <1>3 DEF PlayerStep

-----------------------------------------------------------------------------
(* The inductive invariant. *)

IInv == Acting /\ StoreInv /\ EntriesOK /\ PlayersOK

\* Who moves, and what that does to the entries.
LEMMA EveryStepKeeps ==
    ASSUME IInv, [Next]_vars
    PROVE  Keeps
<1>a. Acting /\ StoreInv /\ EntriesOK /\ PlayersOK /\ StoreTypeOK /\ TypeOK /\ ActorsOK
  BY DEF IInv, Acting, TypeOK
<1>1. ASSUME CalmOrNew PROVE Keeps
  BY <1>1, <1>a, CalmKeeps, NewKeeps DEF CalmOrNew
<1>2. CASE \E r \in Requests : RequestStep(r)
  BY <1>1, <1>2, <1>a, RequestsTakeSteps
<1>3. CASE \E i \in Ids : WorkerStep(i) \/ WorkerStoresTracks(i)
  BY <1>3, <1>a, WorkersKeep
<1>4. CASE \E p \in Players : PlayerStep(p)
  BY <1>4, <1>a, PlayersKeep
<1>5. CASE \E w \in Warmers : JobStep(w)
  BY <1>1, <1>5, <1>a, WarmersTakeSteps
<1>6. CASE OtherStep
  BY <1>1, <1>6, <1>a, OthersTakeSteps, OthersDoNotAct DEF CalmOrNew, actors
<1>7. CASE Restart
  BY <1>7, <1>a, RestartingKeeps
<1>8. CASE UNCHANGED vars
  BY <1>8, <1>a, NothingWritten DEF vars, store
<1>9. QED BY <1>2, <1>3, <1>4, <1>5, <1>6, <1>7, <1>8, NextSplits

\* Whose players probe.
LEMMA ProbesBegin ==
    ASSUME Acting, StoreInv, PlayersOK, [Next]_vars, NEW q \in Players, player'[q].pc = "probing"
    PROVE  /\ player'[q].id \in Ids /\ player'[q].id <= made
           /\ \/ entries[player'[q].id].status \in {"ready", "gone"}
              \/ entries'[player'[q].id].status = "ready"
<1>a. /\ StoreTypeOK /\ player \in [Players -> Player] /\ made \in Nat
      /\ \A p \in Players : player[p].pc # "idle" => player[p].id \in Ids
      /\ \A i \in Ids : i \in Nat
  BY StoreShapes, Basics DEF Acting, TypeOK, ActorsOK
<1> DEFINE Goal == /\ player'[q].id \in Ids /\ player'[q].id <= made
                   /\ \/ entries[player'[q].id].status \in {"ready", "gone"}
                      \/ entries'[player'[q].id].status = "ready"
<1>1. ASSUME player'[q] = player[q] PROVE Goal
  BY <1>1, <1>a DEF PlayersOK, Live
<1>2. ASSUME NEW p \in Players, PlayerStep(p) PROVE Goal
  <2>1. CASE p # q
    <3>1. player'[q] = player[q]
      BY <1>2, <1>a, <2>1 DEF PlayerStep, PlayerTakesOver, PlayerAdopts, PlayerRefreshes
    <3>2. QED BY <1>1, <3>1
  <2>2. CASE p = q
    <3>1. player[q] \in Player
      BY <1>a
    <3>2. /\ PlayerAdopts(q) /\ Live(player[q].id) /\ player'[q].id = player[q].id
          /\ player[q].pc = "cancelled"
      BY <1>2, <1>a, <2>2, <3>1
         DEF PlayerStep, PlayerTakesOver, PlayerAdopts, PlayerRefreshes, IdlePlayer, Player
    <3>3. PICK i \in Ids : i = player[q].id
      BY <1>a, <3>2
    <3>4. entries'[i].status = "ready"
      <4> DEFINE e == Adopted(entries[i], Brings[q])
      <4>1. e \in Entry /\ e.status = "ready"
        BY <1>a, Handed, WorkersUpdate, PrequeueAssumption DEF Paths
      <4>2. Put(i, e)
        BY <3>2, <3>3 DEF PlayerAdopts, Update
      <4> HIDE DEF e
      <4>3. QED BY <1>a, <4>1, <4>2, PutSteps, PutIs DEF StoreTypeOK
    <3>5. i <= made
      BY <1>a, <3>2, <3>3 DEF StoreInv, MadeInOrder, Live
    <3>6. QED BY <3>2, <3>3, <3>4, <3>5
  <2>3. QED BY <2>1, <2>2
<1>3. ASSUME NEW r \in Requests, RequestStep(r) PROVE Goal
  BY <1>1, <1>3, RequestActs
<1>4. ASSUME NEW i \in Ids, WorkerStep(i) \/ WorkerStoresTracks(i) PROVE Goal
  BY <1>1, <1>4, WorkerActs
<1>5. ASSUME NEW w \in Warmers, JobStep(w) PROVE Goal
  BY <1>1, <1>5, WarmActs
<1>6. ASSUME OtherStep PROVE Goal
  BY <1>1, <1>6, OthersDoNotAct DEF actors
<1>7. ASSUME Restart PROVE Goal
  BY <1>7 DEF Restart, IdlePlayer
<1>8. ASSUME UNCHANGED vars PROVE Goal
  BY <1>1, <1>8 DEF vars
<1>9. QED BY <1>2, <1>3, <1>4, <1>5, <1>6, <1>7, <1>8, NextSplits

LEMMA IInvInit == Init => IInv
<1>1. SUFFICES ASSUME Init PROVE IInv
  OBVIOUS
<1>2. /\ \A i \in Ids : entries[i] = Gone /\ rows[i] = Gone /\ restore.list[i] = Gone
                        /\ worker[i] = "none"
      /\ \A p \in Players : player[p].pc = "idle"
  BY <1>1 DEF Init, StoreInit, NothingRestored, IdlePlayer
<1>3. EntriesOK
  BY <1>2, GoneIs, CopiesOfCopies DEF EntriesOK, EntryInv, Running, Live
<1>4. PlayersOK
  BY <1>2 DEF PlayersOK
<1>5. QED BY <1>1, <1>3, <1>4, ActingInit, StoreInvInit DEF IInv

LEMMA IInvNext == IInv /\ [Next]_vars => IInv'
<1>1. SUFFICES ASSUME IInv, [Next]_vars PROVE IInv'
  OBVIOUS
<1>2. Acting' /\ StoreInv'
  BY <1>1, StoreIInvNext DEF IInv, StoreIInv
<1>3. EntriesOK' /\ Settles
  BY <1>1, EveryStepKeeps DEF Keeps
<1>4. ASSUME NEW q \in Players, player'[q].pc = "probing"
      PROVE  /\ player'[q].id <= made'
             /\ entries'[player'[q].id].status \in {"ready", "gone"}
  <2>1. /\ player'[q].id \in Ids /\ player'[q].id <= made
        /\ \/ entries[player'[q].id].status \in {"ready", "gone"}
           \/ entries'[player'[q].id].status = "ready"
    BY <1>1, <1>4, ProbesBegin DEF IInv
  <2>2. made \in Nat /\ made' \in Nat /\ made' >= made /\ player'[q].id \in Nat
    BY <1>1, <1>2, <1>3, <2>1, Basics DEF IInv, StoreInv, StoreTypeOK, Settles
  <2>3. QED BY <1>3, <2>1, <2>2 DEF Settles
<1>5. PlayersOK'
  BY <1>4 DEF PlayersOK, Live
<1>6. QED BY <1>2, <1>3, <1>5 DEF IInv

LEMMA Invariance == Spec => []IInv
BY IInvInit, IInvNext, PTL DEF Spec

\* A worker at work on an entry that is no more has been told to stop: nobody can
\* lose one by replacing, deleting or expiring its entry.
THEOREM NoStrayWorkerTheorem == Spec => []NoStrayWorker
<1>1. IInv => NoStrayWorker
  BY DEF IInv, EntriesOK, EntryInv, NoStrayWorker
<1>2. QED BY <1>1, Invariance, PTL

\* Tracks are never shown with a stream they were not probed from.
THEOREM TracksTheorem == Spec => []TracksMatchStream
<1>1. IInv => TracksMatchStream
  BY DEF IInv, EntriesOK, EntryInv, CopyOK, TracksMatchStream
<1>2. QED BY <1>1, Invariance, PTL

\* The table holds what is shown of a ready entry and nothing of one in progress,
\* however deadlines, migrations, pins, removals and failed statements fall between:
\* they part only where the last statement on the row itself failed.
THEOREM RowsTheorem == Spec => []RowsFollowEntries
<1>1. IInv => RowsFollowEntries
  BY DEF IInv, EntriesOK, EntryInv, RowsFollowEntries, Live
<1>2. QED BY <1>1, Invariance, PTL

-----------------------------------------------------------------------------
(* What no step may do. *)

\* Status, stream and pin of every entry but the removed, unless the merge writes them.
LEMMA CalmLeaves ==
    ASSUME StoreInv, CalmStep, restore'.put = restore.put, NEW i \in Ids
    PROVE  \/ entries'[i] = Gone
           \/ /\ entries'[i].status = entries[i].status /\ entries'[i].path = entries[i].path
              /\ entries'[i].adopted = entries[i].adopted
              /\ entries[i].pinned => entries'[i].pinned
<1>a. StoreTypeOK /\ entries \in [Ids -> Entry] /\ entries[i] \in Entry
  BY DEF StoreInv, StoreTypeOK
<1>1. ASSUME NEW j \in Ids, NEW e \in Entry, entries' = [entries EXCEPT ![j] = e],
             e.status = entries[j].status, e.path = entries[j].path,
             e.adopted = entries[j].adopted, entries[j].pinned => e.pinned
      PROVE  /\ entries'[i].status = entries[i].status /\ entries'[i].path = entries[i].path
             /\ entries'[i].adopted = entries[i].adopted
             /\ entries[i].pinned => entries'[i].pinned
  BY <1>1, <1>a
<1>2. ASSUME NEW j \in Ids, Live(j), MakePersistent(j)
      PROVE  /\ entries'[i].status = entries[i].status /\ entries'[i].path = entries[i].path
             /\ entries'[i].adopted = entries[i].adopted
             /\ entries[i].pinned => entries'[i].pinned
  <2>1. /\ PinOf(j) \in Entry /\ PinOf(j).status = entries[j].status
        /\ PinOf(j).path = entries[j].path /\ PinOf(j).adopted = entries[j].adopted
        /\ PinOf(j).pinned
        /\ entries' = [entries EXCEPT ![j] = PinOf(j)]
    BY <1>2, <1>a, PinIs
  <2>2. QED BY <1>1, <2>1
<1>3. ASSUME NEW j \in Ids, CancelWork(j) \/ SetCancelFunc(j)
      PROVE  /\ entries'[i].status = entries[i].status /\ entries'[i].path = entries[i].path
             /\ entries'[i].adopted = entries[i].adopted
             /\ entries[i].pinned => entries'[i].pinned
  <2>1. CASE entries' = entries
    BY <2>1
  <2>2. ASSUME NEW b \in BOOLEAN, entries' = [entries EXCEPT ![j].hook = b]
        PROVE  /\ entries'[i].status = entries[i].status /\ entries'[i].path = entries[i].path
               /\ entries'[i].adopted = entries[i].adopted
               /\ entries[i].pinned => entries'[i].pinned
    BY <1>a, <2>2 DEF Entry
  <2>3. QED BY <1>3, <2>1, <2>2 DEF CancelWork, SetCancelFunc, store
<1>4. ASSUME NEW j \in Ids, Lapse(j)
      PROVE  /\ entries'[i].status = entries[i].status /\ entries'[i].path = entries[i].path
             /\ entries'[i].adopted = entries[i].adopted
             /\ entries[i].pinned => entries'[i].pinned
  BY <1>1, <1>4, <1>a, LapsedIs DEF Lapse
<1>5. CASE RemoveStep
  BY <1>5, <1>a, RemovalIs DEF Removes, Forget
<1>6. CASE RestoresStep
  <2>1. CASE MergeRows
    <3>1. /\ entries'[i] = IF i \in Restorable THEN restore.list[i] ELSE entries[i]
          /\ restore'.put = Restorable /\ restore.put = {}
      BY <2>1, MergeIs
    <3>2. QED BY <3>1
  <2>2. CASE entries' = entries
    BY <2>2
  <2>3. QED BY <1>6, <2>1, <2>2
            DEF RestoresStep, ListRows, ListFails, RestoreDone, DeleteSuperseded, ContextEnds
<1>7. CASE UNCHANGED store
  BY <1>7 DEF store
<1>8. QED BY <1>2, <1>3, <1>4, <1>5, <1>6, <1>7 DEF CalmStep, TouchStep

LEMMA NewLeaves ==
    ASSUME StoreInv, NEW k \in Keys, NEW manual \in BOOLEAN, CreateScoped(k, manual),
           NEW i \in Ids, Live(i)
    PROVE  IF i = index[k] THEN entries'[i] = Gone ELSE entries'[i] = entries[i]
<1>1. StoreTypeOK
  BY DEF StoreInv
<1>2. /\ NextId \in Ids /\ made \in Nat
      /\ \A j \in Ids : j # NextId => entries'[j] = IF j = index[k] THEN Gone ELSE entries[j]
  BY <1>1, CreateIs
<1>3. i # NextId
  BY <1>2, NewIsNew DEF Live
<1>4. QED BY <1>2, <1>3

\* A worker writes nothing into an entry a player took over; what it does change
\* there is how it is stopped.
LEMMA WorkersLeave ==
    ASSUME Acting, NEW w \in Ids, WorkerStep(w) \/ WorkerStoresTracks(w),
           NEW i \in Ids, entries[i].adopted
    PROVE  /\ entries'[i].status = entries[i].status /\ entries'[i].path = entries[i].path
           /\ entries'[i].adopted = entries[i].adopted
<1>a. StoreTypeOK /\ entries \in [Ids -> Entry] /\ entries[i] \in Entry
  BY DEF Acting, TypeOK, StoreTypeOK
<1>1. ASSUME NEW e \in Entry, UpdateWorker(w, e) PROVE entries'[i] = entries[i]
  <2>1. CASE WorkerMayWrite(w)
    <3>1. entries' = [entries EXCEPT ![w] = PutOf(w, e)] /\ w # i
      BY <1>1, <1>a, <2>1, PutSteps DEF UpdateWorker, WorkerMayWrite
    <3>2. QED BY <1>a, <3>1
  <2>2. CASE ~ WorkerMayWrite(w)
    BY <1>1, <2>2 DEF UpdateWorker, store
  <2>3. QED BY <2>1, <2>2
<1>2. CASE WorkerSetsCancel(w)
  BY <1>2, <1>a DEF WorkerSetsCancel, SetCancelFunc, Entry
<1>3. CASE WorkerStarts(w) \/ WorkerResolves(w) \/ WorkerFails(w) \/ WorkerFinishes(w)
           \/ WorkerStoresTracks(w)
  <2>1. entries[w] \in Entry
    BY <1>a
  <2>2. /\ {"searching", "failed", "ready"} \subseteq Statuses
    BY DEF Statuses, Progress
  <2>3. entries'[i] = entries[i]
    BY <1>1, <1>3, <2>1, <2>2, Handed
       DEF WorkerStarts, WorkerResolves, WorkerFails, WorkerFinishes, WorkerStoresTracks
  <2>4. QED BY <2>3
<1>4. QED BY <1>2, <1>3 DEF WorkerStep

\* A migration changes its own entry, and the refresh after it no stream.
LEMMA PlayersLeave ==
    ASSUME Acting, NEW p \in Players, PlayerStep(p),
           NEW i \in Ids, entries[i].adopted, entries[i].status = "ready"
    PROVE  /\ entries'[i].status = "ready" /\ entries'[i].adopted
           /\ entries'[i].path # entries[i].path =>
                player[p].pc = "cancelled" /\ player[p].id = i /\ player'[p].pc # "cancelled"
<1>a. /\ StoreTypeOK /\ entries \in [Ids -> Entry] /\ entries[i] \in Entry
      /\ player \in [Players -> Player] /\ Brings[p] \in Paths
      /\ player[p].pc # "idle" => player[p].id \in Ids
  BY PrequeueAssumption DEF Acting, TypeOK, ActorsOK, StoreTypeOK, Paths
<1>1. ASSUME NEW j \in Ids, PlayerTakesOver(p, j)
      PROVE  entries'[i].status = entries[i].status /\ entries'[i].path = entries[i].path
             /\ entries'[i].adopted = entries[i].adopted
  <2>1. CASE entries' = entries
    BY <2>1
  <2>2. CASE entries' = [entries EXCEPT ![j].hook = FALSE]
    BY <1>a, <2>2 DEF Entry
  <2>3. QED BY <1>1, <2>1, <2>2 DEF PlayerTakesOver, CancelWork, store
<1>2. ASSUME NEW j \in Ids, NEW e \in Entry, Update(j, e), j = player[p].id
      PROVE  \/ entries'[i] = entries[i]
             \/ i = j /\ entries'[i] = PutOf(i, e)
  <2>1. CASE Live(j)
    <3>1. entries' = [entries EXCEPT ![j] = PutOf(j, e)]
      BY <1>2, <1>a, <2>1, PutSteps DEF Update
    <3>2. QED BY <1>a, <3>1
  <2>2. CASE ~ Live(j)
    BY <1>2, <2>2 DEF Update, store
  <2>3. QED BY <2>1, <2>2
<1>3. CASE PlayerAdopts(p)
  <2>1. PICK j \in Ids : j = player[p].id
    BY <1>3, <1>a DEF PlayerAdopts
  <2> DEFINE e == Adopted(entries[j], Brings[p])
  <2>2. e \in Entry /\ e.status = "ready" /\ Update(j, e)
    BY <1>3, <1>a, <2>1, Handed, WorkersUpdate DEF PlayerAdopts
  <2>3. e.adopted
    BY <1>a DEF Adopted, Entry
  <2>4. player[p].pc = "cancelled" /\ player'[p].pc # "cancelled"
    BY <1>3, <1>a DEF PlayerAdopts, IdlePlayer, Player
  <2> HIDE DEF e
  <2>5. QED BY <1>2, <2>1, <2>2, <2>3, <2>4, PutIs
<1>4. CASE PlayerRefreshes(p)
  <2>1. PICK j \in Ids : j = player[p].id
    BY <1>4, <1>a DEF PlayerRefreshes
  <2> DEFINE e == Refreshed(entries[j], Brings[p])
  <2>2. e \in Entry /\ e.status = entries[j].status /\ Update(j, e)
    BY <1>4, <1>a, <2>1, Handed, WorkersUpdate DEF PlayerRefreshes
  <2>3. e.path = entries[j].path /\ (entries[j].adopted => e.adopted)
    BY <1>a DEF Refreshed, Entry
  <2> HIDE DEF e
  <2>4. QED BY <1>2, <2>1, <2>2, <2>3, PutIs
<1>5. QED BY <1>1, <1>3, <1>4 DEF PlayerStep

LEMMA AdoptionLasts ==
    ASSUME IInv, [Next]_vars, NEW i \in Ids, entries[i].adopted, Live(i)',
           restore'.put = restore.put
    PROVE  /\ entries'[i].adopted
           /\ entries'[i].status = "ready"
           /\ entries'[i].path # entries[i].path =>
                \E p \in Players : player[p].pc = "cancelled" /\ player[p].id = i
                                     /\ player'[p].pc # "cancelled"
<1>a. /\ Acting /\ StoreInv /\ StoreTypeOK /\ TypeOK /\ ActorsOK
      /\ entries[i].status = "ready" /\ Live(i) /\ entries'[i] # Gone
  BY GoneIs DEF IInv, Acting, TypeOK, EntriesOK, EntryInv, CopyOK, Live
<1> DEFINE Same == /\ entries'[i].status = entries[i].status /\ entries'[i].path = entries[i].path
                   /\ entries'[i].adopted = entries[i].adopted
<1>1. ASSUME CalmStep PROVE Same
  BY <1>1, <1>a, CalmLeaves
<1>2. ASSUME NewEntry PROVE Same
  BY <1>2, <1>a, NewLeaves DEF NewEntry
<1>3. ASSUME CalmOrNew PROVE Same
  BY <1>1, <1>2, <1>3 DEF CalmOrNew
<1>4. CASE \E p \in Players : PlayerStep(p)
  BY <1>4, <1>a, PlayersLeave
<1>5. ASSUME ~ \E p \in Players : PlayerStep(p) PROVE Same
  <2>1. CASE \E w \in Ids : WorkerStep(w) \/ WorkerStoresTracks(w)
    BY <1>a, <2>1, WorkersLeave
  <2>2. CASE Restart
    BY <1>a, <2>2 DEF Restart, StoreRestart
  <2>3. CASE UNCHANGED vars
    BY <1>1, <2>3 DEF CalmStep, vars, store
  <2>4. CASE \E r \in Requests : RequestStep(r)
    BY <1>3, <1>a, <2>4, RequestsTakeSteps
  <2>5. CASE \E w \in Warmers : JobStep(w)
    BY <1>3, <1>a, <2>5, WarmersTakeSteps
  <2>6. CASE OtherStep
    BY <1>1, <1>a, <2>6, OthersTakeSteps
  <2>7. QED BY <1>5, <2>1, <2>2, <2>3, <2>4, <2>5, <2>6, NextSplits
<1>6. QED BY <1>4, <1>5, <1>a

\* A stream a player handed over to is changed by no worker, probe, request or
\* deadline: by another migration only, or with the entry.
THEOREM AdoptionTheorem == Spec => AdoptedStays
<1>1. IInv /\ [Next]_vars =>
        [\A i \in Ids :
           entries[i].adopted /\ Live(i)' /\ restore'.put = restore.put =>
              /\ entries'[i].adopted
              /\ entries'[i].status = "ready"
              /\ entries'[i].path # entries[i].path =>
                   \E p \in Players : player[p].pc = "cancelled" /\ player[p].id = i
                                        /\ player'[p].pc # "cancelled"]_vars
  BY AdoptionLasts
<1>2. QED BY <1>1, Invariance, PTL DEF Spec, AdoptedStays

LEMMA PinLasts ==
    ASSUME IInv, [Next]_vars, NEW k \in Keys, Pinned(k), restore'.put = restore.put
    PROVE  /\ ~ entries[index[k]].expired
           /\ (index'[k] # NoId /\ entries'[index'[k]].pinned) \/ index'[k] = NoId
<1>a. /\ StoreInv /\ StoreInv' /\ StoreTypeOK /\ StoreStep
      /\ entries \in [Ids -> Entry] /\ index \in [Keys -> Ids \cup {NoId}]
  BY IInvNext, NextIsStoreStep DEF IInv, Acting, StoreInv, StoreTypeOK
<1>1. PICK i \in Ids : i = index[k]
  BY <1>a DEF Pinned
<1>2. entries[i].pinned /\ Live(i) /\ entries[i].key = k /\ ~ entries[i].expired
  BY <1>1, <1>a DEF Pinned, StoreInv, IndexIsExact, IInv, EntriesOK, EntryInv, CopyOK
\* A title that leads where it led.
<1>3. ASSUME index'[k] = i, entries'[i] # Gone,
             entries'[i] = Gone \/ entries'[i].pinned
      PROVE  entries'[index'[k]].pinned
  BY <1>3
<1>4. ASSUME index'[k] # NoId PROVE index'[k] \in Ids /\ entries'[index'[k]] # Gone
  <2>1. index' \in [Keys -> Ids \cup {NoId}] /\ IndexIsExact'
    BY <1>a DEF StoreInv, StoreTypeOK
  <2>2. index'[k] \in Ids
    BY <1>4, <2>1
  <2>3. entries'[index'[k]].status # "gone"
    BY <1>4, <2>1 DEF IndexIsExact, Live
  <2>4. QED BY <2>2, <2>3, GoneIs
<1>5. ASSUME CalmStep PROVE entries'[index'[k]].pinned \/ index'[k] = NoId
  <2>1. entries'[i] = Gone \/ entries'[i].pinned
    BY <1>2, <1>5, <1>a, CalmLeaves
  <2>2. index'[k] = index[k] \/ index'[k] = NoId
    <3>1. CASE MergeRows
      BY <1>a, <3>1, MergeIs
    <3>2. CASE UNCHANGED index
      BY <3>2
    <3>3. CASE RemoveStep
      BY <1>a, <3>3, RemovalIs DEF Removes, Forget
    <3>4. CASE TouchStep
      BY <3>2, <3>4 DEF TouchStep, MakePersistent, CancelWork, SetCancelFunc, Lapse, store
    <3>5. CASE RestoresStep
      BY <3>1, <3>2, <3>5
         DEF RestoresStep, ListRows, ListFails, RestoreDone, DeleteSuperseded, ContextEnds
    <3>6. QED BY <1>5, <3>2, <3>3, <3>4, <3>5 DEF CalmStep, store
  <2>3. QED BY <1>1, <1>3, <1>4, <2>1, <2>2
<1>6. ASSUME EditStep PROVE entries'[index'[k]].pinned
  <2>1. PICK j \in Ids, e \in Entry : Put(j, e) /\ e.pinned = entries[j].pinned
    BY <1>6 DEF EditStep
  <2>2. entries' = [entries EXCEPT ![j] = PutOf(j, e)] /\ index' = index
    BY <1>a, <2>1, PutSteps
  <2>3. QED BY <1>1, <1>2, <1>a, <2>1, <2>2, PutIs
<1>7. ASSUME NEW c \in Keys, NEW manual \in BOOLEAN, CreateScoped(c, manual)
      PROVE  entries'[index'[k]].pinned
  <2>1. /\ \A d \in Keys : index'[d] = IF d = c THEN NextId ELSE index[d]
        /\ \E pin \in BOOLEAN : /\ pin = (manual \/ KeepsPin(c))
                                /\ entries'[NextId] = Fresh(c, pin)
    BY <1>7, <1>a, CreateIs
  <2>2. CASE c = k
    <3>1. KeepsPin(k)
      BY <1>1, <1>2, Basics DEF KeepsPin
    <3>2. PICK pin \in BOOLEAN : pin /\ entries'[NextId] = Fresh(c, pin)
      BY <2>1, <2>2, <3>1
    <3>3. index'[k] = NextId
      BY <2>1, <2>2
    <3>4. QED BY <3>2, <3>3, FreshIs
  <2>3. CASE c # k
    <3>1. i # index[c]
      BY <1>2, <1>a, <2>3, Basics DEF StoreInv, IndexIsExact
    <3>2. entries'[i] = entries[i] /\ index'[k] = i
      BY <1>1, <1>2, <1>7, <1>a, <2>1, <2>3, <3>1, NewLeaves
    <3>3. QED BY <1>2, <3>2
  <2>4. QED BY <2>2, <2>3
<1>8. ASSUME StoreRestart PROVE index'[k] = NoId
  BY <1>8 DEF StoreRestart
<1>9. QED BY <1>1, <1>2, <1>5, <1>6, <1>7, <1>8, <1>a DEF StoreStep

\* A pin survives whoever works on its title: it goes with a deletion only, and a
\* pinned entry never expires.
THEOREM PinTheorem == Spec => PinStays
<1>1. IInv /\ [Next]_vars =>
        [\A k \in Keys :
           Pinned(k) /\ restore'.put = restore.put =>
              /\ ~ entries[index[k]].expired
              /\ Pinned(k)' \/ index'[k] = NoId]_vars
  BY PinLasts DEF Pinned
<1>2. QED BY <1>1, Invariance, PTL DEF Spec, PinStays

-----------------------------------------------------------------------------
(* Whoever waits for an entry waits for somebody. *)

\* An entry in progress has a worker that still runs, and that is the one to write
\* how it ended: no restore, removal, migration or second worker of its title leaves
\* an entry in memory that nobody would settle.
ProgressHasWorker == \A i \in Ids : entries[i].status \in Progress => Running(i)

LEMMA ProgressIs ==
    /\ "ready" \notin Progress /\ "failed" \notin Progress /\ "gone" \notin Progress
    /\ Gone.status \notin Progress
BY GoneIs DEF Progress

\* Removals, touches and the restore put nothing in progress.
LEMMA CalmWorked ==
    ASSUME StoreInv, CalmStep, UNCHANGED worker, ProgressHasWorker
    PROVE  ProgressHasWorker'
<1>1. CASE MergeRows
  <2>1. \A i \in Ids : entries'[i] = IF i \in Restorable THEN restore.list[i] ELSE entries[i]
    BY <1>1, MergeIs
  <2>2. \A i \in Restorable : restore.list[i].status = "ready"
    BY <1>1, MergeFacts DEF MergeRows
  <2>3. ASSUME NEW i \in Ids, entries'[i].status \in Progress PROVE Running(i)'
    <3>1. entries'[i] = entries[i]
      BY <2>1, <2>2, <2>3, ProgressIs
    <3>2. QED BY <2>3, <3>1 DEF ProgressHasWorker, Running
  <2>4. QED BY <2>3 DEF ProgressHasWorker
<1>2. CASE ~ MergeRows
  <2>1. restore \in Restore
    BY DEF StoreInv, StoreTypeOK
  <2>2. ASSUME RestoresStep PROVE restore'.put = restore.put
    BY <1>2, <2>1, <2>2
       DEF RestoresStep, ListRows, ListFails, RestoreDone, DeleteSuperseded, ContextEnds, Restore
  <2>3. ASSUME TouchStep PROVE restore'.put = restore.put
    <3>1. CASE \E i \in Ids : Lapse(i)
      BY <2>1, <3>1 DEF Lapse, Restore
    <3>2. CASE \E i \in Ids : Live(i) /\ MakePersistent(i)
      BY <3>2 DEF MakePersistent
    <3>3. CASE \E i \in Ids : CancelWork(i) \/ SetCancelFunc(i)
      BY <3>3 DEF CancelWork, SetCancelFunc, store
    <3>4. QED BY <2>3, <3>1, <3>2, <3>3 DEF TouchStep
  <2>4. ASSUME RemoveStep PROVE restore'.put = restore.put
    BY <2>4, RemovalIs DEF Removes, StoreInv
  <2>5. restore'.put = restore.put
    BY <2>2, <2>3, <2>4 DEF CalmStep, store
  <2>6. \A i \in Ids : entries'[i] = Gone \/ entries'[i].status = entries[i].status
    BY <2>5, CalmLeaves
  <2>7. ASSUME NEW i \in Ids, entries'[i].status \in Progress PROVE Running(i)'
    <3>1. entries'[i].status = entries[i].status
      BY <2>6, <2>7, ProgressIs
    <3>2. QED BY <2>7, <3>1 DEF ProgressHasWorker, Running
  <2>8. QED BY <2>7 DEF ProgressHasWorker
<1>3. QED BY <1>1, <1>2

\* The worker of another entry leaves this one, its own settles it before it ends.
LEMMA WorkersWorked ==
    ASSUME IInv, NEW w \in Ids, WorkerStep(w) \/ WorkerStoresTracks(w), ProgressHasWorker
    PROVE  ProgressHasWorker'
<1>a. /\ StoreTypeOK /\ entries \in [Ids -> Entry] /\ entries[w] \in Entry
      /\ worker \in [Ids -> WorkerPc] /\ EntryInv(w)
  BY DEF IInv, Acting, TypeOK, StoreTypeOK, EntriesOK
<1>b. \A i \in Ids \ {w} : worker'[i] = worker[i]
  BY <1>a DEF WorkerStep, WorkerSetsCancel, WorkerStarts, WorkerResolves, WorkerFails,
              WorkerFinishes, WorkerStoresTracks, actors
<1>1. ASSUME NEW e \in Entry, UpdateWorker(w, e), Running(w)' \/ e.status \notin Progress,
             Running(w)
      PROVE  ProgressHasWorker'
  <2>1. CASE WorkerMayWrite(w)
    <3>1. entries' = [entries EXCEPT ![w] = PutOf(w, e)] /\ PutOf(w, e).status = e.status
      BY <1>1, <1>a, <2>1, PutSteps, PutIs DEF UpdateWorker, WorkerMayWrite
    <3>2. /\ \A i \in Ids \ {w} : entries'[i] = entries[i]
          /\ entries'[w].status = e.status
      BY <1>a, <3>1
    <3>3. QED BY <1>1, <1>b, <3>2 DEF ProgressHasWorker, Running
  <2>2. CASE ~ WorkerMayWrite(w)
    <3>1. entries' = entries
      BY <1>1, <2>2 DEF UpdateWorker, store
    <3>2. entries[w].status \notin Progress
      BY <1>a, <2>2, ProgressIs DEF WorkerMayWrite, Live, EntryInv, CopyOK
    <3>3. QED BY <1>b, <3>1, <3>2 DEF ProgressHasWorker, Running
  <2>3. QED BY <2>1, <2>2
<1>2. CASE WorkerSetsCancel(w)
  <2>1. \A i \in Ids : entries'[i].status = entries[i].status
    BY <1>a, <1>2 DEF WorkerSetsCancel, SetCancelFunc, Entry
  <2>2. Running(w)'
    BY <1>a, <1>2 DEF WorkerSetsCancel, Running
  <2>3. QED BY <1>b, <2>1, <2>2 DEF ProgressHasWorker, Running
<1>3. CASE WorkerStarts(w)
  <2>1. CASE WorkerMayWrite(w)
    <3>1. worker'[w] = "searching" /\ worker[w] = "hooked"
      BY <1>a, <1>3, <2>1 DEF WorkerStarts
    <3>2. Running(w)' /\ Running(w)
      BY <3>1 DEF Running
    <3>3. [entries[w] EXCEPT !.status = "searching"] \in Entry
      BY <1>a, Handed DEF Statuses, Progress
    <3>4. QED BY <1>1, <1>3, <3>2, <3>3 DEF WorkerStarts
  <2>2. CASE ~ WorkerMayWrite(w)
    <3>1. entries' = entries
      BY <1>3, <2>2 DEF WorkerStarts, UpdateWorker, store
    <3>2. entries[w].status \notin Progress
      BY <1>a, <2>2, ProgressIs DEF WorkerMayWrite, Live, EntryInv, CopyOK
    <3>3. QED BY <1>b, <3>1, <3>2 DEF ProgressHasWorker, Running
  <2>3. QED BY <2>1, <2>2
<1>4. CASE WorkerResolves(w)
  <2>1. Running(w)' /\ Running(w)
    BY <1>a, <1>4 DEF WorkerResolves, Running
  <2>2. [entries[w] EXCEPT !.status = "probing", !.path = Found] \in Entry
    BY <1>a, Handed
  <2>3. QED BY <1>1, <1>4, <2>1, <2>2 DEF WorkerResolves
<1>5. CASE WorkerStoresTracks(w)
  <2>1. Running(w)' /\ Running(w)
    BY <1>a, <1>5 DEF WorkerStoresTracks, Running, actors
  <2>2. [entries[w] EXCEPT !.tracks = Found] \in Entry
    BY <1>a, Handed
  <2>3. QED BY <1>1, <1>5, <2>1, <2>2 DEF WorkerStoresTracks
<1>6. CASE WorkerFails(w)
  <2>1. Running(w)
    BY <1>6 DEF WorkerFails, Running
  <2>2. /\ [entries[w] EXCEPT !.status = "failed"] \in Entry
        /\ [entries[w] EXCEPT !.status = "failed"].status = "failed"
    BY <1>a, Handed, WorkersUpdate DEF Statuses, Progress
  <2>3. QED BY <1>1, <1>6, <2>1, <2>2, ProgressIs DEF WorkerFails
<1>7. CASE WorkerFinishes(w)
  <2>1. Running(w)
    BY <1>7 DEF WorkerFinishes, Running
  <2>2. /\ [entries[w] EXCEPT !.status = "ready"] \in Entry
        /\ [entries[w] EXCEPT !.status = "ready"].status = "ready"
    BY <1>a, Handed, WorkersUpdate DEF Statuses, Progress
  <2>3. QED BY <1>1, <1>7, <2>1, <2>2, ProgressIs DEF WorkerFinishes
<1>8. QED BY <1>2, <1>3, <1>4, <1>5, <1>6, <1>7 DEF WorkerStep

\* A player makes its entry ready, or leaves it what it is.
LEMMA PlayersWorked ==
    ASSUME IInv, NEW p \in Players, PlayerStep(p), ProgressHasWorker
    PROVE  ProgressHasWorker'
<1>a. /\ StoreTypeOK /\ entries \in [Ids -> Entry] /\ Brings[p] \in Paths
      /\ player[p].pc # "idle" => player[p].id \in Ids
      /\ UNCHANGED worker
  BY PrequeueAssumption DEF IInv, Acting, TypeOK, ActorsOK, StoreTypeOK, Paths,
     PlayerStep, PlayerTakesOver, PlayerAdopts, PlayerRefreshes
<1>1. ASSUME \A i \in Ids : entries'[i].status = entries[i].status \/ entries'[i].status = "ready"
      PROVE  ProgressHasWorker'
  BY <1>1, <1>a, ProgressIs DEF ProgressHasWorker, Running
<1>2. ASSUME NEW j \in Ids, NEW e \in Entry, Update(j, e),
             e.status = entries[j].status \/ e.status = "ready"
      PROVE  ProgressHasWorker'
  <2>1. CASE Live(j)
    <3>1. entries' = [entries EXCEPT ![j] = PutOf(j, e)] /\ PutOf(j, e).status = e.status
      BY <1>2, <1>a, <2>1, PutSteps, PutIs DEF Update
    <3>2. QED BY <1>1, <1>2, <1>a, <3>1
  <2>2. CASE ~ Live(j)
    BY <1>1, <1>2, <2>2 DEF Update, store
  <2>3. QED BY <2>1, <2>2
<1>3. ASSUME NEW j \in Ids, PlayerTakesOver(p, j) PROVE ProgressHasWorker'
  <2>1. CancelWork(j)
    BY <1>3 DEF PlayerTakesOver
  <2>2. \A i \in Ids : entries'[i].status = entries[i].status
    BY <1>a, <2>1 DEF CancelWork, store, Entry
  <2>3. QED BY <1>1, <2>2
<1>4. CASE PlayerAdopts(p)
  <2>1. PICK j \in Ids : j = player[p].id
    BY <1>4, <1>a DEF PlayerAdopts
  <2> DEFINE e == Adopted(entries[j], Brings[p])
  <2>2. e \in Entry /\ e.status = "ready" /\ Update(j, e)
    BY <1>4, <1>a, <2>1, Handed, WorkersUpdate DEF PlayerAdopts
  <2> HIDE DEF e
  <2>3. QED BY <1>2, <2>2
<1>5. CASE PlayerRefreshes(p)
  <2>1. PICK j \in Ids : j = player[p].id
    BY <1>5, <1>a DEF PlayerRefreshes
  <2> DEFINE e == Refreshed(entries[j], Brings[p])
  <2>2. e \in Entry /\ e.status = entries[j].status /\ Update(j, e)
    BY <1>5, <1>a, <2>1, Handed, WorkersUpdate DEF PlayerRefreshes
  <2> HIDE DEF e
  <2>3. QED BY <1>2, <2>2
<1>6. QED BY <1>3, <1>4, <1>5 DEF PlayerStep

\* A new entry comes with its worker; the one it takes the place of goes.
LEMMA NewWorked ==
    ASSUME IInv, NewEntry, ProgressHasWorker
    PROVE  ProgressHasWorker'
<1>a. StoreTypeOK /\ worker \in [Ids -> WorkerPc]
  BY DEF IInv, Acting, TypeOK
<1>1. PICK k \in Keys, manual \in BOOLEAN :
        CreateScoped(k, manual) /\ worker' = [worker EXCEPT ![NextId] = "spawned"]
  BY DEF NewEntry
<1>2. /\ NextId \in Ids
      /\ \A i \in Ids : i # NextId => entries'[i] = IF i = index[k] THEN Gone ELSE entries[i]
  BY <1>1, <1>a, CreateIs
<1>3. /\ worker'[NextId] = "spawned"
      /\ \A i \in Ids : i # NextId => worker'[i] = worker[i]
  BY <1>1, <1>2, <1>a
<1>4. ASSUME NEW i \in Ids, entries'[i].status \in Progress PROVE Running(i)'
  <2>1. CASE i = NextId
    BY <1>3, <2>1 DEF Running
  <2>2. CASE i # NextId
    BY <1>2, <1>3, <1>4, <2>2, ProgressIs DEF ProgressHasWorker, Running
  <2>3. QED BY <2>1, <2>2
<1>5. QED BY <1>4 DEF ProgressHasWorker

LEMMA ProgressNext == IInv /\ ProgressHasWorker /\ [Next]_vars => ProgressHasWorker'
<1>1. SUFFICES ASSUME IInv, ProgressHasWorker, [Next]_vars PROVE ProgressHasWorker'
  OBVIOUS
<1>a. Acting /\ StoreInv /\ StoreTypeOK /\ TypeOK /\ ActorsOK
  BY <1>1 DEF IInv, Acting, TypeOK
<1>2. ASSUME CalmOrNew PROVE ProgressHasWorker'
  BY <1>1, <1>2, <1>a, CalmWorked, NewWorked DEF CalmOrNew
<1>3. CASE \E r \in Requests : RequestStep(r)
  BY <1>2, <1>3, <1>a, RequestsTakeSteps
<1>4. CASE \E i \in Ids : WorkerStep(i) \/ WorkerStoresTracks(i)
  BY <1>1, <1>4, WorkersWorked
<1>5. CASE \E p \in Players : PlayerStep(p)
  BY <1>1, <1>5, PlayersWorked
<1>6. CASE \E w \in Warmers : JobStep(w)
  BY <1>2, <1>6, <1>a, WarmersTakeSteps
<1>7. CASE OtherStep
  BY <1>2, <1>7, <1>a, OthersTakeSteps, OthersDoNotAct DEF CalmOrNew, actors
<1>8. CASE Restart
  BY <1>8, ProgressIs DEF Restart, StoreRestart, ProgressHasWorker
<1>9. CASE UNCHANGED vars
  BY <1>1, <1>9 DEF vars, store, ProgressHasWorker, Running
<1>10. QED BY <1>1, <1>3, <1>4, <1>5, <1>6, <1>7, <1>8, <1>9, NextSplits

\* An entry in progress always has a running worker, so no wait for an entry lasts
\* longer than a worker or a deadline does: an entry whose worker is through is settled.
THEOREM ProgressTheorem == Spec => []ProgressHasWorker
<1>1. Init => ProgressHasWorker
  BY ProgressIs DEF Init, StoreInit, ProgressHasWorker
<1>2. QED BY <1>1, ProgressNext, Invariance, PTL DEF Spec
==============================================================================
