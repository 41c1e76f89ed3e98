---------------------------- MODULE PrequeueStore ----------------------------
(***************************************************************************)
(* The store of prequeue entries, backend/services/playback/prequeue.go,    *)
(* with its rows in PostgreSQL. The store's lock covers the map of entries, *)
(* the index of titles and the statements sent to the database, so each     *)
(* operation is one step; only the restore works in several.                *)
(*                                                                         *)
(* Any statement may fail. The store logs that and goes on as if it had not *)
(* been sent, so rows and entries can part.                                 *)
(*                                                                         *)
(* An identifier is handed out once and grows with the time of creation. A  *)
(* deadline is a flag that rises: copies of one entry share it.             *)
(***************************************************************************)
EXTENDS Naturals, FiniteSets

CONSTANTS
    Keys,        \* title, user and settings scope: what titleUserKey joins
    Users,       \* profiles
    Owner,       \* the profile of each key
    Streams,     \* stream paths
    NoStream,    \* the empty path
    MaxEntries,  \* bound: entries created over a behaviour
    MaxFaults,   \* bound: entries at one time whose last statement failed
    Begins       \* where behaviours begin: "waiting" for the restore at the first
                 \* start of the server, or with the restore "done"

ASSUME StoreAssumption ==
    /\ Keys # {}
    /\ Owner \in [Keys -> Users]
    /\ NoStream \notin Streams
    /\ MaxEntries \in Nat
    /\ MaxFaults \in Nat
    /\ Begins \in {"waiting", "done"}

VARIABLES
    entries,  \* entries: what is in memory, by identifier
    index,    \* byTitleUser
    rows,     \* the prequeue table
    unsaved,  \* history: the identifiers whose last statement failed
    stopped,  \* identifiers whose worker has had its cancel function called
    made,     \* identifiers handed out
    restore   \* RestorePersisted, which runs after the listener is open

store == <<entries, index, rows, unsaved, stopped, made, restore>>

-----------------------------------------------------------------------------
(* State *)

Ids == 1..MaxEntries
NoId == 0
Paths == Streams \cup {NoStream}

\* searching stands for resolving too: no code tells the two apart.
Progress == {"queued", "searching", "probing"}
Statuses == Progress \cup {"ready", "failed", "gone"}

\* tracks: the stream the track metadata were probed from. hook: cancelFunc is set.
Entry == [status : Statuses, key : Keys, path : Paths, tracks : Paths,
          pinned : BOOLEAN, adopted : BOOLEAN, expired : BOOLEAN, hook : BOOLEAN]

\* Not in the map, or no row.
Gone == [status |-> "gone", key |-> CHOOSE k \in Keys : TRUE, path |-> NoStream,
         tracks |-> NoStream, pinned |-> FALSE, adopted |-> FALSE,
         expired |-> FALSE, hook |-> FALSE]

\* short: the merge will only get to a first part of the list. todo: supersededIDs
\* still to delete. put: entries the merge wrote over or anew.
Restore == [pc : {"waiting", "listed", "short", "deleting", "done"}, list : [Ids -> Entry],
            todo : SUBSET Ids, put : SUBSET Ids]

NothingRestored == [pc |-> "waiting", list |-> [i \in Ids |-> Gone], todo |-> {}, put |-> {}]

StoreTypeOK ==
    /\ entries \in [Ids -> Entry]
    /\ index \in [Keys -> Ids \cup {NoId}]
    /\ rows \in [Ids -> Entry]
    /\ unsaved \subseteq Ids
    /\ stopped \subseteq Ids
    /\ made \in 0..MaxEntries
    /\ restore \in Restore

StoreInit ==
    /\ entries = [i \in Ids |-> Gone]
    /\ index = [k \in Keys |-> NoId]
    /\ rows = [i \in Ids |-> Gone]
    /\ unsaved = {}
    /\ stopped = {}
    /\ made = 0
    /\ restore = [NothingRestored EXCEPT !.pc = Begins]

-----------------------------------------------------------------------------
(* Reading *)

Live(i) == entries[i].status # "gone"

\* Get: an entry past its deadline is not found, though it is still in the map.
Readable(i) == Live(i) /\ ~ entries[i].expired

\* GetByTitleUserScope. The entry can be replaced between the look at the index
\* and Get: that is the outcome in which nothing is found.
FoundAt(k) == IF index[k] # NoId /\ Readable(index[k]) THEN {index[k]} ELSE {}

-----------------------------------------------------------------------------
(* Statements *)

\* What Upsert stores: the cancel function is not part of it.
Saved(e) == [e EXCEPT !.hook = FALSE]

\* One statement for each row of S, of which those of F fail. (One that reports an
\* error though it was done leaves what a success leaves.)
Fail(S, F) ==
    /\ Cardinality((unsaved \ S) \cup F) <= MaxFaults
    /\ unsaved' = (unsaved \ S) \cup F

RowsAfter(S, F, new) == [i \in Ids |-> IF i \in S \ F THEN new[i] ELSE rows[i]]

Sent(S, new) == \E F \in SUBSET S : Fail(S, F) /\ rows' = RowsAfter(S, F, new)

NoRows == [i \in Ids |-> Gone]
RowsAsEntries == [i \in Ids |-> Saved(entries[i])]

\* Upsert of an entry that is ready, nothing for any other.
SaveIfReady(i, e) ==
    Sent(IF e.status = "ready" THEN {i} ELSE {}, [NoRows EXCEPT ![i] = Saved(e)])

\* DeleteExpired: one statement for the whole table.
ExpiredGo(table) ==
    \/ rows' = [i \in Ids |-> IF table[i].expired THEN Gone ELSE table[i]]
    \/ MaxFaults > 0 /\ rows' = table

-----------------------------------------------------------------------------
(* Writing one entry *)

\* The common tail of Update and UpdateWorker. A stream that becomes ready gets
\* a fresh deadline, and what is ready is saved.
Put(i, e) ==
    LET newlyReady == e.status = "ready" /\ entries[i].status # "ready"
        new == [e EXCEPT !.expired = (e.expired /\ ~ newlyReady)]
    IN  /\ entries' = [entries EXCEPT ![i] = new]
        /\ SaveIfReady(i, new)
        /\ UNCHANGED <<index, stopped, made, restore>>

Update(i, e) == IF Live(i) THEN Put(i, e) ELSE UNCHANGED store

\* Slip: UpdateWorker without the MigrationAdopted check.
WorkerMayWriteUnchecked(i) == Live(i)
WorkerMayWrite(i) == Live(i) /\ ~ entries[i].adopted

UpdateWorker(i, e) == IF WorkerMayWrite(i) THEN Put(i, e) ELSE UNCHANGED store

\* Slip: the pinned entry is not saved.
MakePersistentUnsaved(i) ==
    /\ entries' = IF Live(i)
                    THEN [entries EXCEPT ![i].pinned = TRUE, ![i].expired = FALSE]
                    ELSE entries
    /\ UNCHANGED <<rows, unsaved, index, stopped, made, restore>>
MakePersistent(i) ==
    LET new == [entries[i] EXCEPT !.pinned = TRUE, !.expired = FALSE]
    IN  IF Live(i)
          THEN /\ entries' = [entries EXCEPT ![i] = new]
               /\ SaveIfReady(i, new)
               /\ UNCHANGED <<index, stopped, made, restore>>
          ELSE UNCHANGED store

CancelWork(i) ==
    IF entries[i].hook
      THEN /\ stopped' = stopped \cup {i}
           /\ entries' = [entries EXCEPT ![i].hook = FALSE]
           /\ UNCHANGED <<index, rows, unsaved, made, restore>>
      ELSE UNCHANGED store

SetCancelFunc(i) ==
    /\ entries' = IF Live(i) THEN [entries EXCEPT ![i].hook = TRUE] ELSE entries
    /\ UNCHANGED <<index, rows, unsaved, stopped, made, restore>>

-----------------------------------------------------------------------------
(* Creating and removing *)

Fresh(k, pin) == [Gone EXCEPT !.status = "queued", !.key = k, !.pinned = pin]

\* The identifier the next entry gets.
NextId == made + 1

\* Slip: the reason of the entry that is replaced is not looked at.
KeepsPinIgnored(k) == FALSE
KeepsPin(k) == index[k] # NoId /\ entries[index[k]].pinned

\* At most one entry per title: the one before is cancelled and dropped with its row.
CreateScoped(k, manual) ==
    LET old == {index[k]} \ {NoId}
    IN  /\ made < MaxEntries
        /\ made' = NextId
        /\ entries' = [i \in Ids |-> IF i = NextId THEN Fresh(k, manual \/ KeepsPin(k))
                                     ELSE IF i \in old THEN Gone ELSE entries[i]]
        /\ index' = [index EXCEPT ![k] = NextId]
        /\ Sent(old, NoRows)
        /\ stopped' = stopped \cup {i \in old : entries[i].hook}
        /\ UNCHANGED restore

\* Slip: the cancel functions of what is removed are not called.
ForgetWithoutCancel(S) ==
    /\ entries' = [i \in Ids |-> IF i \in S THEN Gone ELSE entries[i]]
    /\ index' = [k \in Keys |-> IF index[k] \in S THEN NoId ELSE index[k]]
    /\ UNCHANGED stopped
\* What every removal does to the maps: cancel the work, clear the index, forget.
Forget(S) ==
    /\ entries' = [i \in Ids |-> IF i \in S THEN Gone ELSE entries[i]]
    /\ index' = [k \in Keys |-> IF index[k] \in S THEN NoId ELSE index[k]]
    /\ stopped' = stopped \cup {i \in S : entries[i].hook}

LiveIds == {i \in Ids : Live(i)}

\* Delete and DeleteByStreamPath: the rows go with the entries.
Remove(S) ==
    /\ Forget(S)
    /\ Sent(S, NoRows)
    /\ UNCHANGED <<made, restore>>

Delete(i) == Remove({i} \cap LiveIds)
DeleteByStreamPath(p) == Remove({i \in LiveIds : entries[i].path = p})

\* saveToDisk, once the entries of S are gone: with a database it upserts the ready
\* entries left in memory, all of them. Nothing is sent when nothing was removed.
SavedAfter(S) ==
    {i \in Ids \ S : S # {} /\ entries[i].status = "ready" /\ ~ entries[i].expired}

DeleteByUser(u) ==
    LET gone == {i \in LiveIds : Owner[entries[i].key] = u}
    IN  /\ Forget(gone)
        /\ Sent(gone \cup SavedAfter(gone),
                [i \in Ids |-> IF i \in gone THEN Gone ELSE RowsAsEntries[i]])
        /\ UNCHANGED <<made, restore>>

\* Nothing is left in memory to upsert: the rows stay.
DeleteAll == Forget(LiveIds) /\ UNCHANGED <<rows, unsaved, made, restore>>

\* cleanup: the expired entries, then every expired row.
\* Slip: an entry whose worker is still to answer is spared.
CleanupSparesWork ==
    LET gone == {i \in LiveIds : entries[i].expired /\ entries[i].status \notin Progress}
    IN  /\ Forget(gone)
        /\ UNCHANGED <<rows, unsaved, made, restore>>
Cleanup ==
    LET gone == {i \in LiveIds : entries[i].expired}
    IN  /\ Forget(gone)
        /\ \E F \in SUBSET SavedAfter(gone) :
             /\ Fail(SavedAfter(gone), F)
             /\ ExpiredGo(RowsAfter(SavedAfter(gone), F, RowsAsEntries))
        /\ UNCHANGED <<made, restore>>

\* The deadline of an entry passes, in memory, in its row and in the copy listed.
\* A pinned entry has no deadline (manualPrequeueExpiry).
Lapsed(e) == [e EXCEPT !.expired = e.expired \/ (e.status # "gone" /\ ~ e.pinned)]

Lapse(i) ==
    /\ \/ entries[i] # Lapsed(entries[i])
       \/ rows[i] # Lapsed(rows[i])
    /\ entries' = [entries EXCEPT ![i] = Lapsed(entries[i])]
    /\ rows' = [rows EXCEPT ![i] = Lapsed(rows[i])]
    /\ restore' = [restore EXCEPT !.list[i] = Lapsed(restore.list[i])]
    /\ UNCHANGED <<index, unsaved, stopped, made>>

-----------------------------------------------------------------------------
(* The restore *)

\* List, outside the lock.
ListRows ==
    /\ restore.pc = "waiting"
    /\ restore' = [restore EXCEPT !.pc = "listed",
                     !.list = [i \in Ids |-> IF rows[i].expired THEN Gone ELSE rows[i]]]
    /\ UNCHANGED <<entries, index, rows, unsaved, stopped, made>>

\* The query fails or times out: nothing is restored in this run of the server.
ListFails ==
    /\ restore.pc = "waiting"
    /\ restore' = [restore EXCEPT !.pc = "done"]
    /\ UNCHANGED <<entries, index, rows, unsaved, stopped, made>>

\* The context of the restore ends during the merge, which goes through the list in
\* the order of creation: it stops before the row of n.
ContextEnds(n) ==
    /\ restore.pc = "listed"
    /\ restore' = [restore EXCEPT !.pc = "short",
                     !.list = [i \in Ids |-> IF i < n THEN restore.list[i] ELSE Gone]]
    /\ UNCHANGED <<entries, index, rows, unsaved, stopped, made>>

\* Rows that can be restored at all.
Usable(i) == restore.list[i].status = "ready" /\ ~ restore.list[i].expired

\* Of one title the entry created last is kept, in memory or restored.
\* Slip: two rows of one title are both restored.
NotSupersededInMemory(i) == index[restore.list[i].key] <= i
NotSuperseded(i) ==
    /\ index[restore.list[i].key] <= i
    /\ \A j \in Ids : Usable(j) /\ restore.list[j].key = restore.list[i].key => j <= i

Restorable == {i \in Ids : Usable(i) /\ NotSuperseded(i)}

\* Slip: whether there was an entry before is not looked at.
DisplacedAnyway == {index[restore.list[i].key] : i \in Restorable}
\* prevID: what the index points to when a row is taken, the row's own entry too.
Displaced == {index[restore.list[i].key] : i \in Restorable} \ {NoId}

\* The merge, under the lock. Of the rows of one title the latest stays. One that
\* was cut short returns before anything is deleted.
MergeRows ==
    /\ restore.pc \in {"listed", "short"}
    /\ entries' = [i \in Ids |-> IF i \in Restorable THEN restore.list[i]
                                 ELSE IF i \in Displaced THEN Gone ELSE entries[i]]
    /\ index' = [k \in Keys |-> IF \E i \in Restorable : restore.list[i].key = k
                                  THEN CHOOSE i \in Restorable : restore.list[i].key = k
                                  ELSE index[k]]
    /\ restore' = [pc |-> "deleting", list |-> NothingRestored.list, put |-> Restorable,
                   todo |-> IF restore.pc = "short" THEN {}
                            ELSE {i \in Ids : Usable(i) /\ i \notin Restorable} \cup Displaced]
    /\ UNCHANGED <<rows, unsaved, stopped, made>>

\* The rows of what was superseded are deleted one by one, outside the lock; after a
\* failure the next one is tried.
DeleteSuperseded(i) ==
    /\ restore.pc = "deleting"
    /\ i \in restore.todo
    /\ Sent({i}, NoRows)
    /\ restore' = [restore EXCEPT !.todo = @ \ {i}]
    /\ UNCHANGED <<entries, index, stopped, made>>

\* CleanupExpiredPersisted ends the sequence.
RestoreDone ==
    /\ restore.pc = "deleting"
    /\ restore.todo = {}
    /\ restore' = [restore EXCEPT !.pc = "done"]
    /\ ExpiredGo(rows)
    /\ UNCHANGED <<entries, index, unsaved, stopped, made>>

\* The server stops and starts again: the table is what is left.
StoreRestart ==
    /\ entries' = [i \in Ids |-> Gone]
    /\ index' = [k \in Keys |-> NoId]
    /\ unsaved' = {}
    /\ stopped' = {}
    /\ restore' = NothingRestored
    /\ UNCHANGED <<rows, made>>
==============================================================================
