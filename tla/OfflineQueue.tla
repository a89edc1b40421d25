----------------------------- MODULE OfflineQueue -----------------------------
(***************************************************************************)
(* The offline queue of the TypeScript SDK, sdk/src/offline.ts: requests   *)
(* that failed for want of a network are queued, saved through a storage   *)
(* adapter and replayed when the server is back.  JavaScript runs to the   *)
(* next await, so an action is what happens between two awaits: a replay   *)
(* is suspended at every request it sends and while it saves the queue,    *)
(* and enqueue, clearQueue and setOnline run in between.  The page or the  *)
(* process may die at any point; the storage survives it.                  *)
(***************************************************************************)
EXTENDS Integers, Sequences, FiniteSets, SequencesExt

CONSTANTS
    MaxEntries,   \* bound on the entries that are enqueued
    MaxSize,      \* options.maxSize, 50 by default
    MaxRetries,   \* options.maxRetries, 3 by default
    MaxWrites,    \* bound on the storage writes in flight
    MaxCrashes,   \* bound on the number of restarts
    MaxClears     \* bound on the calls of clearQueue

\* Ids are random in the code; all that matters is that they are never reused.
Entries == 1..MaxEntries

VARIABLES
    ready,       \* the initial load is complete (storageReady)
    loading,     \* what the get issued by the constructor read
    queue,       \* the pending entries: a sequence of [id, retryCount]
    online,      \* serverOnline
    replay,      \* the replay in progress: phase, rest of the snapshot, processedCount > 0
    stored,      \* what the storage holds: the queue as it was saved
    writes,      \* storage writes issued and not yet executed, oldest first
    enqueued,    \* number of entries whose enqueue went through
    durable,     \* history: entries that were in the storage at some time
    delivered,   \* history: entries whose execution was confirmed
    dead,        \* entries that were put on deadLetters, in any session
    cleared,     \* history: entries that clearQueue dropped
    crashes, clears, loadFailed

client == <<ready, loading, queue, online, replay>>
storage == <<stored, writes>>
history == <<enqueued, durable, delivered, dead, cleared, crashes, clears, loadFailed>>
vars == <<client, storage, history>>

Idle == [phase |-> "idle", todo |-> <<>>, sent |-> FALSE, ahead |-> 0]
Ids(q) == {q[i].id : i \in DOMAIN q}

Init == /\ ready = FALSE
        /\ loading = <<>>
        /\ queue = <<>>
        /\ online = TRUE
        /\ replay = Idle
        /\ stored = <<>>
        /\ writes = <<>>
        /\ enqueued = 0 /\ durable = {} /\ delivered = {} /\ dead = {} /\ cleared = {}
        /\ crashes = 0 /\ clears = 0 /\ loadFailed = FALSE

\* The stored entries that are not in the queue yet are appended, one by one.
Merged(q, loaded) ==
    LET pushed[i \in 0..Len(loaded)] ==
            IF i = 0 THEN q
            ELSE IF loaded[i].id \in Ids(q) THEN pushed[i - 1]
                 ELSE Append(pushed[i - 1], loaded[i])
    IN  pushed[Len(loaded)]

\* loadFromStorage
Load == /\ ~ready
        /\ ready' = TRUE
        /\ queue' = Merged(queue, loading)
        /\ loading' = <<>>
        /\ UNCHANGED <<online, replay, storage, history>>

\* The adapter's get fails: the error is swallowed and nothing is loaded.
LoadFails == /\ ~ready
             /\ loading # <<>>
             /\ ready' = TRUE
             /\ loading' = <<>>
             /\ loadFailed' = TRUE
             /\ UNCHANGED <<queue, online, replay, storage,
                            enqueued, durable, delivered, dead, cleared, crashes, clears>>

\* persistToStorage: the image is taken now and written later.
Persist(q) == writes' = Append(writes, q)

\* enqueue: waits for the load, refuses when full, then pushes and saves.
Enqueue ==
    LET e == enqueued + 1 IN
    /\ ready
    /\ enqueued < MaxEntries
    /\ Len(queue) < MaxSize
    /\ Len(writes) < MaxWrites
    /\ queue' = Append(queue, [id |-> e, retryCount |-> 0])
    /\ online' = FALSE
    /\ Persist(queue')
    /\ enqueued' = e
    /\ UNCHANGED <<ready, loading, replay, stored, durable, delivered, dead,
                   cleared, crashes, clears, loadFailed>>

\* clearQueue does not wait: a replay goes on with its snapshot, and a load that
\* is still under way brings back what it read.
ClearQueue ==
    /\ clears < MaxClears
    /\ Len(writes) < MaxWrites
    /\ queue' = <<>>
    /\ writes' = Append(writes, <<>>)
    /\ clears' = clears + 1
    /\ cleared' = cleared \cup Ids(queue) \cup (IF ready THEN {} ELSE Ids(loading))
    /\ UNCHANGED <<ready, loading, online, replay, stored, enqueued, durable,
                   delivered, dead, crashes, loadFailed>>

\* replay starts only when none is in progress and there is something to send.
StartReplay == replay' = IF replay.phase = "idle" /\ queue # <<>>
                         THEN [Idle EXCEPT !.phase = "sending", !.todo = queue]
                         ELSE replay

\* A health poll comes back, or setOnline is called: the poll replays whenever
\* the server is up, setOnline only when it was thought to be down.
HealthReport(up) ==
    /\ online' = up
    /\ IF up THEN StartReplay ELSE UNCHANGED replay
    /\ UNCHANGED <<ready, loading, queue, storage, history>>

SetOnline(up) ==
    /\ online' = up
    /\ IF up /\ ~online THEN StartReplay ELSE UNCHANGED replay
    /\ UNCHANGED <<ready, loading, queue, storage, history>>

Sending == replay.phase = "sending" /\ replay.todo # <<>>
Current == Head(replay.todo).id

\* removeById, and the retryCount++ that the queue shares with the snapshot.
Without(q, e) == IF e \notin Ids(q) THEN q ELSE RemoveAt(q, CHOOSE i \in DOMAIN q : q[i].id = e)
Retried(q, e) == [i \in DOMAIN q |->
                     IF q[i].id = e THEN [q[i] EXCEPT !.retryCount = @ + 1] ELSE q[i]]

\* Faulty variant of Executed: the entry stays queued.
ExecutedKept ==
    /\ Sending
    /\ delivered' = delivered \cup {Current}
    /\ replay' = [replay EXCEPT !.todo = Tail(@), !.sent = TRUE]
    /\ UNCHANGED <<ready, loading, queue, online, storage, enqueued, durable,
                   dead, cleared, crashes, clears, loadFailed>>

\* executeEntry resolves.
Executed ==
    /\ Sending
    /\ queue' = Without(queue, Current)
    /\ delivered' = delivered \cup {Current}
    /\ replay' = [replay EXCEPT !.todo = Tail(@), !.sent = TRUE]
    /\ UNCHANGED <<ready, loading, online, storage, enqueued, durable, dead,
                   cleared, crashes, clears, loadFailed>>

\* executeEntry rejects with an error that is not retried: a timeout, or any
\* answer of the server.
Refused ==
    /\ Sending
    /\ queue' = Without(queue, Current)
    /\ dead' = dead \cup {Current}
    /\ replay' = [replay EXCEPT !.todo = Tail(@)]
    /\ UNCHANGED <<ready, loading, online, storage, enqueued, durable, delivered,
                   cleared, crashes, clears, loadFailed>>

\* Faulty variants of NetworkError: a failed entry is dropped from the queue at
\* once; it is retried for ever; it is retried once too often.
NetworkErrorDrops ==
    /\ Sending
    /\ queue' = Without(queue, Current)
    /\ replay' = [replay EXCEPT !.todo = Tail(@)]
    /\ UNCHANGED <<ready, loading, online, storage, history>>
NetworkErrorForever ==
    /\ Sending
    /\ replay' = [replay EXCEPT !.todo = Tail(@)]
    /\ UNCHANGED <<ready, loading, queue, online, storage, history>>
NetworkErrorOnceMore ==
    LET over == Head(replay.todo).retryCount >= MaxRetries
    IN  /\ Sending
        /\ queue' = IF over THEN Without(queue, Current) ELSE Retried(queue, Current)
        /\ dead'  = IF over THEN dead \cup {Current} ELSE dead
        /\ replay' = [replay EXCEPT !.todo = Tail(@)]
        /\ UNCHANGED <<ready, loading, online, storage, enqueued, durable, delivered, cleared,
                       crashes, clears, loadFailed>>

\* executeEntry rejects with a network error, whether or not the request
\* reached the server: kept for a later replay until it has failed enough.
NetworkError ==
    LET over == Head(replay.todo).retryCount + 1 >= MaxRetries
    IN  /\ Sending
        /\ queue' = IF over THEN Without(queue, Current) ELSE Retried(queue, Current)
        /\ dead'  = IF over THEN dead \cup {Current} ELSE dead
        /\ replay' = [replay EXCEPT !.todo = Tail(@)]
        /\ UNCHANGED <<ready, loading, online, storage, enqueued, durable, delivered, cleared,
                       crashes, clears, loadFailed>>

\* Faulty variant of SaveReplayed: the storage is emptied after a replay.
SaveEmptied ==
    /\ replay.phase = "sending" /\ replay.todo = <<>>
    /\ Persist(<<>>)
    /\ replay' = [replay EXCEPT !.phase = "saving", !.ahead = Len(writes)]
    /\ UNCHANGED <<ready, loading, queue, online, stored, history>>

\* The snapshot is done: the queue is saved, and awaited.
SaveReplayed ==
    /\ replay.phase = "sending" /\ replay.todo = <<>>
    /\ Persist(queue)
    /\ replay' = [replay EXCEPT !.phase = "saving", !.ahead = Len(writes)]
    /\ UNCHANGED <<ready, loading, queue, online, stored, history>>

\* The oldest write is the one that replay waits for.
EndsReplay == replay.phase = "saving" /\ replay.ahead = 0

\* The oldest write is over.  If replay waits for it, the replay ends, and calls
\* the drain handlers if it sent anything.
WriteDone ==
    /\ writes # <<>>
    /\ writes' = Tail(writes)
    /\ replay' = IF EndsReplay THEN Idle
                 ELSE IF replay.phase = "saving" THEN [replay EXCEPT !.ahead = @ - 1]
                 ELSE replay
    /\ UNCHANGED <<ready, loading, queue, online, enqueued, delivered, dead,
                   cleared, crashes, clears, loadFailed>>

Write == /\ WriteDone
         /\ stored' = Head(writes)
         /\ durable' = durable \cup Ids(Head(writes))

\* The adapter's set fails: swallowed.
WriteFails == WriteDone /\ UNCHANGED <<stored, durable>>

\* The page is closed or the process dies, and a new client is constructed.
Restart ==
    /\ crashes < MaxCrashes
    /\ crashes' = crashes + 1
    /\ ready' = FALSE
    /\ loading' = stored
    /\ queue' = <<>>
    /\ online' = TRUE
    /\ replay' = Idle
    /\ writes' = <<>>
    /\ UNCHANGED <<stored, enqueued, durable, delivered, dead, cleared, clears,
                   loadFailed>>

Settle == Executed \/ Refused \/ NetworkError

Next == \/ Load \/ LoadFails
        \/ Enqueue
        \/ ClearQueue
        \/ \E up \in BOOLEAN : HealthReport(up)
        \/ \E up \in BOOLEAN : SetOnline(up)
        \/ Settle
        \/ SaveReplayed
        \/ Write \/ WriteFails
        \/ Restart

\* The storage answers, a request settles, and the health poll, which the timer
\* repeats, finds the server up again and again.
Fairness == /\ WF_vars(Load \/ LoadFails)
            /\ WF_vars(Settle)
            /\ WF_vars(SaveReplayed)
            /\ WF_vars(Write \/ WriteFails)
            /\ WF_vars(HealthReport(TRUE))

Spec == Init /\ [][Next]_vars /\ Fairness

-------------------------------------------------------------------------------
\* Type correctness; no entry fails more often than the options allow.
TypeOK == /\ ready \in BOOLEAN /\ online \in BOOLEAN /\ loadFailed \in BOOLEAN
          /\ replay.phase \in {"idle", "sending", "saving"}
          /\ \A q \in {queue, replay.todo, loading, stored} \cup ToSet(writes) :
                q \in Seq([id : Entries, retryCount : 0..(MaxRetries - 1)])
          /\ Len(writes) <= MaxWrites + 1
          /\ enqueued \in 0..MaxEntries
          /\ \A h \in {durable, delivered, dead, cleared} :
                h \subseteq Entries

\* The queue never outgrows its capacity nor holds an entry twice, however the
\* load of the saved queue and the first enqueues overlap (#261).
QueueSound == Len(queue) <= MaxSize /\ Cardinality(Ids(queue)) = Len(queue)

Resolved(e) == e \in delivered \cup dead \cup cleared

\* An accepted entry is confirmed, dead-lettered or cleared by the caller, or it
\* is still queued: overlapping replays, enqueues and clears lose none (#849).
\* A restart can only lose what no write had saved yet.
NothingLost ==
    \A e \in 1..enqueued :
        \/ Resolved(e)
        \/ e \in Ids(queue)
        \/ ~ready /\ e \in Ids(loading)
        \/ crashes > 0 /\ e \notin durable
        \/ loadFailed

\* Whatever was saved once and is not resolved is in the storage at every
\* moment, so a restart at any point finds it; writes that fail included.
CrashSafe == \A e \in durable : Resolved(e) \/ loadFailed \/ e \in Ids(stored)

\* Nothing the queue accepted disappears, in memory or in the storage, and the
\* queue stays within its capacity.
EntriesAreKept == TypeOK /\ QueueSound /\ NothingLost /\ CrashSafe

\* One session never sends again what it has a verdict for.  (After a restart it
\* may: the storage is only updated at the end of a replay.)
NotSentTwice ==
    crashes = 0 => \A e \in Ids(replay.todo) : e \notin delivered /\ e \notin dead

\* Every queued entry gets its verdict: no replay stays stuck, none is missed, and none
\* is retried for ever; so in the end nothing is queued that has none.
EventuallyResolved ==
    <>[](\A e \in Ids(queue) : Resolved(e) \/ loadFailed \/ (crashes > 0 /\ e \notin durable))
===============================================================================
