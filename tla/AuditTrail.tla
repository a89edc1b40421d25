------------------------------ MODULE AuditTrail ------------------------------
\* The hash-chained audit log and the way an event takes to it: enqueueAudit in
\* an API process, the async-critical queue in Redis, a worker's processor, and
\* IntegrityAuditLogService in whichever process appends. Every process keeps a
\* chain of its own and starts it empty: initialize is called by tests only. All
\* of them insert into one table. The table of checkpoints is left out: nothing
\* reads it back.
EXTENDS Naturals, Sequences, FiniteSets

CONSTANTS
    Apis, Workers,       \* processes
    Audited,             \* calls of enqueueAudit
    Storable,            \* the events whose type the table's CHECK lists
    CheckpointInterval,  \* AUDIT_CHECKPOINT_INTERVAL
    MaxAuditRestarts,    \* bounds of the instance
    MaxForced

Procs == Apis \cup Workers

ASSUME ProcsAssumption == Apis \cap Workers = {}
ASSUME StorableAssumption == Storable \subseteq Audited
ASSUME IntervalAssumption == CheckpointInterval \in Nat \ {0}
ASSUME RestartsAssumption == MaxAuditRestarts \in Nat /\ MaxForced \in Nat

VARIABLES
    enabled,      \* config.asyncPipeline.enabled
    fresh,        \* events not emitted yet
    enqueuing,    \* [Apis -> events whose enqueueAuditLog is awaited]
    waiting,      \* jobs of async-critical no worker holds
    active,       \* [Workers -> jobs taken and not appended yet]
    appended,     \* [Workers -> jobs appended and not yet reported completed]
    stalled,      \* jobs that lost a worker once
    failed,       \* jobs BullMQ gave up
    chain,        \* [Procs -> IntegrityAuditLogService.entries]
    checkpoints,  \* [Procs -> IntegrityAuditLogService.checkpoints]
    publishing,   \* [Procs -> entries whose checkpoint is being published]
    saving,       \* INSERTs of entries that the database has not answered
    rows,         \* audit_log_entries
    nextId,       \* crypto.randomUUID: how many entries were made
    auditRestarts, \* restarts so far
    forced,       \* checkpoints an admin asked for so far
    unremembered, \* events that a restarted process held (history)
    handedTwice   \* events that were handed over twice (history)

jobVars == <<waiting, active, appended, stalled, failed>>
logVars == <<chain, checkpoints, publishing, saving, nextId>>
historyVars == <<auditRestarts, forced, unremembered, handedTwice>>
auditVars == <<enabled, fresh, enqueuing, jobVars, logVars, rows, historyVars>>

\* An entry is known by its random id, which its hash covers, so the id stands for
\* the hash. The first entry's previous hash is GENESIS_HASH.
Genesis == 0
Entry == [sequence : Nat, id : Nat, event : Audited, previous : Nat]
Checkpoint == [sequence : Nat, hash : Nat]

CheckpointOf(entry) == [sequence |-> entry.sequence, hash |-> entry.id]
EventsIn(entries) == {entries[i].event : i \in DOMAIN entries}
Emitted == Audited \ fresh

AuditTypeOK ==
    /\ enabled \in BOOLEAN
    /\ fresh \subseteq Audited
    /\ enqueuing \in [Apis -> SUBSET Audited]
    /\ waiting \subseteq Audited /\ stalled \subseteq Audited /\ failed \subseteq Audited
    /\ active \in [Workers -> SUBSET Audited]
    /\ appended \in [Workers -> SUBSET Audited]
    /\ \A p \in Procs : \A i \in DOMAIN chain[p] : chain[p][i] \in Entry
    /\ \A p \in Procs : checkpoints[p] \subseteq Checkpoint
    /\ \A p \in Procs : publishing[p] \subseteq Entry
    /\ saving \cup rows \subseteq Entry
    /\ nextId \in Nat /\ auditRestarts \in 0..MaxAuditRestarts /\ forced \in 0..MaxForced
    /\ unremembered \subseteq Audited /\ handedTwice \subseteq Audited

AuditInit ==
    /\ enabled \in BOOLEAN
    /\ fresh = Audited
    /\ enqueuing = [p \in Apis |-> {}]
    /\ waiting = {} /\ stalled = {} /\ failed = {}
    /\ active = [w \in Workers |-> {}]
    /\ appended = [w \in Workers |-> {}]
    /\ chain = [p \in Procs |-> <<>>]
    /\ checkpoints = [p \in Procs |-> {}]
    /\ publishing = [p \in Procs |-> {}]
    /\ saving = {} /\ rows = {}
    /\ nextId = 0 /\ auditRestarts = 0 /\ forced = 0
    /\ unremembered = {} /\ handedTwice = {}

-------------------------------------------------------------------------------
\* IntegrityAuditLogService

\* append: chains the entry to the last one of this process, starts the INSERT and,
\* at every interval, the publication of a checkpoint.
Append_(p, e) ==
    LET last == Len(chain[p])
        entry == [sequence |-> last + 1, id |-> nextId + 1, event |-> e,
                  previous |-> IF last = 0 THEN Genesis ELSE chain[p][last].id]
    IN  /\ chain' = [chain EXCEPT ![p] = Append(@, entry)]
        /\ saving' = saving \cup {entry}
        /\ publishing' = IF entry.sequence % CheckpointInterval = 0
                         THEN [publishing EXCEPT ![p] = @ \cup {entry}]
                         ELSE publishing
        /\ nextId' = nextId + 1

\* createCheckpoint: recorded once per sequence and hash.
CreateCheckpoint(p, entry) ==
    checkpoints' = [checkpoints EXCEPT ![p] = @ \cup {CheckpointOf(entry)}]

\* publishCheckpoint after its await. An answer of the relay, an error of it and no
\* relay at all differ in the checkpoint's publisher only.
Published(p, entry) ==
    /\ entry \in publishing[p]
    /\ publishing' = [publishing EXCEPT ![p] = @ \ {entry}]
    /\ CreateCheckpoint(p, entry)
    /\ UNCHANGED <<enabled, fresh, enqueuing, jobVars, chain, saving, nextId,
                   rows, historyVars>>

\* POST /audit/integrity/checkpoints
PublishCheckpointForLatest(p) ==
    /\ chain[p] # <<>>
    /\ forced < MaxForced
    /\ forced' = forced + 1
    /\ CreateCheckpoint(p, chain[p][Len(chain[p])])
    /\ UNCHANGED <<enabled, fresh, enqueuing, jobVars, chain, publishing, saving,
                   nextId, rows, auditRestarts, unremembered, handedTwice>>

\* verifyAuditChain: links and checkpoints.
Verifies(entries, cps) ==
    \A i \in DOMAIN entries :
        /\ entries[i].previous = IF i = 1 THEN Genesis ELSE entries[i - 1].id
        /\ \A cp \in cps : cp.sequence = entries[i].sequence => cp.hash = entries[i].id

\* saveEntryToDatabase: INSERTs go over a pool, so they land in any order. One
\* whose sequence is taken or whose type the CHECK refuses is warned of and gone.
SaveEntry(entry) ==
    /\ entry \in saving
    /\ saving' = saving \ {entry}
    /\ rows' = IF /\ entry.event \in Storable
                  /\ \A row \in rows : row.sequence # entry.sequence
               THEN rows \cup {entry}
               ELSE rows
    /\ UNCHANGED <<enabled, fresh, enqueuing, jobVars, chain, checkpoints, publishing, nextId,
                   historyVars>>

SaveEntryFails(entry) ==
    /\ entry \in saving
    /\ saving' = saving \ {entry}
    /\ UNCHANGED <<enabled, fresh, enqueuing, jobVars, chain, checkpoints, publishing, nextId,
                   rows, historyVars>>

-------------------------------------------------------------------------------
\* enqueueAudit and the queue

\* enqueueAudit: appends at once when the pipeline is off, otherwise starts the
\* enqueue and returns.
EnqueueAudit(p, e) ==
    /\ e \in fresh
    /\ fresh' = fresh \ {e}
    /\ \/ /\ ~enabled
          /\ Append_(p, e)
          /\ UNCHANGED enqueuing
       \/ /\ enabled
          /\ enqueuing' = [enqueuing EXCEPT ![p] = @ \cup {e}]
          /\ UNCHANGED <<chain, saving, publishing, nextId>>
    /\ UNCHANGED <<enabled, jobVars, checkpoints, rows, historyVars>>

Enqueued(p, e) ==
    /\ e \in enqueuing[p]
    /\ enqueuing' = [enqueuing EXCEPT ![p] = @ \ {e}]
    /\ waiting' = waiting \cup {e}
    /\ UNCHANGED <<enabled, fresh, active, appended, stalled, failed, logVars, rows,
                   historyVars>>

\* Faulty variant of EnqueueFails: the rejection is swallowed.
EnqueueFailsSilently(p, e) ==
    /\ e \in enqueuing[p]
    /\ enqueuing' = [enqueuing EXCEPT ![p] = @ \ {e}]
    /\ UNCHANGED <<enabled, fresh, jobVars, logVars, rows, historyVars>>

\* The rejected enqueue runs the fallback. Redis may have stored the job and the
\* connection broken before its reply.
EnqueueFails(p, e) ==
    /\ e \in enqueuing[p]
    /\ enqueuing' = [enqueuing EXCEPT ![p] = @ \ {e}]
    /\ Append_(p, e)
    /\ \/ UNCHANGED <<waiting, handedTwice>>
       \/ /\ waiting' = waiting \cup {e}
          /\ handedTwice' = handedTwice \cup {e}
    /\ UNCHANGED <<enabled, fresh, active, appended, stalled, failed, checkpoints, rows,
                   auditRestarts, forced, unremembered>>

\* A worker takes a job, processAuditLog appends, BullMQ records the completion.
TakeJob(w, e) ==
    /\ e \in waiting
    /\ waiting' = waiting \ {e}
    /\ active' = [active EXCEPT ![w] = @ \cup {e}]
    /\ UNCHANGED <<enabled, fresh, enqueuing, appended, stalled, failed, logVars,
                   rows, historyVars>>

ProcessAuditLog(w, e) ==
    /\ e \in active[w]
    /\ active' = [active EXCEPT ![w] = @ \ {e}]
    /\ appended' = [appended EXCEPT ![w] = @ \cup {e}]
    /\ Append_(w, e)
    /\ UNCHANGED <<enabled, fresh, enqueuing, waiting, stalled, failed, checkpoints, rows,
                   historyVars>>

Completed(w, e) ==
    /\ e \in appended[w]
    /\ appended' = [appended EXCEPT ![w] = @ \ {e}]
    /\ UNCHANGED <<enabled, fresh, enqueuing, waiting, active, stalled, failed, logVars,
                   rows, historyVars>>

-------------------------------------------------------------------------------
\* Restarts: memory is lost, what was sent to the database may still arrive.

\* Faulty variant of Forget: the checkpoints are loaded back, the entries are not.
ForgetEntries(p) ==
    /\ auditRestarts < MaxAuditRestarts
    /\ auditRestarts' = auditRestarts + 1
    /\ chain' = [chain EXCEPT ![p] = <<>>]
    /\ publishing' = [publishing EXCEPT ![p] = {}]
    /\ UNCHANGED <<checkpoints, enabled, fresh, saving, nextId, rows, forced>>

Forget(p) ==
    /\ auditRestarts < MaxAuditRestarts
    /\ auditRestarts' = auditRestarts + 1
    /\ chain' = [chain EXCEPT ![p] = <<>>]
    /\ checkpoints' = [checkpoints EXCEPT ![p] = {}]
    /\ publishing' = [publishing EXCEPT ![p] = {}]
    /\ UNCHANGED <<enabled, fresh, saving, nextId, rows, forced>>

\* Of the enqueues an API process had under way some reached Redis.
ApiRestarts(p) ==
    /\ Forget(p)
    /\ \E sent \in SUBSET enqueuing[p] : waiting' = waiting \cup sent
    /\ enqueuing' = [enqueuing EXCEPT ![p] = {}]
    /\ unremembered' = unremembered \cup enqueuing[p] \cup EventsIn(chain[p])
    /\ UNCHANGED <<active, appended, stalled, failed, handedTwice>>

\* BullMQ hands the jobs of a lost worker out again, each of them once.
WorkerRestarts(w) ==
    LET held == active[w] \cup appended[w]
    IN  /\ Forget(w)
        /\ active' = [active EXCEPT ![w] = {}]
        /\ appended' = [appended EXCEPT ![w] = {}]
        /\ waiting' = waiting \cup (held \ stalled)
        /\ failed' = failed \cup (held \cap stalled)
        /\ stalled' = stalled \cup held
        /\ handedTwice' = handedTwice \cup appended[w]
        /\ unremembered' = unremembered \cup EventsIn(chain[w])
        /\ UNCHANGED enqueuing

-------------------------------------------------------------------------------
ApiStep(p) ==
    \/ \E e \in Audited : EnqueueAudit(p, e) \/ Enqueued(p, e) \/ EnqueueFails(p, e)
    \/ PublishCheckpointForLatest(p)
WorkerStep(w) ==
    \E e \in Audited : TakeJob(w, e) \/ ProcessAuditLog(w, e) \/ Completed(w, e)
DatabaseStep == \E entry \in saving : SaveEntry(entry) \/ SaveEntryFails(entry)

AuditStep ==
    \/ \E p \in Apis : ApiStep(p)
    \/ \E w \in Workers : WorkerStep(w)
    \/ \E p \in Procs : \E entry \in publishing[p] : Published(p, entry)
    \/ DatabaseStep

AuditNext ==
    \/ AuditStep
    \/ \E p \in Apis : ApiRestarts(p)
    \/ \E w \in Workers : WorkerRestarts(w)

\* Redis answers or reports an error and workers work through the queue. Nothing
\* makes events arrive, the database answer or a process restart.
AuditFairness ==
    /\ \A p \in Apis, e \in Audited : WF_auditVars(Enqueued(p, e) \/ EnqueueFails(p, e))
    /\ \A e \in Audited : WF_auditVars(\E w \in Workers : TakeJob(w, e))
    /\ \A w \in Workers, e \in Audited : WF_auditVars(ProcessAuditLog(w, e))

AuditSpec == AuditInit /\ [][AuditNext]_auditVars /\ AuditFairness

-------------------------------------------------------------------------------
\* The chain every process keeps verifies with its checkpoints at any time, in
\* whatever order fallbacks, jobs, forced and published checkpoints interleave:
\* GET /audit/integrity/verify answers 409 for tampering only.
ChainsVerify == \A p \in Procs : Verifies(chain[p], checkpoints[p])

\* An emitted event is never silently lost: it is on its way, in the queue, given
\* up by the queue, or in the chain of a running process, unless a process that
\* held it restarted (the comment on enqueueAudit, asyncPipeline.ts 120-122).
NothingLost ==
    Emitted \subseteq
        (UNION {enqueuing[p] : p \in Apis}) \cup waiting \cup failed
        \cup (UNION {active[w] : w \in Workers})
        \cup (UNION {EventsIn(chain[p]) : p \in Procs}) \cup unremembered

\* An event is in the log once, unless Redis had stored the job of a rejected
\* enqueue, a job outlived its worker, or the process that logged it forgot it.
RecordedOnce ==
    \A p, q \in Procs :
        \A i \in DOMAIN chain[p], j \in DOMAIN chain[q] :
            chain[p][i].event = chain[q][j].event
                => (p = q /\ i = j) \/ chain[p][i].event \in handedTwice \cup unremembered

\* What an event can be at any moment: not lost, and recorded only once.
Accounted == AuditTypeOK /\ NothingLost /\ RecordedOnce

\* Every event whose enqueue was started is appended in the end, unless a restart
\* or the queue's limit on stalled jobs came first.
EventuallyRecorded ==
    \A e \in Audited :
        (\E p \in Apis : e \in enqueuing[p])
            ~> (e \in unremembered \cup failed \/ \E p \in Procs : e \in EventsIn(chain[p]))

\* What docs/audit-log-integrity.md says of the log, of the table: each entry
\* includes the hash of the entry before it.
TableIsChained ==
    \A row, next \in rows : next.sequence = row.sequence + 1 => next.previous = row.id
===============================================================================
