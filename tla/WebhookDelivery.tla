--------------------------- MODULE WebhookDelivery ---------------------------
\* Outgoing webhooks: the first attempt of WebhookDeliveryService in an API process,
\* the retries as jobs of the webhook-retry queue that processWebhookRetry runs in
\* a worker, and the two dead letter queues: the service's own, in memory, and the
\* worker's table. A delivery is one event for one registration; what a job needs
\* it carries, so registrations play no part after the first attempt.
\* webhookDelivery.ts holds three merged versions of the class; the module follows the
\* last one, which deliver, deliverToAll and emit belong to, with attemptDelivery read
\* across the seam in it (lines 347-455, then 655-687).
EXTENDS Naturals, FiniteSets, FiniteSetsExt

CONSTANTS
    Deliveries,      \* calls of deliver
    Retries,         \* WEBHOOK_RETRY_DELAYS_MS.length
    JobAttempts,     \* attempts in the queue's defaultJobOptions
    MaxRestarts,     \* bounds of the instance: restarts, and replies of Redis
    MaxLostReplies   \* that are lost after it stored a job

ASSUME RetriesAssumption == Retries \in Nat \ {0} /\ JobAttempts \in Nat \ {0}
ASSUME BoundsAssumption == MaxRestarts \in Nat /\ MaxLostReplies \in Nat

VARIABLES
    hasDatabase,   \* getPool() # null
    first,         \* [Deliveries -> where attemptDelivery is]
    jobs,          \* jobs of webhook-retry that are neither completed nor failed for good
    apiDlq,        \* the service's DLQ, in memory
    dlq,           \* table webhook_dlq
    discarded,     \* retries exhausted with no database configured
    resolved,      \* DLQ entries an operator deleted
    acked,         \* deliveries a receiver answered with 2xx
    posted,        \* [Deliveries -> attempt numbers that were sent] (history)
    repeated,      \* deliveries with a step that was done twice (history)
    forgotten,     \* deliveries an API process held when it restarted (history)
    abandoned,     \* deliveries of jobs that failed for good (history)
    errors,        \* [Deliveries -> runs of its jobs that threw] (history)
    restarts, lostReplies

apiVars == <<first, apiDlq, resolved, forgotten>>
outcomeVars == <<dlq, discarded, acked>>
boundVars == <<restarts, lostReplies>>
failureVars == <<abandoned, errors>>
vars == <<hasDatabase, apiVars, jobs, outcomeVars, posted, repeated, failureVars, boundVars>>

Job == [id : Nat, delivery : Deliveries, attempt : 1..Retries, run : 1..JobAttempts,
        stalled : BOOLEAN, at : {"waiting", "posting", "enqueuing", "storing", "done"}]

TypeOK ==
    /\ hasDatabase \in BOOLEAN
    /\ first \in [Deliveries -> {"new", "posting", "enqueuing", "settled"}]
    /\ jobs \subseteq Job
    /\ apiDlq \cup dlq \cup discarded \cup resolved \cup acked \subseteq Deliveries
    /\ posted \in [Deliveries -> SUBSET (0..Retries)]
    /\ repeated \cup forgotten \cup abandoned \subseteq Deliveries
    /\ errors \in [Deliveries -> Nat]
    /\ restarts \in 0..MaxRestarts /\ lostReplies \in 0..MaxLostReplies

Init ==
    /\ hasDatabase \in BOOLEAN
    /\ first = [d \in Deliveries |-> "new"]
    /\ jobs = {}
    /\ apiDlq = {} /\ dlq = {} /\ discarded = {} /\ resolved = {} /\ acked = {}
    /\ posted = [d \in Deliveries |-> {}]
    /\ repeated = {} /\ forgotten = {} /\ abandoned = {}
    /\ errors = [d \in Deliveries |-> 0]
    /\ restarts = 0 /\ lostReplies = 0

-------------------------------------------------------------------------------
\* BullMQ's job ids tell jobs apart and nothing else, so they are used again.
FreeId == Min(0..Cardinality(jobs) \ {j.id : j \in jobs})
NewJob(d, n) ==
    [id |-> FreeId, delivery |-> d, attempt |-> n, run |-> 1, stalled |-> FALSE, at |-> "waiting"]

\* The states of the queue in which job j went on to place at, or changed into k.
Became(j, k) == (jobs \ {j}) \cup {k}
Moved(j, place) == Became(j, [j EXCEPT !.at = place])

\* A processor that throws: BullMQ runs the job again, or fails it for good. Of those the
\* queue keeps the last removeOnFail.count and trims the others; nothing runs one of them
\* again or moves what it carries to a DLQ.
Thrown(j) ==
    IF j.run < JobAttempts
    THEN Became(j, [j EXCEPT !.at = "waiting", !.run = @ + 1])
    ELSE jobs \ {j}
Counts(j) ==
    /\ errors' = [errors EXCEPT ![j.delivery] = @ + 1]
    /\ abandoned' = abandoned \cup {d \in {j.delivery} : ~(j.run < JobAttempts)}

\* A rejected enqueueWebhookRetry: Redis stored nothing, or the job and the reply
\* was lost.
Rejected(d, n, rest) ==
    \/ /\ jobs' = rest
       /\ UNCHANGED <<repeated, lostReplies>>
    \/ /\ lostReplies < MaxLostReplies
       /\ lostReplies' = lostReplies + 1
       /\ jobs' = rest \cup {NewJob(d, n)}
       /\ repeated' = repeated \cup {d}

-------------------------------------------------------------------------------
\* The API process: deliver, attemptDelivery with attempt number 0, moveToDLQ.

Deliver(d) ==
    /\ first[d] = "new"
    /\ first' = [first EXCEPT ![d] = "posting"]
    /\ posted' = [posted EXCEPT ![d] = @ \cup {0}]
    /\ UNCHANGED <<hasDatabase, apiDlq, resolved, forgotten, jobs, outcomeVars,
                   repeated, boundVars, failureVars>>

FirstDelivered(d) ==
    /\ first[d] = "posting"
    /\ first' = [first EXCEPT ![d] = "settled"]
    /\ acked' = acked \cup {d}
    /\ UNCHANGED <<hasDatabase, apiDlq, resolved, forgotten, jobs, dlq, discarded,
                   posted, repeated, boundVars, failureVars>>

\* Another status, a refused address, an error or the timeout.
FirstFails(d) ==
    /\ first[d] = "posting"
    /\ first' = [first EXCEPT ![d] = "enqueuing"]
    /\ UNCHANGED <<hasDatabase, apiDlq, resolved, forgotten, jobs, outcomeVars,
                   posted, repeated, boundVars, failureVars>>

RetryScheduled(d) ==
    /\ first[d] = "enqueuing"
    /\ first' = [first EXCEPT ![d] = "settled"]
    /\ jobs' = jobs \cup {NewJob(d, 1)}
    /\ UNCHANGED <<hasDatabase, apiDlq, resolved, forgotten, outcomeVars, posted, repeated,
                   boundVars, failureVars>>

\* Faulty variant of MoveToDLQ: the failure is logged and nothing kept.
MoveToDLQForgets(d) ==
    /\ first[d] = "enqueuing"
    /\ first' = [first EXCEPT ![d] = "settled"]
    /\ Rejected(d, 1, jobs)
    /\ UNCHANGED <<hasDatabase, apiDlq, resolved, forgotten, outcomeVars, posted, restarts,
                   failureVars>>

MoveToDLQ(d) ==
    /\ first[d] = "enqueuing"
    /\ first' = [first EXCEPT ![d] = "settled"]
    /\ apiDlq' = apiDlq \cup {d}
    /\ Rejected(d, 1, jobs)
    /\ UNCHANGED <<hasDatabase, resolved, forgotten, outcomeVars, posted, restarts,
                   failureVars>>

\* DELETE /dlq/:id
DeleteDLQEntry(d) ==
    /\ d \in apiDlq
    /\ apiDlq' = apiDlq \ {d}
    /\ resolved' = resolved \cup {d}
    /\ UNCHANGED <<hasDatabase, first, forgotten, jobs, outcomeVars, posted,
                   repeated, boundVars, failureVars>>

-------------------------------------------------------------------------------
\* The worker: processWebhookRetry

StartJob(j) ==
    /\ j.at = "waiting"
    /\ jobs' = Moved(j, "posting")
    /\ posted' = [posted EXCEPT ![j.delivery] = @ \cup {j.attempt}]
    /\ UNCHANGED <<hasDatabase, apiVars, outcomeVars, repeated, boundVars, failureVars>>

RetryDelivered(j) ==
    /\ j.at = "posting"
    /\ jobs' = Moved(j, "done")
    /\ acked' = acked \cup {j.delivery}
    /\ UNCHANGED <<hasDatabase, apiVars, dlq, discarded, posted, repeated, boundVars, failureVars>>

\* Faulty variant of RetryFails: the last delay is never used.
RetryFailsEarly(j) ==
    /\ j.at = "posting"
    /\ jobs' = Moved(j, IF j.attempt + 1 < Retries THEN "enqueuing" ELSE "storing")
    /\ UNCHANGED <<hasDatabase, apiVars, outcomeVars, posted, repeated, boundVars, failureVars>>

\* With a delay left the next attempt is enqueued, after the last one the delivery
\* goes to the DLQ table.
RetryFails(j) ==
    /\ j.at = "posting"
    /\ jobs' = Moved(j, IF j.attempt < Retries THEN "enqueuing" ELSE "storing")
    /\ UNCHANGED <<hasDatabase, apiVars, outcomeVars, posted, repeated, boundVars, failureVars>>

\* Faulty variant of NextScheduled: the attempt is enqueued again, not the next.
SameScheduled(j) ==
    /\ j.at = "enqueuing"
    /\ jobs' = Moved(j, "done") \cup {NewJob(j.delivery, j.attempt)}
    /\ UNCHANGED <<hasDatabase, apiVars, outcomeVars, posted, repeated, boundVars, failureVars>>

NextScheduled(j) ==
    /\ j.at = "enqueuing"
    /\ jobs' = Moved(j, "done") \cup {NewJob(j.delivery, j.attempt + 1)}
    /\ UNCHANGED <<hasDatabase, apiVars, outcomeVars, posted, repeated, boundVars, failureVars>>

NextRejected(j) ==
    /\ j.at = "enqueuing"
    /\ Rejected(j.delivery, j.attempt + 1, Thrown(j))
    /\ Counts(j)
    /\ UNCHANGED <<hasDatabase, apiVars, outcomeVars, posted, restarts>>

WriteDlqEntry(j) ==
    /\ j.at = "storing"
    /\ \/ /\ ~hasDatabase
          /\ discarded' = discarded \cup {j.delivery}
          /\ jobs' = Moved(j, "done")
          /\ UNCHANGED <<dlq, failureVars>>
       \/ /\ hasDatabase
          /\ dlq' = dlq \cup {j.delivery}
          /\ jobs' = Moved(j, "done")
          /\ UNCHANGED <<discarded, failureVars>>
       \/ /\ hasDatabase
          /\ jobs' = Thrown(j)
          /\ Counts(j)
          /\ UNCHANGED <<dlq, discarded>>
    /\ UNCHANGED <<hasDatabase, apiVars, acked, posted, repeated, boundVars>>

JobCompleted(j) ==
    /\ j.at = "done"
    /\ jobs' = jobs \ {j}
    /\ UNCHANGED <<hasDatabase, apiVars, outcomeVars, posted, repeated, boundVars, failureVars>>

-------------------------------------------------------------------------------
Held(j) == j.at # "waiting"

\* BullMQ hands a job whose worker is gone out again, once; the second time it fails it.
RestartWorker ==
    LET held  == {j \in jobs : Held(j)}
        again == {j \in held : ~j.stalled}
    IN  /\ restarts < MaxRestarts
        /\ restarts' = restarts + 1
        /\ jobs' = (jobs \ held)
                     \cup {[j EXCEPT !.at = "waiting", !.stalled = TRUE] : j \in again}
        /\ repeated' = repeated \cup {j.delivery : j \in held}
        /\ abandoned' = abandoned \cup {j.delivery : j \in held \ again}
        /\ UNCHANGED <<hasDatabase, apiVars, outcomeVars, posted, errors, lostReplies>>

\* First attempts and the DLQ in memory do not survive their process.
RestartApi ==
    LET cut == {d \in Deliveries : first[d] \in {"posting", "enqueuing"}}
    IN  /\ restarts < MaxRestarts
        /\ restarts' = restarts + 1
        /\ first' = [d \in Deliveries |-> IF d \in cut THEN "settled" ELSE first[d]]
        /\ apiDlq' = {}
        /\ forgotten' = forgotten \cup cut \cup apiDlq
        /\ UNCHANGED <<hasDatabase, resolved, jobs, outcomeVars, posted, repeated,
                       lostReplies, failureVars>>

FirstAttempt(d) ==
    FirstDelivered(d) \/ FirstFails(d) \/ RetryScheduled(d) \/ MoveToDLQ(d)
JobStep(j) ==
    \/ StartJob(j) \/ RetryDelivered(j) \/ RetryFails(j) \/ NextScheduled(j)
    \/ NextRejected(j) \/ WriteDlqEntry(j) \/ JobCompleted(j)

Next ==
    \/ \E d \in Deliveries : Deliver(d) \/ FirstAttempt(d) \/ DeleteDLQEntry(d)
    \/ \E j \in jobs : JobStep(j)
    \/ RestartWorker
    \/ RestartApi

\* Requests end by their timeout, Redis and the database answer or report an error,
\* and a worker takes every job in the end. Nothing makes an event be delivered.
Fairness ==
    /\ \A d \in Deliveries : WF_vars(FirstAttempt(d))
    /\ WF_vars(\E j \in jobs : JobStep(j))

Spec == Init /\ [][Next]_vars /\ Fairness

-------------------------------------------------------------------------------
Exhausted(d) == posted[d] = 0..Retries

\* No delivery disappears unseen: one whose first attempt is over was acknowledged, has a
\* job, or is in a DLQ from which somebody can see it, unless the process that held it
\* restarted, there is no database to keep it, or its job failed for good. That takes as many
\* refusals of the queue or the table as a job has attempts, or two workers that die with it.
NoneUnaccounted ==
    \A d \in Deliveries :
        /\ first[d] = "settled" =>
              d \in acked \cup {j.delivery : j \in jobs} \cup apiDlq \cup dlq
                    \cup discarded \cup resolved \cup forgotten \cup abandoned
        /\ d \in abandoned => errors[d] >= JobAttempts \/ (d \in repeated /\ restarts >= 2)

\* The dead letter table holds what was sent once for every delay and once before,
\* and nothing a receiver acknowledged, unless a step of it was repeated.
DeadLettersExhausted ==
    \A d \in dlq \cup discarded :
        Exhausted(d) /\ (d \in acked => d \in repeated)

\* Every job's attempt follows one that was sent, and only a repeated step gives a
\* delivery two live jobs.
RetriesInOrder ==
    \A j \in jobs :
        /\ 0..(j.attempt - 1) \subseteq posted[j.delivery]
        /\ j.delivery \notin repeated =>
              \A k \in jobs : k.delivery = j.delivery /\ k # j => "done" \in {j.at, k.at}

\* No delivery is lost by one restart or by fewer errors than a job has attempts; retries
\* come in order, and only after the last one is a delivery dead.
DeliveriesAreSound == TypeOK /\ NoneUnaccounted /\ RetriesInOrder /\ DeadLettersExhausted

\* What jobs/processors/webhookRetry.ts says of its retries: that they survive restarts "and
\* reach the DLQ on final failure". Those whose job fails for good do not.
FailuresReachDlq == abandoned \subseteq acked \cup apiDlq \cup dlq \cup discarded \cup resolved

\* Every delivery is settled for good: no retry goes on for ever, and by then the delivery
\* is in one of the places NoneUnaccounted names.
EventuallySettled ==
    \A d \in Deliveries :
        (first[d] # "new") ~> first[d] = "settled" /\ \A j \in jobs : j.delivery # d
===============================================================================
