---------------------------- MODULE MetricsPipeline ----------------------------
\* Analytics increments and funding metrics on their way to the async-pipeline queue and
\* through the worker: the buffer and its timer, the backpressure flag, fallbacks, a Redis
\* that fails with or without the job, and processes that die. One API process, one worker.
EXTENDS Integers, FiniteSets

CONSTANTS
    Increments,  \* analytics increments, as of onramp requests
    Fundings,    \* funding operations to record
    Threshold    \* asyncPipeline.backpressureThreshold

VARIABLES
    ahead,       \* the events that have not happened yet
    buffer,      \* analyticsBuffer: the increments its entries add up
    timer,       \* _flushTimer is set
    sending,     \* the adds that await Redis: [batch |-> events, queued |-> Redis has the job]
    jobs,        \* the queue: [batch |-> events, held |-> by the worker, done |-> processed,
                 \* stalled |-> handed out again]
    backpressured,
    checking,    \* a check of the queue's depth awaits Redis
    counted,     \* how often each event was recorded, or forwarded by the worker (history)
    dropped,     \* increments discarded under backpressure (history)
    lost,        \* events that a failure of Redis or of the process took along (history)
    repeatable   \* events whose job Redis took without saying so, or handed out twice (history)

intake == <<ahead, buffer, timer>>
pressure == <<backpressured, checking>>
history == <<counted, dropped, lost, repeatable>>
vars == <<intake, sending, jobs, pressure, history>>

Events == Increments \cup Fundings
Batches == (SUBSET Events) \ {{}}
Waiting == {j \in jobs : ~j.held}

MetricsTypeOK ==
    /\ ahead \subseteq Events /\ buffer \subseteq Increments /\ timer \in BOOLEAN
    /\ sending \subseteq [batch : Batches, queued : BOOLEAN]
    /\ jobs \subseteq [batch : Batches, held : BOOLEAN, done : BOOLEAN, stalled : BOOLEAN]
    /\ {backpressured, checking} \subseteq BOOLEAN
    /\ counted \in [Events -> 0..2]
    /\ dropped \subseteq Increments /\ lost \subseteq Events /\ repeatable \subseteq Events

Init ==
    /\ ahead = Events /\ buffer = {} /\ timer = FALSE
    /\ sending = {} /\ jobs = {}
    /\ backpressured = FALSE /\ checking = FALSE
    /\ counted = [e \in Events |-> 0]
    /\ dropped = {} /\ lost = {} /\ repeatable = {}

-------------------------------------------------------------------------------
\* isBackpressured: the caller gets what an earlier check found, and asks anew unless
\* one was asked within the last second.
AsksDepth ==
    /\ checking' \in {checking, TRUE}
    /\ UNCHANGED backpressured

\* counted stops at two.
Recorded(batch) ==
    counted' = [e \in Events |-> IF e \in batch /\ counted[e] < 2 THEN counted[e] + 1 ELSE counted[e]]
Sent(batch) == sending' = sending \cup {[batch |-> batch, queued |-> FALSE]}

\* Faulty variant of ScheduleFlush: it looks for entries before the first one is there.
ScheduleFlushLate == timer' = (timer \/ buffer # {})

\* scheduleFlush keeps a timer that runs.
ScheduleFlush == timer' = TRUE

\* bufferAnalytics
Increment(e) ==
    /\ e \in ahead \cap Increments
    /\ ahead' = ahead \ {e}
    /\ AsksDepth
    /\ \/ /\ backpressured
          /\ dropped' = dropped \cup {e}
          /\ UNCHANGED <<buffer, timer>>
       \/ /\ ~backpressured
          /\ buffer' = buffer \cup {e}
          /\ ScheduleFlush
          /\ UNCHANGED dropped
    /\ UNCHANGED <<sending, jobs, counted, lost, repeatable>>

\* enqueueFundingMetrics, which falls back to recording here.
Fund(e) ==
    /\ e \in ahead \cap Fundings
    /\ ahead' = ahead \ {e}
    /\ AsksDepth
    /\ \/ backpressured /\ Recorded({e}) /\ UNCHANGED sending
       \/ ~backpressured /\ Sent({e}) /\ UNCHANGED counted
    /\ UNCHANGED <<buffer, timer, jobs, dropped, lost, repeatable>>

\* Faulty variant of Flush: the buffer is not cleared before the add is awaited.
FlushUncleared ==
    /\ timer
    /\ timer' = FALSE
    /\ IF buffer = {} THEN UNCHANGED sending ELSE Sent(buffer)
    /\ UNCHANGED <<ahead, buffer, jobs, pressure, history>>

\* The timer: flushAnalyticsBuffer takes everything that is in the buffer.
Flush ==
    /\ timer
    /\ timer' = FALSE
    /\ buffer' = {}
    /\ IF buffer = {} THEN UNCHANGED sending ELSE Sent(buffer)
    /\ UNCHANGED <<ahead, jobs, pressure, history>>

\* The check finds the queue over its threshold or not, or fails and changes nothing.
RefreshBackpressure ==
    /\ checking
    /\ checking' = FALSE
    /\ backpressured' \in {backpressured, Cardinality(Waiting) > Threshold}
    /\ UNCHANGED <<intake, sending, jobs, history>>

-------------------------------------------------------------------------------
\* The adds

Queue(s) ==
    /\ ~s.queued
    /\ sending' = (sending \ {s}) \cup {[s EXCEPT !.queued = TRUE]}
    /\ jobs' = jobs \cup {[batch |-> s.batch, held |-> FALSE, done |-> FALSE,
                        stalled |-> FALSE]}
    /\ UNCHANGED <<intake, pressure, history>>

AddResolves(s) ==
    /\ s.queued
    /\ sending' = sending \ {s}
    /\ UNCHANGED <<intake, jobs, pressure, history>>

\* Rejected, with the job in the queue or not: a batch of increments is given up, a
\* funding is recorded here.
AddFails(s) ==
    /\ sending' = sending \ {s}
    /\ Recorded(s.batch \cap Fundings)
    /\ lost' = IF s.queued THEN lost ELSE lost \cup (s.batch \cap Increments)
    /\ repeatable' = IF s.queued THEN repeatable \cup s.batch ELSE repeatable
    /\ UNCHANGED <<intake, jobs, pressure, dropped>>

\* The API process dies, with its buffer and its calls, and starts again. Nothing drains
\* the buffer before it ends, not even a graceful shutdown.
RestartApi ==
    /\ lost' = lost \cup buffer \cup UNION {s.batch : s \in {t \in sending : ~t.queued}}
    /\ buffer' = {} /\ timer' = FALSE /\ sending' = {}
    /\ backpressured' = FALSE /\ checking' = FALSE
    /\ UNCHANGED <<ahead, jobs, counted, dropped, repeatable>>

-------------------------------------------------------------------------------
\* The worker

Became(j, k) == jobs' = (jobs \ {j}) \cup {k}

Take(j) ==
    /\ ~j.held
    /\ Became(j, [j EXCEPT !.held = TRUE])
    /\ UNCHANGED <<intake, sending, pressure, history>>

\* processAsyncPipeline: increments are forwarded, fundings recorded.
Process(j) ==
    /\ j.held /\ ~j.done
    /\ Became(j, [j EXCEPT !.done = TRUE])
    /\ Recorded(j.batch)
    /\ UNCHANGED <<intake, sending, pressure, dropped, lost, repeatable>>

Complete(j) ==
    /\ j.held /\ j.done
    /\ jobs' = jobs \ {j}
    /\ UNCHANGED <<intake, sending, pressure, history>>

\* The worker dies. What it held is stalled: BullMQ hands it out again, once, and then
\* gives it up.
RestartWorker ==
    LET held == jobs \ Waiting
        given == {j \in held : j.stalled}
    IN  /\ held # {}
        /\ jobs' = Waiting \cup {[j EXCEPT !.held = FALSE, !.done = FALSE, !.stalled = TRUE] :
                                    j \in held \ given}
        /\ lost' = lost \cup UNION {j.batch : j \in {i \in given : ~i.done}}
        /\ repeatable' = repeatable \cup UNION {j.batch : j \in {i \in held : i.done}}
        /\ UNCHANGED <<intake, sending, pressure, counted, dropped>>

-------------------------------------------------------------------------------
ApiStep ==
    \/ \E e \in Events : Increment(e) \/ Fund(e)
    \/ Flush \/ RefreshBackpressure \/ RestartApi
    \/ \E s \in sending : Queue(s) \/ AddResolves(s) \/ AddFails(s)

WorkerStep ==
    \/ \E j \in jobs : Take(j) \/ Process(j) \/ Complete(j)
    \/ RestartWorker

Next == ApiStep \/ WorkerStep

\* The timer fires, Redis answers calls or fails them, and the worker works on.
Fairness ==
    /\ WF_vars(Flush)
    /\ WF_vars(\E s \in sending : Queue(s) \/ AddResolves(s) \/ AddFails(s))
    /\ WF_vars(\E j \in jobs : Take(j) \/ Process(j) \/ Complete(j))

Spec == Init /\ [][Next]_vars /\ Fairness

-------------------------------------------------------------------------------
\* An event is counted once, however buffer, timer, failures and restarts interleave:
\* until then exactly one of the buffer, an add and a job has it; it is missing only if
\* it was discarded, or taken along by a failure; and it is counted again only after
\* Redis kept the job of an add that failed or a worker died before it completed one.
Holders(e) ==
    (IF e \in buffer THEN 1 ELSE 0)
    + Cardinality({s \in sending : e \in s.batch /\ ~s.queued})
    + Cardinality({j \in jobs : e \in j.batch /\ ~j.done})

CountedOnce ==
    \A e \in Events \ (ahead \cup repeatable) :
        (IF e \in dropped \cup lost THEN 1 ELSE 0) + Holders(e) + counted[e] = 1

\* Every event is counted in the end, or was given up.
EventuallyCounted ==
    \A e \in Events : e \notin ahead ~> (counted[e] > 0 \/ e \in dropped \cup lost)
===============================================================================
