------------------------------ MODULE JobQueues ------------------------------
\* Two of the queues the worker process serves, by themselves: webhook-retry, with the
\* deliveries of WebhookDelivery, and async-pipeline, with the events of MetricsPipeline.
\* They share processes and Redis but no state, so an execution runs one of them.
EXTENDS WebhookDelivery

CONSTANTS Increments, Fundings, Threshold

VARIABLES
    queue,      \* the queue of this execution
    ahead, buffer, timer, sending, pipelineJobs, backpressured, checking,
    counted, dropped, lost, repeatable   \* the variables of MetricsPipeline

ASSUME IncrementsAssumption == Increments \cap Fundings = {} /\ Threshold \in Nat

M == INSTANCE MetricsPipeline WITH jobs <- pipelineJobs

pipelineVars == <<ahead, buffer, timer, sending, pipelineJobs, backpressured, checking,
                  counted, dropped, lost, repeatable>>

Serves ==
    /\ queue \in {"webhook-retry", "async-pipeline"}
    /\ Init /\ (queue = "async-pipeline" => hasDatabase = TRUE)
    /\ M!Init

Step ==
    /\ UNCHANGED queue
    /\ \/ queue = "webhook-retry" /\ Next /\ UNCHANGED pipelineVars
       \/ queue = "async-pipeline" /\ M!Next /\ UNCHANGED vars

Serving == Serves /\ [][Step]_<<queue, vars, pipelineVars>> /\ Fairness /\ M!Fairness

-------------------------------------------------------------------------------
\* What MetricsPipeline promises of increments and fundings: each is counted once, through
\* buffer, queue and failures.
EventsAreCounted == M!MetricsTypeOK /\ M!CountedOnce

\* In the end each delivery is settled, and each event counted, dropped or lost.
EventuallyDone == EventuallySettled /\ M!EventuallyCounted
===============================================================================
