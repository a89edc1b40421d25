----------------------------- MODULE Resubmission -----------------------------
\* The two ends of a request that is sent again: the API's idempotency middleware, and
\* the offline queue in which the SDK keeps what it will replay. Between them is only the
\* key; what a replay meets at the API is a duplicate like any other. So an execution
\* runs one of them, for TLC with three requests, two of which are duplicates.
EXTENDS Idempotency, TLC

\* The requests of TLC's instance and their bodies.
CONSTANTS r1, r2, r3
MCRequests == {r1, r2, r3}
MCBodyOf == (r1 :> "a") @@ (r2 :> "a") @@ (r3 :> "b")

CONSTANTS MaxEntries, MaxSize, MaxRetries, MaxWrites, MaxCrashes, MaxClears

ASSUME QueueAssumption ==
    /\ MaxEntries \in Nat /\ MaxSize \in Nat \ {0} /\ MaxRetries \in Nat \ {0}
    /\ MaxWrites \in Nat \ {0} /\ MaxCrashes \in Nat /\ MaxClears \in Nat

VARIABLES
    part,       \* the end of this execution
    ready, loading, queue, online, replay, stored, writes, enqueued, durable, delivered,
    dead, cleared, crashes, clears, loadFailed

O == INSTANCE OfflineQueue

queueVars == <<ready, loading, queue, online, replay, stored, writes, enqueued, durable,
               delivered, dead, cleared, crashes, clears, loadFailed>>

Starts ==
    /\ part \in {"middleware", "queue"}
    /\ Init /\ (part = "queue" => configured = TRUE)
    /\ O!Init

Step ==
    /\ UNCHANGED part
    /\ \/ part = "middleware" /\ Next   /\ UNCHANGED queueVars
       \/ part = "queue"      /\ O!Next /\ UNCHANGED vars

\* The fairness of the queue asks for steps that it does not take where it does not run.
Resubmitting ==
    /\ Starts /\ [][Step]_<<part, vars, queueVars>>
    /\ Fairness
    /\ part = "queue" => O!Fairness

-------------------------------------------------------------------------------
\* The queue's promises: nothing it accepted disappears, in memory or in the storage; one
\* session never sends again what it has a verdict for;
EntriesAreKept == O!EntriesAreKept /\ O!NotSentTwice

\* and every entry gets its verdict.
EventuallyResolved == O!EventuallyResolved
===============================================================================
