------------------------------ MODULE Idempotency ------------------------------
(***************************************************************************)
(* The x-idempotency-key middleware of the API in front of the fund        *)
(* handlers: api/src/middleware/idempotency.ts over the Redis helpers of   *)
(* api/src/services/cache.ts.  Everything is about one key of one API key: *)
(* other keys use other Redis entries.  Each request with that key is      *)
(* served by some API process; its Redis commands and the handler are      *)
(* separated by awaits, so the requests interleave at every step.          *)
(***************************************************************************)
EXTENDS Integers, FiniteSets

CONSTANTS
    Requests,    \* the requests that arrive with the key
    Bodies,      \* request bodies, told apart by their hash
    BodyOf,      \* the body each request carries
    MaxFaults,   \* bound on Redis errors
    None         \* absent value

ASSUME BodyAssumption == BodyOf \in [Requests -> Bodies]
ASSUME FaultsAssumption == MaxFaults \in Nat

VARIABLES
    configured,  \* a Redis client exists (cache.ts getClient)
    pc,          \* where the middleware is with each request
    lock,        \* idempotency:lock:<scope>:<key> exists
    response,    \* idempotency:<scope>:<key>
    answer,      \* what the client of r was sent
    submitted,   \* requests whose handler submitted a transaction
    faults,      \* number of Redis errors so far
    lapsed       \* a key timed out while it was still needed

vars == <<configured, pc, lock, response, answer, submitted, faults, lapsed>>
redis == <<configured, lock, response, faults, lapsed>>

\* The handler's status: final (2xx and 4xx, which are cached) or error (5xx).
Statuses == {"final", "error"}
Cacheable(status) == status # "error"

\* What a client is sent: the handler's answer, a stored one, or a refusal.
Answers == [kind : {"fresh"}, status : Statuses]
           \cup [kind : {"replay"}, status : Statuses, of : Requests]
           \cup [kind : {"inFlight", "mismatch"}]
\* StoredResponse, with the request it came from.
Responses == [status : Statuses, body : Bodies, of : Requests]

ASSUME NoneAssumption == None \notin Answers \cup Responses

Stages == {"new", "lookup", "reserve", "running", "store", "release", "done",
           "crashed"}

\* The request is past its reservation and has not released it.
Active(r) == pc[r] \in {"running", "store", "release"}

Init == /\ configured \in BOOLEAN
        /\ pc = [r \in Requests |-> "new"]
        /\ lock = FALSE
        /\ response = None
        /\ answer = [r \in Requests |-> None]
        /\ submitted = {}
        /\ faults = 0
        /\ lapsed = FALSE

\* A request with a well formed key and an authenticated caller.
Arrive(r) ==
    /\ pc[r] = "new"
    /\ pc' = [pc EXCEPT ![r] = "lookup"]
    /\ UNCHANGED <<redis, answer, submitted>>

\* One Redis error: cacheGet, cacheSetNX, cacheSet and cacheDel swallow it.
Fault == /\ configured
         /\ faults < MaxFaults
         /\ faults' = faults + 1

Reply(r, a) == answer' = [answer EXCEPT ![r] = a]
Goto(r, stage) == pc' = [pc EXCEPT ![r] = stage]

\* cacheGet answers: replay the stored response, refuse another body, or go on.
Lookup(r) ==
    /\ pc[r] = "lookup"
    /\ IF response = None
       THEN Goto(r, "reserve") /\ UNCHANGED answer
       ELSE /\ Goto(r, "done")
            /\ Reply(r, IF response.body = BodyOf[r]
                        THEN [kind |-> "replay", status |-> response.status, of |-> response.of]
                        ELSE [kind |-> "mismatch"])
    /\ UNCHANGED <<redis, submitted>>

\* cacheGet fails and gives null, as if nothing were stored.
LookupFails(r) ==
    /\ pc[r] = "lookup"
    /\ Fault
    /\ Goto(r, "reserve")
    /\ UNCHANGED <<configured, lock, response, answer, submitted, lapsed>>

\* Faulty variants of Reserve: SET without NX, and without looking for a client;
\* a refused reservation that sends no answer.
ReserveAlways(r) ==
    /\ pc[r] = "reserve"
    /\ Goto(r, "running")
    /\ lock' = TRUE
    /\ UNCHANGED <<configured, response, answer, submitted, faults, lapsed>>
ReserveSilently(r) ==
    /\ pc[r] = "reserve"
    /\ Goto(r, IF lock THEN "done" ELSE "running")
    /\ lock' = configured
    /\ UNCHANGED <<configured, response, answer, submitted, faults, lapsed>>

\* SET NX of the in-flight lock; without Redis every request goes through.
Reserve(r) ==
    /\ pc[r] = "reserve"
    /\ IF lock THEN Goto(r, "done") /\ Reply(r, [kind |-> "inFlight"])
               ELSE Goto(r, "running") /\ UNCHANGED answer
    /\ lock' = configured
    /\ UNCHANGED <<configured, response, submitted, faults, lapsed>>

\* The reply to SET NX is an error, whether or not Redis executed it.
ReserveFails(r) ==
    /\ pc[r] = "reserve"
    /\ Fault
    /\ lock' \in {lock, TRUE}
    /\ Goto(r, "done")
    /\ Reply(r, [kind |-> "inFlight"])
    /\ UNCHANGED <<configured, response, submitted, lapsed>>

\* The handler hands its transaction to the network.
Submit(r) ==
    /\ pc[r] = "running"
    /\ r \notin submitted
    /\ submitted' = submitted \cup {r}
    /\ UNCHANGED <<redis, pc, answer>>

\* The handler, or the error handler after it, calls res.json: the answer goes
\* out and the two Redis commands are issued in this order, neither awaited.
Respond(r, status) ==
    /\ pc[r] = "running"
    /\ Reply(r, [kind |-> "fresh", status |-> status])
    /\ Goto(r, IF ~configured THEN "done"
               ELSE IF Cacheable(status) THEN "store" ELSE "release")
    /\ UNCHANGED <<redis, submitted>>

Entry(r) == [status |-> answer[r].status, body |-> BodyOf[r], of |-> r]

Store(r) ==
    /\ pc[r] = "store"
    /\ response' = Entry(r)
    /\ Goto(r, "release")
    /\ UNCHANGED <<configured, lock, answer, submitted, faults, lapsed>>

StoreFails(r) ==
    /\ pc[r] = "store"
    /\ Fault
    /\ response' \in {response, Entry(r)}
    /\ Goto(r, "release")
    /\ UNCHANGED <<configured, lock, answer, submitted, lapsed>>

\* DEL of the lock: it holds no owner, so whoever has it now loses it.
Release(r) ==
    /\ pc[r] = "release"
    /\ lock' = FALSE
    /\ Goto(r, "done")
    /\ UNCHANGED <<configured, response, answer, submitted, faults, lapsed>>

ReleaseFails(r) ==
    /\ pc[r] = "release"
    /\ Fault
    /\ lock' \in {lock, FALSE}
    /\ Goto(r, "done")
    /\ UNCHANGED <<configured, response, answer, submitted, lapsed>>

\* The process serving r dies; Redis keeps what it has.
Crash(r) ==
    /\ pc[r] \in {"lookup", "reserve"} \/ Active(r)
    /\ Goto(r, "crashed")
    /\ UNCHANGED <<redis, answer, submitted>>

\* LOCK_TTL_SECONDS runs out, possibly under a handler that is still running.
LockExpires ==
    /\ lock
    /\ lock' = FALSE
    /\ lapsed' = (lapsed \/ \E r \in Requests : Active(r))
    /\ UNCHANGED <<configured, pc, response, answer, submitted, faults>>

\* TTL_SECONDS runs out: the key starts a new life.
ResponseExpires ==
    /\ response # None
    /\ response' = None
    /\ lapsed' = TRUE
    /\ UNCHANGED <<configured, pc, lock, answer, submitted, faults>>

\* What the middleware and the handler do for a request they have accepted.
Serve(r) == \/ Lookup(r) \/ LookupFails(r)
            \/ Reserve(r) \/ ReserveFails(r)
            \/ \E status \in Statuses : Respond(r, status)
            \/ Store(r) \/ StoreFails(r)
            \/ Release(r) \/ ReleaseFails(r)

Next == \/ \E r \in Requests : Arrive(r)
        \/ \E r \in Requests : Serve(r)
        \/ \E r \in Requests : Submit(r)
        \/ \E r \in Requests : Crash(r)
        \/ LockExpires
        \/ ResponseExpires

\* Redis answers, with a value or an error, and every handler ends; Redis
\* expires a key that has a time to live.
Fairness == /\ \A r \in Requests : WF_vars(Serve(r))
            /\ WF_vars(LockExpires)

Spec == Init /\ [][Next]_vars /\ Fairness

-------------------------------------------------------------------------------
\* Type correctness; nothing is stored or locked without Redis.
TypeOK == /\ configured \in BOOLEAN
          /\ pc \in [Requests -> Stages]
          /\ lock \in BOOLEAN
          /\ response \in Responses \cup {None}
          /\ answer \in [Requests -> Answers \cup {None}]
          /\ submitted \subseteq Requests
          /\ faults \in 0..MaxFaults
          /\ lapsed \in BOOLEAN
          /\ ~configured => ~lock /\ response = None

\* While no TTL runs out under a request, the lock keeps handlers of one key
\* apart, whatever Redis errors, crashes and late releases there are.
HandlersExclude ==
    configured /\ ~lapsed => \A q, r \in Requests : Active(q) /\ Active(r) => q = r

\* A replayed answer is what the handler really answered to a request with the
\* same body, and it is never a transient failure: an error is not replayed to
\* the retry it asks for.
ReplayIsGenuine ==
    \A r \in Requests : (answer[r] # None /\ answer[r].kind = "replay") =>
        LET q == answer[r].of IN
        /\ answer[q] = [kind |-> "fresh", status |-> answer[r].status]
        /\ Cacheable(answer[r].status)
        /\ BodyOf[q] = BodyOf[r]

\* r was answered by the handler itself.
Fresh(r) == answer[r] # None /\ answer[r].kind = "fresh"

\* Redis works, no process dies and no key times out under a request.
Undisturbed == /\ configured /\ ~lapsed /\ faults = 0
               /\ \A r \in Requests : pc[r] # "crashed"

\* From the moment a final answer is sent, a retry finds the lock or the stored
\* response: there is no gap between the two in which it could start over
\* (unless Redis failed, a process died or a TTL ran out).
NoGapAfterAnswer ==
    Undisturbed /\ (\E r \in Requests : Fresh(r) /\ Cacheable(answer[r].status))
        => lock \/ response # None

\* The safety of one key, as one invariant: duplicates are kept apart, told the
\* truth, and never find a gap.
DuplicatesAreSafe == TypeOK /\ HandlersExclude /\ ReplayIsGenuine /\ NoGapAfterAnswer

\* The key does not stay locked, so that a client that keeps retrying is not refused for
\* ever: after a crash or a lost DEL its TTL frees it. And every request is answered
\* unless its process dies.
EventuallyAnswered ==
    <>[](~lock /\ \A r \in Requests : pc[r] \in {"new", "crashed"} \/ answer[r] # None)

\* What the comment at idempotency.ts:79 says the reservation gives: duplicates
\* cannot both submit.  A retry after a 5xx is meant to submit again, and keys
\* that time out, a crash or a failing Redis would excuse the middleware.
DuplicatesSubmitOnce ==
    Undisturbed =>
        \A q, r \in submitted :
            Fresh(q) /\ Cacheable(answer[q].status)
                /\ (Fresh(r) => Cacheable(answer[r].status)) => q = r
===============================================================================
