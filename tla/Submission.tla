------------------------------ MODULE Submission ------------------------------
\* A signed transaction on its way: the SDK's call with its retries and its queue entry,
\* the API's request tracker, idempotency middleware and POST /fund handler, the failover
\* over RPC providers, and the API going down and up. The middleware's two Redis keys are
\* taken to work here; what their failures do is the subject of Idempotency.
EXTENDS Sequences, Transaction, Envelope

CONSTANTS
    Providers,    \* how many RPC providers the pool has
    MaxRetries,   \* retry.maxRetries of the client
    MaxRequests   \* bound of the instance: requests of one call, replays included

VARIABLES
    envelope,     \* what the rules and submitTransaction make of the envelope, see Class
    call,         \* where the application's call is
    keyGiven,     \* the caller passes an idempotency key, as useFund does
    key,          \* the key of the call or of its queue entry
    replaying,    \* the call lives on as an entry of the offline queue
    retries,      \* attempt of BridgeClient.request
    requests,     \* the requests sent so far, and how far the server is with each
    stored,       \* [key -> the answer the middleware stored for it]
    locked,       \* the keys a handler has reserved
    server,       \* GracefulShutdown: "up", "draining", then "closed"
    active,       \* activeRequests
    expired       \* the drain ran into its timeout (history)

transaction == <<chain, elapsed, tracked, lagging>>
callVars == <<envelope, call, keyGiven, key, replaying, retries>>
keyVars == <<stored, locked>>
serverVars == <<server, active, expired>>
vars == <<transaction, callVars, requests, keyVars, serverVars>>

Answers == {"created", "invalid", "rejected", "conflict", "unavailable"}  \* 201, 400, 422, 409, 5xx
Ended == (Answers \ {"created"}) \cup {"failed", "timed out"}
Keys == 1..MaxRequests + 1
Numbers == DOMAIN requests
Running == {n \in Numbers : requests[n].stage \in {"looking", "reserving", "submitting"}}
Awaited(n) == n = Len(requests) /\ call = "waiting"

TypeOK ==
    /\ TransactionTypeOK
    /\ envelope \in {"sound", "unreadable", "refused"}
    /\ call \in Answers \cup Ended \cup {"idle", "waiting", "backoff", "queued"}
    /\ keyGiven \in BOOLEAN /\ replaying \in BOOLEAN
    /\ key \in Keys \cup {0} /\ retries \in 0..MaxRetries
    /\ requests \in Seq([key : Keys, tried : 0..Providers, open : BOOLEAN, unheard : BOOLEAN,
                         stage : {"sent", "looking", "reserving", "submitting", "answered", "dead"},
                         answer : Answers \cup {"none"}])
    /\ stored \in [Keys -> Answers \cup {"none"}] /\ locked \subseteq Keys
    /\ server \in {"up", "draining", "closed"} /\ expired \in BOOLEAN
    /\ active \in Nat

Init ==
    /\ chain = "unknown" /\ elapsed = FALSE /\ tracked = FALSE /\ lagging = TRUE
    /\ \E e \in Envelopes : envelope = Class(e)
    /\ call = "idle" /\ keyGiven \in BOOLEAN /\ key = 0 /\ replaying = FALSE /\ retries = 0
    /\ requests = <<>>
    /\ stored = [k \in Keys |-> "none"] /\ locked = {}
    /\ server = "up" /\ active = 0 /\ expired = FALSE

-------------------------------------------------------------------------------
\* BridgeClient.request and OfflineBridgeClient

SendRequest(k) ==
    /\ Len(requests) < MaxRequests
    /\ requests' = Append(requests, [key |-> k, stage |-> "sent", tried |-> 0,
                                     open |-> FALSE, unheard |-> FALSE, answer |-> "none"])

\* The application submits, or submits again after a failure: with the key it keeps, or
\* without one, so that the client makes one.
Submit ==
    /\ call \in Ended \cup {"idle"}
    /\ key' = IF keyGiven THEN 1 ELSE key + 1
    /\ SendRequest(key')
    /\ call' = "waiting" /\ retries' = 0 /\ replaying' = FALSE
    /\ UNCHANGED <<transaction, envelope, keyGiven, keyVars, serverVars>>

Retry ==
    /\ call = "backoff"
    /\ SendRequest(key)
    /\ call' = "waiting"
    /\ UNCHANGED <<transaction, envelope, keyGiven, key, replaying, retries, keyVars, serverVars>>

\* The health poll finds the server online and the queue sends its entry.
Replay ==
    /\ call = "queued"
    /\ SendRequest(key)
    /\ call' = "waiting" /\ retries' = 0 /\ replaying' = TRUE
    /\ UNCHANGED <<transaction, envelope, keyGiven, key, keyVars, serverVars>>

\* A retryable failure: another attempt unless maxRetries or the budget is used up.
RetryOr(end) ==
    \/ /\ retries < MaxRetries
       /\ call' = "backoff" /\ retries' = retries + 1
       /\ UNCHANGED <<key, replaying>>
    \/ end /\ UNCHANGED retries

\* After the last network error the call is queued, with its key or one made for the
\* entry, or fails if the client has no queue. An entry stays queued or is dead-lettered.
GivesUp ==
    \/ call' = "failed" /\ UNCHANGED <<key, replaying>>
    \/ /\ call' = "queued"
       /\ key' = IF keyGiven \/ replaying THEN key ELSE key + 1
       /\ replaying' = TRUE

NetworkError ==
    /\ call = "waiting"
    /\ RetryOr(GivesUp)
    /\ UNCHANGED <<transaction, envelope, keyGiven, requests, keyVars, serverVars>>

Timeout ==
    /\ call = "waiting"
    /\ call' = "timed out"
    /\ UNCHANGED <<transaction, envelope, keyGiven, key, replaying, retries, requests, keyVars, serverVars>>

Answered ==
    /\ call = "waiting" /\ requests[Len(requests)].stage = "answered"
    /\ LET answer == requests[Len(requests)].answer
           end == call' = answer /\ UNCHANGED <<key, replaying>>
       IN  IF answer = "unavailable" THEN RetryOr(end) ELSE end /\ UNCHANGED retries
    /\ UNCHANGED <<transaction, envelope, keyGiven, requests, keyVars, serverVars>>

ClientStep == Submit \/ Retry \/ Replay \/ NetworkError \/ Timeout \/ Answered

-------------------------------------------------------------------------------
\* requestTracker, idempotencyMiddleware and POST /fund

\* Faulty variant of Released: 'close' and 'finish' both count, and never below zero.
ReleasedTwice(n) == active' = IF active > 0 THEN active - 1 ELSE 0

\* decrement, once for each request: on 'finish' or on 'close', whichever is first.
Released(n) == active' = IF requests[n].open THEN active - 1 ELSE active

Arrive(n) ==
    /\ requests[n].stage = "sent" /\ server # "closed"
    /\ IF server = "up"
       THEN /\ requests' = [requests EXCEPT ![n] = [@ EXCEPT !.stage = "looking", !.open = TRUE]]
            /\ active' = active + 1
       ELSE /\ requests' = [requests EXCEPT ![n] = [@ EXCEPT !.stage = "answered", !.answer = "unavailable"]]
            /\ UNCHANGED active
    /\ UNCHANGED <<transaction, callVars, keyVars, server, expired>>

\* 'close': the client is gone, while the handler goes on.
HangUp(n) ==
    /\ n \in Running /\ requests[n].open /\ ~Awaited(n)
    /\ requests' = [requests EXCEPT ![n].open = FALSE]
    /\ Released(n)
    /\ UNCHANGED <<transaction, callVars, keyVars, server, expired>>

Finish(n, answer) ==
    /\ requests' = [requests EXCEPT ![n] =
                      [@ EXCEPT !.stage = "answered", !.answer = answer, !.open = FALSE]]
    /\ Released(n)
    /\ UNCHANGED <<callVars, server, expired>>

Look(n) ==
    /\ requests[n].stage = "looking" /\ server # "closed"
    /\ IF stored[requests[n].key] # "none"
       THEN Finish(n, stored[requests[n].key])
       ELSE /\ requests' = [requests EXCEPT ![n].stage = "reserving"]
            /\ UNCHANGED <<callVars, serverVars>>
    /\ UNCHANGED <<transaction, keyVars>>

\* res.json of the middleware keeps what is not a 5xx and frees the key.
Respond(n, answer) ==
    /\ Finish(n, answer)
    /\ stored' = IF answer = "unavailable" THEN stored
                 ELSE [stored EXCEPT ![requests[n].key] = answer]
    /\ locked' = locked \ {requests[n].key}

\* validateXdr. Hashes are never recorded as seen, so rule 11 refuses nothing.
Refuses == envelope = "refused" \/ elapsed

\* The handler starts with the key reserved. It answers 400 to an envelope that breaks
\* a rule and 500 to one that it cannot read; of another it remembers the time bounds.
Reserve(n) ==
    /\ requests[n].stage = "reserving" /\ server # "closed"
    /\ UNCHANGED <<chain, elapsed, lagging>>
    /\ \/ /\ requests[n].key \in locked
          /\ Finish(n, "conflict")
          /\ UNCHANGED <<keyVars, tracked>>
       \/ /\ requests[n].key \notin locked
          /\ Refuses \/ envelope = "unreadable"
          /\ Respond(n, IF Refuses THEN "invalid" ELSE "unavailable")
          /\ UNCHANGED tracked
       \/ /\ requests[n].key \notin locked
          /\ ~Refuses /\ envelope = "sound"
          /\ locked' = locked \cup {requests[n].key}
          /\ tracked' = TRUE
          /\ requests' = [requests EXCEPT ![n].stage = "submitting"]
          /\ UNCHANGED <<stored, callVars, serverVars>>

\* A provider accepts what it does not know, within the time bounds, and answers
\* DUPLICATE to what it knows.
Accepted ==
    \/ chain = "unknown" /\ ~elapsed /\ chain' = "pending"
    \/ chain # "unknown" /\ UNCHANGED chain
Sending(n) == requests[n].stage = "submitting" /\ server # "closed"

ProviderAccepts(n) ==
    /\ Sending(n)
    /\ Accepted
    /\ Respond(n, "created")
    /\ UNCHANGED <<elapsed, tracked, lagging>>

\* Faulty variant of ProviderRefuses: TRY_AGAIN_LATER passes for an acceptance.
ProviderRefusesKindly(n) ==
    /\ Sending(n)
    /\ \E answer \in {"rejected", "created"} : Respond(n, answer)
    /\ UNCHANGED transaction

\* ERROR makes a 422. TRY_AGAIN_LATER is thrown after the failover and makes a 500.
ProviderRefuses(n) ==
    /\ Sending(n)
    /\ \E answer \in {"rejected", "unavailable"} : Respond(n, answer)
    /\ UNCHANGED transaction

\* The connection fails before or after the provider accepted: the pool tries the next.
ProviderFails(n) ==
    /\ Sending(n)
    /\ \E unheard \in BOOLEAN :
          LET seen == [requests[n] EXCEPT !.unheard = @ \/ unheard, !.tried = @ + 1]
          IN  /\ IF unheard THEN Accepted ELSE UNCHANGED chain
              /\ IF seen.tried < Providers
                 THEN /\ requests' = [requests EXCEPT ![n] = seen]
                      /\ UNCHANGED <<callVars, keyVars, serverVars>>
                 ELSE /\ requests' = [requests EXCEPT ![n] =
                            [seen EXCEPT !.stage = "answered", !.answer = "unavailable", !.open = FALSE]]
                      /\ Released(n)
                      /\ locked' = locked \ {requests[n].key}
                      /\ UNCHANGED <<callVars, stored, server, expired>>
    /\ UNCHANGED <<elapsed, tracked, lagging>>

LockExpires ==
    /\ \E k \in locked : locked' = locked \ {k}
    /\ UNCHANGED <<transaction, callVars, requests, stored, serverVars>>

HandlerStep ==
    \/ \E n \in Numbers :
          \/ Arrive(n) \/ HangUp(n) \/ Look(n) \/ Reserve(n)
          \/ ProviderAccepts(n) \/ ProviderRefuses(n) \/ ProviderFails(n)
    \/ LockExpires

-------------------------------------------------------------------------------
\* GracefulShutdown

Drain ==
    /\ server = "up"
    /\ server' = "draining"
    /\ UNCHANGED <<transaction, callVars, requests, keyVars, active, expired>>

\* The last request is over, or the timeout is.
Close ==
    /\ server = "draining"
    /\ server' = "closed" /\ expired' = (active # 0)
    /\ UNCHANGED <<transaction, callVars, requests, keyVars, active>>

\* The process ends, crashed or closed, and another one starts with an empty memory.
Restart ==
    /\ server' = "up" /\ active' = 0 /\ expired' = FALSE
    /\ requests' = [n \in Numbers |->
                      IF n \in Running THEN [requests[n] EXCEPT !.stage = "dead", !.open = FALSE]
                      ELSE requests[n]]
    /\ tracked' = FALSE
    /\ UNCHANGED <<chain, elapsed, lagging, callVars, keyVars>>

-------------------------------------------------------------------------------
NetworkStep == TransactionStep /\ UNCHANGED <<callVars, requests, keyVars, serverVars>>

Next == ClientStep \/ HandlerStep \/ Drain \/ Close \/ Restart \/ NetworkStep

Spec == Init /\ [][Next]_vars

-------------------------------------------------------------------------------
\* An acceptance the application could not hear of: the provider's reply to the pool was
\* lost, or nobody waited for the answer any more.
Unheard ==
    \E n \in Numbers : \/ requests[n].unheard
                       \/ requests[n].answer = "created" /\ ~Awaited(n)

\* What the application is told is so, through retries, replays, failovers and restarts:
\* created, by a handler or from the store, means the network has the transaction;
\* rejected, or invalid, means that it does not, unless an acceptance went unheard; and
\* invalid is said of what breaks a rule or came too late, never of a transaction
\* because it was sent before.
OutcomeTrue ==
    /\ call = "created" => chain # "unknown"
    /\ \A k \in Keys : stored[k] = "created" => chain # "unknown"
    /\ call \in {"rejected", "invalid"} /\ chain # "unknown" => Unheard
    /\ call = "invalid" => envelope = "refused" \/ elapsed

\* The network gets nothing through the API that breaks a rule.
OnlySoundIsSent == envelope # "sound" => chain = "unknown"

\* Nothing on the way turns an outcome into another.
OutcomesAreTrue == TypeOK /\ OutcomeTrue /\ OnlySoundIsSent

\* A server that closed without its timeout cut off no request with a client on the line.
DrainedClean ==
    server = "closed" /\ ~expired => \A n \in Running : ~requests[n].open
===============================================================================
