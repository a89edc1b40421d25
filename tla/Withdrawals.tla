------------------------------ MODULE Withdrawals ------------------------------
\* Withdrawals from the operator's exchange accounts: clients that call POST /cex/route
\* and retry, and the API processes with the key store and the registry of withdrawals in
\* flight that each has for itself. All calls are for the same withdrawal up to its memo,
\* which the registry's key leaves out, so that a request that joins another's withdrawal
\* shares that one's memo; calls that differ in anything else do not meet. What the exchange
\* does with an order is not told apart: no answer of the API depends on it.
EXTENDS Naturals, Sequences

CONSTANTS
    Processes,     \* the API behind its load balancer
    Legacy,        \* keys of config.apiKeys
    Created,       \* keys an administrator may create
    Calls,         \* the application's calls of routeCexWithdrawal
    MaxRetries,    \* retry.maxRetries of the clients
    MaxAttempts    \* bound of the instance: requests of all calls together

VARIABLES
    keyStore,   \* [Processes -> [Keys -> what the record there allows]]
    issued,     \* the created keys so far: a key is never made twice
    barred,     \* where a key was revoked and not given the scope anew (history)
    call,       \* [Calls -> the client's call]
    attempts    \* the requests so far; one that leads a withdrawal has its order

vars == <<keyStore, issued, barred, call, attempts>>
keyVars == <<keyStore, issued, barred>>

Keys == Legacy \cup Created
Valid == {"withdraws", "does not"}   \* has the scopes cex:read and cex:withdraw, or not
Numbers == DOMAIN attempts
Active == {"waiting", "backoff"}
Ended == {"created", "rejected"}

TypeOK ==
    /\ keyStore \in [Processes -> [Keys -> Valid \cup {"unknown", "revoked"}]]
    /\ issued \subseteq Created
    /\ barred \subseteq Processes \X Keys
    /\ call \in [Calls -> [state : Active \cup Ended \cup {"idle"}, key : Keys,
                           retries : 0..MaxRetries, attempt : 0..MaxAttempts]]
    /\ attempts \in Seq([call : Calls, process : Processes,
                         stage : {"sent", "admitted", "joined", "over"}, leader : 0..MaxAttempts,
                         order : {"none", "sent"},
                         result : {"none", "pending", "failed", "forbidden"}])

\* Faulty variant of Seeded: legacy keys keep the scope.
SeededInFull == [k \in Keys |-> IF k \in Legacy THEN "withdraws" ELSE "unknown"]

\* seedLegacyKeys on an empty store: cex:read without cex:withdraw.
Seeded == [k \in Keys |-> IF k \in Legacy THEN "does not" ELSE "unknown"]

Init ==
    /\ keyStore = [p \in Processes |-> Seeded]
    /\ issued = {} /\ barred = {}
    /\ call \in [Calls -> [state : {"idle"}, key : Keys, retries : {0}, attempt : {0}]]
    /\ attempts = <<>>

-------------------------------------------------------------------------------
\* The key store: createApiKey, updateApiKey, revokeApiKey. Nothing is written to the
\* table, so the other processes do not hear of it.

Create(p, k, scopes) ==
    /\ k \in Created \ issued
    /\ issued' = issued \cup {k}
    /\ keyStore' = [keyStore EXCEPT ![p][k] = scopes]
    /\ UNCHANGED <<barred, call, attempts>>

\* A revoked record stays so, whatever its scopes; the same scopes again change nothing.
Update(p, k, scopes) ==
    /\ keyStore[p][k] \in Valid \ {scopes}
    /\ keyStore' = [keyStore EXCEPT ![p][k] = scopes]
    /\ barred' = IF scopes = "withdraws" THEN barred \ {<<p, k>>} ELSE barred
    /\ UNCHANGED <<issued, call, attempts>>

Revoke(p, k) ==
    /\ keyStore[p][k] # "unknown"
    /\ keyStore' = [keyStore EXCEPT ![p][k] = "revoked"]
    /\ barred' = barred \cup {<<p, k>>}
    /\ UNCHANGED <<issued, call, attempts>>

KeyStep ==
    \E p \in Processes, k \in Keys :
        \/ Revoke(p, k)
        \/ \E scopes \in Valid : Create(p, k, scopes) \/ Update(p, k, scopes)

-------------------------------------------------------------------------------
\* BridgeClient.request

SendAttempt(c, p) ==
    /\ Len(attempts) < MaxAttempts
    /\ attempts' = Append(attempts, [call |-> c, process |-> p, stage |-> "sent", leader |-> 0,
                                     order |-> "none", result |-> "none"])
    /\ call' = [call EXCEPT ![c] = [@ EXCEPT !.state = "waiting", !.attempt = Len(attempts) + 1]]
    /\ UNCHANGED keyVars

Submit(c, p) == call[c].state = "idle" /\ SendAttempt(c, p)
Retry(c, p) == call[c].state = "backoff" /\ SendAttempt(c, p)

\* Network errors and 5xx are retried, whatever x-idempotency-honoured said.
Rejects(c) == call' = [call EXCEPT ![c].state = "rejected"]
RetryOrReject(c) ==
    \/ /\ call[c].retries < MaxRetries
       /\ call' = [call EXCEPT ![c] = [@ EXCEPT !.state = "backoff", !.retries = call[c].retries + 1]]
    \/ Rejects(c)

NetworkError(c) ==
    /\ call[c].state = "waiting"
    /\ RetryOrReject(c)
    /\ UNCHANGED <<keyVars, attempts>>

Timeout(c) ==
    /\ call[c].state = "waiting"
    /\ Rejects(c)
    /\ UNCHANGED <<keyVars, attempts>>

Answered(c) ==
    /\ call[c].state = "waiting" /\ attempts[call[c].attempt].stage = "over"
    /\ LET result == attempts[call[c].attempt].result
       IN  \/ result = "pending" /\ call' = [call EXCEPT ![c].state = "created"]
           \/ result = "forbidden" /\ Rejects(c)
           \/ result = "failed" /\ RetryOrReject(c)
    /\ UNCHANGED <<keyVars, attempts>>

ClientStep ==
    \E c \in Calls :
        \/ \E p \in Processes : Submit(c, p) \/ Retry(c, p)
        \/ NetworkError(c) \/ Timeout(c) \/ Answered(c)

-------------------------------------------------------------------------------
\* rbacAuth, requireScopes, and POST /cex/route with cexService

KeyOf(n) == call[attempts[n].call].key

Over(n, result) == [attempts EXCEPT ![n] = [@ EXCEPT !.stage = "over", !.result = result]]

\* The scopes are copied here, so that what happens to the key later is not seen.
Admit(n) ==
    /\ attempts[n].stage = "sent"
    /\ attempts' = IF keyStore[attempts[n].process][KeyOf(n)] = "withdraws"
                   THEN [attempts EXCEPT ![n].stage = "admitted"]
                   ELSE Over(n, "forbidden")
    /\ UNCHANGED <<keyVars, call>>

\* inFlightWithdrawals has the withdrawal that n leads, for this process and key.
InFlight(n) == attempts[n].leader = n /\ attempts[n].result = "none"
\* Faulty variant of SameWithdrawal: the caller's key is not part of it.
SameOrder(n, m) == attempts[n].process = attempts[m].process
SameWithdrawal(n, m) == attempts[n].process = attempts[m].process /\ KeyOf(n) = KeyOf(m)

Join(n) ==
    /\ attempts[n].stage = "admitted"
    /\ \E m \in Numbers :
          /\ InFlight(m) /\ SameWithdrawal(n, m)
          /\ attempts' = [attempts EXCEPT ![n] = [@ EXCEPT !.stage = "joined", !.leader = m]]
    /\ UNCHANGED <<keyVars, call>>

\* The order is sent unless the circuit breaker is open.
Lead(n) ==
    /\ attempts[n].stage = "admitted"
    /\ ~\E m \in Numbers : InFlight(m) /\ SameWithdrawal(n, m)
    /\ \E order \in {"sent", "none"} :
          attempts' = [attempts EXCEPT
              ![n] = [@ EXCEPT !.stage = "joined", !.leader = n, !.order = order]]
    /\ UNCHANGED <<keyVars, call>>

\* The handler of an exchange resolves and all that await it answer 201 or 502. A reply with a
\* 2xx status and JSON for its body is pending, one that reports an error in that way too, and
\* an id it does not give is made up; any other reply, an unreadable one or the abort after
\* 15 s is failed, whatever the exchange has done or will do.
Settle(n) ==
    /\ InFlight(n)
    /\ \E result \in {"pending", "failed"} :
          /\ result = "pending" => attempts[n].order = "sent"
          /\ attempts' = [m \in Numbers |->
                IF attempts[m].leader = n
                THEN [attempts[m] EXCEPT !.stage = "over", !.result = result]
                ELSE attempts[m]]
    /\ UNCHANGED <<keyVars, call>>

\* A process restarts: its keys are the seeded ones, its requests and its registry gone.
Restart(p) ==
    /\ keyStore' = [keyStore EXCEPT ![p] = Seeded]
    /\ attempts' = [n \in Numbers |->
          IF attempts[n].process = p /\ attempts[n].stage \in {"admitted", "joined"}
          THEN [attempts[n] EXCEPT !.stage = "over", !.result = "failed"]
          ELSE attempts[n]]
    /\ UNCHANGED <<issued, barred, call>>

ServerStep ==
    \/ \E n \in Numbers : Admit(n) \/ Join(n) \/ Lead(n) \/ Settle(n)
    \/ \E p \in Processes : Restart(p)

-------------------------------------------------------------------------------
Next == KeyStep \/ ClientStep \/ ServerStep

Spec == Init /\ [][Next]_vars

-------------------------------------------------------------------------------
\* Whoever is told 201 has had the withdrawal ordered at the exchange with its own key, by its
\* own request or by one that was in flight, whatever else failed, timed out or restarted.
\* That it was executed does not follow.
CreatedIsOrdered ==
    \A c \in Calls : call[c].state = "created" =>
        LET leader == attempts[call[c].attempt].leader
        IN  attempts[leader].order = "sent" /\ KeyOf(leader) = call[c].key

\* All that share a withdrawal are told the same of it, and none of them before it is over: it
\* is never answered to a request that came too late to wait for it.
SharedIsTheSame ==
    \A n \in Numbers : attempts[n].leader # 0 =>
        attempts[n].result = attempts[attempts[n].leader].result

\* Two requests of one caller never have a withdrawal each in flight at one process.
OneInFlight ==
    \A n, m \in Numbers : InFlight(n) /\ InFlight(m) /\ SameWithdrawal(n, m) => n = m

\* What routes/cex.ts says of retries: unless a request was coalesced "the SDK must not retry",
\* so that one call orders one withdrawal. The SDK does not look at the header that says so.
OrderedOnce ==
    \A n, m \in Numbers :
        (attempts[n].call = attempts[m].call /\ attempts[n].order = "sent"
            /\ attempts[m].order = "sent") => n = m

\* One withdrawal for those who wait for it, and theirs.
WithdrawalsAreOwn == TypeOK /\ CreatedIsOrdered /\ SharedIsTheSame /\ OneInFlight

\* A key that was revoked at a process gets no request past it any more, restarts that
\* forget the revocation included, unless an administrator grants the scope anew.
RevokedStaysOut ==
    [][\A n \in Numbers :
          (attempts[n].stage = "sent" /\ attempts'[n].stage = "admitted")
             => <<attempts[n].process, KeyOf(n)>> \notin barred]_vars
===============================================================================
