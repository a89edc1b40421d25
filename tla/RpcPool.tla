-------------------------------- MODULE RpcPool --------------------------------
(***************************************************************************)
(* The pool of Soroban RPC endpoints, api/src/services/rpcPool.ts, behind  *)
(* the circuit breaker of the soroban service.  A call goes from endpoint  *)
(* to endpoint until one answers; between the calls a timer looks at the   *)
(* endpoints that were marked unhealthy.                                   *)
(*                                                                         *)
(* The selection strategy (round-robin, latency, random) is left open: any *)
(* healthy provider may be selected.                                       *)
(***************************************************************************)
EXTENDS BreakerConstants, Sequences, FiniteSets

CONSTANTS
    Calls,
    Providers,          \* the configured URLs, as a sequence without duplicates
    ProviderThreshold,  \* rpc.failureThreshold
    Recovery,           \* rpc.recoveryIntervalMs, in ticks
    MaxChecks,          \* bound on the health checks of one provider that overlap
    NoOne

ASSUME PoolAssumption == /\ Providers \in Seq({Providers[i] : i \in DOMAIN Providers}) \ {<<>>}
                         /\ ProviderThreshold \in Nat \ {0}
                         /\ \A i, j \in DOMAIN Providers : Providers[i] = Providers[j] => i = j
                         /\ Recovery \in Nat /\ MaxChecks \in Nat \ {0}

VARIABLES
    state, failureCount, halfOpenRequests, elapsed, running, successes,
    healthy,      \* healthy[p]
    failures,     \* consecutiveFailures[p], counted up to ProviderThreshold
    sinceFailure, \* time since lastFailureAt[p], up to Recovery
    at,           \* the provider a call waits for, NoOne if none
    tried,        \* the providers a call has tried
    attempts,     \* the attempts a call has made
    checking      \* checking[p]: the health checks of p that are under way

breaker == <<state, failureCount, halfOpenRequests, elapsed, running, successes>>
call == <<at, tried, attempts>>
pool == <<healthy, failures, sinceFailure, call, checking>>
vars == <<breaker, pool>>

B == INSTANCE CircuitBreaker

Urls == {Providers[i] : i \in DOMAIN Providers}

Init == /\ B!Init
        /\ healthy = [p \in Urls |-> TRUE]
        /\ failures = [p \in Urls |-> 0]
        /\ sinceFailure = [p \in Urls |-> Recovery]
        /\ at = [c \in Calls |-> NoOne]
        /\ tried = [c \in Calls |-> {}]
        /\ attempts = [c \in Calls |-> 0]
        /\ checking = [p \in Urls |-> 0]

\* selectProvider: a healthy one, the first one when there is none.
Selected(h) == IF \A p \in Urls : ~h[p] THEN {Providers[1]} ELSE {p \in Urls : h[p]}

\* The first provider that has not been tried, healthy or not.
FirstUntried(done) ==
    Providers[CHOOSE i \in DOMAIN Providers :
                /\ Providers[i] \notin done
                /\ \A j \in 1..(i - 1) : Providers[j] \in done]

\* Faulty variant of Choices: a provider that was tried may be tried again.
ChoicesRepeating(h, done) == Selected(h)

\* The providers an attempt may go to.
Choices(h, done) ==
    (Selected(h) \ done) \cup (IF Selected(h) \cap done = {} THEN {} ELSE {FirstUntried(done)})

\* The next attempt of c, against a provider chosen by the marks h.
Attempt(c, h, done) ==
    \E p \in Choices(h, done) :
        /\ at' = [at EXCEPT ![c] = p]
        /\ tried' = [tried EXCEPT ![c] = done \cup {p}]
        /\ attempts' = [attempts EXCEPT ![c] = @ + 1]

\* executeWithFailover returns or throws.
Leave(c) == /\ at' = [at EXCEPT ![c] = NoOne]
            /\ tried' = [tried EXCEPT ![c] = {}]
            /\ attempts' = [attempts EXCEPT ![c] = 0]

\* execute: through the breaker to the first provider.
Call(c) ==
    /\ B!Execute(c)
    /\ Attempt(c, healthy, {})
    /\ UNCHANGED <<healthy, failures, sinceFailure, checking>>

\* The provider answers.  It is not marked healthy here if it was not.
Answer(c) ==
    /\ at[c] # NoOne
    /\ B!OnSuccess(c)
    /\ failures' = [failures EXCEPT ![at[c]] = 0]
    /\ Leave(c)
    /\ UNCHANGED <<healthy, sinceFailure, checking>>

Count(n) == IF n < ProviderThreshold THEN n + 1 ELSE n

\* Faulty variant of MarkFailure: the provider is never marked.
MarkFailureOnly(p) ==
    /\ failures' = [failures EXCEPT ![p] = Count(@)]
    /\ sinceFailure' = [sinceFailure EXCEPT ![p] = 0]
    /\ UNCHANGED healthy

MarkFailure(p) ==
    /\ failures' = [failures EXCEPT ![p] = Count(@)]
    /\ sinceFailure' = [sinceFailure EXCEPT ![p] = 0]
    /\ healthy' = [healthy EXCEPT ![p] = @ /\ Count(failures[p]) < ProviderThreshold]

\* The provider fails, or rejects the request itself: the next one is tried.
Failover(c) ==
    /\ at[c] # NoOne
    /\ attempts[c] < Len(Providers)
    /\ MarkFailure(at[c])
    /\ Attempt(c, healthy', tried[c])
    /\ UNCHANGED <<breaker, checking>>

\* The last attempt fails: the call rejects, through the breaker.
GiveUp(c) ==
    /\ at[c] # NoOne
    /\ attempts[c] = Len(Providers)
    /\ MarkFailure(at[c])
    /\ B!OnFailure(c)
    /\ Leave(c)
    /\ UNCHANGED checking

\* Faulty variant of StartCheck: only a provider that never failed is looked at.
StartCheckNever(p) ==
    /\ ~healthy[p]
    /\ failures[p] = 0
    /\ checking[p] < MaxChecks
    /\ checking' = [checking EXCEPT ![p] = @ + 1]
    /\ UNCHANGED <<breaker, healthy, failures, sinceFailure, call>>

\* runHealthChecks looks at an unhealthy provider that has rested long enough;
\* the timer does not wait for the round before.
StartCheck(p) ==
    /\ ~healthy[p]
    /\ sinceFailure[p] = Recovery
    /\ checking[p] < MaxChecks
    /\ checking' = [checking EXCEPT ![p] = @ + 1]
    /\ UNCHANGED <<breaker, healthy, failures, sinceFailure, call>>

CheckPasses(p) ==
    /\ checking[p] > 0
    /\ checking' = [checking EXCEPT ![p] = @ - 1]
    /\ healthy' = [healthy EXCEPT ![p] = TRUE]
    /\ failures' = [failures EXCEPT ![p] = 0]
    /\ UNCHANGED <<breaker, sinceFailure, call>>

CheckFails(p) ==
    /\ checking[p] > 0
    /\ checking' = [checking EXCEPT ![p] = @ - 1]
    /\ sinceFailure' = [sinceFailure EXCEPT ![p] = 0]
    /\ UNCHANGED <<breaker, healthy, failures, call>>

Older(t, limit) == IF t < limit THEN t + 1 ELSE t

\* Time passes for the breaker and for the pool.
Tick ==
    /\ elapsed < ResetTimeout \/ \E p \in Urls : sinceFailure[p] < Recovery
    /\ elapsed' = Older(elapsed, ResetTimeout)
    /\ sinceFailure' = [p \in Urls |-> Older(sinceFailure[p], Recovery)]
    /\ UNCHANGED <<state, failureCount, halfOpenRequests, running, successes,
                   healthy, failures, call, checking>>

Settle(c) == Answer(c) \/ Failover(c) \/ GiveUp(c)
Failure == (\E c \in Calls : Failover(c) \/ GiveUp(c)) \/ (\E p \in Urls : CheckFails(p))

Next == \/ \E c \in Calls : Call(c)
        \/ \E c \in Calls : Settle(c)
        \/ \E p \in Urls : StartCheck(p)
        \/ \E p \in Urls : CheckPasses(p) \/ CheckFails(p)
        \/ Tick

\* Every request to a provider is answered or fails in the end, the timer keeps
\* firing, time passes, and clients keep calling.
Fairness == /\ \A c \in Calls : WF_vars(Call(c)) /\ WF_vars(Settle(c))
            /\ \A p \in Urls : WF_vars(StartCheck(p)) /\ WF_vars(CheckPasses(p) \/ CheckFails(p))
            /\ WF_vars(Tick)

Spec == Init /\ [][Next]_vars /\ Fairness

-------------------------------------------------------------------------------
\* Type correctness; a call has a provider to wait for exactly while it is inside
\* the breaker, and has counted its attempts.
TypeOK == /\ B!TypeOK
          /\ healthy \in [Urls -> BOOLEAN]
          /\ failures \in [Urls -> 0..ProviderThreshold]
          /\ sinceFailure \in [Urls -> 0..Recovery]
          /\ checking \in [Urls -> 0..MaxChecks]
          /\ tried \in [Calls -> SUBSET Urls]
          /\ \A c \in Calls : /\ attempts[c] = Cardinality(tried[c])
                              /\ IF c \in running THEN at[c] \in tried[c]
                                 ELSE at[c] = NoOne /\ tried[c] = {}

\* A provider is taken out as soon as it has failed often enough in a row, and
\* one that is in use has not, although calls and health checks that overlap
\* write the mark and the count separately.
HealthyMeansFewFailures == \A p \in Urls : healthy[p] => failures[p] < ProviderThreshold

\* The breaker's own invariants, with the pool's calls in it.
CountsMatchState == B!CountsMatchState
ProbesAwaited == B!ProbesAwaited

\* The marks of the providers and the counts of the breaker agree with what the
\* calls in flight are doing.
PoolSound == TypeOK /\ HealthyMeansFewFailures /\ CountsMatchState /\ ProbesAwaited

\* What the breaker's test says of HALF_OPEN, with overlapping calls.
ClosesAfterProbes == [][B!CloseStep]_breaker

\* The pool drives the breaker only as the breaker's specification allows: every
\* call that entered leaves once, as a success or as a failure.
BreakerSpec == B!Spec

\* A call fails only after every provider has failed it: no attempt is spent on
\* a provider twice while the marks change under the loop.
GiveUpStep == \A c \in running : c \notin running' /\ failureCount' > failureCount
                                     => tried[c] = Urls
EachTriedOnce == [][GiveUpStep]_vars

\* Probing ends: the breaker does not stay HALF_OPEN, whatever the results.
HalfOpenEnds == state = "HALF_OPEN" ~> state # "HALF_OPEN"

\* Once nothing fails any more, every provider is used again and the breaker
\* closes and stays closed; and whatever fails, no breaker stays HALF_OPEN.
Recovers == HalfOpenEnds /\
    ((<>[][~Failure]_vars) => <>[](state = "CLOSED" /\ \A p \in Urls : healthy[p]))
===============================================================================
