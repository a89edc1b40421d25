----------------------------- MODULE HealthStatus -----------------------------
\* getHealthStatus of the API: what the dependencies are found to be, one by one while they
\* change, and the cached verdict that the next calls are answered from.
EXTENDS Integers

CONSTANTS
    Dependencies,  \* database, redis, soroban
    Critical,      \* soroban: without an RPC provider the API is unhealthy
    Askers,        \* calls of getHealthStatus that overlap
    CacheTtl       \* CACHE_TTL_MS, in ticks

VARIABLES
    up,        \* [Dependencies -> a check of it would succeed]
    since,     \* [Dependencies -> ticks since a check would have found it so, for each
               \* outcome], up to CacheTtl (history)
    asking,    \* [Askers -> what Promise.all has got, and the time since the call began]
    cached,    \* the results in the cache, None if there are none
    age        \* the time since cachedAt, up to CacheTtl

healthVars == <<up, since, asking, cached, age>>

None == [found |-> [d \in {} |-> TRUE], begun |-> CacheTtl]
Partial == UNION {[D -> BOOLEAN] : D \in SUBSET Dependencies}
Older(t) == IF t < CacheTtl THEN t + 1 ELSE t

HealthTypeOK ==
    /\ up \in [Dependencies -> BOOLEAN]
    /\ since \in [Dependencies -> [BOOLEAN -> 0..CacheTtl]]
    /\ asking \in [Askers -> [found : Partial, begun : 0..CacheTtl, on : BOOLEAN]]
    /\ cached \in Partial /\ age \in 0..CacheTtl

Idle == [found |-> None.found, begun |-> CacheTtl, on |-> FALSE]

Init ==
    /\ up \in [Dependencies -> BOOLEAN]
    /\ since = [d \in Dependencies |-> [ok \in BOOLEAN |-> IF ok = up[d] THEN 0 ELSE CacheTtl]]
    /\ asking = [a \in Askers |-> Idle]
    /\ cached = None.found /\ age = CacheTtl

-------------------------------------------------------------------------------
\* How the results add up.
Status(found) ==
    IF \E d \in Critical : ~found[d] THEN "unhealthy"
    ELSE IF \E d \in Dependencies : ~found[d] THEN "degraded" ELSE "ok"

\* The cache is good for a call that does not force a check.
Fresh == cached # None.found /\ age < CacheTtl

\* A call that the cache does not answer, or that forces a check, takes the time and
\* begins all checks.
Begin(a) ==
    /\ ~asking[a].on
    /\ asking' = [asking EXCEPT ![a] = [Idle EXCEPT !.begun = 0, !.on = TRUE]]
    /\ UNCHANGED <<up, since, cached, age>>

\* checkDatabase, checkRedis or checkSoroban comes back; a failure is a result too.
Found(a, d) ==
    /\ asking[a].on /\ d \notin DOMAIN asking[a].found
    /\ asking' = [asking EXCEPT ![a].found =
                    [e \in DOMAIN @ \cup {d} |-> IF e = d THEN up[d] ELSE @[e]]]
    /\ UNCHANGED <<up, since, cached, age>>

\* Faulty variant of Finish: the cache is dated when the checks are over.
FinishDatedLate(a) ==
    /\ DOMAIN asking[a].found = Dependencies
    /\ cached' = asking[a].found /\ age' = 0
    /\ asking' = [asking EXCEPT ![a] = Idle]
    /\ UNCHANGED <<up, since>>

\* All checks are over: the results are cached as of the time the call began.
Finish(a) ==
    /\ DOMAIN asking[a].found = Dependencies
    /\ cached' = asking[a].found /\ age' = asking[a].begun
    /\ asking' = [asking EXCEPT ![a] = Idle]
    /\ UNCHANGED <<up, since>>

\* invalidateHealthCache
Invalidate ==
    /\ cached # None.found
    /\ cached' = None.found /\ age' = CacheTtl
    /\ UNCHANGED <<up, since, asking>>

Changes(d) ==
    /\ up' = [up EXCEPT ![d] = ~@]
    /\ since' = [since EXCEPT ![d][~up[d]] = 0]
    /\ UNCHANGED <<asking, cached, age>>

Tick ==
    /\ since' = [d \in Dependencies |->
                   [ok \in BOOLEAN |-> IF ok = up[d] THEN 0 ELSE Older(since[d][ok])]]
    /\ asking' = [a \in Askers |-> [asking[a] EXCEPT !.begun = Older(@)]]
    /\ age' = Older(age)
    /\ UNCHANGED <<up, cached>>

HealthNext ==
    \/ \E a \in Askers : Begin(a) \/ Finish(a) \/ (\E d \in Dependencies : Found(a, d))
    \/ \E d \in Dependencies : Changes(d)
    \/ Invalidate \/ Tick

-------------------------------------------------------------------------------
\* The verdict a monitor gets from the cache is no older than the cache may be: every
\* dependency was what it is reported to be within the last CacheTtl, whichever calls
\* overlap and however long their checks take; so an outage that lasts longer is reported.
VerdictIsRecent ==
    Fresh =>
      /\ \A d \in Dependencies : since[d][cached[d]] < CacheTtl
      /\ Status(cached) = "ok" => \A d \in Dependencies : up[d] \/ since[d][TRUE] < CacheTtl
      /\ (\A d \in Critical : up[d] /\ since[d][FALSE] = CacheTtl) => Status(cached) # "unhealthy"
===============================================================================
