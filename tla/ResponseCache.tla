---------------------------- MODULE ResponseCache ----------------------------
\* One key of the response cache: getOrCompute with its stale values, and
\* withSingleFlight with its map of flights in the process and its lock in Redis.
\* A process ends a step at every await. What the loader reads (the transactions, a
\* status on chain) is a version that grows.
EXTENDS Naturals

CONSTANTS
    Processes,    \* API processes that share Redis
    Calls,        \* how many calls of getOrCompute there are
    MaxVersion,   \* bounds of the instance: changes of what is loaded, and
    MaxFaults     \* Redis errors, rejected loads and crashes

ASSUME BoundsAssumption == Calls \in Nat /\ MaxVersion \in Nat /\ MaxFaults \in Nat

\* Calls are numbered as they arrive.
Requests == 1..Calls

VARIABLES
    configured,   \* getClient() # null
    version,      \* of what compute would read now
    entry,        \* the SWREntry under the key
    lock,         \* lock:key is set; Redis does not know by whom
    flights,      \* [Processes -> the flight inFlightMap holds]
    releasing,    \* processes whose DEL of the lock has not reached Redis
    refreshing,   \* processes with a revalidation scheduled by setImmediate
    requests,     \* [Requests -> where getOrCompute is]
    since,        \* [Requests -> newest version answered when it arrived] (history)
    faults,       \* faults so far
    disturbed     \* a flight could not rely on the lock (history)

cacheVars == <<entry, lock, releasing>>
responseVars == <<configured, version, cacheVars, flights, refreshing, requests, since, faults, disturbed>>

Versions == 0..MaxVersion
Nobody == "nobody"   \* the process of a request that waits for none
NoEntry == [version |-> 0, age |-> "none"]
Polling == {"asleep", "polling", "rereading", "checking", "retrying"}
Stages == {"none", "locking", "loading", "saving"} \cup Polling
NoFlight == [stage |-> "none", acquired |-> FALSE, late |-> FALSE, value |-> 0]

CacheTypeOK ==
    /\ configured \in BOOLEAN
    /\ version \in Versions
    /\ entry \in [version : Versions, age : {"none", "fresh", "stale"}]
    /\ lock \in BOOLEAN
    /\ flights \in [Processes -> [stage : Stages, acquired : BOOLEAN, late : BOOLEAN,
                                 value : Versions]]
    /\ releasing \subseteq Processes /\ refreshing \subseteq Processes
    /\ requests \in [Requests -> [at : {"new", "looking", "joined", "answered", "failed", "gone"},
                                 process : Processes \cup {Nobody}, value : Versions]]
    /\ since \in [Requests -> Versions]
    /\ faults \in 0..MaxFaults
    /\ disturbed \in BOOLEAN

CacheInit ==
    /\ configured \in BOOLEAN
    /\ version = 0
    /\ entry = NoEntry
    /\ lock = FALSE /\ releasing = {} /\ refreshing = {}
    /\ flights = [p \in Processes |-> NoFlight]
    /\ requests = [r \in Requests |-> [at |-> "new", process |-> Nobody, value |-> 0]]
    /\ since = [r \in Requests |-> 0]
    /\ faults = 0
    /\ disturbed = FALSE

-------------------------------------------------------------------------------
Present == configured /\ entry.age # "none"
Loading(p) == flights[p].stage \in {"loading", "saving"}
Answers == {requests[r].value : r \in {q \in Requests : requests[q].at = "answered"}}
NewestAnswer == CHOOSE v \in Answers \cup {0} : \A w \in Answers : w <= v

\* A fault is one step's, and from then on the lock promises nothing.
Fault ==
    /\ faults < MaxFaults
    /\ faults' = faults + 1
    /\ disturbed' = TRUE
NoFault == UNCHANGED <<faults, disturbed>>

\* A Redis command answers, or its error is swallowed as if it had answered nothing.
Missed ==
    \/ ~Present /\ NoFault
    \/ configured /\ Fault

Moved(p, stage) == flights' = [flights EXCEPT ![p].stage = stage]

\* withSingleFlight up to its first await: join the flight of the process or start one.
Started(p) ==
    IF flights[p].stage = "none"
    THEN flights' = [flights EXCEPT ![p] = [NoFlight EXCEPT !.stage = "locking"]]
    ELSE UNCHANGED flights

\* The promise of the flight settles: everyone who awaits it goes on, the map forgets
\* it, and the DEL of a lock it believes to hold is sent without waiting.
Ended(p, at, value) ==
    /\ flights' = [flights EXCEPT ![p] = NoFlight]
    /\ requests' = [r \in Requests |->
                     IF requests[r].at = "joined" /\ requests[r].process = p
                     THEN [at |-> at, process |-> Nobody, value |-> value]
                     ELSE requests[r]]
    /\ releasing' = IF flights[p].acquired /\ configured THEN releasing \cup {p} ELSE releasing

-------------------------------------------------------------------------------
\* getOrCompute

Arrive(r, p) ==
    /\ requests[r].at = "new"
    /\ r > 1 => requests[r - 1].at # "new"
    /\ requests' = [requests EXCEPT ![r] = [@ EXCEPT !.at = "looking", !.process = p]]
    /\ since' = [since EXCEPT ![r] = NewestAnswer]
    /\ UNCHANGED <<configured, version, cacheVars, flights, refreshing, faults, disturbed>>

\* A hit answers at once; a stale one schedules a revalidation.
Hit(r) ==
    /\ requests[r].at = "looking"
    /\ Present
    /\ requests' = [requests EXCEPT ![r] =
                     [at |-> "answered", process |-> Nobody, value |-> entry.version]]
    /\ refreshing' = IF entry.age = "stale" THEN refreshing \cup {requests[r].process}
                     ELSE refreshing
    /\ UNCHANGED <<configured, version, cacheVars, flights, since, faults, disturbed>>

Miss(r) ==
    /\ requests[r].at = "looking"
    /\ Missed
    /\ requests' = [requests EXCEPT ![r].at = "joined"]
    /\ Started(requests[r].process)
    /\ UNCHANGED <<configured, version, cacheVars, refreshing, since>>

Revalidate(p) ==
    /\ p \in refreshing
    /\ refreshing' = refreshing \ {p}
    /\ Started(p)
    /\ UNCHANGED <<configured, version, cacheVars, requests, since, faults, disturbed>>

-------------------------------------------------------------------------------
\* withSingleFlight

\* Faulty variant of Acquire: SET without NX.
AcquireAnyway(p) ==
    /\ flights[p].stage = "locking" /\ p \notin releasing
    /\ flights' = [flights EXCEPT ![p] = [@ EXCEPT !.stage = "loading", !.acquired = TRUE]]
    /\ lock' = configured
    /\ NoFault
    /\ UNCHANGED <<configured, version, entry, releasing, refreshing, requests, since>>

\* acquireRedisLock: SET NX, which counts as acquired on an error and without Redis.
\* The connection keeps a process's commands in order.
Acquire(p) ==
    /\ flights[p].stage = "locking" /\ p \notin releasing
    /\ \/ /\ configured /\ lock
          /\ Moved(p, "asleep")
          /\ UNCHANGED lock
          /\ NoFault
       \/ /\ configured /\ ~lock
          /\ flights' = [flights EXCEPT ![p] = [@ EXCEPT !.stage = "loading", !.acquired = TRUE]]
          /\ lock' = TRUE
          /\ NoFault
       \/ /\ flights' = [flights EXCEPT ![p] = [@ EXCEPT !.stage = "loading", !.acquired = TRUE]]
          /\ UNCHANGED lock
          /\ IF configured THEN Fault ELSE NoFault
    /\ UNCHANGED <<configured, version, entry, releasing, refreshing, requests, since>>

\* Faulty variant of Wake: polls on whatever the deadline.
WakeAgain(p) ==
    /\ flights[p].stage = "asleep"
    /\ Moved(p, "polling")
    /\ UNCHANGED <<configured, version, cacheVars, refreshing, requests, since, faults, disturbed>>

\* The 50 ms between two polls, and the deadline, which is looked at after them.
Wake(p) ==
    /\ flights[p].stage = "asleep"
    /\ Moved(p, IF flights[p].late THEN "loading" ELSE "polling")
    /\ disturbed' = (disturbed \/ flights[p].late)
    /\ UNCHANGED <<configured, version, cacheVars, refreshing, requests, since, faults>>

Deadline(p) ==
    /\ flights[p].stage \in Polling /\ ~flights[p].late
    /\ flights' = [flights EXCEPT ![p].late = TRUE]
    /\ UNCHANGED <<configured, version, cacheVars, refreshing, requests, since, faults, disturbed>>

\* swrGet, cacheGet and, once the lock is gone, swrGet again.
PollFinds(p) ==
    /\ flights[p].stage \in {"polling", "rereading", "retrying"}
    /\ Present
    /\ Ended(p, "answered", entry.version)
    /\ UNCHANGED <<configured, version, entry, lock, refreshing, since, faults, disturbed>>

PollFindsNone(p) ==
    /\ flights[p].stage \in {"polling", "rereading", "retrying"}
    /\ Missed
    /\ Moved(p, CASE flights[p].stage = "polling" -> "rereading"
                  [] flights[p].stage = "rereading" -> "checking"
                  [] flights[p].stage = "retrying" -> "loading")
    /\ UNCHANGED <<configured, version, cacheVars, refreshing, requests, since>>

\* Faulty variant of CheckLock: loads once the lock is gone without another look.
CheckLockOnly(p) ==
    /\ flights[p].stage = "checking"
    /\ Moved(p, IF lock THEN "asleep" ELSE "loading")
    /\ NoFault
    /\ UNCHANGED <<configured, version, cacheVars, refreshing, requests, since>>

\* The poll looks whether the lock is still there; an error ends the wait.
CheckLock(p) ==
    /\ flights[p].stage = "checking"
    /\ \/ Moved(p, IF lock THEN "asleep" ELSE "retrying") /\ NoFault
       \/ Moved(p, "loading") /\ Fault
    /\ UNCHANGED <<configured, version, cacheVars, refreshing, requests, since>>

\* fn: compute, then swrSet.
Compute(p) ==
    /\ flights[p].stage = "loading"
    /\ flights' = [flights EXCEPT ![p] = [@ EXCEPT !.stage = "saving", !.value = version]]
    /\ UNCHANGED <<configured, version, cacheVars, refreshing, requests, since, faults, disturbed>>

ComputeRejects(p) ==
    /\ flights[p].stage = "loading"
    /\ Fault
    /\ Ended(p, "failed", 0)
    /\ UNCHANGED <<configured, version, entry, lock, refreshing, since>>

Save(p) ==
    /\ flights[p].stage = "saving"
    /\ \/ configured /\ entry' = [version |-> flights[p].value, age |-> "fresh"] /\ NoFault
       \/ configured /\ UNCHANGED entry /\ Fault
       \/ ~configured /\ UNCHANGED entry /\ NoFault
    /\ Ended(p, "answered", flights[p].value)
    /\ UNCHANGED <<configured, version, lock, refreshing, since>>

\* releaseRedisLock: deletes the lock, whoever set it.
Release(p) ==
    /\ p \in releasing
    /\ releasing' = releasing \ {p}
    /\ \/ lock' = FALSE /\ NoFault
       \/ UNCHANGED lock /\ Fault
    /\ UNCHANGED <<configured, version, entry, flights, refreshing, requests, since>>

-------------------------------------------------------------------------------
\* Redis and the world

\* The lock's TTL. A flight that still needs it is disturbed.
LockExpires ==
    /\ lock
    /\ lock' = FALSE
    /\ disturbed' = (disturbed \/ \E p \in Processes : flights[p].stage # "none" \/ p \in releasing)
    /\ UNCHANGED <<configured, version, entry, releasing, flights, refreshing, requests, since, faults>>

Stales ==
    /\ entry.age = "fresh"
    /\ entry' = [entry EXCEPT !.age = "stale"]
    /\ UNCHANGED <<configured, version, lock, releasing, flights, refreshing, requests, since,
                   faults, disturbed>>

\* The extended TTL of the entry, or an eviction. Whoever polls for the value, or finds
\* its lock still there, misses it.
EntryExpires ==
    /\ entry.age # "none"
    /\ entry' = NoEntry
    /\ disturbed' = (disturbed \/ releasing # {} \/ \E p \in Processes : flights[p].stage \in Polling)
    /\ UNCHANGED <<configured, version, lock, releasing, flights, refreshing, requests, since, faults>>

SourceChanges ==
    /\ version < MaxVersion
    /\ version' = version + 1
    /\ UNCHANGED <<configured, cacheVars, flights, refreshing, requests, since, faults, disturbed>>

Crash(p) ==
    /\ Fault
    /\ flights' = [flights EXCEPT ![p] = NoFlight]
    /\ releasing' = releasing \ {p} /\ refreshing' = refreshing \ {p}
    /\ requests' = [r \in Requests |->
                     IF requests[r].process = p /\ requests[r].at \in {"looking", "joined"}
                     THEN [requests[r] EXCEPT !.at = "gone", !.process = Nobody] ELSE requests[r]]
    /\ UNCHANGED <<configured, version, entry, lock, since>>

Lookup(r) == Hit(r) \/ Miss(r)
FlightStep(p) ==
    \/ Acquire(p) \/ Wake(p) \/ PollFinds(p) \/ PollFindsNone(p) \/ CheckLock(p)
    \/ Compute(p) \/ ComputeRejects(p) \/ Save(p)

CacheNext ==
    \/ \E r \in Requests : Lookup(r) \/ \E p \in Processes : Arrive(r, p)
    \/ \E p \in Processes : Revalidate(p) \/ FlightStep(p) \/ Deadline(p) \/ Release(p) \/ Crash(p)
    \/ LockExpires \/ Stales \/ EntryExpires \/ SourceChanges

\* Redis answers or reports an error, a load ends, timers fire. Nothing forces a
\* request, a fault, or an entry's end.
CacheFairness ==
    /\ \A r \in Requests : WF_responseVars(Lookup(r))
    /\ \A p \in Processes :
          /\ WF_responseVars(Revalidate(p)) /\ WF_responseVars(FlightStep(p))
          /\ WF_responseVars(Deadline(p)) /\ WF_responseVars(Release(p))

CacheSpec == CacheInit /\ [][CacheNext]_responseVars /\ CacheFairness

-------------------------------------------------------------------------------
\* No stampede: while Redis and the loader work, the lock outlives its holder and the
\* entry the polls for it, at most one process loads, whatever stale hits, misses and
\* flights of other processes are under way.
OneLoadAtATime ==
    configured /\ ~disturbed => \A p, q \in Processes : Loading(p) /\ Loading(q) => p = q

\* withSingleFlight does what its name says, across processes.
SingleFlight == CacheTypeOK /\ OneLoadAtATime

\* Nobody sees the data go back: a request that arrives after another was answered
\* gets no older version, be it from the cache, a poll or a flight it joins, unless a
\* fault let two loads overlap.
AnswersNeverGoBack ==
    configured /\ ~disturbed =>
        \A r \in Requests : requests[r].at = "answered" => requests[r].value >= since[r]

\* A request is never left waiting: neither on a flight of its process, nor on the
\* lock of a process that crashed, nor on a loader that was rejected.
EveryRequestEnds ==
    \A r \in Requests :
        requests[r].at = "looking" ~> requests[r].at \in {"answered", "failed", "gone"}
===============================================================================
