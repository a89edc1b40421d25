----------------------------- MODULE CircuitBreaker ----------------------------
(***************************************************************************)
(* The circuit breaker of api/src/circuit-breaker.ts, one per upstream     *)
(* service.  execute runs to its await of fn without interruption, and so  *)
(* do onSuccess and onFailure; any number of calls is inside fn at once,   *)
(* and a call may come back in another state than the one that admitted    *)
(* it.                                                                     *)
(***************************************************************************)
EXTENDS BreakerConstants, FiniteSets

CONSTANT Calls     \* the callers of execute; each makes call after call

VARIABLES
    state,             \* CLOSED, OPEN or HALF_OPEN
    failureCount,
    halfOpenRequests,
    elapsed,           \* time since lastFailureTime, up to ResetTimeout
    running,           \* calls that are inside fn
    successes          \* history: successes since the breaker went HALF_OPEN

vars == <<state, failureCount, halfOpenRequests, elapsed, running, successes>>

States == {"CLOSED", "OPEN", "HALF_OPEN"}

Init == /\ state = "CLOSED"
        /\ failureCount = 0
        /\ halfOpenRequests = 0
        /\ elapsed = ResetTimeout
        /\ running = {}
        /\ successes = 0

\* execute up to the call of fn, when it does not throw CircuitOpenError: an
\* OPEN breaker whose time is over turns HALF_OPEN, and a HALF_OPEN one counts
\* the probes it lets in.
Execute(c) ==
    /\ c \notin running
    /\ \/ /\ state = "CLOSED"
          /\ UNCHANGED <<state, failureCount, halfOpenRequests>>
       \/ /\ state = "OPEN"
          /\ elapsed = ResetTimeout
          /\ state' = "HALF_OPEN"
          /\ failureCount' = 0
          /\ halfOpenRequests' = 1
       \/ /\ state = "HALF_OPEN"
          /\ halfOpenRequests < HalfOpenMax
          /\ halfOpenRequests' = halfOpenRequests + 1
          /\ UNCHANGED <<state, failureCount>>
    /\ running' = running \cup {c}
    /\ UNCHANGED <<elapsed, successes>>

\* onSuccess, for a call of this or of an earlier period: in HALF_OPEN it closes
\* the breaker when enough probes have been let in.
OnSuccess(c) ==
    /\ c \in running
    /\ running' = running \ {c}
    /\ \/ /\ state = "HALF_OPEN"
          /\ halfOpenRequests - failureCount >= HalfOpenMax
          /\ state' = "CLOSED"
          /\ failureCount' = 0
          /\ halfOpenRequests' = 0
          /\ successes' = 0
       \/ /\ state = "HALF_OPEN"
          /\ halfOpenRequests - failureCount < HalfOpenMax
          /\ successes' = successes + 1
          /\ UNCHANGED <<state, failureCount, halfOpenRequests>>
       \/ /\ state # "HALF_OPEN"
          /\ failureCount' = 0
          /\ UNCHANGED <<state, halfOpenRequests, successes>>
    /\ UNCHANGED elapsed

\* onFailure, likewise; in OPEN it only postpones the next probe.
OnFailure(c) ==
    /\ c \in running
    /\ running' = running \ {c}
    /\ failureCount' = failureCount + 1
    /\ elapsed' = 0
    /\ \/ /\ state = "HALF_OPEN"
          /\ state' = "OPEN"
          /\ halfOpenRequests' = 0
          /\ successes' = 0
       \/ /\ state = "CLOSED"
          /\ failureCount + 1 >= FailureThreshold
          /\ state' = "OPEN"
          /\ UNCHANGED <<halfOpenRequests, successes>>
       \/ /\ state = "OPEN" \/ (state = "CLOSED" /\ failureCount + 1 < FailureThreshold)
          /\ UNCHANGED <<state, halfOpenRequests, successes>>

Pass == /\ elapsed < ResetTimeout
        /\ elapsed' = elapsed + 1
        /\ UNCHANGED <<state, failureCount, halfOpenRequests, running, successes>>

Next == \/ \E c \in Calls : Execute(c) \/ OnSuccess(c) \/ OnFailure(c)
        \/ Pass

Spec == Init /\ [][Next]_vars

-------------------------------------------------------------------------------
TypeOK == /\ state \in States
          /\ failureCount \in Nat
          /\ halfOpenRequests \in 0..HalfOpenMax
          /\ elapsed \in 0..ResetTimeout
          /\ running \subseteq Calls
          /\ successes \in Nat

\* The failure count means something in each state, whatever calls of earlier
\* periods come back late: below the threshold while CLOSED, nil while probing.
CountsMatchState ==
    /\ state = "CLOSED" => failureCount < FailureThreshold
    /\ state = "HALF_OPEN" => failureCount = 0 /\ halfOpenRequests > 0
    /\ state # "HALF_OPEN" => halfOpenRequests = 0

\* A HALF_OPEN breaker that lets nobody in waits for somebody: there is a call
\* inside fn whose result opens or closes it.
ProbesAwaited ==
    state = "HALF_OPEN" /\ halfOpenRequests = HalfOpenMax => running # {}

\* What the test "closes after halfOpenMaxRequests successes in HALF_OPEN" says:
\* the breaker closes on its halfOpenMaxRequests-th success, not earlier.
CloseStep == state = "HALF_OPEN" /\ state' = "CLOSED" => successes + 1 >= HalfOpenMax
ClosesAfterProbes == [][CloseStep]_vars
===============================================================================
