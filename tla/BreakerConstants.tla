---------------------------- MODULE BreakerConstants ---------------------------
(***************************************************************************)
(* The settings of one circuit breaker: CircuitBreakerConfig, with the     *)
(* defaults of api/src/circuit-breaker.ts.                                 *)
(***************************************************************************)
EXTENDS Integers

CONSTANTS
    FailureThreshold,  \* 5 by default
    ResetTimeout,      \* 30 s by default, in ticks here
    HalfOpenMax        \* halfOpenMaxRequests, 3 by default

ASSUME ThresholdsAssumption == /\ FailureThreshold \in Nat \ {0}
                               /\ ResetTimeout \in Nat
                               /\ HalfOpenMax \in Nat \ {0}
===============================================================================
