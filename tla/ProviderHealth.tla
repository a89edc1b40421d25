---------------------------- MODULE ProviderHealth ----------------------------
\* Instance of RpcPool for TLC, with the health endpoint beside it. The pool's marks are
\* one of the dependencies HealthStatus looks at; what makes them change is left open there,
\* so an execution runs either the pool or the endpoint.
EXTENDS RpcPool

CONSTANTS c1, c2, p1, p2, Dependencies, Critical, Askers, CacheTtl
MCCalls == {c1, c2}
MCProviders == <<p1, p2>>

ASSUME DependenciesAssumption == Critical \subseteq Dependencies /\ CacheTtl \in Nat \ {0}

VARIABLES
    part,       \* what this execution runs
    up, since, asking, cached, age    \* the variables of HealthStatus

H == INSTANCE HealthStatus

healthVars == <<up, since, asking, cached, age>>

Begins ==
    /\ part \in {"pool", "health"}
    /\ Init /\ H!Init /\ (part = "pool" => \A d \in Dependencies : up[d])

Step ==
    /\ UNCHANGED part
    /\ \/ part = "pool" /\ Next /\ UNCHANGED healthVars
       \/ part = "health" /\ H!HealthNext /\ UNCHANGED vars

\* The pool's fairness asks for calls, which are not made where the endpoint runs.
Running ==
    /\ Begins /\ [][Step]_<<part, vars, healthVars>>
    /\ part = "pool" => Fairness

-------------------------------------------------------------------------------
\* HealthStatus: a verdict from the cache is no older than the cache may be.
HealthIsRecent == H!HealthTypeOK /\ H!VerdictIsRecent
===============================================================================
