SPECIFICATION Running
CONSTANTS
    c1 = c1
    c2 = c2
    p1 = p1
    p2 = p2
    Calls <- MCCalls
    Providers <- MCProviders
    ProviderThreshold = 2
    Recovery = 1
    MaxChecks = 2
    FailureThreshold = 2
    ResetTimeout = 1
    HalfOpenMax = 2
    NoOne = NoOne
    Dependencies = {"database", "soroban"}
    Critical = {"soroban"}
    Askers = {a1, a2}
    CacheTtl = 2
INVARIANTS PoolSound HealthIsRecent
PROPERTIES
    EachTriedOnce
    Recovers
