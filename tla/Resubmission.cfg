SPECIFICATION Resubmitting
CONSTANTS
    r1 = r1
    r2 = r2
    r3 = r3
    Requests <- MCRequests
    Bodies = {"a", "b"}
    BodyOf <- MCBodyOf
    MaxFaults = 1
    None = None
    MaxEntries = 3
    MaxSize = 2
    MaxRetries = 2
    MaxWrites = 1
    MaxCrashes = 1
    MaxClears = 1
INVARIANTS DuplicatesAreSafe EntriesAreKept
PROPERTIES EventuallyAnswered EventuallyResolved
CHECK_DEADLOCK FALSE
