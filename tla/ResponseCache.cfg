SPECIFICATION CacheSpec
CONSTANTS
    Processes = {p1, p2}
    Calls = 3
    MaxVersion = 1
    MaxFaults = 1
INVARIANTS SingleFlight AnswersNeverGoBack
PROPERTY EveryRequestEnds
CHECK_DEADLOCK FALSE
