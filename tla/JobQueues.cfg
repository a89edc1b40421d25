SPECIFICATION Serving
CONSTANTS
    Deliveries = {d1}
    Retries = 2
    JobAttempts = 2
    MaxRestarts = 2
    MaxLostReplies = 1
    Increments = {a, b}
    Fundings = {f}
    Threshold = 0
INVARIANTS DeliveriesAreSound EventsAreCounted
PROPERTIES EventuallyDone
CHECK_DEADLOCK FALSE
