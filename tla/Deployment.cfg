SPECIFICATION Deploying
CONSTANTS
    Processes = {p, q}
    StepChoices = {1, 3, 6}
    MaxRollbacks = 1
    MaxFaults = 1
    Slots = {d, f}
    Events = {"pending", "completed"}
    Completing = {"completed"}
INVARIANTS RecordedIsThere OrdersAreKept
PROPERTY EventuallyMigrated
CHECK_DEADLOCK FALSE
