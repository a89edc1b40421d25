SPECIFICATION AuditSpec
CONSTANTS
    Apis = {api}
    Workers = {worker}
    Audited = {e1, e2}
    Storable = {e1, e2}
    CheckpointInterval = 2
    MaxAuditRestarts = 1
    MaxForced = 1
INVARIANTS ChainsVerify Accounted
PROPERTIES EventuallyRecorded
CHECK_DEADLOCK FALSE
