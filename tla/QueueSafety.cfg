SPECIFICATION Spec
CONSTANTS
    Ids = {m1, m2}
    Null = Null
    MaxAttempts = 2
    Backoff <- MCBackoff
    Retention = 3
    DeliveryDelay = 2
    AlarmRetry = 1
    AlarmBatch = 1
    PurgeBatch = 2
    Answers = {200, 302, 503}
    Faults = {"r2", "arm", "rearm", "rpc", "crash", "config", "hand"}
    MaxFaults = 2
    MaxLate = 1
SYMMETRY Symmetry
INVARIANTS TypeOK Custody NoOrphan SnapshotFresh BudgetExact AlarmCovers
PROPERTY RemovedStaysRemoved
