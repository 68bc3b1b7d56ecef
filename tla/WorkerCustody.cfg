SPECIFICATION WorkerSpec
CONSTANTS
    Ids = {i1, i2}
    Mails = {m1, m2, bad}
    UnsafeMails = {bad}
    Null = Null
    MaxAttempts = 2
    Backoff <- MCBackoff
    Retention = 1
    DeliveryDelay = 0
    AlarmRetry = 1
    AlarmBatch = 2
    PurgeBatch = 2
    Answers = {200, 302, 503}
    Faults = {"r2", "arm", "rpc", "crash", "hand"}
    MaxFaults = 1
    MaxLate = 0
SYMMETRY Symmetry
INVARIANTS WorkerTypeOK
PROPERTY ImplementsCustody
