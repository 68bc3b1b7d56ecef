SPECIFICATION FairSpec
CONSTANTS
    Ids = {m1, m2}
    Null = Null
    MaxAttempts = 2
    Backoff <- MCBackoff
    Retention = 1
    DeliveryDelay = 0
    AlarmRetry = 1
    AlarmBatch = 2
    PurgeBatch = 2
    Answers = {200, 503}
    Faults = {"r2", "rpc", "crash", "config"}
    MaxFaults = 1
    MaxLate = 0
PROPERTIES EveryRowSettles DeliveredIsPurged
