SPECIFICATION FairSpec
CONSTANTS
    Ids = {m1}
    Null = Null
    MaxAttempts = 2
    Backoff <- MCBackoff
    Retention = 1
    DeliveryDelay = 0
    AlarmRetry = 1
    AlarmBatch = 1
    PurgeBatch = 2
    Answers = {200, 503}
    Faults = {"rearm"}
    MaxFaults = 1
    MaxLate = 0
PROPERTY EveryRowSettles
