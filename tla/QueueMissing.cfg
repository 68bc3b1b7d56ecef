SPECIFICATION Spec
CONSTANTS
    Ids = {m1}
    Null = Null
    MaxAttempts = 2
    Backoff <- MCBackoff
    Retention = 1
    DeliveryDelay = 0
    AlarmRetry = 1
    AlarmBatch = 1
    PurgeBatch = 2
    Answers = {200, 302, 503}
    Faults = {}
    MaxFaults = 0
    MaxLate = 0
SYMMETRY Symmetry
INVARIANTS MissingOnlyByHand
