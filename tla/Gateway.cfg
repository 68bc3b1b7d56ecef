SPECIFICATION GatewaySpec
CONSTANTS
    Ids = {i1, i2}
    Mails = {m1}
    UnsafeMails = {}
    Null = Null
    MaxAttempts = 2
    Backoff <- MCBackoff
    Retention = 1
    DeliveryDelay = 0
    AlarmRetry = 1
    AlarmBatch = 2
    PurgeBatch = 2
    Answers = {200, 401, 404, 422, 500}
    Faults = {"rpc", "crash"}
    MaxFaults = 1
    MaxLate = 0
    Requests = {r1, r2}
    WithMessageId = {m1}
    Unroutable = {}
    Ignored = {}
    MaxTries = 2
    MaxSecrets = 2
VIEW View
SYMMETRY Symmetry
INVARIANTS GatewayTypeOK NothingLost TakenIsInOdoo OneMessageInOdoo
PROPERTY ImplementsWorker RejectedHasCause
