\* Scale: two ticks are a day, a clock may be half a day ahead; a batch is
\* accepted for two days and its receipt kept for three; buckets live 3 days.
CONSTANTS
    Day = 2
    FutureTolerance = 1
    BatchMaxAge = 4
    ReceiptRetention = 6
    BucketHorizon = 3
    MaxBuckets = 2
    MaxRecents = 2
    RecentWindow = 3
    MaxReceipts = 5
    MaxKeys = 4
    MaxEnvironments = 2
    MaxSafe = 1000
    Weight <- MCWeight
    NoModel = NoModel
    linux = linux
    mac = mac
    arm = arm
    task = task
    fallback = fallback
    Batches <- Drifting
    Keys = {task, fallback}
    Envs = {linux, mac, arm}
    Lag = 3
    MaxClock = 16
SPECIFICATION Spec
INVARIANT RangeIsOfThePool
CHECK_DEADLOCK FALSE
