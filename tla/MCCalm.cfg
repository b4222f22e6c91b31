\* Scale: one tick is a day.  A batch is accepted for 2 days, its receipt is
\* kept for 3, buckets for 3, and the row is deleted after 4.
CONSTANTS
    Day = 1
    FutureTolerance = 1
    BatchMaxAge = 2
    ReceiptRetention = 3
    BucketHorizon = 3
    MaxBuckets = 2
    MaxRecents = 2
    RecentWindow = 1
    MaxReceipts = 4
    MaxKeys = 3
    MaxEnvironments = 1
    MaxSafe = 100
    Weight <- MCWeight
    NoModel = NoModel
    alice = alice
    alices_rerun = alices_rerun
    bob = bob
    carol = carol
    task = task
    fallback = fallback
    Client = {alice, bob, carol}
    BatchOf <- Crowd
    Keys = {task, fallback}
    Envs <- NoEnvironments
    MaxPosts = 2
    CasAttempts = 2
    CleanupAge = 4
    Lifetime = 1
    MaxClock = 1
SPECIFICATION CalmSpec
PROPERTIES EveryBatchLands
CHECK_DEADLOCK FALSE
