\* Scale: two ticks are a day.  Five rows of one cell are too many.
CONSTANTS
    Day = 2
    FutureTolerance = 1
    BatchMaxAge = 5
    ReceiptRetention = 6
    BucketHorizon = 4
    MaxBuckets = 2
    MaxRecents = 2
    RecentWindow = 1
    MaxReceipts = 3
    MaxKeys = 9
    MaxEnvironments = 2
    MaxSafe = 14
    Weight <- MCWeight
    NoModel = NoModel
    linux = linux
    arm = arm
    lint_a = lint_a
    lint_b = lint_b
    lint = lint
    setup = setup
    setup_any = setup_any
    Keys = {lint_a, lint_b, lint, setup, setup_any}
    Envs = {linux, arm}
    Inputs <- MCInputs
    RunId = 1
    NoEnvironment = NoEnvironment
    MaxBatchCount = 3
    MaxDuration = 6
SPECIFICATION SpecCompilation
INVARIANTS CompiledIsReference CompiledIsAccepted
CHECK_DEADLOCK FALSE
