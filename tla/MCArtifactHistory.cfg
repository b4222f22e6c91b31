CONSTANTS
    push = push
    own = own
    fork = fork
    Stream <- MCStream
    Branch <- MCBranch
    Reads <- MCReads
    Scope <- MCScope
    Page = 2
    MaxAttempts = 4
    MaxActive = 2
SYMMETRY PullRequests
SPECIFICATION Spec
INVARIANTS TypeOK MarkersTellTheTruth QuietRunsAccumulate
CHECK_DEADLOCK FALSE
