CONSTANTS
    lint = lint
    test = test
    build = build
    ci1 = ci1
    ci2 = ci2
    Item <- ItemSet
    Assignment <- AssignmentSet
    Layout <- MCLayouts
    MaxAttempts = 2
    NoPlan = NoPlan
SPECIFICATION Spec
INVARIANTS TypeOK GreenMeansExecuted OneJobPerItem LearnedOnce
PROPERTIES EveryAttemptIsJudged
CHECK_DEADLOCK FALSE
