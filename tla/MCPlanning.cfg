CONSTANTS
    ci = ci
    lint = lint
    Nil = Nil
    Unknown = Unknown
    Default = "default"
    C = 4
    Requests <- MCRequests
    FirstDepth = 2
    Factor = 2
    Workspace <- MCWorkspace
    Group <- MCGroup
    CheckoutPaths <- MCCheckoutPaths
    Refs <- MCRefs
    Configs <- MCConfigs
    Stored <- MCStored
    MaxRows = 5
SPECIFICATION Spec
INVARIANTS TypeOK BaseIsSound RefusalIsDue PublishedTogether EveryItemOnce MakespanIsBounded AutomaticIsLearned
PROPERTIES EveryStepAdvances
