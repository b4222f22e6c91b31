CONSTANTS
    ci = ci
    lint = lint
    Nil = Nil
    Unknown = Unknown
    Default = "default"
    C = 4
    Requests <- MCDeepRequests
    FirstDepth = 2
    Factor = 2
    Workspace <- MCWorkspace
    Group <- MCGroup
    CheckoutPaths <- MCCheckoutPaths
    Refs <- MCRefs
    Configs <- MCConfigs
    Stored <- MCEmpty
    MaxRows = 5
SPECIFICATION Spec
INVARIANT AncestorIsPlanned
