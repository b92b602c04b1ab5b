SPECIFICATION MCSpec
CONSTANTS
    Calls = {c1, c2, c3}
    MaxAttempts = 2
    MaxRepeats = 1
    Replicas = {local, index}
    Required = {local, index}
    LocalReplicas = {local}
    Providers = {}
    HoldAware = TRUE
    None = None
    Holds = {h1}
    Tasks = {t1, t2}
    MaxRetries = 1
    MaxCrashes = 1
INVARIANTS
    ParseInv
    IndInv
PROPERTIES
    FinishedIsFinal
    RunningEnds
    DeliveriesEnd
CHECK_DEADLOCK FALSE
