SPECIFICATION SafetySpec
CONSTANTS
    local = local
    provider = provider
    index = index
    None = None
    Replicas <- MCReplicas
    Required <- MCRequired
    LocalReplicas <- MCLocal
    Providers <- MCProviders
    Holds = {h1}
    HoldAware = TRUE
    Tasks = {t1, t2}
    MaxRetries = 0
    MaxCrashes = 1
INVARIANTS
    CompletionIsEvidenceBound
PROPERTIES
    VerifiedReceiptsAreKept
    CompletedIsFinal
    PromiseKept
    StandingHoldBlocksErasure
SYMMETRY TaskSymmetry
CHECK_DEADLOCK FALSE
