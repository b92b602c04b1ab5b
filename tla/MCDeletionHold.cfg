SPECIFICATION SafetySpec
CONSTANTS
    local = local
    provider = provider
    index = index
    None = None
    Replicas <- MCPair
    Required <- MCPair
    LocalReplicas <- MCLocal
    Providers <- MCNoProviders
    Holds = {h1}
    HoldAware = TRUE
    Tasks = {t1, t2}
    MaxRetries = 0
    MaxCrashes = 1
PROPERTIES
    HoldBlocksErasure
CHECK_DEADLOCK FALSE
