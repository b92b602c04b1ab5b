SPECIFICATION MCSpec
CONSTANTS
    People = {u1, u2}
    Catalogs = {k1}
    Configs = {1, 2, 3}
    Purposes = {p1, p2}
    Nobody = Nobody
    NoCatalog = NoCatalog
    MaxFaults = 1
    Users = {v1, v2}
    Datasets = {ds1}
    Schemas = {sc1}
    Protocols = {pr1}
    Artifacts = {a1, a2}
    Calibrations = {ca1}
    Approvals = {ap1, ap2}
    Deployments = {1, 2, 3}
    Slots = {s1}
    Uses = {w1, w2}
    Configurations = {1}
    None = None
    MaxCalls = 6
INVARIANTS
    ProviderInv
    DeploymentInv
PROPERTIES
    StoppedStaysStopped
    SlotKeepsServing
CONSTRAINT MCBound
SYMMETRY MCSymmetry
CHECK_DEADLOCK FALSE
