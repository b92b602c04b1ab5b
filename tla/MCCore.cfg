SPECIFICATION MCSpec
CONSTANTS
    Scopes = {s1, s2}
    Handlers = {h1, h2, h3}
    Outcomes = {"a", "b"}
    MaxEvents = 3
    Projects = {1, 2}
    DraftUnits = {4, 5}
    Editors = {e1, e2}
    Names = {n1, n2}
    Notes = {m1}
    MaxDraftTime = 2
    MaxUpdates = 3
    MaxWalkUpdates = 2
    EvidenceKeys = {k1, k2}
    Required <- MCRequired
    RetentionHolds = {l1}
    Edges <- MCEdges
    Fields = {f1, f2}
    MaxGateTime = 2
    MaxRequests = 5
    MaxDeliveries = 2
    Tenants = {t1, t2}
    ScopedItems = {u1, u2}
    TenantOf <- MCTenantOf
    MaxRoles = 2
    u1 = u1
INVARIANTS
    AuditInv
    DraftsInv
    
    
CHECK_DEADLOCK FALSE
