SPECIFICATION MCSpec
CONSTANTS
    Users = {u1, u2}
    Kind <- MCKind
    Requests = {r1, r2, r3}
    Stages <- MCStages
    None = None
    Sets = {s1, s2}
    Clauses = {1, 2, 3, 4}
    Loaded = {1, 2}
    Exprs = {e1, e2}
    Callers = {c1, c2}
    Nothing = Nothing
    Threads = {t1}
    UniqueSequence = TRUE
INVARIANTS
    
    PublisherIsNotAuthor
    ClausesInv
    LifecycleInv
PROPERTIES
    NothingIsUndone
SYMMETRY MCSymmetry
CHECK_DEADLOCK FALSE
