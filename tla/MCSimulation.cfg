SPECIFICATION MCSpec
CONSTANTS
    Batches = {b1}
    Runs = {r1}
    Plans = {p1}
    Commands = {c1, c2, c3}
    Baselines = {k1}
    Spaces = {s1, s2}
    Sets = {t1}
    Snapshots = {n1}
    Upstream = {u1, u2}
    Contents = {x, y}
    Acceptances = {a1, a2}
    Revokers = {v1, v2, v3}
    Makers = {m1, m2}
    MaxTime = 3
    MaxCandidates = 5
    MaxAmount = 2
    Names = {"bid", "FORBIDDEN", "REVOKED"}

    
    
PROPERTIES
    
    AcceptancesMoveOn
CONSTRAINT MCBound
CHECK_DEADLOCK FALSE
