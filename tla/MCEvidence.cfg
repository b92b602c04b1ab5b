SPECIFICATION MCSpec
CONSTANTS
    Users = {u1, u2}
    Requirements = {1, 2}
    Evidences = {e1}
    Matches = {1, 2}
    Handlers = {h1, h2, h3}
    Nobody = Nobody
    People = {p1, p2}
    Services = {s1, s2, s3}
INVARIANTS
    MatchingInv
    PublishedWasReviewed
    ReadinessInv
PROPERTIES
    NothingReturns
    DecisionsStand
SYMMETRY MCSymmetry
CHECK_DEADLOCK FALSE
