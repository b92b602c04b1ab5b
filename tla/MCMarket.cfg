SPECIFICATION MCSpec
CONSTANTS
    Competitors = {c1, c2}
    SubjectKeys = {k1, k2, k3}
    Styles = {"plain", "UPPER"}
    Sources = {s1, s2}
    Profiles = {p1}
    Priors = {m1, m2}
    Unknowns = {u1, u2}
    Units = {v1, v2}
    Officers = {o1}
    Analysts = {a1}
    MaxMarketTime = 1
    MaxInputs = 2
    Records = {1, 2, 3}
    Keys = {i1, i2}
    Staff = {x1, x2}
    MaxVersion = 5
    MaxBirth = 1
    WalkTypes = {"incident"}
    MaxChanges = 6
INVARIANTS
    MarketInv
    PrivacyInv
PROPERTIES
    QuarantinedStaysOut
SYMMETRY MCSymmetry
CHECK_DEADLOCK FALSE
