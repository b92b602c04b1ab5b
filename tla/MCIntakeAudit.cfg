SPECIFICATION MCSpec
CONSTANTS
    Sessions = {s1}
    Parts = {1, 2}
    Requests = {r1, r2}
    None = None
    People = {uploader, checker}
    uploader = uploader
    LinkedDocuments <- MCDocuments
    KindOf <- MCKinds
    tender = tender
    annex = annex
    price = price
INVARIANTS
    ReleaseIsAudited
CHECK_DEADLOCK FALSE
