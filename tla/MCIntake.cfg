SPECIFICATION MCSpec
CONSTANTS
    Sessions = {s1}
    Parts = {1, 2}
    Requests = {r1, r2, r3, r4}
    None = None
    People = {uploader, checker}
    uploader = uploader
    LinkedDocuments <- MCDocuments
    KindOf <- MCKinds
    tender = tender
    annex = annex
    price = price
INVARIANTS
    UploadInv
    ReviewInv
    LinksInv
PROPERTIES
    FinishedStaysFinished
    QuarantineIsFinal
SYMMETRY IntakeSymmetry
CHECK_DEADLOCK FALSE
