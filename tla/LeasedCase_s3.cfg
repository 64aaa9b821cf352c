\* S3 originals of two cases under one prefix, leases longer than every hold.
CONSTANTS
    Case = {c1, c2}
    Request = {r1, r2}
    None = None
    Ops <- Uploads
    LeaseTTL = 2
    UploadHold = 1
    DeleteHold = 1
    CaseTTL = 1
    BlobTTL = 1
    S3 = TRUE
SPECIFICATION Spec
SYMMETRY RequestsAndCases
INVARIANTS
    TypeOK
    Exclusive
PROPERTIES
    KeepsPromise
    LeasedCaseSpared
    AckedEvidenceKept
    OnlyOwnOriginalsRemoved
