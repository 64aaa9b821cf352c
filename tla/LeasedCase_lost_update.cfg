\* A leased upload and a handler without a lease.
CONSTANTS
    Case = {c1}
    Request = {r1, r2}
    None = None
    Ops <- AllOps
    LeaseTTL = 2
    UploadHold = 1
    DeleteHold = 1
    CaseTTL = 1
    BlobTTL = 1
    S3 = TRUE
SPECIFICATION Spec
SYMMETRY Requests
PROPERTIES
    AckedEvidenceKept
