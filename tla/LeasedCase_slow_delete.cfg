\* A deletion that scans longer than the lease lives.
CONSTANTS
    Case = {c1}
    Request = {r1, r2}
    None = None
    Ops <- Uploads
    LeaseTTL = 2
    UploadHold = 1
    DeleteHold = 3
    CaseTTL = 1
    BlobTTL = 1
    S3 = TRUE
SPECIFICATION Spec
SYMMETRY Requests
INVARIANTS
    DeletedForGood
