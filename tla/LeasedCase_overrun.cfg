\* Handlers that outlive their lease, originals in the repository's own table.
CONSTANTS
    Case = {c1}
    Request = {r1, r2}
    None = None
    Ops <- AllOps
    LeaseTTL = 1
    UploadHold = 2
    DeleteHold = 2
    CaseTTL = 1
    BlobTTL = 1
    S3 = FALSE
SPECIFICATION Spec
SYMMETRY Requests
INVARIANTS
    RolledBack
PROPERTIES
    LeaseNotStolen
    KeepsPromise
