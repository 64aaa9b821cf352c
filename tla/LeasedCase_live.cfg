\* Deletion under fairness, crashes included.
CONSTANTS
    Case = {c1}
    Request = {r1, r2}
    None = None
    Ops <- Uploads
    LeaseTTL = 2
    UploadHold = 1
    DeleteHold = 1
    CaseTTL = 1
    BlobTTL = 1
    S3 = TRUE
SPECIFICATION FairSpec
PROPERTIES
    DeletionCompletes
