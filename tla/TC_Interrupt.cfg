CONSTANTS
    d1 = d1
    d2 = d2
    c1 = c1
    c2 = c2
    TotalBlobs = 2
    ConcurrentPuts = 2
    VerifyAfterPut = TRUE
    Data <- MCData
    Commitments <- MCCommitments
    ShareCommitment <- MCShareCommitment
    MaxHeight = 2
    BucketTrusted = FALSE
    None = None
SPECIFICATION Spec
INVARIANTS TypeOK EachBlobOnce SuccessIsPublished NoMismatch ReportAgrees
PROPERTIES ToolEnds
CHECK_DEADLOCK FALSE
