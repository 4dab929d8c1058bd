CONSTANTS
    r1 = r1
    r2 = r2
    d1 = d1
    d2 = d2
    near = near
    None = None
    BadKey = BadKey
    Compact = Compact
    Req = {r1, r2}
    Data = {d1, d2}
    Commitments = {d1, d2}
    ShareCommitment <- MCShareCommitment
    Location = {near}
    MaxHeight = 2
    MaxCrashes = 1
    Configs <- MCSwitchTail
    NodeMayMiss = TRUE
    BucketTrusted = TRUE
SPECIFICATION MetricsSpec
SYMMETRY Symmetry
INVARIANTS PutConfirmed ServedIsPublished ServerInv CountersAgree WritesCounted RequestsCounted MetricsInv
PROPERTIES ImplementsDAService
