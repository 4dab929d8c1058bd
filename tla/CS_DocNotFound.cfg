CONSTANTS
    r1 = r1
    r2 = r2
    d1 = d1
    d2 = d2
    None = None
    BadKey = BadKey
    Compact = Compact
    Req = {r1, r2}
    Data = {d1, d2}
    Commitments = {d1, d2}
    ShareCommitment <- MCShareCommitment
    Location = {}
    MaxHeight = 2
    MaxCrashes = 0
    Configs <- MCOneConfig
    NodeMayMiss = FALSE
    BucketTrusted = FALSE
SPECIFICATION Spec
PROPERTIES NotFoundMeansAbsent
