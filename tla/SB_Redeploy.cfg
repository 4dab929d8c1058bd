CONSTANTS
    d1 = d1
    d2 = d2
    Byte <- MCByte
    HeightSize = 2
    CommitmentSize = 1
    ShareOffsetSize = 1
    ShareSizeSize = 1
    IntSize = 2
    GenericType = 1
    VersionByte = 2
    LegacyVersion = 3
    Data <- MCData
    ShareCommitment <- MCShareCommitment
    Blob <- MCBlob
    Key <- MCKey
    Asked <- MCAsked
    Keccak256 <- MCKeccak256
    HashSize = 3
    Prefix <- MCPrefix
    Clean <- MCClean
    Deployments <- MCDeployments
    MaxPuts = 2
    MaxWrites = 1
    MaxCached = 1
    None = None
SPECIFICATION Spec
INVARIANTS TypeOK CommitmentsDecode ServedIsNamed StoredIsFound LegacyIsFound LegacyReadOnly BucketInv
