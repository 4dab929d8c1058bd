CONSTANTS
    Text <- MCText
    FileSettings <- MCFileSettings
    FlagSettings <- MCFlagSettings
    BaseFiles <- MCBaseFiles
    EnvKeys = {"", "envApi"}
    MaxEdits = 2
    None = None
SPECIFICATION Spec
INVARIANTS ConsensusEndpointUsed
