CONSTANTS
    Text <- MCText
    FileSettings <- MCFileSettings
    FlagSettings <- MCFlagSettings
    BaseFiles <- MCBaseFiles
    EnvKeys = {"", "envApi"}
    MaxEdits = 3
    None = None
SPECIFICATION Spec
INVARIANTS TypeOK SubmitsAsConfigured KeyringOfValidConfig FallbackFollowsOperator CelestiaFollowsOperator TimersSet
