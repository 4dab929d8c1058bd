CONSTANTS
    Text <- MCText
    FileSettings <- MCFileSettings
    FlagSettings <- MCFlagSettings
    BaseFiles <- MCBaseFiles
    EnvKeys = {"", "envApi"}
    MaxEdits = 1
    None = None
SPECIFICATION Spec
INVARIANTS SignerSectionKept
