CONSTANTS
    Word = 32
    LongWord = 256
    Modes <- AllModes
    Levels <- AllLevels
    Limits <- AllLimits
SPECIFICATION Spec
CHECK_DEADLOCK FALSE
INVARIANTS
    CoderMatchesMode
    NothingLeft
    SettingHonoured
