CONSTANTS
    Word = 64
    LongWord = 1024
    LZMA_FILTER_LZMA1 = 65
    LZMA_FILTER_LZMA2 = 33
    DictMin = 4
    DictMax = 48
    DictSizes <- SmallDictSizes
    PresetDict <- SmallPresets
    Flags <- SmallFlags
    EncodeOptions <- SmallEncodeOptions
    DecodeOptions <- SmallDecodeOptions
    FormatArgs = {0, 1, 2}
    LevelArgs <- SmallLevelArgs
    LimitArgs <- SmallLimitArgs
SPECIFICATION Spec
INVARIANTS
    NothingLeaks
    AskedIsUsed
    PropertiesSuffice
    SameOptionsSuffice
