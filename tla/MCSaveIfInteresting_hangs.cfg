CONSTANTS
    NULL = NULL
    NoFrame = NoFrame
    MapSize = 3
    WordBytes = 2
    Faults = {"ok", "tmout", "crash"}
    InputLens = {0, 1}
    RawTraces <- MCRawTracesHang
    Dumps <- MCDumpsOne
    RefDump <- DumpAt1
    Strstr <- MCStrstr
    OffsetBits = 4
    ExactModule = FALSE
    TargetModule = "target"
    FlushKeepsFirstFrame = TRUE
    CrashModes = {0}
    KeepUniqueHang = 1
    ExecTmoutBelowHang = TRUE
    IgnoreTimeouts = FALSE
    InitMinBitmapSize = 4
    InitMinActualCnts = 7

SPECIFICATION Spec
VIEW MCView

INVARIANTS
    HangsBounded
    DumpReflectsVirgin

PROPERTIES
    ImplementsDecreaseProgress
    QueueNameTagsJudgement
    HandlerCompletes
