CONSTANTS
    NULL = NULL
    NoFrame = NoFrame
    MapSize = 3
    WordBytes = 2
    Faults = {"ok", "crash"}
    InputLens = {1}
    RawTraces <- MCRawTraces
    Dumps <- MCDumps
    RefDump <- DumpAt1
    Strstr <- MCStrstr
    OffsetBits = 4
    ExactModule = FALSE
    TargetModule = "target"
    FlushKeepsFirstFrame = TRUE
    CrashModes = {3}
    KeepUniqueHang = 1
    ExecTmoutBelowHang = TRUE
    IgnoreTimeouts = FALSE
    InitMinBitmapSize = 4
    InitMinActualCnts = 7

SPECIFICATION Spec
VIEW MCView

INVARIANT
    Tier3QueueOnlyReferenceSite
