CONSTANTS
    MapSize = 3
    WordBytes = 2
    Faults = {"ok", "tmout", "crash"}
    InputLens = {0, 1}
    RawTraces <- MCRawTraces
    Builds <- MCBuildsLoop
    IgnoreTimeouts = FALSE
    ExecTmoutBelowHang = TRUE
    KeepUniqueHang = 1
    KeepUniqueCrash = 1

SPECIFICATION Spec
VIEW MCView

PROPERTY
    ClassicHandlerCompletes
