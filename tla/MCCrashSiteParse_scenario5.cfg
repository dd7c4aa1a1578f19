CONSTANTS
    NULL = NULL
    NoFrame = NoFrame
    Dumps <- MCDumps
    Strstr <- MCStrstr
    OffsetBits = 4
    ExactModes = {FALSE}
    TargetModule = "target"
    FlushKeepsFirstFrame = TRUE

SPECIFICATION Spec
\* The loop ends when fgets reaches the end of the file.
CHECK_DEADLOCK FALSE

INVARIANT
    Scenario5Empty
