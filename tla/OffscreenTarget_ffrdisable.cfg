\* Foveation on at start; a reconfig may switch it off together with a
\* new resolution.  Destroy is final, not a deadlock.
CONSTANTS
    Res = {r1, r2}
    Res0 = r1
    ImageCount = 2
    TargetCount = 2
    FfrSupported = TRUE
    FfrEnable0 = TRUE
    ReconfigFfr = {TRUE, FALSE}
    MaxReconfig = 2
    CreateMayFail = TRUE
    MemTypeMayFail = TRUE
    NULL = NULL
    NoRes = NoRes
SPECIFICATION Spec
INVARIANT ResampleMatchesSource
CHECK_DEADLOCK FALSE
