\* Foveation on; two reconfigs, so the target is recreated with a resample
\* pass at least twice.  Destroy is final, not a deadlock.
CONSTANTS
    Res = {r1, r2}
    Res0 = r1
    ImageCount = 2
    TargetCount = 2
    FfrSupported = TRUE
    FfrEnable0 = TRUE
    ReconfigFfr = {TRUE}
    MaxReconfig = 2
    CreateMayFail = TRUE
    MemTypeMayFail = TRUE
    NULL = NULL
    NoRes = NoRes
SPECIFICATION Spec
INVARIANT NoResampleLeak
CHECK_DEADLOCK FALSE
