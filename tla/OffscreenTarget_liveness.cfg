\* Liveness of the resize handshake; vkCreateImage never fails here, the
\* client may switch foveation either way.  Destroy is final, not a deadlock.
CONSTANTS
    Res = {r1, r2}
    Res0 = r1
    ImageCount = 2
    TargetCount = 2
    FfrSupported = TRUE
    FfrEnable0 = FALSE
    ReconfigFfr = {TRUE, FALSE}
    MaxReconfig = 2
    CreateMayFail = FALSE
    MemTypeMayFail = TRUE
    NULL = NULL
    NoRes = NoRes
SPECIFICATION Spec
PROPERTY ResolutionApplied
CHECK_DEADLOCK FALSE
