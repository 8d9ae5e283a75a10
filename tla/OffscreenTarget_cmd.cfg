\* Foveation on: create_images records the command buffer, present records
\* it again.  Destroy is final, not a deadlock.
CONSTANTS
    Res = {r1, r2}
    Res0 = r1
    ImageCount = 2
    TargetCount = 2
    FfrSupported = TRUE
    FfrEnable0 = TRUE
    ReconfigFfr = {TRUE}
    MaxReconfig = 2
    CreateMayFail = TRUE
    MemTypeMayFail = TRUE
    NULL = NULL
    NoRes = NoRes
SPECIFICATION Spec
INVARIANT CommandBufferReuse
CHECK_DEADLOCK FALSE
