\* Two resolutions, two reconfigs, foveation switched on by the client,
\* vkCreateImage allowed to fail.  Destroy ends the target for good, after
\* which no thread calls it: those final states are not deadlocks.
CONSTANTS
    Res = {r1, r2}
    Res0 = r1
    ImageCount = 2
    TargetCount = 2
    FfrSupported = TRUE
    FfrEnable0 = FALSE
    ReconfigFfr = {TRUE}
    MaxReconfig = 2
    CreateMayFail = TRUE
    MemTypeMayFail = TRUE
    NULL = NULL
    NoRes = NoRes
SPECIFICATION Spec
INVARIANTS
    TypeOK
    SwapchainObjectsAccounted
    ResampleMatchesSource
    
PROPERTY
    SentFrameHasSettingsSize
CHECK_DEADLOCK FALSE
