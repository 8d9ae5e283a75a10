\* Two threads call get_tracked_pose: do the frame-id queue's counters agree?
CONSTANTS
    N = 2
    Callers = {c1, c2}
    MaxPose = 1
    MaxRequests = 2
    Horizon = 2
    Comp = 1
    TsModulus = 64
SPECIFICATION Spec
SYMMETRY CallerSymmetry
INVARIANT FrameQueueShape
