\* One get_tracked_pose caller: every safety property the code keeps.
CONSTANTS
    N = 2
    Callers = {c1}
    MaxPose = 3
    MaxRequests = 3
    Horizon = 3
    Comp = 1
    TsModulus = 64
SPECIFICATION Spec
INVARIANTS
    TypeOK
    PoseQueueShape
    FrameQueueShape
    
