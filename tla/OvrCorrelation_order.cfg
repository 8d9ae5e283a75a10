\* One caller: are sent frames in the order of their poses?
CONSTANTS
    N = 2
    Callers = {c1}
    MaxPose = 3
    MaxRequests = 3
    Horizon = 3
    Comp = 1
    TsModulus = 64
SPECIFICATION Spec
INVARIANT SentFramesInOrder
