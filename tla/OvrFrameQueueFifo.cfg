\* One caller: does the frame-id queue implement the most-recent-N FIFO?
CONSTANTS
    N = 2
    Callers = {c1}
    MaxPose = 3
    MaxRequests = 3
    Horizon = 3
    Comp = 1
    TsModulus = 64
SPECIFICATION Spec
PROPERTY FrameQueueIsFifo
