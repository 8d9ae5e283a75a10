\* Capacity 3, two distinct pairs: every wrap position of front and rear,
\* pushes onto a full queue, and pops of an empty one.
CONSTANTS
    N = 3
    Item = {p1, p2}
    Empty = p0
SPECIFICATION Spec
PROPERTY FrameQueueSeqIsFifo
