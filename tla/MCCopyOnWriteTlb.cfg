SPECIFICATION Spec
CONSTANTS
    p0 = p0
    p1 = p1
    p2 = p2
    Procs = {p0, p1}
    Root = p0
    Pages = {0}
    FrameCount = 4
    Values = {0, 1}
    Zero = 0
    NoFrame = NoFrame
PROPERTY
    WritesArePrivate
CHECK_DEADLOCK FALSE
