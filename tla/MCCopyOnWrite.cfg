SPECIFICATION UncachedSpec
CONSTANTS
    p0 = p0
    p1 = p1
    p2 = p2
    Procs = {p0, p1, p2}
    Root = p0
    Pages = {0, 1}
    FrameCount = 4
    Values = {0, 1}
    Zero = 0
    NoFrame = NoFrame
SYMMETRY Symmetry
CONSTRAINT SecondPage
INVARIANTS
    RefCountExact
    CowMatchesPageTables
PROPERTIES
    ImplementsPrivateMemory
CHECK_DEADLOCK FALSE
