SPECIFICATION Spec
CONSTANTS
    v1 = v1
    v2 = v2
    n1 = n1
    n2 = n2
    p1 = p1
    p2 = p2
    InodeCount = 3
    BlockCount = 3
    BlockSize = 2
    DirectBlocks = 2
    Names = {n1, n2}
    Values = {v1, v2}
    Zero = Zero
    Procs = {p1, p2}
    FdLimit = 1
    StandardStreams = 1
    Modes = {{"read", "write"}}
    Depth = 2
    MaxCount = 2
SYMMETRY Symmetry
VIEW View
INVARIANTS
    BlocksOwnedOnce
    DirectoriesFormTree
    OffsetInsideFile
PROPERTIES
    ImplementsFileTree
