SPECIFICATION FairSpec
CONSTANTS
    p1 = p1
    p2 = p2
    a1 = a1
    a2 = a2
    b1 = b1
    b2 = b2
    Procs = {p1, p2}
    Threads = {a1, a2, b1}
    ProcOf <- MCProcOf
    ParentOf <- MCParentOf
    NoProc = NoProc
    NoThread = NoThread
    MaxSleep = 2
    MaxInput = 2
INVARIANTS
    SchedulerConsistent
    BlockedIsAwaited
    ExitClosesThreads
PROPERTIES
    DeathIsFinal
    NobodyStarves
