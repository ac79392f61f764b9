SPECIFICATION FairSpec
CONSTANTS
    t1 = t1
    t2 = t2
    t3 = t3
    t4 = t4
    Threads = {t1, t2, t4}
    Processes <- MCProcesses
    CoreCount = 2
    NoThread = NoThread
INVARIANTS
    ExclusivePlacement
    StateMatchesPlacement
PROPERTIES
    DispatchIsSound
    RebalanceConverges
    ReadyEventuallyServed
CHECK_DEADLOCK FALSE
