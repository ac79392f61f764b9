SPECIFICATION Spec
CONSTANTS
    Blocks = {0, 1, 2}
    Values = {0, 1}
    Zero = 0
    Capacity = 2
    MaxTick = 6
INVARIANTS
    CacheInv
PROPERTIES
    ImplementsBlockStore
