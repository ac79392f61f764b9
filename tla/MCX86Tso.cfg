SPECIFICATION Spec
CONSTANTS
  Cores = {p1, p2}
  ByteBits = 1
  MemorySize = 2
  Operands = {1, 2}
  Addresses <- MCAddresses
  OperandSizes = {"BYTE", "WORD"}
  MaxStores = 3
INVARIANT LoadSeesProgramOrder
PROPERTIES DrainIsInvisibleToOwner LockedIsGloballyOrdered
SYMMETRY Symmetry
VIEW View
