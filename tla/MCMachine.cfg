CONSTANTS
  ByteBits = 2
  PageBytes = 16
  CanonicalBits = 15
  WriteProtect = TRUE
  KernelStack = 65000
  HasKernelStack = TRUE
  MaxCycles = 10
  Boundary = {0, 1, 32767, 32768, 65535}
  Programs <- AllPrograms
  InitialRegs <- AllRegs
  InitialPages <- PageTables
  Gates <- AllGates
  Syscall <- KernelSyscall
SPECIFICATION Spec
INVARIANTS
  FaultIsRestartable
PROPERTIES
  FlagsMatchArithmetic
  KernelEntry
  UserStoresAreChecked
CHECK_DEADLOCK FALSE
