CONSTANTS
  Images <- Whole
SPECIFICATION Spec
INVARIANTS
  DecodedIsExecutable
  InstructionOwnsItsBytes
  RipRelativeIsNext
CHECK_DEADLOCK FALSE
