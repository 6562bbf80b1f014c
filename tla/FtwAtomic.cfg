SPECIFICATION Spec
CONSTANTS
  Lba = {l1, l2}
  WorkLba = w
  Data = {d1, d2}
  Torn = torn
  None = none
  Size = 5
  NumberOfWrites = {1, 5}
  PrivateData = {FALSE}
  MaxCalls = 4
INVARIANTS WorkSpaceReady ErasedWhenProgrammed
PROPERTIES AtomicWrites
