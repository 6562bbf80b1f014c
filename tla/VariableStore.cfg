SPECIFICATION Spec
CONSTANTS
  a = a
  b = b
  u = u
  w = w
  Names = {a, b}
  RuntimeNames = {a}
  Values = {u, w}
  DataSize <- MixedSize
  Erased = Erased
  Torn = Torn
  None = None
  Size = 7
  RuntimeSpace = 6
  MaxVariableSize = 3
  FvbErrors = TRUE
  FtwErrors = TRUE
  MaxCalls = 4
  MaxFailures = 2
INVARIANTS SetDone InSyncWithoutFault
PROPERTY OnlySetChanges
CHECK_DEADLOCK FALSE
