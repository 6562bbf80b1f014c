SPECIFICATION Spec
CONSTANTS
  a = a
  b = b
  u = u
  w = w
  Names = {a}
  RuntimeNames = {a}
  Values = {u, w}
  DataSize <- MixedSize
  Erased = Erased
  Torn = Torn
  None = None
  Size = 9
  RuntimeSpace = 9
  MaxVariableSize = 3
  FvbErrors = FALSE
  FtwErrors = FALSE
  MaxCalls = 4
  MaxFailures = 2
INVARIANT DeleteDeletes
CHECK_DEADLOCK FALSE
