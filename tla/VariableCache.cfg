SPECIFICATION CacheSpec
CONSTANTS
  a = a
  b = b
  u = u
  w = w
  Names = {a}
  RuntimeNames = {a}
  Values = {u, w}
  DataSize <- MixedSize
  Erased = Erased
  Torn = Torn
  None = None
  Size = 6
  RuntimeSpace = 6
  MaxVariableSize = 3
  FvbErrors = TRUE
  FtwErrors = TRUE
  MaxCalls = 3
  MaxFailures = 1
INVARIANTS ReadConsistent RuntimeCacheCurrent
CHECK_DEADLOCK FALSE
