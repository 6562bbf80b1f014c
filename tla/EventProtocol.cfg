SPECIFICATION Spec
CONSTANTS
  tick = tick
  idle = idle
  a = a
  b = b
  Event = {tick, idle, a, b}
  None = None
  TickEvent = tick
  IdleEvent = idle
  Param <- GroupParam
  ProtocolEvents = {a}
  WaitList <- WaitTwice
  RaiseLevels = {}
  MaxRaised = 0
  MaxIntr = 1
  Rereads = TRUE
INVARIANTS
  TypeOK
  SignalNotLost
  QueuedPending
  ProtocolLockFree
  NotifiedOnReturn
CHECK_DEADLOCK FALSE
