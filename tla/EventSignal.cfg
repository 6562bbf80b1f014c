SPECIFICATION Spec
CONSTANTS
  tick = tick
  idle = idle
  a = a
  b = b
  Event = {tick, idle, a, b}
  None = None
  TickEvent = tick
  IdleEvent = idle
  Param <- SignalParam
  ProtocolEvents = {}
  WaitList <- NoWait
  RaiseLevels = {16}
  MaxRaised = 1
  MaxIntr = 2
  Rereads = FALSE
INVARIANTS
  NoReentry
  LevelRestored
  NotifiedOnReturn
  NoCallAfterClose
CHECK_DEADLOCK FALSE
