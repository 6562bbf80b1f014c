SPECIFICATION Spec
CONSTANTS
  tick = tick
  idle = idle
  a = a
  b = b
  Event = {tick, idle, a, b}
  None = None
  TickEvent = tick
  IdleEvent = idle
  Param <- SignalParam
  ProtocolEvents = {}
  WaitList <- NoWait
  RaiseLevels = {8}
  MaxRaised = 1
  MaxIntr = 1
  Rereads = FALSE
INVARIANTS
  FreedNotQueued
CHECK_DEADLOCK FALSE
