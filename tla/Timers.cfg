SPECIFICATION FairSpec
CONSTANTS
  t1 = t1
  t2 = t2
  t3 = t3
  Timer = {t1, t2, t3}
  None = None
  Delay = {0, 2}
  TimerPeriod = 1
  Duration = {1}
  Wrap = 8
  MaxTime = 2
INVARIANTS Sorted TickServed
PROPERTIES NotEarly TimerServed CheckEnds
