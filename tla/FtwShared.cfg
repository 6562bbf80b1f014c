SPECIFICATION FairSpec
CONSTANTS
  Lba = {l1, w}
  WorkLba = w
  Data = {d1, d2}
  Torn = torn
  None = none
  Size = 6
  NumberOfWrites = {1}
  PrivateData = {TRUE, FALSE}
  MaxCalls = 2
PROPERTIES AtomicWrites WriteFinished
