SPECIFICATION Spec
CONSTANTS
  Cpus = {c1, c2}
  None = None
  SyncModes = {"tradition", "relaxed"}
  BroadcastModes = {"tradition"}
  Elections = {TRUE, FALSE}
  ConfigureMtrrs = {TRUE, FALSE}
  BlockStartups = {TRUE}
  MaxSmi = 2
  MaxProcedures = 1
INVARIANT OneBsp
PROPERTIES EveryoneLeaves SmiHandled
CHECK_DEADLOCK FALSE
