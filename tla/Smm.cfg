SPECIFICATION TimelySpec
CONSTANTS
  Cpus = {c1, c2, c3}
  None = None
  SyncModes = {"tradition", "relaxed"}
  BroadcastModes = {"tradition"}
  Elections = {TRUE}
  ConfigureMtrrs = {TRUE}
  BlockStartups = {FALSE}
  MaxSmi = 1
  MaxProcedures = 2
INVARIANTS ProcedureOnce ProceduresDone SemaphoresDrained NormalModeExcluded MtrrsTogether
SYMMETRY CpuSymmetry
CHECK_DEADLOCK FALSE
