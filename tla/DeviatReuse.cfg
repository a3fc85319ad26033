SPECIFICATION Spec
CONSTANTS
  PidMax = 3
  Pids = {1, 3}
  Threaded = {1}
  Names = {"a"}
  NPHASH = 2
  MAX32BITVAL = 8
  MaxTask = 2
  MaxTime = 2
  MaxUse = 1
  MaxBorn = 2
INVARIANT DatabaseIsCurrent
