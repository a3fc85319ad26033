SPECIFICATION Spec
CONSTANTS
  a = a  b = b  c = c  p1 = p1  p2 = p2
  Names = {a, b}
  Versions = {1, 2, 3}
  FirstVersion = 1
  Pids = {p1, p2, p3}
  Type <- MCType
  Delay <- MCDelay
  Configured <- AllConfigured
  Offered <- OnlyAOffered
  Logs <- NoLog
  MaxTime = 0
  ForkCanFail = TRUE
  ServiceLoop = TRUE
INVARIANTS
  TypeOK RunningAgentsAreListed ListsUsable
PROPERTIES
  TerminatesOwnAgent
SYMMETRY PidSymmetry
