SPECIFICATION SpecBuilds
CONSTANTS
  a = a  b = b  c = c  p1 = p1  p2 = p2
  Names = {a, b, c}
  Versions = {1}
  FirstVersion = 1
  Pids = {p1, p2, p3}
  Type <- MCType
  Delay <- MCDelay
  Configured <- BUnconfigured
  Offered <- NothingOffered
  Logs <- SomeLogs
  MaxTime = 0
  ForkCanFail = TRUE
  ServiceLoop = FALSE

   
PROPERTIES
  RestartsAfterDelay EndedAgentsRestart
