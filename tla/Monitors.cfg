SPECIFICATION SpecMonitors
CONSTANTS
  client = client  other = other  server = server
  Devices = {eth0, eth1}
  Conns <- OneClient
  Packets <- OneClientPackets
  TIMEOUT = 1
  Pids = {1, 2}
  Width = 256
  MaxTicks = 2
  MaxBorn = 2
  MaxRounds = 3
  Procs = {1, 2, 3}
  Unreadable = {3}
  Tcp = {1, 3}
  Udp = {5}
  PRG_HASH_SIZE = 2
  MaxCalls = 2
  MaxChanges = 2
  Clients = {c1, c2, c3}
  Strangers = {s1, s2}
  FileBlocks = 2
INVARIANTS
  NoDuplicates ShowsItsOwn 
SYMMETRY DeviceSymmetry
CHECK_DEADLOCK FALSE
