SPECIFICATION FairSpec
CONSTANTS
  client = client  other = other  server = server
  Devices = {eth0}
  Conns <- TwoClients
  Packets <- TwoClientPackets
  TIMEOUT = 2
INVARIANTS
  QueuesSound
PROPERTIES
  WaitsForAnswerOrTimeout ExpiredLeave
