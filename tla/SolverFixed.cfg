SPECIFICATION SpecSamples
CONSTANTS
  Programs = {"solver"}
  NumChild = 3
  NumDevice = 5
  Lists <- TwoLists  CPU <- MCCPU  GPU <- MCGPU  Inputs <- MCInputs
  MaxTime = 380
  Box = 2
  Puzzles <- MCPuzzles
  ClueCounts = {5}
  Clients = {c1, c2}
  MaxSent = 2
INVARIANT FixedToCandidate
