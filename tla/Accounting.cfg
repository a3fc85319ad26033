SPECIFICATION SpecAccounting
CONSTANTS
    Clients = {a1}
    MaxShadowRec = 2
    MaxBatch = 2
    MaxOrig = 3
    MaxExits = 1
    MaxRec = 6
    MaxSeq = 3
    MaxIno = 5
    Atops = {a1, a2, a3}
    ATOPACCTTOT = 100
    ACCTMAXFILESZ = 1
    MaxFiles = 4
    MaxRecs = 2
INVARIANTS ShadowIsWhole  SharedUntilLast
PROPERTIES NeverTwice WipedOnlyAlone
CHECK_DEADLOCK FALSE
