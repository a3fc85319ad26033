SPECIFICATION SpecScreen
CONSTANTS
    Parts = {"proc", "stats", "list", "lines"}
    Tall <- MCTall
    Screens = {TRUE, FALSE}
    Raws = {TRUE, FALSE}
    Intervals = {0, 1}
    Supports = {{"netatop"}}
    Flags <- MCFlags
    RcFlags <- MCRc
    Autos = {"C", "M"}
    PageSizes = {0, 2}
    UserSets <- MCUsers
    NameSets <- MCNames
    Conts = {0}
    PidLines <- MCPids
    MaxKeys = 4
    Kinds = {"v6", "meminfo", "vmstat", "nfs", "mountstats", "containers", "diskstats"}
    MaxMount = 3
    Classes = {"intf", "dsk", "nfs", "cont", "cpu"}
    Names = {0, 1, 2}
    MaxTab = 3
    MAX32BITVAL = 3
    Speeds = {10, 100}
    Anywhere = FALSE
    MaxSamples = 2
    MaxChanges = 3
    LineIntervals = {1, 10}
    Widths = {30, 33, 34, 35, 50, 79, 80, 132}
    Busy = {0, 40, 72}
    PidDigits = {5, 7}
    MaxShown = 2
    MaxOrders = 1
INVARIANTS   ListAsAsked  
PROPERTIES SpeedsCurrent PausedHolds
CHECK_DEADLOCK FALSE
