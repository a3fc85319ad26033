SPECIFICATION SpecReports
CONSTANTS
    Rcs <- MCRcs
    Args <- MCArgs
    MaxLog = 4
    Units = 2
    NrCpu = 2
    Midnights = {2}
    Idles = {{}, {2, 3}}
    Supports = {{}, {"iostat", "netatop"}}
    Summaries = {0, 2}
    Begins = {9}
    Ends = {3}
    RepeatHead = 4
    MaxSamples = 3
    ShortWrites = TRUE
    EndTimes = {0, 2}
    Commands = {"next", "prev", "reset", "branch", "none", "quit"}
INVARIANTS SamplesReported LogIsReadable
PROPERTIES ReaderMoves ReadingEnds
CHECK_DEADLOCK FALSE
