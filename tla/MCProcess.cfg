CONSTANTS
    MaxProcesses = 5
    TimeSlice = 2
    NameLengths <- MCNameLengths
    Sizes <- MCSizes
    Heading = 4
    Columns = 5
    Wrap = 256
    MaxUptime = 6
SPECIFICATION ProcSpec
INVARIANTS
    OnlyIdleRuns
PROPERTIES
    ListFits
CHECK_DEADLOCK FALSE
