CONSTANTS
    Names <- MCNames
    Payloads <- MCPayloads
    ShortPayloads <- MCShortPayloads
    Files <- MCFiles
    NDirect = 12
    InodesPerBlock = 8
    FirstInode = 11
    FirstBlock = 10
    MagicIndex = 6
    SbPointers <- MCSbPointers
    MaxInode = 48
    MaxBlock = 100
    Clip <- MCClip
    Paths <- OnePath
    StdDirs <- MCStdDirs
    CopyBlocks = 4
    MaxCwd = 9
    SystemFiles <- MCSystemFiles
    Users <- OneUser
    MaxUsers = 50
    Visits <- MCVisits
    MaxCycles = 2
    MaxOps = 1
SPECIFICATION BootSpec
INVARIANTS
    FirstBootOnce
