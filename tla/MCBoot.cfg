CONSTANTS
    Names <- MCNames
    Payloads <- MCPayloads
    ShortPayloads <- MCShortPayloads
    Files <- MCFiles
    NDirect = 12
    InodesPerBlock = 8
    FirstInode = 11
    FirstBlock = 10
    MagicIndex = 6
    SbPointers <- MCSbPointers
    MaxInode = 48
    MaxBlock = 100
    Clip <- MCClip
    Paths <- MCPaths
    StdDirs <- MCStdDirs
    CopyBlocks = 4
    MaxCwd = 9
    SystemFiles <- MCSystemFiles
    Users <- MCUsers
    MaxUsers = 50
    Visits <- MCVisits
    MaxCycles = 0
    MaxOps = 3
SPECIFICATION FirstBootSpec
INVARIANTS
    SystemFilesIntact
    UsersOnDisk
    HomesExist
