CONSTANTS
    Names <- MCNames
    Payloads <- MCPayloads
    ShortPayloads <- MCShortPayloads
    Files <- MCFiles
    NDirect = 2
    InodesPerBlock = 2
    FirstInode = 3
    FirstBlock = 3
    MagicIndex = 1
    SbPointers <- MCSbPointers
    MaxInode = 5
    MaxBlock = 8
    Clip <- MCClip
    Paths <- MCPaths
    StdDirs <- MCStdDirs
    CopyBlocks = 1
    MaxCwd = 2
SPECIFICATION FsSpec
INVARIANTS
    FsSound
    ListIsWhatIsFound
PROPERTIES
    CdKeepsPwd
    SavedIsRead
    OnlyTargetChanges
    OnlyHomeRepeatsNames
    OnlyCopiedDirsBreakTree
    MovedFileSurvives
