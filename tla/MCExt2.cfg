CONSTANTS
    n1 = n1
    n2 = n2
    text = text
    short = short
    Names <- MCNames
    Payloads <- MCPayloads
    ShortPayloads <- MCShortPayloads
    Files <- MCFiles
    NDirect = 2
    InodesPerBlock = 2
    FirstInode = 3
    FirstBlock = 3
    MagicIndex = 1
    SbPointers <- MCSbPointers
    MaxInode = 5
    MaxBlock = 7
SPECIFICATION Spec
INVARIANTS
    BlocksSound
    TreeKept
    FindUnlinkAgree
PROPERTIES
    ImplementsObjectStore
