CONSTANTS
    Chars = {"a"}
    MaxLines = 4
    Width = 4
    Rows = 3
    FileMax = 5
    Files <- MCFiles
SPECIFICATION KwSpec
INVARIANTS
    CursorInText
    CleanIsOnDisk
PROPERTIES
    EditIsSeen
    ImplementsPlainText
