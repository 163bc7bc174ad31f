CONSTANTS
    Names = {u, w, x}
    MaxUsers = 4
    Ttys <- MCTtys
    MaxAttempts = 3
    MaxDepth = 6
SPECIFICATION SessionSpec
SYMMETRY NameSymmetry
INVARIANTS
    ShellNeverEnds
    OneRoot
    ElevationProved
    SudoEnds
PROPERTIES
    OnlySlotMovesSession
CHECK_DEADLOCK FALSE
