CONSTANTS
    Width = 3
    Height = 2
    TabStop = 2
    Ttys = {0, 1}
    BufSize = 3
    MaxHeld = 2
    MaxKeys = 3
    Letters = {"l", "c"}
    Arrow = {"up"}
    Chars <- MCChars
    Terminal <- MCTerminals
    Keys <- MCKeys
    Prompt <- MCPrompt
    Outputs <- MCOutputs
SPECIFICATION TtySpec
INVARIANTS
    NoStuckModifier
    CursorOnScreen
    LineBehindPrompt
PROPERTIES
    RingsAreQueues
