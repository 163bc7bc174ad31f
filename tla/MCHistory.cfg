CONSTANTS
    Chars = {"a", "b", " "}
    Size = 3
    Widths <- MCWidths
    Aliases <- MCAliases
SPECIFICATION EditorSpec
PROPERTIES
    CursorOnEntry
    ImplementsLog
