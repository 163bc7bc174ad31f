CONSTANTS
    Cut <- MCCut
    TooLong = {"big"}
    InitialAliases <- MCInitialAliases
    MaxAliases = 4
    MaxArgs = 5
    Typed <- MCTyped
    Files <- MCFiles
    Executable <- MCExecutable
    Need <- MCNeed
    Reporting <- MCReporting
    ExecSize = 1072
    ScriptSize = 4560
    SudoSize = 432
    LoginSize = 624
    AgainSize = 784
    ReadSize = 2664
    AskSize = 2056
    LoginNeed = 3128
    Switches = 5
    StackSize = 15984
SPECIFICATION ShellSpec
INVARIANTS
    OneScriptFits
PROPERTIES
    
    AliasTakesEffect
