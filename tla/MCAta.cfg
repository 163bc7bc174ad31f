CONSTANTS
    Kinds <- MCKinds
    Contents <- MCContents
    Data <- MCData
    Counts <- MCCounts
    Timeout = 2
    Wrap = 8
    Addresses = 4
    MaxCalls = 2
SPECIFICATION AtaSpec
INVARIANTS
    TransfersRight
PROPERTIES
    CallsReturn
