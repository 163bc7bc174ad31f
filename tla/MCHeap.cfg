CONSTANTS
    Start = 8
    End = 144
    Word = 256
    Requests <- MCRequests
SPECIFICATION HeapSpec
INVARIANTS
    AllocationsDisjoint
    HeapSound
PROPERTIES
    ImplementsAllocator
