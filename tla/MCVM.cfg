\* Words of 16 bits, a second b of 8, a stack of 8 and two bytes of memory.
CONSTANTS
    WordBits = 16
    HalfBits = 8
    StackSize = 8
    MemBytes = 2
    Base = 300
    Slots = 4
    Null = Null
    Junk <- MCJunk
    Codes <- MCCodes
    Starts <- MCStarts
    Scripts <- MCScripts

SPECIFICATION FairSpec

INVARIANTS
    TypeOK
    OnInstruction
PROPERTIES
    FollowsTable
    LoadsWhatWasStored
    OnlyJumpsLoop
CHECK_DEADLOCK FALSE
