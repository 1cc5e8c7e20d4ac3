SPECIFICATION FairSpec
CONSTANTS
    Radix = 2
    MaxWord = 7
    Memories <- MCMemories
    Plans <- MCPlans
    MaxOperations = 3
    MaxWritten = 5
    MemoryChecksum <- MCMemoryChecksum
PROPERTY
    WritesNeedPermission
