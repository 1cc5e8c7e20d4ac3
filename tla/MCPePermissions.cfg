SPECIFICATION FormatsSpec
CONSTANTS
    Components = {"parsers"}
    Radix = 2
    MaxWord = 4
    MemoryLimit = 4
    CodecLimit = 3
    MaxSegments = 2
    Mappings <- MCMappings
    MaxFileSize = 88
    Foreign <- MCForeign
    ForeignFiles <- MCForeignFiles
    Crc <- MCCrc
INVARIANT
    PePermissionsAreRead
CHECK_DEADLOCK FALSE
