SPECIFICATION Spec
CONSTANTS
    Radix = 2
    MaxWord = 255
    PageSize <- MCPageSize
    MappedLimit = 36
    MaxFileSize = 4
    MaxSections = 1
    MaxSegments = 3
    MaxSymbols = 3
    MaxRelocations = 4
    Calls <- ZeroBasedCalls
    Exports <- MCExports
INVARIANT
    EntryInImage
