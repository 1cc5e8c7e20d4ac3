SPECIFICATION Spec
CONSTANTS
    Radix = 2
    MaxWord = 63
    MaxFileSize = 12
    MaxSections = 3
    MaxSegments = 2
    MaxSymbols = 1
    MaxRelocations = 1
    PageSize = 4
    MaxMappedBytes = 32
    Sections <- MCSections
    Symbols <- MCSymbols
    Imports <- MCImports
    Exports <- MCExports
    Relocations <- MCRelocations
    Options <- MCOptions
    LongNames = {"long"}
    MaxSectionBytes = 8
    MaxImports = 1
    MaxExports = 1
INVARIANTS
    SectionsKeepTheirBytes
    SegmentsHoldSections
    BuiltImagesCanBePlanned
