SPECIFICATION AnalysisSpec
CONSTANTS
    Components = {"disassembly", "lines", "tree", "graph", "layout"}
    Radix = 2
    MaxWord = 7
    Decoders <- DecoderSet
    Starts = {3}
    Size = 6
    MaxInstructions = 5
    Headers <- HeaderList
    LineAdvances <- LineSteps
    MaxRows = 2
    MaxFiles = 2
    MaxOpcode = 9
    Advances = {1, 7}
    RowLines = 2
    MaxLine = 2
    MaxLength = 3
    MaxDepth = 3
    MaxTurns = 8
    MaxSections = 4
    Segments <- SegmentList
    Bases = {0, 3}
    FileSize = 5
    PageSize = 2
    MaxMappedBytes = 5
    MaxFileSize = 8
    MaxSegments = 3
    MaxSymbols = 0
    MaxRelocations = 0
    MaxListed = 4
    GraphImages <- MCGraphImages
    MaxGraphSections = 4
INVARIANTS
    BlocksAreBasic
    ControlFlowIsCovered
    AddressIsExact
    EntriesNestAsWritten
    ComponentsAreFinal
    AnalysisIsComplete
    OverlapIsFound
    PlanPlacesTheSegments
    TotalsAreExact
