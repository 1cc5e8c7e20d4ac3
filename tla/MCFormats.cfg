SPECIFICATION FormatsSpec
CONSTANTS
    Components = {"snapshots", "plans", "manifests", "parsers", "symbols",
                  "resources", "reader", "narrow_reader"}
    Radix = 2
    MaxWord = 4
    MemoryLimit = 4
    CodecLimit = 3
    MaxSegments = 2
    Mappings <- MCMappings
    MaxFileSize = 88
    Foreign <- MCForeign
    ForeignFiles <- MCForeignFiles
    Crc <- MCCrc
INVARIANTS
    RestoredMemoryIsSound
    RestoreIsAtomic
    RestoresTheCapture
    CaptureCanBeRestored
    PlansSurviveFiles
    ManifestsSurvive
    ChangedSectionsAreNoticed
    ParsersLeaveKnownChecks
    RelocationsNameTheirSymbols
    IndexFindsTheSymbols
    TranslationsAgree
    CyclesAreFound
    PayloadsAreInTheFile
    ReadsAreExact
PROPERTY
    WalksEnd
CHECK_DEADLOCK FALSE
