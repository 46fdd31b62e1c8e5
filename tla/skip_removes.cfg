SPECIFICATION Spec
CONSTANTS
    NumFiles = 3
    ManifestSize <- SizesThree
    SourceSize <- SizesThree
    RelPath <- PathsShared
    MaxCopies = 3
    PreallocExtends = TRUE
    SmallTail = {}
    DotPartial = {}
    Hole = Hole
    TotalSize = 3
    Policy = "Skip"
    AutoAccept = TRUE
    Controls = {}
    Cancellers = {}
    Faults = {}
    ByButton = TRUE
    MaxPauses = 2
    Window = 3
PROPERTIES
    NeverReplaced
CHECK_DEADLOCK FALSE
