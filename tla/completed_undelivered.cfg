SPECIFICATION Spec
CONSTANTS
    NumFiles = 2
    ManifestSize <- SizesTwoZero
    SourceSize <- SizesTwoZero
    RelPath <- PathsDistinct
    MaxCopies = 3
    PreallocExtends = TRUE
    SmallTail = {}
    DotPartial = {}
    Hole = Hole
    TotalSize = 2
    Policy = "Rename"
    AutoAccept = FALSE
    Controls = {"recv"}
    Cancellers = {}
    Faults = {}
    ByButton = TRUE
    MaxPauses = 2
    Window = 3
INVARIANTS
    CompletedMeansDelivered
CHECK_DEADLOCK FALSE
