SPECIFICATION Spec
CONSTANTS
    NumFiles = 2
    ManifestSize <- SizesOneTwo
    SourceSize <- SizesOneTwo
    RelPath <- PathsSame
    MaxCopies = 3
    PreallocExtends = TRUE
    SmallTail = {1}
    DotPartial = {}
    Hole = Hole
    TotalSize = 3
    Policy = "Rename"
    AutoAccept = FALSE
    Controls = {}
    Cancellers = {}
    Faults = {"flush"}
    ByButton = TRUE
    MaxPauses = 2
    Window = 3
INVARIANTS
    CommittedExact
CHECK_DEADLOCK FALSE
