SPECIFICATION LoopSpec
CONSTANTS
    NumFiles = 4
    ManifestSize <- SizesFour
    SourceSize <- SizesFour
    RelPath <- PathsFour
    MaxCopies = 4
    PreallocExtends = TRUE
    SmallTail = {1, 2}
    DotPartial = {}
    Hole = Hole
    TotalSize = 7
    Policy = "Rename"
    AutoAccept = FALSE
    Controls = {"send"}
    Cancellers = {}
    Faults = {}
    ByButton = TRUE
    MaxPauses = 3
    Window = 12
    MaxPending = 2
    Capacity = 2
INVARIANTS
    WakeUpComes
PROPERTIES
    ImplementsSession
    TransferFinishes
    EndsOnce
CHECK_DEADLOCK FALSE
