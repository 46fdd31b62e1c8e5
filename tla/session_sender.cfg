SPECIFICATION Spec
CONSTANTS
    NumFiles = 3
    ManifestSize <- SizesThree
    SourceSize <- SizesThree
    RelPath <- PathsShared
    MaxCopies = 3
    PreallocExtends = TRUE
    SmallTail = {2}
    DotPartial = {}
    Hole = Hole
    TotalSize = 3
    Policy = "Rename"
    AutoAccept = FALSE
    Controls = {"send"}
    Cancellers = {"send", "recv"}
    Faults = {"connect", "network", "source", "read", "diskfull", "partial", "write", "rename", "reject", "crash"}
    ByButton = TRUE
    MaxPauses = 2
    Window = 3
INVARIANTS
    TypeOK
    CommittedExact
    CompletedMeansDelivered
    AckIsForCurrentFile
    WriterHoldsPrefix
    BytesConserved
PROPERTIES
    PartialDataKept
    ImplementsDelivery
CHECK_DEADLOCK FALSE
