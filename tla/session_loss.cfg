SPECIFICATION FairSpec
CONSTANTS
    NumFiles = 4
    ManifestSize <- SizesFour
    SourceSize <- SizesFour
    RelPath <- PathsDotted
    MaxCopies = 4
    PreallocExtends = TRUE
    SmallTail = {1, 4}
    DotPartial <- PartialOfA
    Hole = Hole
    TotalSize = 7
    Policy = "Skip"
    AutoAccept = TRUE
    Controls = {}
    Cancellers = {"send", "recv"}
    Faults = {"network", "diskfull", "partial", "write", "flush", "rename", "crash"}
    ByButton = TRUE
    MaxPauses = 3
    Window = 2
INVARIANTS
    CommittedButTail
PROPERTIES
    LossNoticed
    FailureReachesSender
CHECK_DEADLOCK FALSE
