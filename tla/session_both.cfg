SPECIFICATION Spec
CONSTANTS
    NumFiles = 2
    ManifestSize <- SizesOneTwo
    SourceSize <- SizesOneTwo
    RelPath <- PathsSame
    MaxCopies = 3
    PreallocExtends = TRUE
    SmallTail = {2}
    DotPartial = {}
    Hole = Hole
    TotalSize = 3
    Policy = "Rename"
    AutoAccept = FALSE
    Controls = {"send", "recv"}
    Cancellers = {"send", "recv"}
    Faults = {"connect", "network", "source", "read", "diskfull", "partial", "write", "flush", "rename", "reject", "crash"}
    ByButton = TRUE
    MaxPauses = 2
    Window = 2
INVARIANTS
    SessionInv
PROPERTIES
    NeverReplaced
    ImplementsPublication
CHECK_DEADLOCK FALSE
