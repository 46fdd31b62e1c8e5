CONSTANTS
    Paths <- SomePaths
    Order <- SomeOrder
    FilePaths <- SomeFiles
    FolderPaths <- SomeFolders
    BaseName <- SomeNames
    SizeOf <- SomeSizes
    Inside <- SomeInside
    MaxMetadata = 20
    MaxItems = 2
    MaxChunk = 18
    Word = 32
    Others <- SomeOthers
    MaxSent = 3
SPECIFICATION Spec
INVARIANTS
    PickIsTarget
    StartHasWork
    DeliveredAsSent
    NothingStuck
    ManifestIntact
PROPERTY RefusedOnlyIfTooLarge
CHECK_DEADLOCK FALSE
