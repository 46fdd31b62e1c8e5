SPECIFICATION Spec
CONSTANTS
    MaxSessions = 3
    Keys <- SomeKeys
    Default <- SomeDefaults
    Offered <- SomeOffered
    Acceptable <- SomeAcceptable
PROPERTIES
    RunningSessionKept
CHECK_DEADLOCK FALSE
