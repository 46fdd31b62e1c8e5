SPECIFICATION Spec
CONSTANTS
    MaxSessions = 3
    Keys <- SomeKeys
    Default <- SomeDefaults
    Offered <- SomeOffered
    Acceptable <- SomeAcceptable
INVARIANTS
    ManagerInv
    RowMatchesSession
PROPERTIES
    AcceptedByItsOwnDialog
    SendClosesThePrevious
    SettingsSurvive
CHECK_DEADLOCK FALSE
