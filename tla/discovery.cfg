SPECIFICATION Spec
CONSTANTS
    Hosts = {me, peer}
    Me = me
    DefaultPort = 45821
    OtherPort = 50000
    Announce = 3
    Sweep = 4
    Timeout = 10
    MaxDelay = 1
    MaxChanges = 3
INVARIANTS
    DiscoveryInv
    StaleAddressesGo
    OwnListedBriefly
    ListIsTable
    HeardInTime
PROPERTIES
    DroppedOnlyIfSilent
CHECK_DEADLOCK FALSE
