\* Three requests of any kind against two ids.
CONSTANTS
    k1 = k1
    k2 = k2
    r1 = r1
    r2 = r2
    r3 = r3
    None = None
    Ids <- TwoIds
    Requests <- ThreeRequests
    Skews <- EdgeSkews
SPECIFICATION Spec
INVARIANTS
    TypeOK
    EntryHasLiveOwner
    RelayedToOwner
    UncontestedIsReachable
PROPERTIES
    NoTakeover
    DisconnectedIsDeregistered
CHECK_DEADLOCK FALSE
