\* Two shells and three commands, of which any may be killed.
CONSTANTS
    s1 = s1
    s2 = s2
    Shells = {s1, s2}
    Requests <- All
    KeyFiles <- TwoKeys
    CertFiles <- OneCert
    None = None
    Empty = Empty
    DefaultCA = 2
    MaxClock = 4
    MaxCommands = 3
SYMMETRY Symmetric
SPECIFICATION Spec
INVARIANTS
    TypeOK
    KeyMatchesCertificate
    DefaultIsAccepted
    CompleteUnlessKilled
PROPERTIES
    KeysAreKept
CHECK_DEADLOCK FALSE
