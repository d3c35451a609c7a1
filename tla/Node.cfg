\* One ingress, an egress of its CA whose certificate comes and goes, and one of another CA.
CONSTANTS
    ing = ing
    e1 = e1
    e2 = e2
    c1 = c1
    c2 = c2
    c3 = c3
    None = None
    Ingress = ing
    Egresses = {e1, e2}
    Conns = {c1, c2, c3}
    Owner <- Owners
    Cert <- Certs
    Pool <- Pools
    MaxClock = 3
SPECIFICATION Spec
INVARIANTS
    TypeOK
    MutuallyTrusted
    RefusedOnlyAcrossCAs
PROPERTIES
    AcceptLoopIsFreed
    RegistersAgain
CHECK_DEADLOCK FALSE
