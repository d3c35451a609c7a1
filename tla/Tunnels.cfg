\* Two endpoints, of which the ingress allows one, and one client connection.
CONSTANTS
    c1 = c1
    None = None
    endpoints <- WebAndAdmin
    Allows <- AllowWeb
    Wildcard = FALSE
    Conns <- OneConn
SPECIFICATION Spec
INVARIANTS
    TypeOK
    ClosedListenerIsCancelled
    OnlyAuthorizedServed
    ReturnedIsQuiet
CHECK_DEADLOCK FALSE
