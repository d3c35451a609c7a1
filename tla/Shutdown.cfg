\* Two endpoints, of which the ingress allows one; no client connects.
CONSTANTS
    c1 = c1
    None = None
    endpoints <- WebAndAdmin
    Allows <- AllowWeb
    Wildcard = FALSE
    Conns <- NoConn
SPECIFICATION Spec
PROPERTIES
    EgressComesDown
    RefusedIsNotListening
    IngressComesDown
CHECK_DEADLOCK FALSE
