\* One endpoint, which the ingress allows, and one client connection.
CONSTANTS
    c1 = c1
    None = None
    endpoints <- JustWeb
    Allows <- AllowWeb
    Wildcard = FALSE
    Conns <- OneConn
SPECIFICATION Spec
INVARIANT DialsRemote
CHECK_DEADLOCK FALSE
