\* The egress trickles one candidate; no deadline interferes.
CONSTANTS
    Cands <- OneNone
    Deadlined = {}
SPECIFICATION Spec
PROPERTY OfferReachesIngress
CHECK_DEADLOCK FALSE
