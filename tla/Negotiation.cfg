\* The egress trickles one candidate, both peers may time out.
CONSTANTS
    Cands <- OneNone
    Deadlined = {"egress", "ingress"}
SPECIFICATION Spec
PROPERTIES
    InOrderDescriptionArrives
    SettlesAfterDeadline
CHECK_DEADLOCK FALSE
