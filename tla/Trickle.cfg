\* The ingress trickles two candidates, the egress may time out.
CONSTANTS
    Cands <- NoneTwo
    Deadlined = {"egress"}
SPECIFICATION Spec
INVARIANTS
    TypeOK
    AppliedOnce
    BrokenOnlyByOverlap
    ClosedWhenTrickled
CHECK_DEADLOCK FALSE
