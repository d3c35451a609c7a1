\* Two messages of lengths around the edges of the prefix, in pieces.
CONSTANTS
    Lens <- EdgeLens
    Cuts <- EdgeCuts
    MaxWrites = 3
SPECIFICATION Spec
INVARIANTS
    TypeOK
    ReceivedIsSent
PROPERTIES
    NothingLeftBehind
    ImplementsMessageStream
CHECK_DEADLOCK FALSE
