\* One writer, as in the program: the send loop of the smux session.
CONSTANTS
    w1 = w1
    w2 = w2
    Writers <- OneWriter
    Sizes <- WriteSizes
    wBuffMax = 2
    wBuffLow = 1
    MaxWrites = 3
SPECIFICATION Spec
PROPERTY EveryWriteReturns
CHECK_DEADLOCK FALSE
