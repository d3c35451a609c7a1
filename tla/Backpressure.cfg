\* Two writers, a buffer that parks above 2 and is low at 1.
CONSTANTS
    w1 = w1
    w2 = w2
    Writers <- TwoWriters
    Sizes <- WriteSizes
    wBuffMax = 2
    wBuffLow = 1
    MaxWrites = 3
SPECIFICATION Spec
INVARIANTS
    TypeOK
    WaiterAccounting
    ReadLoopNeverStuck
    LostWakeupOnlyInWindow
PROPERTIES
    CallbackLeavesNoWaiter
    RegisteredWriterWakes
    ReadLoopReleased
CHECK_DEADLOCK FALSE
