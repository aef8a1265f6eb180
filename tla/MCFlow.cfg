SPECIFICATION FairSpec
CONSTANTS
    HandFlows <- SomeHandFlows
    BufferSize = 3
    XoffLimit = 1
    XonLimit = 1
INVARIANTS
    AttemptsExact
    RtsUpWhileSending
    HoldsMatchBuffer
PROPERTIES
    CloseCompletes
CHECK_DEADLOCK FALSE
