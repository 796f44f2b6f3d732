SPECIFICATION FairSpec
CONSTANTS
    MaxRequests = 3
    MaxDeliveries = 4
    Buffer = 1
INVARIANT FailureReported
PROPERTIES ImplementsLine HandlerReturns GoroutinesEnd
CHECK_DEADLOCK FALSE
