\* A prompt radio, or late answers and other events; retries and resets.
CONSTANTS
    N = 4
    QueueSize = 2
    Guard = 1
    MaxCalls = 2
    MaxInits = 1
    MaxOthers = 3
SPECIFICATION SetupFairSpec
INVARIANTS OfferedInOrder SuccessConfigured OthersReachApp
PROPERTIES CallReturns SetupSucceeds
CHECK_DEADLOCK FALSE
