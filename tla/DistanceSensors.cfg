\* The sensor with the default address is stopped and started again; the modes
\* are the slowest and the fastest.
CONSTANTS
    front = front
    left = left
    right = right
    Order <- RobotOrder
    Own <- RobotOwn
    Restarted = {front}
    Modes = {20000, 200000}
    MaxSamples = 2
    MaxStops = 2
SPECIFICATION FairSpec
INVARIANTS AloneAtAddress BudgetMet
PROPERTIES ReadingsAreNew EachIsRead
