\* Either sketch over two links, with a hardware error; and the rings of one.
CONSTANTS
    Pipes = {heart, battery}
    Tx = heart
    Control = battery
    Heart = heart
    Battery = battery
    Values <- Rates
    NoData = NoData
    BuffSize <- Sizes
    Total = 2
    CreditWrap = 3
    Size = 2
    MaxEvents = 3
    MaxLinks = 2
    MaxFailures = 1
SPECIFICATION BoundedSpec
INVARIANTS PictureCurrent CreditsAccounted
PROPERTIES SamplesFifo
CHECK_DEADLOCK FALSE
