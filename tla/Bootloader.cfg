\* Resets, worn cells of data and CRC, and the ready line, at any time.
CONSTANTS
    Configs <- SomeConfigs
    Byte = 2
    Blank = Blank
    Worn = {1, 4, 6}
    MaxCalls = 3
    MaxJumps = 2
SPECIFICATION FairSpec
INVARIANTS ValidMeansWhole OneJumpPerRequest TrueMeansStored
PROPERTIES JumpArrives
