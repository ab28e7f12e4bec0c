\* Two bonds, two losses of power and one failure.
CONSTANTS
    Msgs = 2
    QueueSize = 4
    Byte = 32
    Opcode = 9
    Top = 56
    MaxBonds = 2
    MaxBoots = 2
    MaxErrors = 1
SPECIFICATION FairSpec
INVARIANTS ValidBondWhole
PROPERTIES BondsKept RestoredAsStored EachBondOffered
