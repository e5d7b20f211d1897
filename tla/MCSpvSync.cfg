SPECIFICATION FairSpec
CONSTANTS
    Top = 4
    ForkPoint = 1
    Boundary = 4
    MaxHeaders = 3
    MaxWire = 2
    None = None
INVARIANTS
    NoGap
    OneRequestOut
PROPERTIES
    KeepsChain
    SyncEnds

