SPECIFICATION FairSpec
CONSTANTS
    c1 = c1
    c2 = c2
    r1 = r1
    r2 = r2
    v1 = v1
    v2 = v2
    None = None
    Contract <- OneContract
    Refresh <- TwoRefreshes
    Reading <- OneReading
    MaxHeight = 0
    PlainTx <- NoBlocks
    CreationTx <- NoBlocks
    TokenTx <- NoBlocks
PROPERTIES
    RefreshEnds
    RegisteredIsRefreshed
