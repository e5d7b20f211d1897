SPECIFICATION Spec
CONSTANTS
    c1 = c1
    c2 = c2
    r1 = r1
    r2 = r2
    v1 = v1
    v2 = v2
    None = None
    Contract <- TwoContracts
    Refresh <- TwoRefreshes
    Reading <- TwoReadings
    MaxHeight = 3
    PlainTx <- PlainBlocks
    CreationTx <- CreationBlocks
    TokenTx <- TokenBlocks
SYMMETRY Symmetry
CONSTRAINT NotRaced
ACTION_CONSTRAINT OneAtATime
INVARIANTS
    NoOrphanSyncing
    HoldersMatchContracts
    KitMirrorsDb
    HistoryHasNoGap
    TokenGapsAreUnderCreations
