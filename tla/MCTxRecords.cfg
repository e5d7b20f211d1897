SPECIFICATION FairSpec
CONSTANTS
    a1 = a1
    a2 = a2
    None = None
    Account <- TwoAccounts
    PageSize = 2
    MaxTotal <- FiveAndOne
    MaxPage = 3
    MaxList = 6
INVARIANTS
    TypeOK
    NoTransferSkipped
    ListIsPages
PROPERTY
    SpinnersEnd
