SPECIFICATION Spec
CONSTANTS
    a1 = a1
    a2 = a2
    p1 = p1
    p2 = p2
    Blank = Blank
    None = None
    Account <- TwoAccounts
    Person <- TwoPersons
    MaxApps = 2
    MaxDepth = 4
INVARIANTS
    NoDataMissed
    RegistersOnePiece
    PhotosOfApplicant
SYMMETRY Symmetry
CONSTRAINTS
    NotStrayed
    PassportsApart
