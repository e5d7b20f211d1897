SPECIFICATION Spec
CONSTANTS
    m1 = m1
    m2 = m2
    k1 = k1
    k2 = k2
    n1 = n1
    n2 = n2
    p1 = p1
    p2 = p2
    t1 = t1
    t2 = t2
    None = None
    Mnemonic <- OneMnemonic
    ImportKey <- BothKeys
    Key <- Keys
    Address <- Addresses
    Name <- OneName
    ImportName = n2
    ChildName = n2
    Passcode <- TwoPasscodes
    Tap <- TwoTaps
    MaxSlot = 0
    AddressOf <- StoreAddress
    ChildKey <- Derived
CONSTRAINTS
    NotTorn
CHECK_DEADLOCK FALSE
INVARIANTS
    PagesOpen
    CurrentListed
    CurrentShown
