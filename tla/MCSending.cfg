SPECIFICATION Spec
CONSTANTS
    a1 = a1
    a2 = a2
    t1 = t1
    t2 = t2
    None = None
    Account <- TwoAccounts
    Send <- TwoSends
    Price <- Gwei
    MaxMined = 2
INVARIANTS
    SignedByOwner
    NoNonceGap
    NotPaidTwice
    HudWhileSending
PROPERTY
    KeepsPromise
SYMMETRY Perms
