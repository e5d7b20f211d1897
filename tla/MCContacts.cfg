SPECIFICATION Spec
CONSTANTS
    alice = alice
    bob = bob
    carol = carol
    dave = dave
    transfer = transfer
    rating = rating
    q1 = q1
    q2 = q2
    q3 = q3
    Add = Add
    None = None
    Address <- Addresses
    Tx <- Transactions
    Rating <- Ratings
    Party <- Parties
    Request <- Requests
    MaxBook = 3
    MaxDepth = 5
INVARIANT
    EditorFits
PROPERTIES
    BookKept
    RatesShown
SYMMETRY Symmetry
