--------------------------- MODULE MCApiBlockchain ---------------------------
(***************************************************************************)
(* Values of the constants of ApiBlockchain for TLC.                        *)
(***************************************************************************)
EXTENDS ApiBlockchain, TLC

CONSTANTS c1, c2, r1, r2, v1, v2

OneContract  == {c1}
TwoContracts == {c1, c2}
TwoRefreshes == {r1, r2}
OneReading   == {v1}
TwoReadings  == {v1, v2}

\* Contracts, refreshes and readings are interchangeable: sound for the safety run only.
Symmetry == Permutations(Contract) \cup Permutations(Refresh) \cup Permutations(Reading)

NoBlocks == {}

\* The safety run stops at a race on erc20Contracts, the liveness run goes on.
NotRaced == ~raced

\* The contracts that were heard of and are not forgotten.
Met ==
    {c \in Contract :
        \/ erc20[c] # None \/ db.erc20[c] # None \/ kit.erc20[c].has
        \/ c \in timer.todo \/ timer.copy[c] # None
        \/ \E r \in Refresh : c \in flight[r].balances}

\* What was answered to height and balance requests, as far as it is stored or shown.
Read ==
    {db.height, db.balance, kit.height, kit.balance}
        \cup {db.erc20[c] : c \in Contract} \cup {kit.erc20[c].balance : c \in Contract}

\* The safety run follows one of three at a time: the histories, two contracts that get
\* in each other's way, or answers that differ.  Neither a state nor a request depends on
\* what is stored but a start block, so that none of the three looks at the others, and
\* for the histories a refresh by the main thread is as good as one by the timer's.
OneAtATime ==
    LET Rows  == db.account \cup db.token # {} \/ tainted
        Pairs == Cardinality(Met) > 1
        Older == Cardinality(Read \cap Reading) > 1
    IN  (~(Rows /\ (Pairs \/ Older \/ timer.pc # "idle")) /\ ~(Pairs /\ Older))'

\* A chain with a creation between the account's transactions, and an erc20
\* transfer on either side of it.
PlainBlocks    == {1, 3}
CreationBlocks == {2}
TokenBlocks    == {1, 3}
=============================================================================
