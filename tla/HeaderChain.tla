----------------------------- MODULE HeaderChain -----------------------------
(***************************************************************************)
(* What the SPV engine promises of its store, without streams, frames and     *)
(* requests: the headers grow only by a piece of one branch that begins with  *)
(* a header already there (with any, once they were cleared), and an account  *)
(* state is shown only for the last header, after which no header is added.  *)
(* SpvSync implements it, see Chain there.                                   *)
(***************************************************************************)
EXTENDS Integers

CONSTANTS
    Block,          \* the blocks, records with a height
    Checkpoint,     \* the block every store starts from
    Ancestor(_, _), \* the ancestor of a block at a height
    Last(_),        \* the headers of a store that count as its last
    None            \* nil

VARIABLES
    headers,    \* the stored headers
    balance,    \* the block whose account state is shown
    cleared     \* the store was cleared since it was opened

vars == <<headers, balance, cleared>>

Init ==
    /\ headers = {Checkpoint}
    /\ balance = None
    /\ cleared = FALSE

\* The store is opened again; an empty one gets the checkpoint.
Reopen ==
    /\ headers' = IF headers = {} THEN {Checkpoint} ELSE headers
    /\ balance' = None
    /\ cleared' = FALSE

Clear ==
    /\ headers' = {}
    /\ balance' = None
    /\ cleared' = TRUE

\* The branch that ends in b, from height h on.
Branch(b, h) == {Ancestor(b, i) : i \in h..b.height}

Extend(b, h) ==
    /\ balance = None \/ cleared
    /\ headers = {} \/ Ancestor(b, h) \in headers
    /\ headers' = headers \cup Branch(b, h)
    /\ UNCHANGED <<balance, cleared>>

Prove(b) ==
    /\ cleared \/ b \in Last(headers)
    /\ balance' = b
    /\ UNCHANGED <<headers, cleared>>

Next ==
    \/ Reopen \/ Clear
    \/ \E b \in Block : Prove(b) \/ \E h \in 0..b.height : Extend(b, h)

Spec == Init /\ [][Next]_vars
==============================================================================
