-------------------------------- MODULE Ledger --------------------------------
(***************************************************************************)
(* What sending promises, without pages, requests or timeouts: every send is  *)
(* charged to one payer and stamped once, with how many payments of the payer *)
(* it has seen (or fewer).  It is taken only as the payer's very next payment, *)
(* a later one taking the place of an earlier one that is still open, and the *)
(* user is told that it was sent only once it was taken.                     *)
(* Sending implements it, see Promise there.                                 *)
(***************************************************************************)
EXTENDS Integers, Sequences

CONSTANTS
    Account,    \* who pays
    Send,       \* what is sent
    None        \* nil, and in a list of payments one made elsewhere

VARIABLES
    payer,      \* the account a send is charged to
    stamp,      \* how many payments it has seen
    taken,      \* the sends that were ever taken
    open,       \* of these, the ones that may still be paid
    paid,       \* an account's payments
    told        \* the sends the user was told of as sent

vars == <<payer, stamp, taken, open, paid, told>>

Init ==
    /\ payer = [t \in Send |-> None]
    /\ stamp = [t \in Send |-> None]
    /\ taken = {}
    /\ open = {}
    /\ paid = [a \in Account |-> <<>>]
    /\ told = {}

Order(t, a) ==
    /\ payer[t] = None
    /\ payer' = [payer EXCEPT ![t] = a]
    /\ UNCHANGED <<stamp, taken, open, paid, told>>

Stamp(t) ==
    /\ payer[t] # None
    /\ stamp[t] = None
    /\ \E n \in 0..Len(paid[payer[t]]) : stamp' = [stamp EXCEPT ![t] = n]
    /\ UNCHANGED <<payer, taken, open, paid, told>>

Without(a) == {t \in open : payer[t] # a}

Take(t) ==
    /\ stamp[t] # None
    /\ t \notin taken
    /\ stamp[t] = Len(paid[payer[t]])
    /\ taken' = taken \cup {t}
    /\ open' = Without(payer[t]) \cup {t}
    /\ UNCHANGED <<payer, stamp, paid, told>>

Pay(t) ==
    /\ t \in open
    /\ paid' = [paid EXCEPT ![payer[t]] = Append(@, t)]
    /\ open' = Without(payer[t])
    /\ UNCHANGED <<payer, stamp, taken, told>>

\* A payment made from another device: what was open can no longer be paid.
PayElsewhere(a) ==
    /\ paid' = [paid EXCEPT ![a] = Append(@, None)]
    /\ open' = Without(a)
    /\ UNCHANGED <<payer, stamp, taken, told>>

Tell(t) ==
    /\ t \in taken
    /\ told' = told \cup {t}
    /\ UNCHANGED <<payer, stamp, taken, open, paid>>

Next ==
    \/ \E t \in Send :
          \/ \E a \in Account : Order(t, a)
          \/ Stamp(t) \/ Take(t) \/ Pay(t) \/ Tell(t)
    \/ \E a \in Account : PayElsewhere(a)

Spec == Init /\ [][Next]_vars
===============================================================================
