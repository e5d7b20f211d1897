------------------------------ MODULE MCKycAudit ------------------------------
(***************************************************************************)
(* Values of the constants of KycAudit for TLC: an account that may apply     *)
(* again with corrected data, and another one with photos and answers of its  *)
(* own.                                                                      *)
(***************************************************************************)
EXTENDS KycAudit, TLC

CONSTANTS a1, a2, p1, p2

TwoAccounts == {a1, a2}

TwoPersons == {p1, p2}

\* Accounts are alike, and so is what a form may be filled with.
Symmetry == Permutations(TwoAccounts) \cup Permutations(TwoPersons)

\* Nothing is claimed of what follows once an account was changed under an answer or
\* a page: the first such states are checked, those after them are left out.
NotStrayed == ~strayed

\* What the accounts have stored and uploaded.
Met == ({info[a] : a \in Account} \cup {app[n].info : n \in DOMAIN app}) \cap Filled

Passports == cardType = "passport" \/ \E d \in Met : d.card = "passport"

\* With a passport about, one person is enough and one application, after any forms of
\* either card for either account: the corrections and repeated applications are
\* explored with identity cards.
PassportsApart ==
    Passports =>
        /\ Cardinality({d.person : d \in Met}) <= 1
        /\ asked = None
        /\ Len(stack) <= 3
        /\ Len(app) <= 1
=============================================================================
