------------------------------ MODULE MCContacts ------------------------------
(***************************************************************************)
(* Values of the constants of Contacts for TLC: a transfer and a rating, of   *)
(* different parties, and a book of three entries out of four addresses.      *)
(***************************************************************************)
EXTENDS Contacts, TLC

CONSTANTS alice, bob, carol, dave, transfer, rating, q1, q2, q3

Addresses == {alice, bob, carol, dave}
Transactions == {transfer, rating}
Ratings == {rating}
Parties == transfer :> alice @@ rating :> bob
Requests == {q1, q2, q3}

\* Requests are only told apart, and so are the addresses no transaction proposes.
Symmetry == Permutations(Requests) \cup Permutations({carol, dave})
=============================================================================
