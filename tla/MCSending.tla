------------------------------ MODULE MCSending ------------------------------
(***************************************************************************)
(* Values of the constants of Sending for TLC.  Prices in gwei: a transfer's *)
(* is chosen with a slider from 2 on, the other pages' are fixed.  Accounts   *)
(* and sends are only compared for equality, so they may be permuted.        *)
(***************************************************************************)
EXTENDS Sending, TLC

CONSTANTS a1, a2, t1, t2

TwoAccounts == {a1, a2}
TwoSends    == {t1, t2}

Perms == Permutations(TwoAccounts) \cup Permutations(TwoSends)

Gwei == [k \in Kind |-> IF k \in {"transfer", "rating"} THEN {10} ELSE {1}]
=============================================================================
