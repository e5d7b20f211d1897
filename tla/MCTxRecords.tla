----------------------------- MODULE MCTxRecords -----------------------------
(***************************************************************************)
(* Values of the constants of TxRecords for TLC: pages of two transfers, an   *)
(* account of up to three pages and one page more to be found empty.         *)
(***************************************************************************)
EXTENDS TxRecords, TLC

CONSTANTS a1, a2

TwoAccounts == {a1, a2}

FiveAndOne == a1 :> 5 @@ a2 :> 1
=============================================================================
