-------------------------- MODULE MCMnemonicConfirm --------------------------
(***************************************************************************)
(* Values of the constants of MnemonicConfirm for TLC: a short phrase in     *)
(* which words occur twice.                                                *)
(***************************************************************************)
EXTENDS MnemonicConfirm

CONSTANTS w1, w2, w3

Words == {w1, w2, w3}

ShortPhrase == <<w1, w2, w1, w3, w2>>
=============================================================================
