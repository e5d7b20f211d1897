------------------------------ MODULE MCSpvSync ------------------------------
(***************************************************************************)
(* Values of the constants of SpvSync for TLC: four blocks above the          *)
(* checkpoint, the last with one more digit, two branches from the second on, *)
(* and replies that are cut after three headers.                                *)
(***************************************************************************)
EXTENDS SpvSync

=============================================================================
