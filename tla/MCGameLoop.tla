------------------------------ MODULE MCGameLoop ------------------------------
(* GameLoop with one card for each player: the loop does not look at the cards. *)
EXTENDS GameLoop
==============================================================================
