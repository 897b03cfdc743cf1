-------------------------------- MODULE EomPart --------------------------------
(***************************************************************************)
(* Parts of the program that share no state are put side by side: one of   *)
(* them is chosen at the start and moves, the others are Off.              *)
(***************************************************************************)
VARIABLE part

Off == FALSE
=============================================================================
