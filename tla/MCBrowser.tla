-------------------------------- MODULE MCBrowser --------------------------------
(* ItemList on a small instance: two items, one filter that hides the second. *)
EXTENDS ItemList, TLC

CONSTANTS unplaced

MCMatch == unplaced :> {1}
TaskSymmetry == Permutations(Tasks)
=============================================================================
