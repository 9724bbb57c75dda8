------------------------------ MODULE MCInventory ------------------------------
(* Instances of Inventory for TLC. *)
EXTENDS Inventory, TLC

Symmetry == Permutations(Handlers) \cup Permutations(Boxes) \cup Permutations(Shelves)
=============================================================================
