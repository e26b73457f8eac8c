-------------------------- MODULE MCInventoryChanges --------------------------
(* Three fingers, in the order a purge takes them. *)
EXTENDS InventoryChanges

CONSTANTS left, middle, right

Hands == <<left, middle, right>>
=============================================================================
