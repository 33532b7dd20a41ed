---------------------------- MODULE MCInventory -----------------------------
(* Two orders that reserve, one that does not. *)
EXTENDS Inventory

CONSTANTS o1, o2, o3

MCQty      == [o \in Orders |-> IF o = o2 THEN 2 ELSE 1]
MCReserves == [o \in Orders |-> o # o3]
=============================================================================
