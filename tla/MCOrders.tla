------------------------------ MODULE MCOrders ------------------------------
(* One line of two units whose value does not halve evenly, and delivery. *)
EXTENDS Orders, TLC

CONSTANTS line

MCQuantity  == [l \in Lines |-> 2]
MCLineValue == [l \in Lines |-> 3]

Body(n, less, shipping, adjustment) ==
  [quantity |-> [l \in Lines |-> n], less |-> less, shipping |-> shipping,
   adjustment |-> adjustment]

MCRefundInputs == {Body(1, 0, 1, 0), Body(2, 1, 0, 1)}

CallerSymmetry == Permutations(Callers)
=============================================================================
