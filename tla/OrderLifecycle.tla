--------------------------- MODULE OrderLifecycle ---------------------------
(***************************************************************************)
(* What an order's status promises its readers: it starts in one of the    *)
(* initial states and only ever moves along the machine's transitions.     *)
(* Transitions is a parameter because a store may extend the default table.*)
(***************************************************************************)
CONSTANTS States, InitialStates, Transitions

VARIABLE status

CanTransition(from, to) == to \in Transitions[from]

Init == status \in InitialStates

Move(to) ==
  /\ CanTransition(status, to)
  /\ status' = to

Next == \E to \in States : Move(to)

Spec == Init /\ [][Next]_status
=============================================================================
