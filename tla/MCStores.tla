------------------------------ MODULE MCStores ------------------------------
(* What happens to an order in the order service and around it: its push   *)
(* to a store, its returns, the store's deliveries about it. The parts     *)
(* share no state, so each behaviour moves one of them, the one its scene  *)
(* names, and leaves the others as they began. Delivery d1 carries one     *)
(* parcel and d2 both.                                                     *)
EXTENDS MCOrders, ChannelOrders, ChannelReturns, ChannelDeliveries

CONSTANTS d1, d2, p1, p2

VARIABLE scene

MCCarries == [d \in Deliveries |-> IF d = d1 THEN {p1} ELSE {p1, p2}]

StoresInit ==
  /\ scene \in {"order", "push", "return", "delivery"}
  /\ Init /\ PushInit /\ ReturnInit /\ HookInit
  /\ scene # "order" => status = "pending"

StoresNext ==
  \/ scene = "order"    /\ Next       /\ UNCHANGED <<scene, pushVars, returnVars, hookVars>>
  \/ scene = "push"     /\ PushNext   /\ UNCHANGED <<scene, vars, returnVars, hookVars>>
  \/ scene = "return"   /\ ReturnNext /\ UNCHANGED <<scene, vars, pushVars, hookVars>>
  \/ scene = "delivery" /\ HookNext   /\ UNCHANGED <<scene, vars, pushVars, returnVars>>

StoresSpec == StoresInit /\ [][StoresNext]_<<scene, vars, pushVars, returnVars, hookVars>>

TypesOK == TypeOK /\ PushTypeOK /\ ReturnTypeOK /\ HookTypeOK
=============================================================================
