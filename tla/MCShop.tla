------------------------------- MODULE MCShop --------------------------------
(* The services around an order: its stock, the webhooks that tell of it,  *)
(* the codes and gift cards that pay for it, the sales a till queued while *)
(* offline, the appointment it books. The parts share no state, so each    *)
(* behaviour moves one of them, the one its scene names, and leaves the    *)
(* others as they began. One card is carried by both checkouts.            *)
EXTENDS MCInventory, WebhookDelivery, Discounts, OfflineQueue, Bookings, TLC

CONSTANTS r1, r2, g1, g2

VARIABLE scene

MCCodes  == [r \in Checkouts |-> IF r = r1 THEN {g1, g2} ELSE {g1}]
MCDeltas == {-2, 2}

ShopSymmetry == Permutations(Operations) \cup Permutations(Clerks)

ShopInit ==
  /\ scene \in {"stock", "webhook", "discount", "offline", "booking"}
  /\ Init /\ WebInit /\ DiscountInit /\ OfflineInit /\ BookingInit
  /\ scene # "stock" => rows = {} /\ storeOwned

ShopNext ==
  \/ /\ scene = "stock" /\ Next
     /\ UNCHANGED <<scene, webVars, discountVars, offlineVars, bookingVars>>
  \/ /\ scene = "webhook" /\ WebNext
     /\ UNCHANGED <<scene, vars, discountVars, offlineVars, bookingVars>>
  \/ /\ scene = "discount" /\ DiscountNext
     /\ UNCHANGED <<scene, vars, webVars, offlineVars, bookingVars>>
  \/ /\ scene = "offline" /\ OfflineNext
     /\ UNCHANGED <<scene, vars, webVars, discountVars, bookingVars>>
  \/ /\ scene = "booking" /\ BookingNext
     /\ UNCHANGED <<scene, vars, webVars, discountVars, offlineVars>>

ShopSpec ==
  ShopInit /\ [][ShopNext]_<<scene, vars, webVars, discountVars, offlineVars, bookingVars>>

TypesOK ==
  TypeOK /\ WebTypeOK /\ DiscountTypeOK /\ OfflineTypeOK /\ BookingTypeOK
=============================================================================
