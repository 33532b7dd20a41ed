----------------------------- MODULE MCCheckout -----------------------------
(* Attempts on one cart, shoppers' or staff's, with the same idempotency   *)
(* key or without one.  Nothing tells one attempt from another but its     *)
(* caller, which every initial state draws.                                *)
EXTENDS Checkout, TLC

CONSTANTS a, b, k

Symmetry == Permutations(Attempts)

(* Once a status write has overwritten a checkout only TypeOK and          *)
(* PaidOrdersHoldStock say anything: such a state is checked and not       *)
(* explored further (CheckoutProofs proves both in every state).           *)
Watched == ~overwritten

(* The attempts are retries or double clicks of one actor.                 *)
SameActor == \A x, y \in Attempts : caller[x].staff = caller[y].staff
=============================================================================
