------------------------- MODULE MCSubscriptionPace -------------------------
(* A small instance of SubscriptionPace. *)
EXTENDS SubscriptionPace

CONSTANTS r1, r2

TwoRequests == {r1, r2}
=============================================================================
