--------------------------- MODULE MCRateLimiter ---------------------------
(* A small instance of RateLimiter. *)
EXTENDS RateLimiter

CONSTANTS r1, r2, r3, r4

FourRequests == {r1, r2, r3, r4}
=============================================================================
