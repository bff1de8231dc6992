--------------------------- MODULE MCCircuitBreaker ---------------------------
(* Small instances of CircuitBreaker. *)
EXTENDS CircuitBreaker, TLC

CONSTANTS r1, r2, r3

TwoRequests   == {r1, r2}
ThreeRequests == {r1, r2, r3}
Symmetry      == Permutations(Requests)
=============================================================================
