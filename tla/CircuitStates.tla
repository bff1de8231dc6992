---------------------------- MODULE CircuitStates ----------------------------
(***************************************************************************)
(* What a circuit breaker promises about its state, CbState of             *)
(* viber-router-api/src/circuit_breaker.rs: a closed circuit reaches       *)
(* half-open only through a cooldown, and neither a cooldown nor a         *)
(* half-open period lasts for ever.                                        *)
(***************************************************************************)
VARIABLE state

States == {"Closed", "Open", "HalfOpen"}

Init == state = "Closed"

\* Enough failures, or a failed probe.
Trip == state \in {"Closed", "HalfOpen"} /\ state' = "Open"

\* The cooldown is over.  It should end half-open; it ends closed when the
\* half-open marker is gone by then.
Cool == state = "Open" /\ state' \in {"HalfOpen", "Closed"}

\* Enough probe successes, or nobody probed for the grace period.
Close == state = "HalfOpen" /\ state' = "Closed"

Next == Trip \/ Cool \/ Close

Spec == Init /\ [][Next]_state

\* The circuit keeps leaving "Open": no server stays disabled for ever.
NeverStuckOpen == []<>(state # "Open")
=============================================================================
