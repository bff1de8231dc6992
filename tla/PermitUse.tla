----------------------------- MODULE PermitUse -----------------------------
(***************************************************************************)
(* What the circuit breakers expect of a request that check_access, in     *)
(* viber-router-api/src/circuit_breaker.rs, grants a probe permit: it      *)
(* holds one permit at a time, reports one verdict for it, and does report.*)
(***************************************************************************)
CONSTANT Circuits

VARIABLE permit  \* of each circuit: "none", "held", or the verdict reported

Verdicts == {"success", "release", "error"}

Init == permit = [c \in Circuits |-> "none"]

\* Access::Probe
Grant(c) ==
    /\ \A d \in Circuits : permit[d] # "held"
    /\ permit[c] = "none"
    /\ permit' = [permit EXCEPT ![c] = "held"]

\* record_probe_success, release_probe, or record_error for a probe.
Report(c) ==
    /\ permit[c] = "held"
    /\ \E verdict \in Verdicts : permit' = [permit EXCEPT ![c] = verdict]

Next == \E c \in Circuits : Grant(c) \/ Report(c)

Spec == Init /\ [][Next]_permit

\* No permit has to wait for its expiry.
AlwaysReported ==
    \A c \in Circuits : permit[c] = "held" ~> permit[c] \in Verdicts
=============================================================================
