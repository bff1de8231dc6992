----------------------------- MODULE RateLimiter -----------------------------
(***************************************************************************)
(* The fixed-window request limit of one server,                           *)
(* viber-router-api/src/rate_limiter.rs: a Redis counter that expires      *)
(* Window ticks after its first increment.  The limit per server and the   *)
(* limit per sub-key and server run the same commands on different keys,   *)
(* so both are this module.                                                *)
(*                                                                         *)
(* The proxy checks the counter, goes through its remaining skip           *)
(* conditions, and only then increments: between the check and the         *)
(* increment other requests check too.                                     *)
(***************************************************************************)
EXTENDS Naturals, FiniteSets

CONSTANTS
    Requests,    \* the requests that can be in flight at the same time
    MaxRequests, \* max_requests, or per_key_max_requests
    Window,      \* rate_window_seconds, in ticks
    Faults       \* the sets of faults looked at

ASSUME LimiterAssumption ==
    /\ IsFiniteSet(Requests) /\ Requests # {}
    /\ {MaxRequests, Window} \subseteq Nat \ {0}
    /\ Faults \subseteq SUBSET {"redis", "crash"}

VARIABLES
    count, \* the counter rl:*; 0 if missing
    ttl,   \* ticks left of the counter; 0 when it has no expiry
    at,    \* what a request does next
    faults \* the faults that may happen in this behaviour: "redis" fails
           \* commands, "crash" drops requests

vars == <<count, ttl, at, faults>>

-----------------------------------------------------------------------------

\* The most the counter should reach: every request in flight saw the last
\* free place.
Overshoot == MaxRequests - 1 + Cardinality(Requests)

\* When Redis errors let any number of requests through, the counter saturates
\* above every value the code or a property compares it with.
CountCap == Overshoot + 1

TypeOK ==
    /\ count \in 0..CountCap
    /\ ttl \in 0..Window
    /\ at \in [Requests -> {"idle", "admitted", "expire"}]
    /\ faults \in Faults

Init ==
    /\ count = 0
    /\ ttl = 0
    /\ at = [r \in Requests |-> "idle"]
    /\ faults \in Faults

Admitted == {r \in Requests : at[r] = "admitted"}

\* Whether a Redis command fails.  The code goes on with its default; the
\* command may have had its effect.
Lost == "redis" \in faults

Goto(r, step) == at' = [at EXCEPT ![r] = step]

-----------------------------------------------------------------------------

AdmitWithoutCheck(r) ==
    /\ at[r] = "idle"
    /\ Goto(r, "admitted")
    /\ UNCHANGED <<count, ttl, faults>>

\* is_rate_limited: GET.  A limited server is skipped, and so is no server
\* when Redis does not answer.
Check(r) ==
    /\ at[r] = "idle"
    /\ count < MaxRequests \/ Lost
    /\ Goto(r, "admitted")
    /\ UNCHANGED <<count, ttl, faults>>

\* A later skip condition of the proxy: the server is not tried after all.
Skip(r) ==
    /\ at[r] = "admitted"
    /\ Goto(r, "idle")
    /\ UNCHANGED <<count, ttl, faults>>

IncrementNeverFirst(r) ==
    /\ at[r] = "admitted"
    /\ count' = IF count < CountCap THEN count + 1 ELSE CountCap
    /\ Goto(r, IF count' = 0 THEN "expire" ELSE "idle")
    /\ UNCHANGED <<ttl, faults>>

\* increment_rate_limit: INCR; the request that created the counter goes on to
\* give it an expiry.
Increment(r) ==
    /\ at[r] = "admitted"
    /\ \/ /\ count' = IF count < CountCap THEN count + 1 ELSE CountCap
          /\ \/ Goto(r, IF count' = 1 THEN "expire" ELSE "idle")
             \/ Lost /\ Goto(r, "idle")
       \/ Lost /\ Goto(r, "idle") /\ UNCHANGED count
    /\ UNCHANGED <<ttl, faults>>

ExpireInMinutes(r) ==
    /\ at[r] = "expire"
    /\ ttl' = 60 * Window
    /\ Goto(r, "idle")
    /\ UNCHANGED <<count, faults>>

\* increment_rate_limit: EXPIRE
Expire(r) ==
    /\ at[r] = "expire"
    /\ \/ ttl' = IF count > 0 THEN Window ELSE 0
       \/ Lost /\ UNCHANGED ttl
    /\ Goto(r, "idle")
    /\ UNCHANGED <<count, faults>>

\* The client hangs up, or the instance dies, between two commands.
Abandon(r) ==
    /\ "crash" \in faults
    /\ at[r] # "idle"
    /\ Goto(r, "idle")
    /\ UNCHANGED <<count, ttl, faults>>

Tick ==
    /\ count' = (IF ttl = 1 THEN 0 ELSE count)
    /\ ttl' = (IF ttl > 0 THEN ttl - 1 ELSE 0)
    /\ UNCHANGED <<at, faults>>

Next ==
    \/ Tick
    \/ \E r \in Requests :
          Check(r) \/ Skip(r) \/ Increment(r) \/ Expire(r) \/ Abandon(r)

Spec == Init /\ [][Next]_vars

\* Time goes on, and a request that created the counter gets to expire it.
FairSpec ==
    /\ Spec
    /\ WF_vars(Tick)
    /\ \A r \in Requests : WF_vars(Expire(r))

-----------------------------------------------------------------------------

\* However the checks and increments of concurrent requests interleave, and
\* whichever requests are dropped in between, one window lets through at most
\* the limit and one request more per other request in flight, unless Redis
\* loses commands.
BoundedOvershoot == "redis" \notin faults => count <= Overshoot

\* Unless something is lost or dropped, a counter without an expiry is about to
\* be given one: the code sets the expiry at the first increment, never again.
WindowEnds ==
    faults = {} /\ count > 0 /\ ttl = 0 => \E r \in Requests : at[r] = "expire"

\* Unless something is lost or dropped, a server at its limit becomes available
\* again, time after time.
NeverStuckLimited == []<>(count < MaxRequests \/ faults # {})
=============================================================================
