--------------------------- MODULE CircuitBreaker ---------------------------
(***************************************************************************)
(* The circuit breaker of one (group, server, model) triple,               *)
(* viber-router-api/src/circuit_breaker.rs, as the proxy drives it.        *)
(*                                                                         *)
(* The circuit has no state of its own: it is read off the existence of    *)
(* five Redis keys.  Every step of this module is ONE Redis command, since *)
(* the code sends its commands one by one and any other request, on this   *)
(* or another instance of the router, can run between two of them.         *)
(*                                                                         *)
(* Time is counted in ticks.  A key that carries a time to live is the     *)
(* number of ticks it has left, and 0 when it does not exist.              *)
(***************************************************************************)
EXTENDS Naturals, FiniteSets

CONSTANTS
    Requests,         \* the requests that can be in flight at the same time
    MaxFailures,      \* cb_max_failures of the server
    Window,           \* cb_window_seconds: life of the error counter
    Cooldown,         \* cb_cooldown_seconds: life of the open key
    ProbeTTL,         \* PROBE_TTL_SECONDS: life of the probe permit
    Grace,            \* HALF_OPEN_GRACE_SECONDS
    SuccessThreshold, \* SUCCESS_THRESHOLD
    MaxHold,          \* most ticks a probe takes from permit to outcome
    Faults            \* the sets of faults looked at

ASSUME CircuitAssumption ==
    /\ {MaxFailures, Window, Cooldown, ProbeTTL} \subseteq Nat \ {0}
    /\ {Grace, SuccessThreshold} \subseteq Nat \ {0}
    /\ MaxHold \in Nat
    /\ Faults \subseteq SUBSET {"redis", "crash", "stall"}

VARIABLES
    open,     \* cb:open:*, set while the circuit cools down
    half,     \* cb:half:*, the half-open marker, meant to outlive open
    probe,    \* cb:probe:*, the permit of the probe in flight
    err,      \* cb:err:*, errors counted in the current window; 0 if missing
    errTtl,   \* ticks left of err; 0 when it has no expiry
    succ,     \* cb:succ:*, probe successes counted; 0 if missing
    succTtl,  \* ticks left of succ; 0 when it has no expiry
    at,       \* the command a request sends next
    cbProbe,  \* cb_probe: the request was granted the permit
    held,     \* ticks since the request was granted the permit
    faults    \* the faults that may happen in this behaviour: "redis" fails
              \* commands, "crash" drops requests, "stall" delays commands

keys == <<open, half, probe, err, errTtl, succ, succTtl>>
vars == <<keys, at, cbProbe, held, faults>>

-----------------------------------------------------------------------------
(* Types.  The code compares a counter with 1 and with its threshold only, *)
(* so a counter that saturates just above both takes the same branches.    *)

ErrCap  == MaxFailures + 1
SuccCap == SuccessThreshold + 1

Steps == {"idle", "checkHalf", "claim", "upstream",
          "incrSucc", "expireSucc", "delHalf", "clean", "delProbe",
          "incrErr", "expireErr", "setOpen", "arm", "forget"}

TypeOK ==
    /\ open \in 0..Cooldown
    /\ half \in 0..(Cooldown + Grace)
    /\ probe \in 0..ProbeTTL
    /\ err \in 0..ErrCap /\ errTtl \in 0..Window
    /\ succ \in 0..SuccCap /\ succTtl \in 0..Grace
    /\ at \in [Requests -> Steps]
    /\ cbProbe \in [Requests -> BOOLEAN]
    /\ held \in [Requests -> 0..MaxHold]
    /\ faults \in Faults

Init ==
    /\ open = 0 /\ half = 0 /\ probe = 0
    /\ err = 0 /\ errTtl = 0 /\ succ = 0 /\ succTtl = 0
    /\ at = [r \in Requests |-> "idle"]
    /\ cbProbe = [r \in Requests |-> FALSE]
    /\ held = [r \in Requests |-> 0]
    /\ faults \in Faults

-----------------------------------------------------------------------------
(* Helpers *)

Bump(count, cap) == IF count < cap THEN count + 1 ELSE cap

Pred(ticks) == IF ticks > 0 THEN ticks - 1 ELSE 0

\* derive_state
CbState == IF open > 0 THEN "Open" ELSE IF half > 0 THEN "HalfOpen" ELSE "Closed"

\* SET NX takes effect only when the key is missing.
NXForgotten(key) == TRUE
NX(key) == key = 0

\* Whether a Redis command, or getting a connection for it, fails.  The code
\* drops the error and takes its default; the command may have had its effect.
Lost == "redis" \in faults

Goto(r, step) == at' = [at EXCEPT ![r] = step] /\ UNCHANGED <<cbProbe, held>>

\* The request is over for this circuit: it returned, or moved to another server.
Leave(r) ==
    /\ at' = [at EXCEPT ![r] = "idle"]
    /\ cbProbe' = [cbProbe EXCEPT ![r] = FALSE]
    /\ held' = [held EXCEPT ![r] = 0]

Probing == {r \in Requests : cbProbe[r]}

-----------------------------------------------------------------------------
(* check_access *)

\* EXISTS open.  An open circuit skips the server whatever the second EXISTS
\* says, so nothing follows then.  Without a connection access is allowed.
CheckOpen(r) ==
    /\ at[r] = "idle"
    /\ \/ open = 0 /\ Goto(r, "checkHalf")
       \/ Lost /\ Goto(r, "checkHalf")
       \/ Lost /\ Goto(r, "upstream")
    /\ UNCHANGED <<keys, faults>>

\* EXISTS half, a command after EXISTS open.
CheckHalf(r) ==
    /\ at[r] = "checkHalf"
    /\ \/ Goto(r, IF half > 0 THEN "claim" ELSE "upstream")
       \/ Lost /\ Goto(r, "upstream")
    /\ UNCHANGED <<keys, faults>>

\* SET probe NX EX: one request gets the permit, the others skip the server.
Claim(r) ==
    /\ at[r] = "claim"
    /\ \/ /\ NX(probe)
          /\ probe' = ProbeTTL
          /\ at' = [at EXCEPT ![r] = "upstream"]
          /\ cbProbe' = [cbProbe EXCEPT ![r] = TRUE]
          /\ UNCHANGED held
       \/ (probe > 0 \/ Lost) /\ Leave(r) /\ UNCHANGED probe
       \/ NX(probe) /\ Lost /\ Leave(r) /\ probe' = ProbeTTL
    /\ UNCHANGED <<open, half, err, errTtl, succ, succTtl, faults>>

-----------------------------------------------------------------------------
(* What the proxy learns from the upstream server *)

\* A 200: only a probe reports it.
Succeed(r) ==
    /\ at[r] = "upstream"
    /\ IF cbProbe[r] THEN Goto(r, "incrSucc") ELSE Leave(r)
    /\ UNCHANGED <<keys, faults>>

InconclusiveLeaks(r) ==
    at[r] = "upstream" /\ Leave(r) /\ UNCHANGED <<keys, faults>>

\* An answer that says nothing about the server's health releases the permit.
Inconclusive(r) ==
    /\ at[r] = "upstream"
    /\ IF cbProbe[r] THEN Goto(r, "delProbe") ELSE Leave(r)
    /\ UNCHANGED <<keys, faults>>

\* A connection error, a timeout or a failover status.
Fail(r) ==
    /\ at[r] = "upstream"
    /\ Goto(r, IF cbProbe[r] THEN "setOpen" ELSE "incrErr")
    /\ UNCHANGED <<keys, faults>>

-----------------------------------------------------------------------------
(* record_probe_success and release_probe *)

\* INCR succ; its reply decides what follows.
IncrSucc(r) ==
    /\ at[r] = "incrSucc"
    /\ \/ /\ succ' = Bump(succ, SuccCap)
          /\ Goto(r, CASE succ' = 1 -> "expireSucc"
                       [] succ' # 1 /\ succ' >= SuccessThreshold -> "delHalf"
                       [] OTHER -> "delProbe")
       \/ Lost /\ Leave(r) /\ succ' \in {succ, Bump(succ, SuccCap)}
    /\ UNCHANGED <<open, half, probe, err, errTtl, succTtl, faults>>

ExpireSuccAsMarker(r) ==
    /\ at[r] = "expireSucc"
    /\ succTtl' = Cooldown + Grace
    /\ Goto(r, "delProbe")
    /\ UNCHANGED <<open, half, probe, err, errTtl, succ, faults>>

\* EXPIRE succ, when the INCR created it.
ExpireSucc(r) ==
    /\ at[r] = "expireSucc"
    /\ \/ succTtl' = IF succ > 0 THEN Grace ELSE 0
       \/ Lost /\ UNCHANGED succTtl
    /\ Goto(r, IF SuccessThreshold <= 1 THEN "delHalf" ELSE "delProbe")
    /\ UNCHANGED <<open, half, probe, err, errTtl, succ, faults>>

\* DEL half closes the circuit.
DelHalf(r) ==
    /\ at[r] = "delHalf"
    /\ half' = 0 \/ (Lost /\ UNCHANGED half)
    /\ Goto(r, "clean")
    /\ UNCHANGED <<open, probe, err, errTtl, succ, succTtl, faults>>

\* DEL succ probe err
Clean(r) ==
    /\ at[r] = "clean"
    /\ \/ probe' = 0 /\ err' = 0 /\ errTtl' = 0 /\ succ' = 0 /\ succTtl' = 0
       \/ Lost /\ UNCHANGED <<probe, err, errTtl, succ, succTtl>>
    /\ Leave(r)
    /\ UNCHANGED <<open, half, faults>>

\* DEL probe, after a success below the threshold and in release_probe.
DelProbe(r) ==
    /\ at[r] = "delProbe"
    /\ probe' = 0 \/ (Lost /\ UNCHANGED probe)
    /\ Leave(r)
    /\ UNCHANGED <<open, half, err, errTtl, succ, succTtl, faults>>

-----------------------------------------------------------------------------
(* record_error and trip_open *)

\* INCR err; its reply decides what follows.
IncrErr(r) ==
    /\ at[r] = "incrErr"
    /\ \/ /\ err' = Bump(err, ErrCap)
          /\ CASE err' = 1 -> Goto(r, "expireErr")
               [] err' # 1 /\ err' >= MaxFailures -> Goto(r, "setOpen")
               [] OTHER -> Leave(r)
       \/ Lost /\ Leave(r) /\ err' \in {err, Bump(err, ErrCap)}
    /\ UNCHANGED <<open, half, probe, errTtl, succ, succTtl, faults>>

ExpireErrForgotten(r) ==
    /\ at[r] = "expireErr"
    /\ Leave(r)
    /\ UNCHANGED <<keys, faults>>

\* EXPIRE err, when the INCR created it.
ExpireErr(r) ==
    /\ at[r] = "expireErr"
    /\ \/ errTtl' = IF err > 0 THEN Window ELSE 0
       \/ Lost /\ UNCHANGED errTtl
    /\ IF MaxFailures <= 1 THEN Goto(r, "setOpen") ELSE Leave(r)
    /\ UNCHANGED <<open, half, probe, err, succ, succTtl, faults>>

SetOpenAfterMarker(r) ==
    /\ at[r] = "setOpen"
    /\ IF half = 0
       THEN /\ half' = Cooldown + Grace
            /\ UNCHANGED <<open, at, cbProbe, held>>
       ELSE /\ open' = (IF open = 0 THEN Cooldown ELSE open)
            /\ UNCHANGED half /\ Goto(r, "forget")
    /\ UNCHANGED <<probe, err, errTtl, succ, succTtl, faults>>

\* SET open NX EX: only the request that sets the key arms the marker.
SetOpen(r) ==
    /\ at[r] = "setOpen"
    /\ \/ /\ NX(open)
          /\ open' = Cooldown
          /\ Goto(r, "arm") \/ (Lost /\ Goto(r, "forget"))
       \/ (open > 0 \/ Lost) /\ Goto(r, "forget") /\ UNCHANGED open
    /\ UNCHANGED <<half, probe, err, errTtl, succ, succTtl, faults>>

\* SET half EX
Arm(r) ==
    /\ at[r] = "arm"
    /\ half' = Cooldown + Grace \/ (Lost /\ UNCHANGED half)
    /\ Goto(r, "forget")
    /\ UNCHANGED <<open, probe, err, errTtl, succ, succTtl, faults>>

\* DEL succ probe after a failed probe, DEL err after any other failure.
Forget(r) ==
    /\ at[r] = "forget"
    /\ \/ IF cbProbe[r]
          THEN /\ succ' = 0 /\ succTtl' = 0 /\ probe' = 0
               /\ UNCHANGED <<err, errTtl>>
          ELSE /\ err' = 0 /\ errTtl' = 0
               /\ UNCHANGED <<succ, succTtl, probe>>
       \/ Lost /\ UNCHANGED <<succ, succTtl, probe, err, errTtl>>
    /\ Leave(r)
    /\ UNCHANGED <<open, half, faults>>

-----------------------------------------------------------------------------
(* The environment *)

\* The client hangs up and its handler is dropped, or the instance dies: the
\* request stops between two commands and undoes nothing.
Abandon(r) ==
    /\ "crash" \in faults
    /\ at[r] # "idle"
    /\ Leave(r)
    /\ UNCHANGED <<keys, faults>>

\* One tick for every key.  A probe is over within MaxHold ticks, and without
\* "stall" a request does not let a tick pass between two Redis commands.
Tick ==
    /\ \A r \in Probing : held[r] < MaxHold
    /\ "stall" \in faults \/ \A r \in Requests : at[r] \in {"idle", "upstream"}
    /\ open' = Pred(open) /\ half' = Pred(half) /\ probe' = Pred(probe)
    /\ errTtl' = Pred(errTtl) /\ err' = (IF errTtl = 1 THEN 0 ELSE err)
    /\ succTtl' = Pred(succTtl) /\ succ' = (IF succTtl = 1 THEN 0 ELSE succ)
    /\ held' = [r \in Requests |-> IF cbProbe[r] THEN held[r] + 1 ELSE 0]
    /\ UNCHANGED <<at, cbProbe, faults>>

Access(r) == CheckOpen(r) \/ CheckHalf(r) \/ Claim(r)

Answer(r) == Succeed(r) \/ Inconclusive(r) \/ Fail(r)

Record(r) ==
    \/ IncrSucc(r) \/ ExpireSucc(r) \/ DelHalf(r) \/ Clean(r) \/ DelProbe(r)
    \/ IncrErr(r) \/ ExpireErr(r) \/ SetOpen(r) \/ Arm(r) \/ Forget(r)

Next ==
    \/ Tick
    \/ \E r \in Requests : Access(r) \/ Answer(r) \/ Record(r) \/ Abandon(r)

Spec == Init /\ [][Next]_vars

\* Time goes on: no run fits infinitely many commands into finitely many ticks.
\* This is all the progress the properties below need.  (A tick that finds no
\* key changes nothing and does not count; while the circuit is open it does.)
TimedSpec == Spec /\ []<><<Tick>>_vars

-----------------------------------------------------------------------------
(* Safety *)

NothingLost == faults \cap {"redis", "crash"} = {}

\* At most one request holds the probe permit (check_access: "at most one
\* in-flight request acquires the probe permit").  It needs MaxHold < ProbeTTL.
AtMostOneProbe == \A r, s \in Probing : r = s

\* No probe in flight is older than the permit it was granted.
InTime == \A r \in Probing : held[r] < ProbeTTL

\* Where probes may take longer: two are in flight at once only if one has
\* outlived its permit, there and then or earlier.  Nothing else grants a second
\* permit, neither a lost command nor a dropped request nor a stall.
OnlyLateProbesMeet == []InTime => []AtMostOneProbe

\* Where no command is lost and no request dropped, the permit never outlives
\* its request: every way out of a probe deletes the key, so half-open traffic
\* is not shut out for a TTL.
PermitIsOwned == NothingLost /\ probe > 0 => Probing # {}

\* There, too, an error counter without an expiry is about to be given one: a
\* window always ends, even when a trip deletes and a failure recreates the
\* counter between the INCR and the EXPIRE of another request.
ErrorWindowEnds ==
    NothingLost /\ err > 0 /\ errTtl = 0 =>
        \E r \in Requests : at[r] = "expireErr"

\* A failure that arrives while the circuit is open never prolongs the
\* cooldown (trip_open: "Use NX to avoid resetting TTL if already open").
CooldownNotExtended == [][open > 0 => open' <= open]_vars

Circuit == INSTANCE CircuitStates WITH state <- CbState

\* As long as no request stalls between two commands, the state derived from
\* the keys moves like the circuit of CircuitStates, whatever is lost or
\* abandoned: a closed circuit never turns half-open without a cooldown.
RefinesCircuitStates == Circuit!Spec

\* A server is never disabled for ever, even when requests that bypassed the
\* breaker (it fails open) keep failing during the cooldown.
NeverStuckOpen == Circuit!NeverStuckOpen
=============================================================================
