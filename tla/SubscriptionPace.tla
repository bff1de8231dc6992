-------------------------- MODULE SubscriptionPace --------------------------
(***************************************************************************)
(* The pace of one subscription: its limits on requests per minute (RPM)   *)
(* and tokens per minute (TPM), viber-router-api/src/subscription.rs.      *)
(*                                                                         *)
(* A request is held against the RPM counter first, then waits until the   *)
(* TPM counter lets it pass, then counts itself; its tokens are counted    *)
(* when the answer is known.  Every step is one Redis command, except that *)
(* sleeping is a step of its own.  Time is counted in ticks.               *)
(***************************************************************************)
EXTENDS Naturals, FiniteSets

CONSTANTS
    Requests,    \* the requests of the subscription in flight at the same time
    RpmMax,      \* requests allowed by compute_rpm_window
    RpmWindow,   \* and its window
    TpmMax,      \* tpm_limit
    TpmWindow,   \* 60 seconds
    MaxTokens,   \* most tokens of one request
    WaitRetries, \* sleeps of wait_for_tpm before it gives up: 5
    Faults       \* the sets of faults looked at

ASSUME PaceAssumption ==
    /\ IsFiniteSet(Requests) /\ Requests # {}
    /\ {RpmMax, RpmWindow, TpmMax, TpmWindow, MaxTokens} \subseteq Nat \ {0}
    /\ WaitRetries \in Nat
    /\ Faults \subseteq SUBSET {"redis", "crash"}

VARIABLES
    rpm,    \* sub_rpm:*; 0 if missing
    rpmTtl, \* ticks left of rpm; 0 when it has no expiry
    tpm,    \* sub_tpm:*; 0 if missing
    tpmTtl, \* ticks left of tpm; 0 when it has no expiry
    at,     \* what a request does next
    tries,  \* how often it has slept
    sleep,  \* ticks it still sleeps
    faults  \* the faults that may happen in this behaviour: "redis" fails
            \* commands, "crash" drops requests

vars == <<rpm, rpmTtl, tpm, tpmTtl, at, tries, sleep, faults>>

-----------------------------------------------------------------------------

Overshoot == RpmMax - 1 + Cardinality(Requests)

\* The code compares the counters with 0 and with their limits only, so a
\* counter that saturates above its limit takes the same branches.
RpmCap == Overshoot + 1
TpmCap == TpmMax + MaxTokens

Capped(count, cap) == IF count < cap THEN count ELSE cap

Waiting == {"tpmGet", "tpmTtl", "asleep"}
Steps   == {"idle", "incrRpm", "expireRpm", "upstream", "expireTpm"} \cup Waiting

TypeOK ==
    /\ rpm \in 0..RpmCap /\ rpmTtl \in 0..RpmWindow
    /\ tpm \in 0..TpmCap /\ tpmTtl \in 0..TpmWindow
    /\ at \in [Requests -> Steps]
    /\ tries \in [Requests -> 0..WaitRetries]
    /\ sleep \in [Requests -> 0..TpmWindow]
    /\ faults \in Faults

Init ==
    /\ rpm = 0 /\ rpmTtl = 0 /\ tpm = 0 /\ tpmTtl = 0
    /\ at = [r \in Requests |-> "idle"]
    /\ tries = [r \in Requests |-> 0]
    /\ sleep = [r \in Requests |-> 0]
    /\ faults \in Faults

\* Whether a Redis command fails.  The code goes on with its default; the
\* command may have had its effect.
Lost == "redis" \in faults

Goto(r, step) == at' = [at EXCEPT ![r] = step] /\ UNCHANGED <<tries, sleep>>

\* The wait is over, for better or worse.
Leave(r, step) ==
    /\ at' = [at EXCEPT ![r] = step]
    /\ tries' = [tries EXCEPT ![r] = 0]
    /\ sleep' = [sleep EXCEPT ![r] = 0]

counters == <<rpm, rpmTtl, tpm, tpmTtl, faults>>

-----------------------------------------------------------------------------
(* Before the request *)

CheckRpmForgotten(r) ==
    at[r] = "idle" /\ Goto(r, "tpmGet") /\ UNCHANGED counters

\* is_rpm_limited: a limited subscription is not selected.
CheckRpm(r) ==
    /\ at[r] = "idle"
    /\ rpm < RpmMax \/ Lost
    /\ Goto(r, "tpmGet")
    /\ UNCHANGED counters

\* is_tpm_limited: GET
TpmGet(r) ==
    /\ at[r] = "tpmGet"
    /\ \/ tpm >= TpmMax /\ Goto(r, "tpmTtl")
       \/ (tpm < TpmMax \/ Lost) /\ Leave(r, "incrRpm")
    /\ UNCHANGED counters

TpmTtlUncounted(r) ==
    /\ at[r] = "tpmTtl"
    /\ \/ /\ tpmTtl > 0
          /\ at' = [at EXCEPT ![r] = "asleep"]
          /\ sleep' = [sleep EXCEPT ![r] = tpmTtl]
          /\ UNCHANGED tries
       \/ (tpmTtl = 0 \/ Lost) /\ Leave(r, "incrRpm")
    /\ UNCHANGED counters

\* is_tpm_limited: TTL; wait_for_tpm sleeps that long, or has slept enough.  A
\* counter that is gone by now, or has no expiry, limits nobody.
TpmTtl(r) ==
    /\ at[r] = "tpmTtl"
    /\ \/ /\ tpmTtl > 0 /\ tries[r] < WaitRetries
          /\ at' = [at EXCEPT ![r] = "asleep"]
          /\ tries' = [tries EXCEPT ![r] = @ + 1]
          /\ sleep' = [sleep EXCEPT ![r] = tpmTtl]
       \/ tpmTtl > 0 /\ tries[r] = WaitRetries /\ Leave(r, "idle")
       \/ (tpmTtl = 0 \/ Lost) /\ Leave(r, "incrRpm")
    /\ UNCHANGED counters

Wake(r) ==
    /\ at[r] = "asleep" /\ sleep[r] = 0
    /\ Goto(r, "tpmGet")
    /\ UNCHANGED counters

\* increment_rpm: INCR, whose reply is not looked at
IncrRpm(r) ==
    /\ at[r] = "incrRpm"
    /\ \/ /\ rpm' = Capped(rpm + 1, RpmCap)
          /\ Goto(r, "expireRpm")
       \/ /\ Lost /\ UNCHANGED rpm
          /\ Goto(r, "expireRpm") \/ Goto(r, "upstream")
    /\ UNCHANGED <<rpmTtl, tpm, tpmTtl, faults>>

ExpireRpmForgotten(r) ==
    at[r] = "expireRpm" /\ Goto(r, "upstream") /\ UNCHANGED counters

\* increment_rpm: EXPIRE, every time
ExpireRpm(r) ==
    /\ at[r] = "expireRpm"
    /\ rpmTtl' = (IF rpm > 0 THEN RpmWindow ELSE 0) \/ (Lost /\ UNCHANGED rpmTtl)
    /\ Goto(r, "upstream")
    /\ UNCHANGED <<rpm, tpm, tpmTtl, faults>>

-----------------------------------------------------------------------------
(* After the request *)

\* increment_tpm: INCRBY; the request that created the counter expires it.
Finish(r, tokens) ==
    /\ at[r] = "upstream"
    /\ \/ /\ tokens > 0
          /\ tpm' = Capped(tpm + tokens, TpmCap)
          /\ \/ Goto(r, IF tpm = 0 THEN "expireTpm" ELSE "idle")
             \/ Lost /\ Goto(r, "idle")
       \/ (tokens = 0 \/ Lost) /\ Goto(r, "idle") /\ UNCHANGED tpm
    /\ UNCHANGED <<rpm, rpmTtl, tpmTtl, faults>>

ExpireTpmInMinutes(r) ==
    /\ at[r] = "expireTpm"
    /\ tpmTtl' = 60 * TpmWindow
    /\ Goto(r, "idle")
    /\ UNCHANGED <<rpm, rpmTtl, tpm, faults>>

\* increment_tpm: EXPIRE
ExpireTpm(r) ==
    /\ at[r] = "expireTpm"
    /\ tpmTtl' = (IF tpm > 0 THEN TpmWindow ELSE 0) \/ (Lost /\ UNCHANGED tpmTtl)
    /\ Goto(r, "idle")
    /\ UNCHANGED <<rpm, rpmTtl, tpm, faults>>

\* The client hangs up, or the instance dies.
Abandon(r) ==
    /\ "crash" \in faults /\ at[r] # "idle"
    /\ Leave(r, "idle")
    /\ UNCHANGED counters

Pred(ticks) == IF ticks > 0 THEN ticks - 1 ELSE 0

Tick ==
    /\ rpm' = (IF rpmTtl = 1 THEN 0 ELSE rpm) /\ rpmTtl' = Pred(rpmTtl)
    /\ tpm' = (IF tpmTtl = 1 THEN 0 ELSE tpm) /\ tpmTtl' = Pred(tpmTtl)
    /\ sleep' = [r \in Requests |-> Pred(sleep[r])]
    /\ UNCHANGED <<at, tries, faults>>

\* What a request does once it has begun, short of answering.
Proceed(r) ==
    \/ TpmGet(r) \/ TpmTtl(r) \/ Wake(r)
    \/ IncrRpm(r) \/ ExpireRpm(r) \/ ExpireTpm(r)

Next ==
    \/ Tick
    \/ \E r \in Requests :
          \/ CheckRpm(r) \/ Proceed(r) \/ Abandon(r)
          \/ \E tokens \in 0..MaxTokens : Finish(r, tokens)

Spec == Init /\ [][Next]_vars

\* Time goes on and the handlers run; nothing makes an upstream answer.
FairSpec == Spec /\ WF_vars(Tick) /\ \A r \in Requests : WF_vars(Proceed(r))

-----------------------------------------------------------------------------

\* Although a request is held against the counter before it may sleep through
\* several token windows, and counts itself only then, the counter never passes
\* the limit by more than the other requests in flight, unless Redis loses
\* commands.
RpmOvershoot == "redis" \notin faults => rpm <= Overshoot

\* However the other requests use up the tokens of each new window, and whatever
\* is lost, a request that waits for tokens passes, is refused or is dropped.
WaitEnds == \A r \in Requests : at[r] \in Waiting ~> at[r] \notin Waiting

\* Unless something is lost or dropped, a subscription at its request limit
\* becomes available again, time after time.
NeverStuckRpm == []<>(rpm < RpmMax \/ faults # {})

=============================================================================
