------------------------ MODULE CircuitBreakerProofs ------------------------
(***************************************************************************)
(* Theorems about CircuitBreaker, for any number of requests and any       *)
(* configuration of the breaker.                                           *)
(***************************************************************************)
EXTENDS CircuitBreaker, TLAPS

(***************************************************************************)
(* Types                                                                   *)
(***************************************************************************)

\* A saturating counter stays within its cap.
LEMMA BumpStays ==
    ASSUME NEW cap \in Nat, NEW count \in 0..cap
    PROVE  Bump(count, cap) \in 0..cap
BY DEF Bump

\* A time to live that runs down stays within its bound.
LEMMA PredStays ==
    ASSUME NEW cap \in Nat, NEW ticks \in 0..cap
    PROVE  Pred(ticks) \in 0..cap
BY DEF Pred

\* Moving to a next step, or leaving, keeps the types of what a request stores.
LEMMA LocalTypes ==
    ASSUME TypeOK, NEW r \in Requests,
           \/ \E step \in Steps : Goto(r, step)
           \/ Leave(r)
    PROVE  /\ at' \in [Requests -> Steps]
           /\ cbProbe' \in [Requests -> BOOLEAN]
           /\ held' \in [Requests -> 0..MaxHold]
<1>1. CASE \E step \in Steps : Goto(r, step)
  BY <1>1 DEF TypeOK, Goto
<1>2. CASE Leave(r)
  BY <1>2, CircuitAssumption DEF TypeOK, Leave, Steps
<1> QED BY <1>1, <1>2

\* Every command, and time, keeps the types.
LEMMA Typing == TypeOK /\ [Next]_vars => TypeOK'
<1> SUFFICES ASSUME TypeOK, [Next]_vars PROVE TypeOK'
  OBVIOUS
<1> USE CircuitAssumption DEF keys, NX
<1>1. ASSUME NEW r \in Requests, Access(r) PROVE TypeOK'
  <2>1. CASE CheckOpen(r)
    BY <2>1, LocalTypes DEF CheckOpen, TypeOK, Steps
  <2>2. CASE CheckHalf(r)
    <3>1. \E step \in Steps : Goto(r, step)
      BY <2>2 DEF CheckHalf, Steps
    <3> QED BY <2>2, <3>1, LocalTypes DEF CheckHalf, TypeOK
  <2>3. CASE Claim(r)
    <3>1. CASE Leave(r) /\ UNCHANGED probe
      BY <2>3, <3>1, LocalTypes DEF Claim, TypeOK
    <3>2. CASE /\ probe' = ProbeTTL
               /\ at' = [at EXCEPT ![r] = "upstream"]
               /\ cbProbe' = [cbProbe EXCEPT ![r] = TRUE]
               /\ UNCHANGED held
      <4>1. /\ at' \in [Requests -> Steps]
            /\ cbProbe' \in [Requests -> BOOLEAN]
            /\ held' \in [Requests -> 0..MaxHold]
        BY <3>2 DEF TypeOK, Steps
      <4> QED BY <2>3, <3>2, <4>1 DEF Claim, TypeOK
    <3>3. CASE Leave(r) /\ probe' = ProbeTTL
      BY <2>3, <3>3, LocalTypes DEF Claim, TypeOK
    <3> QED BY <2>3, <3>1, <3>2, <3>3 DEF Claim
  <2> QED BY <1>1, <2>1, <2>2, <2>3 DEF Access
<1>2. ASSUME NEW r \in Requests, Answer(r) PROVE TypeOK'
  <2>1. \/ \E step \in Steps : Goto(r, step)
        \/ Leave(r)
    BY <1>2 DEF Answer, Succeed, Inconclusive, Fail, Steps
  <2>2. UNCHANGED <<keys, faults>>
    BY <1>2 DEF Answer, Succeed, Inconclusive, Fail
  <2> QED BY <2>1, <2>2, LocalTypes DEF TypeOK
<1>3. ASSUME NEW r \in Requests, Record(r) PROVE TypeOK'
  <2>1. CASE IncrSucc(r)
    <3>1. \/ \E step \in Steps : Goto(r, step)
          \/ Leave(r)
      BY <2>1 DEF IncrSucc, Steps
    <3>2. succ' \in 0..SuccCap
      BY <2>1, BumpStays DEF IncrSucc, TypeOK, SuccCap
    <3> QED BY <2>1, <3>1, <3>2, LocalTypes DEF IncrSucc, TypeOK
  <2>2. CASE ExpireSucc(r)
    <3>1. \E step \in Steps : Goto(r, step)
      BY <2>2 DEF ExpireSucc, Steps
    <3> QED BY <2>2, <3>1, LocalTypes DEF ExpireSucc, TypeOK
  <2>3. CASE DelHalf(r)
    BY <2>3, LocalTypes DEF DelHalf, TypeOK, Steps
  <2>4. CASE Clean(r)
    BY <2>4, LocalTypes DEF Clean, TypeOK, ErrCap, SuccCap
  <2>5. CASE DelProbe(r)
    BY <2>5, LocalTypes DEF DelProbe, TypeOK
  <2>6. CASE IncrErr(r)
    <3>1. \/ \E step \in Steps : Goto(r, step)
          \/ Leave(r)
      BY <2>6 DEF IncrErr, Steps
    <3>2. err' \in 0..ErrCap
      BY <2>6, BumpStays DEF IncrErr, TypeOK, ErrCap
    <3> QED BY <2>6, <3>1, <3>2, LocalTypes DEF IncrErr, TypeOK
  <2>7. CASE ExpireErr(r)
    <3>1. \/ \E step \in Steps : Goto(r, step)
          \/ Leave(r)
      BY <2>7 DEF ExpireErr, Steps
    <3> QED BY <2>7, <3>1, LocalTypes DEF ExpireErr, TypeOK
  <2>8. CASE SetOpen(r)
    <3>1. \E step \in Steps : Goto(r, step)
      BY <2>8 DEF SetOpen, Steps
    <3> QED BY <2>8, <3>1, LocalTypes DEF SetOpen, TypeOK, SuccCap
  <2>9. CASE Arm(r)
    BY <2>9, LocalTypes DEF Arm, TypeOK, Steps
  <2>10. CASE Forget(r)
    BY <2>10, LocalTypes DEF Forget, TypeOK, ErrCap, SuccCap
  <2> QED BY <1>3, <2>1, <2>2, <2>3, <2>4, <2>5, <2>6, <2>7, <2>8, <2>9, <2>10
          DEF Record
<1>4. ASSUME NEW r \in Requests, Abandon(r) PROVE TypeOK'
  BY <1>4, LocalTypes DEF Abandon, TypeOK
<1>5. CASE Tick
  <2>1. /\ open' \in 0..Cooldown
        /\ half' \in 0..(Cooldown + Grace)
        /\ probe' \in 0..ProbeTTL
        /\ errTtl' \in 0..Window
        /\ succTtl' \in 0..Grace
    BY <1>5, PredStays DEF Tick, TypeOK
  <2>2. held' \in [Requests -> 0..MaxHold]
    BY <1>5 DEF Tick, TypeOK, Probing
  <2>3. err' \in 0..ErrCap /\ succ' \in 0..SuccCap
    BY <1>5 DEF Tick, TypeOK, ErrCap, SuccCap
  <2> QED BY <1>5, <2>1, <2>2, <2>3 DEF Tick, TypeOK
<1>6. CASE UNCHANGED vars
  BY <1>6 DEF vars, TypeOK
<1> QED BY <1>1, <1>2, <1>3, <1>4, <1>5, <1>6 DEF Next

\* Every variable keeps its type: no key ever lives longer than the TTL it is
\* given, and the saturating counters stay within their caps.
THEOREM TypeCorrect == Spec => []TypeOK
<1>1. Init => TypeOK
  BY CircuitAssumption DEF Init, TypeOK, Steps, ErrCap, SuccCap
<1> QED BY <1>1, Typing, PTL DEF Spec

(***************************************************************************)
(* At most one probe                                                       *)
(***************************************************************************)

\* The steps that only a probe takes, and that end in deleting the permit.
ProbeSteps == {"incrSucc", "expireSucc", "delHalf", "clean", "delProbe"}

\* Why one permit suffices: a probe still covered by its permit has aged as
\* much as the key, and nobody but the probe deletes the key.
PermitInv ==
    /\ AtMostOneProbe
    /\ \A r \in Probing : probe + held[r] >= ProbeTTL
    /\ \A r \in Requests : at[r] \in ProbeSteps => cbProbe[r]

\* A step that leaves the permit alone keeps the invariant, whether its
\* request goes on or leaves.
LEMMA PermitUntouched ==
    ASSUME TypeOK, PermitInv, UNCHANGED probe, NEW r \in Requests,
           \/ \E step \in Steps : Goto(r, step) /\ (step \in ProbeSteps => cbProbe[r])
           \/ Leave(r)
    PROVE  PermitInv'
<1> USE DEF PermitInv, AtMostOneProbe, Probing, ProbeSteps
<1>1. CASE \E step \in Steps : Goto(r, step) /\ (step \in ProbeSteps => cbProbe[r])
  BY <1>1 DEF TypeOK, Goto
<1>2. CASE Leave(r)
  BY <1>2 DEF TypeOK, Leave
<1> QED BY <1>1, <1>2

\* A probe that leaves may delete the permit: it was its own.
LEMMA PermitReturned ==
    ASSUME TypeOK, PermitInv, NEW r \in Requests, cbProbe[r], Leave(r)
    PROVE  PermitInv'
BY DEF TypeOK, PermitInv, AtMostOneProbe, Probing, ProbeSteps, Leave

\* Nobody can claim a permit that covers a probe: it is there for as long as the
\* probe is younger than ProbeTTL.
LEMMA PermitStep == TypeOK /\ InTime /\ PermitInv /\ [Next]_vars => PermitInv'
<1> SUFFICES ASSUME TypeOK, InTime, PermitInv, [Next]_vars PROVE PermitInv'
  OBVIOUS
<1> USE DEF keys
<1>1. ASSUME NEW r \in Requests, Access(r) PROVE PermitInv'
  <2>1. CASE CheckOpen(r)
    BY <2>1, PermitUntouched DEF CheckOpen, Steps, ProbeSteps
  <2>2. CASE CheckHalf(r)
    <3>1. \E step \in Steps : Goto(r, step) /\ step \notin ProbeSteps
      BY <2>2 DEF CheckHalf, Steps, ProbeSteps
    <3> QED BY <2>2, <3>1, PermitUntouched DEF CheckHalf
  <2>3. CASE Claim(r)
    <3>1. CASE Leave(r) /\ UNCHANGED probe
      BY <3>1, PermitUntouched
    <3>2. CASE /\ probe = 0
               /\ probe' = ProbeTTL
               /\ at' = [at EXCEPT ![r] = "upstream"]
               /\ cbProbe' = [cbProbe EXCEPT ![r] = TRUE]
               /\ UNCHANGED held
      <4>1. Probing = {}
        BY <3>2, CircuitAssumption DEF PermitInv, InTime, TypeOK, Probing
      <4>2. Probing' = {r}
        BY <3>2, <4>1 DEF TypeOK, Probing
      <4>3. \A s \in Requests : at'[s] \in ProbeSteps => cbProbe'[s]
        BY <3>2 DEF TypeOK, PermitInv, ProbeSteps
      <4>4. probe' + held'[r] >= ProbeTTL
        BY <3>2, CircuitAssumption DEF TypeOK
      <4> QED BY <4>2, <4>3, <4>4 DEF PermitInv, AtMostOneProbe
    <3>3. CASE probe = 0 /\ Leave(r)
      <4>1. Probing = {}
        BY <3>3, CircuitAssumption DEF PermitInv, InTime, TypeOK, Probing
      <4> QED BY <3>3, <4>1
              DEF TypeOK, PermitInv, AtMostOneProbe, Probing, ProbeSteps, Leave
    <3> QED BY <2>3, <3>1, <3>2, <3>3 DEF Claim, NX
  <2> QED BY <1>1, <2>1, <2>2, <2>3 DEF Access
<1>2. ASSUME NEW r \in Requests, Answer(r) PROVE PermitInv'
  <2>1. \/ \E step \in Steps : Goto(r, step) /\ (step \in ProbeSteps => cbProbe[r])
        \/ Leave(r)
    BY <1>2 DEF Answer, Succeed, Inconclusive, Fail, Steps, ProbeSteps
  <2>2. UNCHANGED probe
    BY <1>2 DEF Answer, Succeed, Inconclusive, Fail
  <2> QED BY <2>1, <2>2, PermitUntouched
<1>3. ASSUME NEW r \in Requests, Record(r) PROVE PermitInv'
  <2>1. CASE IncrSucc(r) \/ ExpireSucc(r) \/ DelHalf(r)
    <3>1. cbProbe[r]
      BY <2>1 DEF PermitInv, ProbeSteps, IncrSucc, ExpireSucc, DelHalf
    <3>2. \/ \E step \in Steps : Goto(r, step) /\ (step \in ProbeSteps => cbProbe[r])
          \/ Leave(r)
      BY <2>1, <3>1 DEF IncrSucc, ExpireSucc, DelHalf, Steps
    <3>3. UNCHANGED probe
      BY <2>1 DEF IncrSucc, ExpireSucc, DelHalf
    <3> QED BY <3>2, <3>3, PermitUntouched
  <2>2. CASE Clean(r) \/ DelProbe(r)
    <3>1. cbProbe[r]
      BY <2>2 DEF PermitInv, ProbeSteps, Clean, DelProbe
    <3> QED BY <2>2, <3>1, PermitReturned DEF Clean, DelProbe
  <2>3. CASE IncrErr(r) \/ ExpireErr(r) \/ SetOpen(r) \/ Arm(r)
    <3>1. \/ \E step \in Steps : Goto(r, step) /\ (step \in ProbeSteps => cbProbe[r])
          \/ Leave(r)
      BY <2>3 DEF IncrErr, ExpireErr, SetOpen, Arm, Steps, ProbeSteps
    <3>2. UNCHANGED probe
      BY <2>3 DEF IncrErr, ExpireErr, SetOpen, Arm
    <3> QED BY <3>1, <3>2, PermitUntouched
  <2>4. CASE Forget(r)
    <3>1. CASE cbProbe[r]
      BY <2>4, <3>1, PermitReturned DEF Forget
    <3>2. CASE ~cbProbe[r]
      BY <2>4, <3>2, PermitUntouched DEF Forget
    <3> QED BY <3>1, <3>2
  <2> QED BY <1>3, <2>1, <2>2, <2>3, <2>4 DEF Record
<1>4. ASSUME NEW r \in Requests, Abandon(r) PROVE PermitInv'
  BY <1>4, PermitUntouched DEF Abandon
<1>5. CASE Tick
  <2>1. \A r \in Probing : probe > 0
    BY <1>5, CircuitAssumption DEF Tick, TypeOK, PermitInv, InTime, Probing
  <2>2. \A r \in Probing : probe' + held'[r] = probe + held[r]
    BY <1>5, <2>1, CircuitAssumption DEF Tick, TypeOK, Probing, Pred
  <2> QED BY <1>5, <2>2 DEF Tick, PermitInv, AtMostOneProbe, Probing
<1>6. CASE UNCHANGED vars
  BY <1>6 DEF vars, PermitInv, AtMostOneProbe, Probing
<1> QED BY <1>1, <1>2, <1>3, <1>4, <1>5, <1>6 DEF Next

\* At most one request is the probe (check_access) until a probe has outlived
\* its permit, however long probes take and whatever commands are lost, requests
\* abandoned or instances stalled: OnlyLateProbesMeet for every instance.
THEOREM OneProbe == Spec => OnlyLateProbesMeet
<1>1. Init => PermitInv
  BY DEF Init, PermitInv, AtMostOneProbe, Probing, ProbeSteps
<1>2. TypeOK /\ InTime /\ PermitInv /\ [Next]_vars => PermitInv'
  BY PermitStep
<1>3. PermitInv => AtMostOneProbe
  BY DEF PermitInv
<1> QED BY <1>1, <1>2, <1>3, TypeCorrect, PTL DEF Spec, OnlyLateProbesMeet

(***************************************************************************)
(* The cooldown                                                            *)
(***************************************************************************)

\* Only SET open NX and time change the open key.
LEMMA OpenChanges ==
    ASSUME TypeOK, [Next]_vars
    PROVE  \/ UNCHANGED open
           \/ open = 0 /\ open' = Cooldown /\ half' = half
           \/ Tick
BY DEF Next, Access, Answer, Record, Abandon, CheckOpen, CheckHalf, Claim,
       Succeed, Inconclusive, Fail, IncrSucc, ExpireSucc, DelHalf, Clean,
       DelProbe, IncrErr, ExpireErr, SetOpen, Arm, Forget, NX, vars, keys

\* A trip never prolongs a cooldown in progress: SET NX leaves the key alone.
THEOREM CooldownKept == Spec => CooldownNotExtended
<1>1. TypeOK /\ [Next]_vars => [open > 0 => open' <= open]_vars
  <2> SUFFICES ASSUME TypeOK, [Next]_vars, open > 0 PROVE open' <= open
    OBVIOUS
  <2>1. CASE Tick
    BY <2>1, CircuitAssumption DEF Tick, TypeOK, Pred
  <2> QED BY <2>1, OpenChanges, CircuitAssumption DEF TypeOK
<1> QED BY <1>1, TypeCorrect, PTL DEF Spec, CooldownNotExtended

(***************************************************************************)
(* The state derived from the keys implements CircuitStates                *)
(***************************************************************************)

\* Without stalls the marker is armed within the tick that opened the circuit.
ArmInv == \A r \in Requests : at[r] = "arm" => open > 0

\* No tick passes between SET open and SET half, and nothing but time deletes the
\* open key.
LEMMA ArmStep ==
    ASSUME \A f \in Faults : "stall" \notin f
    PROVE  TypeOK /\ ArmInv /\ [Next]_vars => ArmInv'
<1> SUFFICES ASSUME TypeOK, ArmInv, [Next]_vars, NEW s \in Requests, at'[s] = "arm"
             PROVE  open' > 0
  BY DEF ArmInv
<1>1. CASE Tick
  BY <1>1 DEF Tick, TypeOK
<1>2. CASE open = 0 /\ open' = Cooldown
  BY <1>2, CircuitAssumption
<1>3. CASE UNCHANGED open /\ ~Tick
  <2> SUFFICES ASSUME at[s] # "arm" PROVE FALSE
    BY <1>3 DEF ArmInv
  <2>1. PICK r \in Requests : Access(r) \/ Answer(r) \/ Record(r) \/ Abandon(r)
    BY <1>3 DEF Next, vars
  <2>2. r = s
    BY <2>1 DEF Access, Answer, Record, Abandon, CheckOpen, CheckHalf, Claim,
       Succeed, Inconclusive, Fail, IncrSucc, ExpireSucc, DelHalf, Clean,
       DelProbe, IncrErr, ExpireErr, SetOpen, Arm, Forget, Goto, Leave, TypeOK
  <2>3. CASE SetOpen(r)
    BY <2>2, <2>3, <1>3, CircuitAssumption DEF SetOpen, NX, Goto, TypeOK
  <2>4. CASE ~SetOpen(r)
    BY <2>1, <2>2, <2>4
       DEF Access, Answer, Record, Abandon, CheckOpen, CheckHalf, Claim,
       Succeed, Inconclusive, Fail, IncrSucc, ExpireSucc, DelHalf, Clean,
       DelProbe, IncrErr, ExpireErr, Arm, Forget, Goto, Leave, TypeOK
  <2> QED BY <2>3, <2>4
<1> QED BY <1>1, <1>2, <1>3, OpenChanges

\* Without stalls, whatever is lost or abandoned, the circuit read off the keys
\* moves as CircuitStates allows: it is never half-open but after a cooldown.
THEOREM CircuitRefinement ==
    ASSUME \A f \in Faults : "stall" \notin f
    PROVE  Spec => RefinesCircuitStates
<1>1. Init => Circuit!Init
  BY DEF Init, Circuit!Init, CbState
<1>2. TypeOK /\ ArmInv /\ [Next]_vars => [Circuit!Next]_CbState
  <2> SUFFICES ASSUME TypeOK, ArmInv, [Next]_vars PROVE [Circuit!Next]_CbState
    OBVIOUS
  <2> USE DEF CbState, Circuit!Next, Circuit!Trip, Circuit!Cool, Circuit!Close
  <2>1. CASE Tick
    BY <2>1, CircuitAssumption DEF Tick, TypeOK, Pred
  <2>2. CASE open = 0 /\ open' = Cooldown /\ half' = half
    BY <2>2, CircuitAssumption DEF TypeOK
  <2>3. CASE UNCHANGED open /\ ~Tick
    <3>1. half' = half \/ half' = 0 \/ open > 0
      BY <2>3 DEF Next, Access, Answer, Record, Abandon, CheckOpen, CheckHalf,
         Claim, Succeed, Inconclusive, Fail, IncrSucc, ExpireSucc, DelHalf,
         Clean, DelProbe, IncrErr, ExpireErr, SetOpen, Arm, Forget, vars, keys,
         ArmInv
    <3> QED BY <2>3, <3>1, CircuitAssumption DEF TypeOK
  <2> QED BY <2>1, <2>2, <2>3, OpenChanges
<1>3. Init => ArmInv
  BY DEF Init, ArmInv
<1>4. TypeOK /\ ArmInv /\ [Next]_vars => ArmInv'
  BY ArmStep
<1> QED BY <1>1, <1>2, <1>3, <1>4, TypeCorrect, PTL
        DEF Spec, RefinesCircuitStates, Circuit!Spec

(***************************************************************************)
(* What holds when no command is lost and no request abandoned             *)
(***************************************************************************)

\* A behaviour keeps the faults it started with.
LEMMA FaultsFixed == [Next]_vars => faults' = faults
BY DEF Next, Tick, Access, Answer, Record, Abandon, CheckOpen, CheckHalf, Claim,
       Succeed, Inconclusive, Fail, IncrSucc, ExpireSucc, DelHalf, Clean,
       DelProbe, IncrErr, ExpireErr, SetOpen, Arm, Forget, vars, keys

\* The steps of a request that holds no permit.
OrdinarySteps == {"idle", "checkHalf", "claim", "incrErr", "expireErr"}

Owned ==
    /\ probe > 0 => Probing # {}
    /\ \A r \in Requests : at[r] \in OrdinarySteps => ~cbProbe[r]

\* A request without a permit leaves the permits as they are, and so does one
\* that only goes to its next step.
LEMMA OwnersUntouched ==
    ASSUME TypeOK, Owned, UNCHANGED probe, NEW r \in Requests,
           \/ \E step \in Steps : Goto(r, step) /\ (step \in OrdinarySteps => ~cbProbe[r])
           \/ Leave(r) /\ ~cbProbe[r]
    PROVE  Owned'
<1> USE DEF Owned, Probing, OrdinarySteps
<1>1. CASE \E step \in Steps : Goto(r, step) /\ (step \in OrdinarySteps => ~cbProbe[r])
  BY <1>1 DEF TypeOK, Goto
<1>2. CASE Leave(r) /\ ~cbProbe[r]
  BY <1>2 DEF TypeOK, Leave
<1> QED BY <1>1, <1>2

\* Every path of a probe ends in the command that deletes its permit.
LEMMA OwnedStep ==
    ASSUME TypeOK, NothingLost => Owned, [Next]_vars
    PROVE  NothingLost' => Owned'
<1> SUFFICES ASSUME NothingLost, Owned PROVE Owned'
  BY FaultsFixed DEF NothingLost
<1> USE DEF keys, NothingLost, Lost
<1>1. ASSUME NEW r \in Requests, Access(r) PROVE Owned'
  <2>1. CASE CheckOpen(r) \/ CheckHalf(r)
    <3>1. \E step \in Steps : Goto(r, step) /\ (step \in OrdinarySteps => ~cbProbe[r])
      BY <2>1 DEF CheckOpen, CheckHalf, Steps, Owned, OrdinarySteps
    <3> QED BY <2>1, <3>1, OwnersUntouched DEF CheckOpen, CheckHalf
  <2>2. CASE Claim(r)
    <3>1. ~cbProbe[r]
      BY <2>2 DEF Claim, Owned, OrdinarySteps
    <3>2. CASE Leave(r) /\ UNCHANGED probe
      BY <3>1, <3>2, OwnersUntouched
    <3>3. CASE /\ at' = [at EXCEPT ![r] = "upstream"]
               /\ cbProbe' = [cbProbe EXCEPT ![r] = TRUE]
      BY <3>3 DEF TypeOK, Owned, Probing, OrdinarySteps
    <3> QED BY <2>2, <3>2, <3>3 DEF Claim
  <2> QED BY <1>1, <2>1, <2>2 DEF Access
<1>2. ASSUME NEW r \in Requests, Answer(r) PROVE Owned'
  <2>1. \/ \E step \in Steps : Goto(r, step) /\ (step \in OrdinarySteps => ~cbProbe[r])
        \/ Leave(r) /\ ~cbProbe[r]
    BY <1>2 DEF Answer, Succeed, Inconclusive, Fail, Steps, OrdinarySteps
  <2>2. UNCHANGED probe
    BY <1>2 DEF Answer, Succeed, Inconclusive, Fail
  <2> QED BY <2>1, <2>2, OwnersUntouched
<1>3. ASSUME NEW r \in Requests, Record(r) PROVE Owned'
  <2>1. CASE Clean(r) \/ DelProbe(r) \/ (Forget(r) /\ cbProbe[r])
    <3>1. probe' = 0 /\ Leave(r)
      BY <2>1 DEF Clean, DelProbe, Forget
    <3> QED BY <3>1 DEF TypeOK, Owned, OrdinarySteps, Leave
  <2>2. CASE IncrErr(r) \/ ExpireErr(r) \/ (Forget(r) /\ ~cbProbe[r])
    <3>1. ~cbProbe[r]
      BY <2>2 DEF IncrErr, ExpireErr, Owned, OrdinarySteps
    <3>2. (\E step \in Steps : Goto(r, step)) \/ Leave(r)
      BY <2>2 DEF IncrErr, ExpireErr, Forget, Steps
    <3>3. UNCHANGED probe
      BY <2>2 DEF IncrErr, ExpireErr, Forget
    <3> QED BY <3>1, <3>2, <3>3, OwnersUntouched
  <2>3. CASE IncrSucc(r) \/ ExpireSucc(r) \/ DelHalf(r) \/ SetOpen(r) \/ Arm(r)
    <3>1. \E step \in Steps : Goto(r, step) /\ step \notin OrdinarySteps
      BY <2>3 DEF IncrSucc, ExpireSucc, DelHalf, SetOpen, Arm, Steps, OrdinarySteps
    <3>2. UNCHANGED probe
      BY <2>3 DEF IncrSucc, ExpireSucc, DelHalf, SetOpen, Arm
    <3> QED BY <3>1, <3>2, OwnersUntouched
  <2> QED BY <1>3, <2>1, <2>2, <2>3 DEF Record
<1>4. ASSUME NEW r \in Requests, Abandon(r) PROVE Owned'
  BY <1>4 DEF Abandon
<1>5. CASE Tick
  BY <1>5, CircuitAssumption
     DEF Tick, TypeOK, Owned, Probing, Pred
<1>6. CASE UNCHANGED vars
  BY <1>6 DEF vars, Owned, Probing
<1> QED BY <1>1, <1>2, <1>3, <1>4, <1>5, <1>6 DEF Next

\* Unless a command is lost or a request abandoned, a permit that exists has an
\* owner, so half-open traffic always has a probe under way or can start one.
THEOREM NoStrandedPermit == Spec => []PermitIsOwned
<1> DEFINE OwnedInv == NothingLost => Owned
<1>1. Init => OwnedInv
  BY DEF Init, Owned, OrdinarySteps
<1>2. TypeOK /\ OwnedInv /\ [Next]_vars => OwnedInv'
  BY OwnedStep
<1>3. OwnedInv => PermitIsOwned
  BY DEF Owned, PermitIsOwned
<1> HIDE DEF OwnedInv
<1> QED BY <1>1, <1>2, <1>3, TypeCorrect, PTL DEF Spec

\* Unless a command is lost or a request abandoned, an error window always
\* ends: a counter without an expiry is about to get one.
THEOREM WindowsEnd == Spec => []ErrorWindowEnds
<1>1. Init => ErrorWindowEnds
  BY DEF Init, ErrorWindowEnds
<1>2. TypeOK /\ ErrorWindowEnds /\ [Next]_vars => ErrorWindowEnds'
  <2> SUFFICES ASSUME TypeOK, ErrorWindowEnds, [Next]_vars,
                      NothingLost, err' > 0, errTtl' = 0
               PROVE  \E s \in Requests : at'[s] = "expireErr"
    BY FaultsFixed DEF ErrorWindowEnds, NothingLost
  <2> USE DEF NothingLost, Lost, keys
  <2>1. CASE Tick
    <3>1. err > 0 /\ errTtl = 0
      BY <2>1 DEF Tick, TypeOK, Pred
    <3> QED BY <2>1, <3>1 DEF Tick, ErrorWindowEnds
  <2>2. ASSUME NEW r \in Requests, IncrErr(r)
        PROVE  \E s \in Requests : at'[s] = "expireErr"
    <3>1. CASE err = 0
      BY <2>2, <3>1, CircuitAssumption DEF IncrErr, TypeOK, Bump, ErrCap, Goto
    <3>2. CASE err # 0
      <4>1. PICK s \in Requests : at[s] = "expireErr"
        BY <2>2, <3>2 DEF ErrorWindowEnds, IncrErr, TypeOK
      <4>2. s # r /\ at'[s] = at[s]
        BY <2>2, <4>1 DEF IncrErr, TypeOK, Goto, Leave
      <4> QED BY <4>1, <4>2
    <3> QED BY <3>1, <3>2
  <2>3. ASSUME NEW r \in Requests, ExpireErr(r) PROVE FALSE
    BY <2>3, CircuitAssumption DEF ExpireErr
  <2>4. ASSUME NEW r \in Requests, Clean(r) \/ (Forget(r) /\ ~cbProbe[r]) PROVE FALSE
    BY <2>4 DEF Clean, Forget
  <2>5. ASSUME NEW r \in Requests, at[r] # "expireErr", UNCHANGED <<err, errTtl>>,
               \A s \in Requests \ {r} : at'[s] = at[s]
        PROVE  \E s \in Requests : at'[s] = "expireErr"
    BY <2>5 DEF ErrorWindowEnds
  <2>6. ASSUME NEW r \in Requests,
               \/ Access(r) \/ Answer(r)
               \/ IncrSucc(r) \/ ExpireSucc(r) \/ DelHalf(r) \/ DelProbe(r)
               \/ SetOpen(r) \/ Arm(r) \/ (Forget(r) /\ cbProbe[r])
        PROVE  \E s \in Requests : at'[s] = "expireErr"
    <3>1. at[r] # "expireErr" /\ UNCHANGED <<err, errTtl>>
      BY <2>6 DEF Access, Answer, CheckOpen, CheckHalf, Claim, Succeed,
         Inconclusive, Fail, IncrSucc, ExpireSucc, DelHalf, DelProbe,
         SetOpen, Arm, Forget
    <3>2. \A s \in Requests \ {r} : at'[s] = at[s]
      BY <2>6 DEF Access, Answer, CheckOpen, CheckHalf, Claim, Succeed,
         Inconclusive, Fail, IncrSucc, ExpireSucc, DelHalf, DelProbe,
         SetOpen, Arm, Forget, Goto, Leave, TypeOK
    <3> QED BY <2>5, <3>1, <3>2
  <2>7. CASE UNCHANGED vars
    BY <2>7 DEF vars, ErrorWindowEnds
  <2> QED BY <2>1, <2>2, <2>3, <2>4, <2>6, <2>7 DEF Next, Record, Abandon
<1> QED BY <1>1, <1>2, TypeCorrect, PTL DEF Spec
=============================================================================
