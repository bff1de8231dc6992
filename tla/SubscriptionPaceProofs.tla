------------------------ MODULE SubscriptionPaceProofs ------------------------
(***************************************************************************)
(* Theorems about SubscriptionPace, for any number of requests, any limits *)
(* and any windows.                                                        *)
(***************************************************************************)
EXTENDS SubscriptionPace, TLAPS, FiniteSetTheorems

\* What the assumptions say of the counters' caps.
LEMMA CapTypes ==
    /\ Overshoot \in Nat /\ RpmCap \in Nat /\ TpmCap \in Nat
    /\ Cardinality(Requests) \in Nat \ {0}
<1>1. Cardinality(Requests) \in Nat
  BY PaceAssumption, FS_CardinalityType
<1>2. Cardinality(Requests) # 0
  BY PaceAssumption, FS_EmptySet
<1> QED BY <1>1, <1>2, PaceAssumption DEF Overshoot, RpmCap, TpmCap

\* A counter that saturates stays within its cap.
LEMMA CappedStays ==
    ASSUME NEW cap \in Nat, NEW count \in Nat
    PROVE  Capped(count, cap) \in 0..cap
BY DEF Capped

\* A time to live, or to sleep, that runs down stays within its bound.
LEMMA PredStays ==
    ASSUME NEW cap \in Nat, NEW ticks \in 0..cap
    PROVE  Pred(ticks) \in 0..cap
BY DEF Pred

\* Moving to a next step, or ending the wait, keeps the types of what a request
\* stores.
LEMMA LocalTypes ==
    ASSUME TypeOK, NEW r \in Requests, NEW step \in Steps,
           Goto(r, step) \/ Leave(r, step)
    PROVE  /\ at' \in [Requests -> Steps]
           /\ tries' \in [Requests -> 0..WaitRetries]
           /\ sleep' \in [Requests -> 0..TpmWindow]
<1>1. CASE Goto(r, step)
  BY <1>1 DEF TypeOK, Goto
<1>2. CASE Leave(r, step)
  BY <1>2, PaceAssumption DEF TypeOK, Leave
<1> QED BY <1>1, <1>2

\* Every command, and time, keeps the types.
LEMMA Typing == TypeOK /\ [Next]_vars => TypeOK'
<1> SUFFICES ASSUME TypeOK, [Next]_vars PROVE TypeOK'
  OBVIOUS
<1> USE CapTypes, PaceAssumption DEF counters, Steps, Waiting
<1>1. ASSUME NEW r \in Requests, CheckRpm(r) PROVE TypeOK'
  BY <1>1, LocalTypes DEF CheckRpm, TypeOK
<1>2. ASSUME NEW r \in Requests, TpmGet(r) PROVE TypeOK'
  BY <1>2, LocalTypes DEF TpmGet, TypeOK
<1>3. ASSUME NEW r \in Requests, TpmTtl(r) PROVE TypeOK'
  <2>1. CASE \E step \in Steps : Leave(r, step)
    BY <1>3, <2>1, LocalTypes DEF TpmTtl, TypeOK
  <2>2. CASE /\ tpmTtl > 0 /\ tries[r] < WaitRetries
             /\ at' = [at EXCEPT ![r] = "asleep"]
             /\ tries' = [tries EXCEPT ![r] = @ + 1]
             /\ sleep' = [sleep EXCEPT ![r] = tpmTtl]
    BY <1>3, <2>2 DEF TpmTtl, TypeOK
  <2> QED BY <1>3, <2>1, <2>2 DEF TpmTtl
<1>4. ASSUME NEW r \in Requests, Wake(r) PROVE TypeOK'
  BY <1>4, LocalTypes DEF Wake, TypeOK
<1>5. ASSUME NEW r \in Requests, IncrRpm(r) PROVE TypeOK'
  <2>1. rpm' \in 0..RpmCap
    <3>1. rpm + 1 \in Nat /\ rpm \in 0..RpmCap
      BY DEF TypeOK
    <3>2. Capped(rpm + 1, RpmCap) \in 0..RpmCap
      BY <3>1, CappedStays
    <3> QED BY <1>5, <3>1, <3>2 DEF IncrRpm
  <2>2. \E step \in Steps : Goto(r, step)
    BY <1>5 DEF IncrRpm
  <2> QED BY <1>5, <2>1, <2>2, LocalTypes DEF IncrRpm, TypeOK
<1>6. ASSUME NEW r \in Requests, ExpireRpm(r) PROVE TypeOK'
  BY <1>6, LocalTypes DEF ExpireRpm, TypeOK
<1>7. ASSUME NEW r \in Requests, NEW tokens \in 0..MaxTokens, Finish(r, tokens)
      PROVE  TypeOK'
  <2>1. tpm' \in 0..TpmCap
    <3>1. tpm + tokens \in Nat /\ tpm \in 0..TpmCap
      BY DEF TypeOK
    <3>2. Capped(tpm + tokens, TpmCap) \in 0..TpmCap
      BY <3>1, CappedStays
    <3> QED BY <1>7, <3>1, <3>2 DEF Finish
  <2>2. \E step \in Steps : Goto(r, step)
    BY <1>7 DEF Finish
  <2> QED BY <1>7, <2>1, <2>2, LocalTypes DEF Finish, TypeOK
<1>8. ASSUME NEW r \in Requests, ExpireTpm(r) PROVE TypeOK'
  BY <1>8, LocalTypes DEF ExpireTpm, TypeOK
<1>9. ASSUME NEW r \in Requests, Abandon(r) PROVE TypeOK'
  BY <1>9, LocalTypes DEF Abandon, TypeOK
<1>10. CASE Tick
  BY <1>10, PredStays DEF Tick, TypeOK
<1>11. CASE UNCHANGED vars
  BY <1>11 DEF vars, TypeOK
<1> QED BY <1>1, <1>2, <1>3, <1>4, <1>5, <1>6, <1>7, <1>8, <1>9, <1>10, <1>11
        DEF Next, Proceed

\* No counter outlives its window, and no request sleeps longer than the token
\* window or more often than wait_for_tpm allows.
THEOREM TypeCorrect == Spec => []TypeOK
<1>1. Init => TypeOK
  BY CapTypes, PaceAssumption DEF Init, TypeOK, Steps
<1> QED BY <1>1, Typing, PTL DEF Spec

(***************************************************************************)
(* The overshoot of the request limit                                      *)
(***************************************************************************)

\* The requests that passed the check and have not counted themselves yet.
Uncounted == {r \in Requests : at[r] \in Waiting \cup {"incrRpm"}}

\* Each of them takes a place of its own beyond the limit, however long it
\* sleeps.
PlacesInv ==
    "redis" \notin faults => rpm + Cardinality(Uncounted) <= Overshoot

\* How a step of one request changes the number of uncounted ones.
LEMMA UncountedChanges ==
    ASSUME TypeOK, NEW r \in Requests, NEW step \in Steps,
           at' = [at EXCEPT ![r] = step]
    PROVE  /\ Cardinality(Uncounted) \in Nat
           /\ Cardinality(Uncounted') \in 0..Cardinality(Requests)
           /\ r \in Uncounted => Cardinality(Uncounted') <= Cardinality(Uncounted)
           /\ r \in Uncounted /\ step \notin Waiting \cup {"incrRpm"} =>
                 Cardinality(Uncounted') = Cardinality(Uncounted) - 1
           /\ r \notin Uncounted /\ step \notin Waiting \cup {"incrRpm"} =>
                 Cardinality(Uncounted') = Cardinality(Uncounted)
<1>1. /\ IsFiniteSet(Uncounted) /\ IsFiniteSet(Uncounted')
      /\ Cardinality(Uncounted') <= Cardinality(Requests)
  BY PaceAssumption, FS_Subset DEF Uncounted
<1>2. /\ Cardinality(Uncounted) \in Nat
      /\ Cardinality(Uncounted') \in 0..Cardinality(Requests)
  BY <1>1, FS_CardinalityType, CapTypes
<1>3. CASE r \in Uncounted /\ step \notin Waiting \cup {"incrRpm"}
  <2>1. Uncounted' = Uncounted \ {r}
    BY <1>3 DEF TypeOK, Uncounted
  <2> QED BY <1>1, <1>2, <1>3, <2>1, FS_RemoveElement
<1>4. CASE \/ r \notin Uncounted /\ step \notin Waiting \cup {"incrRpm"}
           \/ r \in Uncounted /\ step \in Waiting \cup {"incrRpm"}
  <2>1. Uncounted' = Uncounted
    BY <1>4 DEF TypeOK, Uncounted
  <2> QED BY <1>2, <1>4, <2>1
<1>5. CASE r \notin Uncounted /\ step \in Waiting \cup {"incrRpm"}
  BY <1>2, <1>5
<1> QED BY <1>3, <1>4, <1>5

\* A step that leaves the counter alone and adds nobody keeps the places.
LEMMA PlacesKept ==
    ASSUME TypeOK, PlacesInv, NEW r \in Requests, NEW step \in Steps,
           at' = [at EXCEPT ![r] = step], UNCHANGED <<rpm, faults>>,
           r \in Uncounted \/ step \notin Waiting \cup {"incrRpm"}
    PROVE  PlacesInv'
<1>1. /\ Cardinality(Uncounted) \in Nat /\ Cardinality(Uncounted') \in Nat
      /\ Cardinality(Uncounted') <= Cardinality(Uncounted)
  <2>1. /\ Cardinality(Uncounted) \in Nat
        /\ Cardinality(Uncounted') \in 0..Cardinality(Requests)
        /\ r \in Uncounted => Cardinality(Uncounted') <= Cardinality(Uncounted)
        /\ r \notin Uncounted /\ step \notin Waiting \cup {"incrRpm"} =>
              Cardinality(Uncounted') = Cardinality(Uncounted)
    BY UncountedChanges
  <2> QED BY <2>1, CapTypes
<1>2. rpm \in Nat
  BY CapTypes DEF TypeOK
<1> QED BY <1>1, <1>2, CapTypes DEF PlacesInv

\* A place is taken below the limit, kept while its request sleeps, and turned
\* into a count by one INCR.
LEMMA PlacesStep == TypeOK /\ PlacesInv /\ [Next]_vars => PlacesInv'
<1> SUFFICES ASSUME TypeOK, PlacesInv, [Next]_vars PROVE PlacesInv'
  OBVIOUS
<1> USE CapTypes, PaceAssumption DEF counters, Steps, Waiting, Goto, Leave
<1>1. ASSUME NEW r \in Requests, CheckRpm(r) PROVE PlacesInv'
  <2> SUFFICES ASSUME "redis" \notin faults
               PROVE  rpm + Cardinality(Uncounted') <= Overshoot
    BY <1>1 DEF CheckRpm, PlacesInv
  <2>1. rpm <= RpmMax - 1 /\ rpm \in Nat
    BY <1>1 DEF CheckRpm, Lost, TypeOK
  <2>2. Cardinality(Uncounted') \in 0..Cardinality(Requests)
    BY <1>1, UncountedChanges DEF CheckRpm
  <2> QED BY <2>1, <2>2 DEF Overshoot
<1>2. ASSUME NEW r \in Requests, TpmGet(r) \/ TpmTtl(r) \/ Wake(r) PROVE PlacesInv'
  <2>1. r \in Uncounted
    BY <1>2 DEF TpmGet, TpmTtl, Wake, Uncounted
  <2>2. \E step \in Steps : at' = [at EXCEPT ![r] = step]
    BY <1>2 DEF TpmGet, TpmTtl, Wake
  <2>3. UNCHANGED <<rpm, faults>>
    BY <1>2 DEF TpmGet, TpmTtl, Wake
  <2> QED BY <2>1, <2>2, <2>3, PlacesKept
<1>3. ASSUME NEW r \in Requests, IncrRpm(r) PROVE PlacesInv'
  <2> SUFFICES ASSUME "redis" \notin faults
               PROVE  rpm' + Cardinality(Uncounted') <= Overshoot
    BY <1>3 DEF IncrRpm, PlacesInv
  <2>1. r \in Uncounted /\ at' = [at EXCEPT ![r] = "expireRpm"]
    BY <1>3 DEF IncrRpm, Uncounted, Lost
  <2>2. /\ Cardinality(Uncounted) \in Nat
        /\ Cardinality(Uncounted') = Cardinality(Uncounted) - 1
    <3>1. "expireRpm" \in Steps /\ "expireRpm" \notin Waiting \cup {"incrRpm"}
      OBVIOUS
    <3> HIDE DEF Steps, Waiting
    <3> QED BY <2>1, <3>1, UncountedChanges
  <2>3. rpm' <= rpm + 1 /\ rpm' \in Nat
    <3>1. rpm \in Nat /\ rpm' = Capped(rpm + 1, RpmCap)
      BY <1>3 DEF IncrRpm, TypeOK, Lost
    <3> QED BY <3>1 DEF Capped
  <2> QED BY <2>2, <2>3 DEF PlacesInv, TypeOK
<1>4. ASSUME NEW r \in Requests, ExpireRpm(r) \/ ExpireTpm(r) PROVE PlacesInv'
  <2>1. \E step \in Steps : /\ at' = [at EXCEPT ![r] = step]
                            /\ step \notin Waiting \cup {"incrRpm"}
    BY <1>4 DEF ExpireRpm, ExpireTpm
  <2> QED BY <1>4, <2>1, PlacesKept DEF ExpireRpm, ExpireTpm
<1>5. ASSUME NEW r \in Requests, NEW tokens \in 0..MaxTokens, Finish(r, tokens)
      PROVE  PlacesInv'
  <2>1. \E step \in Steps : /\ at' = [at EXCEPT ![r] = step]
                            /\ step \notin Waiting \cup {"incrRpm"}
    BY <1>5 DEF Finish
  <2> QED BY <1>5, <2>1, PlacesKept DEF Finish
<1>6. ASSUME NEW r \in Requests, Abandon(r) PROVE PlacesInv'
  BY <1>6, PlacesKept DEF Abandon
<1>7. CASE Tick
  <2>1. /\ Uncounted' = Uncounted /\ faults' = faults
        /\ rpm' <= rpm /\ rpm' \in Nat
    BY <1>7 DEF Tick, Uncounted, TypeOK
  <2>2. Cardinality(Uncounted) \in Nat
    BY FS_Subset, FS_CardinalityType DEF Uncounted
  <2> QED BY <2>1, <2>2 DEF PlacesInv, TypeOK
<1>8. CASE UNCHANGED vars
  BY <1>8 DEF vars, PlacesInv, Uncounted
<1> QED BY <1>1, <1>2, <1>3, <1>4, <1>5, <1>6, <1>7, <1>8 DEF Next, Proceed

\* The counter passes the request limit by at most the other requests in
\* flight, however long they sleep between the check and the count, unless
\* Redis loses commands.
THEOREM RpmBounded == Spec => []RpmOvershoot
<1>1. Init => PlacesInv
  <2>1. ASSUME Init PROVE Uncounted = {}
    BY <2>1 DEF Init, Uncounted, Waiting
  <2> QED BY <2>1, FS_EmptySet, CapTypes DEF Init, PlacesInv
<1>2. TypeOK /\ PlacesInv /\ [Next]_vars => PlacesInv'
  BY PlacesStep
<1>3. TypeOK /\ PlacesInv => RpmOvershoot
  <2>1. Cardinality(Uncounted) \in Nat
    BY PaceAssumption, FS_Subset, FS_CardinalityType DEF Uncounted
  <2> QED BY <2>1, CapTypes DEF TypeOK, PlacesInv, RpmOvershoot
<1> QED BY <1>1, <1>2, <1>3, TypeCorrect, PTL DEF Spec
=============================================================================
