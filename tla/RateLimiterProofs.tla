-------------------------- MODULE RateLimiterProofs --------------------------
(***************************************************************************)
(* Theorems about RateLimiter, for any number of requests, any limit and   *)
(* any window.                                                             *)
(***************************************************************************)
EXTENDS RateLimiter, TLAPS, FiniteSetTheorems

\* The bound is a natural number, since somebody makes requests.
LEMMA OvershootType == Overshoot \in Nat /\ Cardinality(Requests) \in Nat \ {0}
<1>1. Cardinality(Requests) \in Nat
  BY LimiterAssumption, FS_CardinalityType
<1>2. Cardinality(Requests) # 0
  BY LimiterAssumption, FS_EmptySet
<1> QED BY <1>1, <1>2, LimiterAssumption DEF Overshoot

\* Every command, and time, keeps the types.
LEMMA Typing == TypeOK /\ [Next]_vars => TypeOK'
<1> SUFFICES ASSUME TypeOK, [Next]_vars PROVE TypeOK'
  OBVIOUS
<1> USE OvershootType, LimiterAssumption DEF TypeOK, CountCap, Goto
<1>1. ASSUME NEW r \in Requests, Check(r) PROVE TypeOK'
  BY <1>1 DEF Check
<1>2. ASSUME NEW r \in Requests, Skip(r) PROVE TypeOK'
  BY <1>2 DEF Skip
<1>3. ASSUME NEW r \in Requests, Increment(r) PROVE TypeOK'
  <2>1. at' \in [Requests -> {"idle", "admitted", "expire"}]
    BY <1>3 DEF Increment
  <2>2. count' \in 0..CountCap
    BY <1>3 DEF Increment
  <2> QED BY <1>3, <2>1, <2>2 DEF Increment
<1>4. ASSUME NEW r \in Requests, Expire(r) PROVE TypeOK'
  BY <1>4 DEF Expire
<1>5. ASSUME NEW r \in Requests, Abandon(r) PROVE TypeOK'
  BY <1>5 DEF Abandon
<1>6. CASE Tick
  BY <1>6 DEF Tick
<1>7. CASE UNCHANGED vars
  BY <1>7 DEF vars
<1> QED BY <1>1, <1>2, <1>3, <1>4, <1>5, <1>6, <1>7 DEF Next

\* The counter never lives longer than its window.
THEOREM TypeCorrect == Spec => []TypeOK
<1>1. Init => TypeOK
  BY OvershootType, LimiterAssumption DEF Init, TypeOK, CountCap
<1> QED BY <1>1, Typing, PTL DEF Spec

(***************************************************************************)
(* The overshoot                                                           *)
(***************************************************************************)

\* Each request that passed the check and has not incremented yet takes a place
\* of its own beyond the limit.
PlacesInv ==
    "redis" \notin faults => count + Cardinality(Admitted) <= Overshoot

\* Cardinality of the admitted requests, when one is admitted or leaves.
LEMMA AdmittedCounts ==
    ASSUME TypeOK, NEW r \in Requests, NEW step \in {"idle", "admitted", "expire"},
           Goto(r, step)
    PROVE  /\ Cardinality(Admitted) \in Nat
           /\ Cardinality(Admitted') \in 0..Cardinality(Requests)
           /\ at[r] = "admitted" /\ step # "admitted"
                => Cardinality(Admitted') = Cardinality(Admitted) - 1
           /\ at[r] # "admitted" /\ step # "admitted"
                => Cardinality(Admitted') = Cardinality(Admitted)
<1>1. /\ IsFiniteSet(Admitted) /\ IsFiniteSet(Admitted')
      /\ Cardinality(Admitted') <= Cardinality(Requests)
  BY LimiterAssumption, FS_Subset DEF Admitted
<1>2. /\ Cardinality(Admitted) \in Nat
      /\ Cardinality(Admitted') \in 0..Cardinality(Requests)
  BY <1>1, FS_CardinalityType, OvershootType
<1>3. CASE at[r] = "admitted" /\ step # "admitted"
  <2>1. Admitted' = Admitted \ {r} /\ r \in Admitted
    BY <1>3 DEF TypeOK, Goto, Admitted
  <2> QED BY <1>1, <1>2, <1>3, <2>1, FS_RemoveElement
<1>4. CASE at[r] # "admitted" /\ step # "admitted"
  <2>1. Admitted' = Admitted
    BY <1>4 DEF TypeOK, Goto, Admitted
  <2> QED BY <1>2, <1>4, <2>1
<1>5. CASE step = "admitted"
  BY <1>2, <1>5
<1> QED BY <1>3, <1>4, <1>5

\* A place is taken below the limit, and turned into a count by one INCR.
LEMMA PlacesStep == TypeOK /\ PlacesInv /\ [Next]_vars => PlacesInv'
<1> SUFFICES ASSUME TypeOK, PlacesInv, [Next]_vars, "redis" \notin faults
             PROVE  PlacesInv'
  BY DEF PlacesInv, Next, Tick, Check, Skip, Increment, Expire, Abandon, vars
<1> USE OvershootType, LimiterAssumption DEF PlacesInv
<1>1. ASSUME NEW r \in Requests, Check(r) PROVE PlacesInv'
  <2>1. count' <= MaxRequests - 1 /\ count' \in Nat
    BY <1>1 DEF Check, Lost, TypeOK
  <2>2. Cardinality(Admitted') \in 0..Cardinality(Requests)
    BY <1>1, AdmittedCounts DEF Check
  <2> QED BY <2>1, <2>2 DEF Overshoot
<1>2. ASSUME NEW r \in Requests, Skip(r) PROVE PlacesInv'
  BY <1>2, AdmittedCounts DEF Skip, TypeOK
<1>3. ASSUME NEW r \in Requests, Increment(r) PROVE PlacesInv'
  <2>1. PICK step \in {"idle", "expire"} : Goto(r, step)
    BY <1>3 DEF Increment
  <2>2. /\ Cardinality(Admitted) \in Nat
        /\ Cardinality(Admitted') = Cardinality(Admitted) - 1
    BY <1>3, <2>1, AdmittedCounts DEF Increment
  <2>3. count' <= count + 1 /\ count' \in Nat
    BY <1>3 DEF Increment, TypeOK, CountCap, Lost
  <2> QED BY <2>2, <2>3 DEF TypeOK
<1>4. ASSUME NEW r \in Requests, Expire(r) PROVE PlacesInv'
  BY <1>4, AdmittedCounts DEF Expire, TypeOK
<1>5. ASSUME NEW r \in Requests, Abandon(r) PROVE PlacesInv'
  BY <1>5, AdmittedCounts DEF Abandon, TypeOK
<1>6. CASE Tick
  <2>1. Admitted' = Admitted /\ count' <= count /\ count' \in Nat
    BY <1>6 DEF Tick, Admitted, TypeOK
  <2>2. Cardinality(Admitted) \in Nat
    BY LimiterAssumption, FS_Subset, FS_CardinalityType DEF Admitted
  <2> QED BY <2>1, <2>2 DEF TypeOK
<1>7. CASE UNCHANGED vars
  BY <1>7 DEF vars, Admitted
<1> QED BY <1>1, <1>2, <1>3, <1>4, <1>5, <1>6, <1>7 DEF Next

\* As long as Redis answers, a window lets through at most the limit and one
\* request more per other request in flight, whichever of them are abandoned.
THEOREM OvershootBounded == Spec => []BoundedOvershoot
<1>1. Init => PlacesInv
  <2>1. ASSUME Init PROVE Admitted = {}
    BY <2>1 DEF Init, Admitted
  <2> QED BY <2>1, FS_EmptySet, OvershootType DEF Init, PlacesInv
<1>2. TypeOK /\ PlacesInv /\ [Next]_vars => PlacesInv'
  BY PlacesStep
<1>3. TypeOK /\ PlacesInv => BoundedOvershoot
  <2>1. Cardinality(Admitted) \in Nat
    BY LimiterAssumption, FS_Subset, FS_CardinalityType DEF Admitted
  <2> QED BY <2>1, OvershootType DEF TypeOK, PlacesInv, BoundedOvershoot
<1> QED BY <1>1, <1>2, <1>3, TypeCorrect, PTL DEF Spec

(***************************************************************************)
(* The expiry                                                              *)
(***************************************************************************)

\* When nothing is lost or dropped, the counter that has no expiry has a
\* request that is about to give it one, and only that request can leave.
LEMMA ExpiryStep == TypeOK /\ WindowEnds /\ [Next]_vars => WindowEnds'
<1> SUFFICES ASSUME TypeOK, WindowEnds, [Next]_vars,
                    faults = {}, count' > 0, ttl' = 0
             PROVE  \E r \in Requests : at'[r] = "expire"
  BY DEF WindowEnds, Next, Tick, Check, Skip, Increment, Expire, Abandon, vars
<1> USE LimiterAssumption, OvershootType DEF TypeOK, CountCap, Lost, Goto
<1>1. ASSUME NEW r \in Requests, Increment(r) PROVE \E q \in Requests : at'[q] = "expire"
  <2>1. CASE count = 0
    BY <1>1, <2>1 DEF Increment
  <2>2. CASE count > 0
    <3>1. PICK q \in Requests : at[q] = "expire"
      BY <1>1, <2>2 DEF Increment, WindowEnds
    <3>2. q # r
      BY <1>1, <3>1 DEF Increment
    <3> QED BY <1>1, <3>1, <3>2 DEF Increment
  <2> QED BY <2>1, <2>2
<1>2. ASSUME NEW r \in Requests, Expire(r) PROVE FALSE
  BY <1>2 DEF Expire
<1>3. ASSUME NEW r \in Requests, Check(r) \/ Skip(r)
      PROVE  \E q \in Requests : at'[q] = "expire"
  <2>1. PICK q \in Requests : at[q] = "expire"
    BY <1>3 DEF Check, Skip, WindowEnds
  <2>2. q # r
    BY <1>3, <2>1 DEF Check, Skip
  <2> QED BY <1>3, <2>1, <2>2 DEF Check, Skip
<1>4. ASSUME NEW r \in Requests PROVE ~Abandon(r)
  BY DEF Abandon
<1>5. CASE Tick
  BY <1>5 DEF Tick, WindowEnds
<1>6. CASE UNCHANGED vars
  BY <1>6 DEF vars, WindowEnds
<1> QED BY <1>1, <1>2, <1>3, <1>4, <1>5, <1>6 DEF Next

\* A server at its limit has an expiry to wait for: while nothing is lost or
\* dropped, a counter without one is about to be given one.
THEOREM ExpiryFollows == Spec => []WindowEnds
<1>1. Init => WindowEnds
  BY DEF Init, WindowEnds
<1>2. TypeOK /\ WindowEnds /\ [Next]_vars => WindowEnds'
  BY ExpiryStep
<1> QED BY <1>1, <1>2, TypeCorrect, PTL DEF Spec
=============================================================================
