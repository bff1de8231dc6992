-------------------------- MODULE WaterfallProofs --------------------------
(***************************************************************************)
(* What Waterfall promises for any number of servers, endpoints, bonus     *)
(* subscriptions and retries, whatever the upstreams answer: what it tells *)
(* the circuits, what it counts and logs, and the order of the servers.    *)
(***************************************************************************)
EXTENDS Waterfall, WellFoundedInduction, TLAPS

-----------------------------------------------------------------------------
(* The probe permits *)

\* The stages before the servers of the group.
Ahead == {"received", "priority", "subscription", "bonus", "countTokens"}

\* Only the server being tried can have a permit held, and the servers whose
\* turn is still to come have not been asked for one.
PermitInv ==
    /\ permit \in [1..Servers -> PermitStates]
    /\ i \in Nat \ {0}
    /\ \A s \in 1..Servers :
          /\ permit[s] = "held" =>
                s = i /\ stage \in {"servers", "dropped"} /\ wait # "no"
          /\ stage \in Ahead => permit[s] = "none"
          /\ stage = "servers" /\ (s > i \/ (s = i /\ wait = "no"))
                => permit[s] = "none"
          /\ s = i /\ wait \in {"sigBody", "answer"} => permit[s] # "held"

\* No server has been asked for a permit at the start.
LEMMA PermitInit == Init => PermitInv
BY DEF Init, PermitInv, PermitStates

\* One step per action; what matters is whether the action reports a verdict
\* when it leaves the server.
LEMMA PermitStep == PermitInv /\ [Next]_vars => PermitInv'
<1> SUFFICES ASSUME PermitInv, [Next]_vars PROVE PermitInv'
  OBVIOUS
<1> USE WaterfallAssumption DEF PermitInv, PermitStates, Ahead, control, charge, flags, circuit
<1>1. CASE Route
  <2>1. CASE Reject
    BY <2>1 DEF Reject, Return
  <2>2. CASE Accept
    BY <2>2 DEF Accept, Enter
  <2>3. CASE AsideSend
    BY <2>3 DEF AsideSend, Aside, Wait
  <2>4. CASE PriorityExhausted
    BY <2>4 DEF PriorityExhausted, Exhausted, Enter
  <2>5. CASE FallbackExhausted
    BY <2>5 DEF FallbackExhausted, Exhausted, Return
  <2>6. CASE CheckSubscription
    BY <2>6 DEF CheckSubscription, Enforce, Enter, FallBack
  <2>7. CASE BonusExhausted
    BY <2>7 DEF BonusExhausted, Exhausted, Enforce, Enter, FallBack
  <2>8. CASE NoCountTokens
    BY <2>8 DEF NoCountTokens, Enter
  <2>9. CASE Estimate
    BY <2>9 DEF Estimate, Return
  <2>10. CASE Forward
    BY <2>10 DEF Forward, Wait
  <2>11. CASE CtSend
    BY <2>11 DEF CtSend, Wait
  <2>12. CASE Skip
    BY <2>12 DEF Skip, Here, Advance
  <2>13. CASE SkipLimited
    BY <2>13 DEF SkipLimited, Here, Advance
  <2>14. ASSUME NEW probe \in BOOLEAN, Send(probe) PROVE PermitInv'
    BY <2>14 DEF Send, Here, Wait
  <2>15. CASE Retry
    BY <2>15 DEF Retry, Here
  <2>16. CASE ReadRefusal
    BY <2>16 DEF ReadRefusal, Here, Wait
  <2>17. CASE FailoverStatus
    BY <2>17 DEF FailoverStatus, Judging, Here, RecordError, Report, Advance
  <2>18. CASE UpstreamError
    BY <2>18 DEF UpstreamError, Judging, Here, Report, Relay, Return, Wait, Log
  <2>19. ASSUME NEW sse \in BOOLEAN, Ok(sse) PROVE PermitInv'
    BY <2>19 DEF Ok, Judging, Here, Wait
  <2>20. CASE ServersExhausted
    BY <2>20 DEF ServersExhausted, FallBack, Enter, Log
  <2>21. QED
    BY <1>1, <2>1, <2>2, <2>3, <2>4, <2>5, <2>6, <2>7, <2>8, <2>9, <2>10, <2>11, <2>12, <2>13, <2>14, <2>15, <2>16, <2>17, <2>18, <2>19, <2>20 DEF Route
<1>2. CASE TimeOut
  <2>1. CASE AsideTimesOut
    BY <2>1 DEF AsideTimesOut, Aside, Advance
  <2>2. CASE SendTimesOut
    BY <2>2 DEF SendTimesOut, NoAnswer, Here, RecordError, Report, Advance, Push
  <2>3. CASE ArrivesLate
    BY <2>3 DEF ArrivesLate, Here, RecordError, Report, Advance, Forfeit
  <2>4. CASE SigBody
    BY <2>4 DEF SigBody, Here, Return
  <2>5. QED
    BY <1>2, <2>1, <2>2, <2>3, <2>4 DEF TimeOut
<1>3. CASE Upstream
  <2>1. CASE AsideBody
    BY <2>1 DEF AsideBody, Aside, AsideAnswer, Return
  <2>2. CASE AsideFails
    BY <2>2 DEF AsideFails, Aside, Advance
  <2>3. CASE Forwarded
    BY <2>3 DEF Forwarded, Return
  <2>4. CASE CtFails
    BY <2>4 DEF CtFails, Enter, Push
  <2>5. CASE SendFails
    BY <2>5 DEF SendFails, NoAnswer, Here, RecordError, Report, Advance, Push
  <2>6. CASE RetryFails
    BY <2>6 DEF RetryFails, Here
  <2>7. CASE PassedOn
    BY <2>7 DEF PassedOn, Return
  <2>8. CASE BadSignature
    BY <2>8 DEF BadSignature, Here, Wait
  <2>9. CASE OtherRefusal
    BY <2>9 DEF OtherRefusal, Here, Wait
  <2>10. CASE SigFails
    BY <2>10 DEF SigFails, Here, Wait
  <2>11. CASE SigBody
    BY <2>11 DEF SigBody, Here, Return
  <2>12. CASE Arrives
    BY <2>12 DEF Arrives, Here, Report, Return
  <2>13. CASE StreamBreaks
    BY <2>13 DEF StreamBreaks, Here, RecordError, Report, Advance, Forfeit
  <2>14. ASSUME NEW sse \in BOOLEAN, AsideSucceeds(sse) PROVE PermitInv'
    BY <2>14 DEF AsideSucceeds, Aside, AsideAnswer, Return, Wait
  <2>15. ASSUME NEW sse \in BOOLEAN, SigSucceeds(sse) PROVE PermitInv'
    BY <2>15 DEF SigSucceeds, Here, Report, Return, Wait, Push
  <2>16. ASSUME NEW status \in Statuses, CtAnswers(status) PROVE PermitInv'
    BY <2>16 DEF CtAnswers, Enter, Wait, Push
  <2>17. ASSUME NEW status \in Statuses, Responds(status) PROVE PermitInv'
    BY <2>17 DEF Responds, Here, Push
  <2>18. ASSUME NEW status \in Statuses, RetryAnswers(status) PROVE PermitInv'
    BY <2>18 DEF RetryAnswers, Here, Wait, Push
  <2>19. ASSUME NEW status \in Statuses, SigFailover(status) PROVE PermitInv'
    BY <2>19 DEF SigFailover, Here, Report, Advance, Push
  <2>20. ASSUME NEW status \in Statuses, SigError(status) PROVE PermitInv'
    BY <2>20 DEF SigError, Here, Report, Wait, Push
  <2>21. QED
    BY <1>3, <2>1, <2>2, <2>3, <2>4, <2>5, <2>6, <2>7, <2>8, <2>9, <2>10, <2>11, <2>12, <2>13, <2>14, <2>15, <2>16, <2>17, <2>18, <2>19, <2>20 DEF Upstream
<1>4. CASE HangUp
  BY <1>4 DEF HangUp, Ended
<1>5. CASE UNCHANGED vars
  BY <1>5 DEF vars
<1>6. QED
  BY <1>1, <1>2, <1>3, <1>4, <1>5 DEF Next

\* The permit of a server is handed back on every way out of its attempt:
\* NoPermitLeaks for every instance.
THEOREM PermitsHandedBack == Spec => []NoPermitLeaks
<1>1. PermitInv => NoPermitLeaks
  BY DEF PermitInv, NoPermitLeaks
<1>2. QED
  BY <1>1, PermitInit, PermitStep, PTL DEF Spec

-----------------------------------------------------------------------------
(* The request is a good client of the circuits *)

\* A step grants a permit, reports a verdict, or leaves the permits alone.
LEMMA PermitMoves ==
    PermitInv /\ [Next]_vars => [Permits!Next]_permit
<1> SUFFICES ASSUME PermitInv, [Next]_vars PROVE [Permits!Next]_permit
  OBVIOUS
<1> USE WaterfallAssumption DEF PermitInv, PermitStates, Ahead, control, charge, flags, circuit
<1>a. ASSUME Here, \E verdict \in Permits!Verdicts : Report(verdict)
      PROVE  [Permits!Next]_permit
  <2>1. PICK verdict \in Permits!Verdicts : Report(verdict)
    BY <1>a
  <2>2. CASE permit[i] = "held"
    <3>1. Permits!Report(i)
      BY <1>a, <2>1, <2>2 DEF Permits!Report, Report, Here
    <3>2. QED
      BY <1>a, <3>1 DEF Permits!Next, Here
  <2>3. CASE permit[i] # "held"
    BY <1>a, <2>1, <2>3 DEF Report, Here
  <2>4. QED
    BY <2>2, <2>3
<1>b. ASSUME NEW probe \in BOOLEAN, Send(probe)
      PROVE  [Permits!Next]_permit
  <2>1. CASE probe
    <3>1. Permits!Grant(i)
      BY <1>b, <2>1 DEF Permits!Grant, Send, Here
    <3>2. QED
      BY <1>b, <3>1 DEF Permits!Next, Send, Here
  <2>2. CASE ~probe
    BY <1>b, <2>2 DEF Send
  <2>3. QED
    BY <2>1, <2>2
<1>1. CASE Route
  <2>1. CASE FailoverStatus
    BY <1>a, <2>1 DEF FailoverStatus, Judging, Here, RecordError, Permits!Verdicts
  <2>2. CASE UpstreamError
    BY <1>a, <2>2 DEF UpstreamError, Judging, Here, Permits!Verdicts
  <2>3. CASE \/ Reject
            \/ Accept
            \/ AsideSend
            \/ PriorityExhausted
            \/ FallbackExhausted
            \/ CheckSubscription
            \/ BonusExhausted
            \/ NoCountTokens
            \/ Estimate
            \/ Forward
            \/ CtSend
            \/ Skip
            \/ SkipLimited
            \/ Retry
            \/ ReadRefusal
            \/ (\E sse \in BOOLEAN : Ok(sse))
            \/ ServersExhausted
    BY <2>3 DEF Reject, Accept, AsideSend, PriorityExhausted, FallbackExhausted, CheckSubscription, BonusExhausted, NoCountTokens, Estimate, Forward, CtSend, Skip, SkipLimited, Retry, ReadRefusal, Ok, ServersExhausted
  <2>4. QED
    BY <1>1, <1>b, <2>1, <2>2, <2>3 DEF Route
<1>2. CASE TimeOut
  <2>1. CASE SendTimesOut
    BY <1>a, <2>1 DEF SendTimesOut, NoAnswer, Here, RecordError, Permits!Verdicts
  <2>2. CASE ArrivesLate
    BY <1>a, <2>2 DEF ArrivesLate, Here, RecordError, Permits!Verdicts
  <2>3. CASE \/ AsideTimesOut
            \/ SigBody
    BY <2>3 DEF AsideTimesOut, SigBody
  <2>4. QED
    BY <1>2, <2>1, <2>2, <2>3 DEF TimeOut
<1>3. CASE Upstream
  <2>1. CASE SendFails
    BY <1>a, <2>1 DEF SendFails, NoAnswer, Here, RecordError, Permits!Verdicts
  <2>2. CASE Arrives
    BY <1>a, <2>2 DEF Arrives, Here, Permits!Verdicts
  <2>3. CASE StreamBreaks
    BY <1>a, <2>3 DEF StreamBreaks, Here, RecordError, Permits!Verdicts
  <2>4. ASSUME NEW sse \in BOOLEAN, SigSucceeds(sse) PROVE [Permits!Next]_permit
    BY <1>a, <2>4 DEF SigSucceeds, Here, Permits!Verdicts
  <2>5. ASSUME NEW status \in Statuses, SigFailover(status) PROVE [Permits!Next]_permit
    BY <1>a, <2>5 DEF SigFailover, Here, Permits!Verdicts
  <2>6. ASSUME NEW status \in Statuses, SigError(status) PROVE [Permits!Next]_permit
    BY <1>a, <2>6 DEF SigError, Here, Permits!Verdicts
  <2>7. CASE \/ AsideBody
            \/ AsideFails
            \/ Forwarded
            \/ CtFails
            \/ RetryFails
            \/ PassedOn
            \/ BadSignature
            \/ OtherRefusal
            \/ SigFails
            \/ SigBody
            \/ (\E sse \in BOOLEAN : AsideSucceeds(sse))
            \/ (\E status \in Statuses : CtAnswers(status))
            \/ (\E status \in Statuses : Responds(status))
            \/ (\E status \in Statuses : RetryAnswers(status))
    BY <2>7 DEF AsideBody, AsideFails, Forwarded, CtFails, RetryFails, PassedOn, BadSignature, OtherRefusal, SigFails, SigBody, AsideSucceeds, CtAnswers, Responds, RetryAnswers
  <2>8. QED
    BY <1>3, <2>1, <2>2, <2>3, <2>4, <2>5, <2>6, <2>7 DEF Upstream
<1>4. CASE HangUp
  BY <1>4 DEF HangUp
<1>5. CASE UNCHANGED vars
  BY <1>5 DEF vars
<1>6. QED
  BY <1>1, <1>2, <1>3, <1>4, <1>5 DEF Next

\* Whatever happens to the request, each circuit sees one permit at a time and
\* one verdict for it: the client that CircuitBreaker takes a request to be.
THEOREM PermitRefinement == Spec => UsesPermits
<1>1. Init => Permits!Init
  BY DEF Init, Permits!Init
<1>2. QED
  BY <1>1, PermitInit, PermitStep, PermitMoves, PTL DEF Spec, UsesPermits, Permits!Spec

-----------------------------------------------------------------------------
(* The subscription *)

\* A selected subscription is counted before the first server of the group, and
\* not while a bonus server may still answer.
CountInv ==
    /\ counted \in {0, 1}
    /\ stage \in {"received", "priority", "subscription", "bonus"} =>
          counted = 0 /\ chain = <<>>
    /\ stage \in {"received", "priority", "subscription"} => sub = "none" /\ bonus = 0
    /\ stage = "bonus" => sub \in {"none", "pending"} /\ bonus > 0
    /\ Billing /\ req.subKey /\ (chain # <<>> \/ stage \in {"countTokens", "servers"})
          => counted = 1 \/ (sub = "none" /\ bonus > 0)
    /\ answer = "bonus" => stage = "done" /\ counted = 0

\* Nothing is counted at the start.
LEMMA CountInit == Init => CountInv
BY DEF Init, CountInv

\* Only the two subscription checks count, each at the door of the next stage.
LEMMA CountStep == CountInv /\ [Next]_vars => CountInv'
<1> SUFFICES ASSUME CountInv, [Next]_vars PROVE CountInv'
  OBVIOUS
<1> USE WaterfallAssumption DEF CountInv, Billing, control, charge, flags, circuit
<1>1. CASE Route
  <2>1. CASE Reject
    BY <2>1 DEF Reject, Return
  <2>2. CASE Accept
    BY <2>2 DEF Accept, Enter
  <2>3. CASE AsideSend
    BY <2>3 DEF AsideSend, Aside, Wait
  <2>4. CASE PriorityExhausted
    BY <2>4 DEF PriorityExhausted, Exhausted, Enter
  <2>5. CASE FallbackExhausted
    BY <2>5 DEF FallbackExhausted, Exhausted, Return
  <2>6. CASE CheckSubscription
    BY <2>6 DEF CheckSubscription, Enforce, Enter, FallBack
  <2>7. CASE BonusExhausted
    BY <2>7 DEF BonusExhausted, Exhausted, Enforce, Enter, FallBack
  <2>8. CASE NoCountTokens
    BY <2>8 DEF NoCountTokens, Enter
  <2>9. CASE Estimate
    BY <2>9 DEF Estimate, Return
  <2>10. CASE Forward
    BY <2>10 DEF Forward, Wait
  <2>11. CASE CtSend
    BY <2>11 DEF CtSend, Wait
  <2>12. CASE Skip
    BY <2>12 DEF Skip, Here, Advance
  <2>13. CASE SkipLimited
    BY <2>13 DEF SkipLimited, Here, Advance
  <2>14. ASSUME NEW probe \in BOOLEAN, Send(probe) PROVE CountInv'
    BY <2>14 DEF Send, Here, Wait
  <2>15. CASE Retry
    BY <2>15 DEF Retry, Here
  <2>16. CASE ReadRefusal
    BY <2>16 DEF ReadRefusal, Here, Wait
  <2>17. CASE FailoverStatus
    BY <2>17 DEF FailoverStatus, Judging, Here, RecordError, Report, Advance
  <2>18. CASE UpstreamError
    BY <2>18 DEF UpstreamError, Judging, Here, Report, Relay, Return, Wait, Log
  <2>19. ASSUME NEW sse \in BOOLEAN, Ok(sse) PROVE CountInv'
    BY <2>19 DEF Ok, Judging, Here, Wait
  <2>20. CASE ServersExhausted
    BY <2>20 DEF ServersExhausted, FallBack, Enter, Log
  <2>21. QED
    BY <1>1, <2>1, <2>2, <2>3, <2>4, <2>5, <2>6, <2>7, <2>8, <2>9, <2>10, <2>11, <2>12, <2>13, <2>14, <2>15, <2>16, <2>17, <2>18, <2>19, <2>20 DEF Route
<1>2. CASE TimeOut
  <2>1. CASE AsideTimesOut
    BY <2>1 DEF AsideTimesOut, Aside, Advance
  <2>2. CASE SendTimesOut
    BY <2>2 DEF SendTimesOut, NoAnswer, Here, RecordError, Report, Advance, Push
  <2>3. CASE ArrivesLate
    BY <2>3 DEF ArrivesLate, Here, RecordError, Report, Advance, Forfeit
  <2>4. CASE SigBody
    BY <2>4 DEF SigBody, Here, Return
  <2>5. QED
    BY <1>2, <2>1, <2>2, <2>3, <2>4 DEF TimeOut
<1>3. CASE Upstream
  <2>1. CASE AsideBody
    BY <2>1 DEF AsideBody, Aside, AsideAnswer, Return
  <2>2. CASE AsideFails
    BY <2>2 DEF AsideFails, Aside, Advance
  <2>3. CASE Forwarded
    BY <2>3 DEF Forwarded, Return
  <2>4. CASE CtFails
    BY <2>4 DEF CtFails, Enter, Push
  <2>5. CASE SendFails
    BY <2>5 DEF SendFails, NoAnswer, Here, RecordError, Report, Advance, Push
  <2>6. CASE RetryFails
    BY <2>6 DEF RetryFails, Here
  <2>7. CASE PassedOn
    BY <2>7 DEF PassedOn, Return
  <2>8. CASE BadSignature
    BY <2>8 DEF BadSignature, Here, Wait
  <2>9. CASE OtherRefusal
    BY <2>9 DEF OtherRefusal, Here, Wait
  <2>10. CASE SigFails
    BY <2>10 DEF SigFails, Here, Wait
  <2>11. CASE SigBody
    BY <2>11 DEF SigBody, Here, Return
  <2>12. CASE Arrives
    BY <2>12 DEF Arrives, Here, Report, Return
  <2>13. CASE StreamBreaks
    BY <2>13 DEF StreamBreaks, Here, RecordError, Report, Advance, Forfeit
  <2>14. ASSUME NEW sse \in BOOLEAN, AsideSucceeds(sse) PROVE CountInv'
    BY <2>14 DEF AsideSucceeds, Aside, AsideAnswer, Return, Wait
  <2>15. ASSUME NEW sse \in BOOLEAN, SigSucceeds(sse) PROVE CountInv'
    BY <2>15 DEF SigSucceeds, Here, Report, Return, Wait, Push
  <2>16. ASSUME NEW status \in Statuses, CtAnswers(status) PROVE CountInv'
    BY <2>16 DEF CtAnswers, Enter, Wait, Push
  <2>17. ASSUME NEW status \in Statuses, Responds(status) PROVE CountInv'
    BY <2>17 DEF Responds, Here, Push
  <2>18. ASSUME NEW status \in Statuses, RetryAnswers(status) PROVE CountInv'
    BY <2>18 DEF RetryAnswers, Here, Wait, Push
  <2>19. ASSUME NEW status \in Statuses, SigFailover(status) PROVE CountInv'
    BY <2>19 DEF SigFailover, Here, Report, Advance, Push
  <2>20. ASSUME NEW status \in Statuses, SigError(status) PROVE CountInv'
    BY <2>20 DEF SigError, Here, Report, Wait, Push
  <2>21. QED
    BY <1>3, <2>1, <2>2, <2>3, <2>4, <2>5, <2>6, <2>7, <2>8, <2>9, <2>10, <2>11, <2>12, <2>13, <2>14, <2>15, <2>16, <2>17, <2>18, <2>19, <2>20 DEF Upstream
<1>4. CASE HangUp
  BY <1>4 DEF HangUp, Ended
<1>5. CASE UNCHANGED vars
  BY <1>5 DEF vars
<1>6. QED
  BY <1>1, <1>2, <1>3, <1>4, <1>5 DEF Next

\* A request of a sub-key is counted against its subscription exactly when it
\* should be: CountedOnce for every instance.
THEOREM CountingCorrect == Spec => []CountedOnce
<1>1. CountInv => CountedOnce
  BY DEF CountInv, CountedOnce, Billing
<1>2. QED
  BY <1>1, CountInit, CountStep, PTL DEF Spec

-----------------------------------------------------------------------------
(* The chain of attempts and the log *)

\* What a new attempt does to the chain.
LEMMA Pushed ==
    ASSUME chain \in Seq(Attempt), NEW server \in 1..(Servers + 1),
           NEW status \in Statuses \cup {0}, Push(server, status)
    PROVE  /\ chain' \in Seq(Attempt) /\ chain' # <<>>
           /\ Len(chain') = Len(chain) + 1
           /\ chain'[Len(chain')].server = server
           /\ chain'[Len(chain')].status = status
           /\ \A k \in 1..Len(chain) : chain'[k] = chain[k]
<1> DEFINE a == [server |-> server, status |-> status]
<1>1. a \in Attempt
  BY DEF Attempt
<1> HIDE DEF a
<1>2. chain' = Append(chain, a)
  BY DEF Push, a
<1>3. /\ chain' \in Seq(Attempt) /\ chain' # <<>>
      /\ Len(chain') = Len(chain) + 1
      /\ chain'[Len(chain')] = a
      /\ \A k \in 1..Len(chain) : chain'[k] = chain[k]
  BY <1>1, <1>2
<1> QED BY <1>3 DEF a

\* And what it does when the last attempt is taken for a connection error.
LEMMA Forfeited ==
    ASSUME chain \in Seq(Attempt), chain # <<>>, Forfeit
    PROVE  /\ chain' \in Seq(Attempt) /\ chain' # <<>>
           /\ Len(chain') = Len(chain)
           /\ \A k \in 1..Len(chain) : chain'[k].server = chain[k].server
<1>1. /\ chain \in [1..Len(chain) -> Attempt] /\ Len(chain) \in Nat
      /\ Len(chain) \in 1..Len(chain)
  OBVIOUS
<1> DEFINE n == Len(chain)
           a == [chain[n] EXCEPT !.status = 0]
<1>2. a \in Attempt /\ a.server = chain[n].server
  BY <1>1 DEF Attempt
<1>3. chain' = [chain EXCEPT ![n] = a]
  BY DEF Forfeit
<1> HIDE DEF a, n
<1>4. chain' \in [1..Len(chain) -> Attempt]
  BY <1>1, <1>2, <1>3
<1>5. chain' \in Seq(Attempt) /\ Len(chain') = Len(chain) /\ chain' # <<>>
  BY <1>1, <1>4
<1>6. \A k \in 1..Len(chain) : chain'[k].server = chain[k].server
  BY <1>1, <1>2, <1>3
<1> QED BY <1>5, <1>6

\* A log entry.
LEMMA Logged ==
    ASSUME log \in Seq(LogEntry), NEW status \in Statuses \cup {429},
           NEW type \in {"failover_success", "upstream_error", "connection_error",
                         "all_servers_exhausted"},
           Log(type, status)
    PROVE  /\ log' \in Seq(LogEntry) /\ log' # <<>>
           /\ Len(log') = Len(log) + 1
<1> DEFINE e == [type |-> type, status |-> status]
<1>1. e \in LogEntry
  BY DEF LogEntry
<1> HIDE DEF e
<1>2. log' = Append(log, e)
  BY DEF Log, e
<1> QED BY <1>1, <1>2

\* The last attempt that got a status is there to be found.
LEMMA FinalStatusTyped ==
    ASSUME chain \in Seq(Attempt)
    PROVE  FinalStatus \in Statuses \cup {429}
<1> DEFINE failed == {k \in 1..Len(chain) : chain[k].status # 0}
           last   == CHOOSE k \in failed : \A l \in failed : l <= k
<1>0. FinalStatus = IF failed = {} THEN 429 ELSE chain[last].status
  BY DEF FinalStatus
<1>1. Len(chain) \in Nat /\ \A k \in 1..Len(chain) : chain[k] \in Attempt
  OBVIOUS
<1>2. SUFFICES ASSUME failed # {} PROVE chain[last].status \in Statuses
  BY <1>0
<1>3. \E k \in failed : \A l \in failed : l <= k
  <2> DEFINE R   == OpToRel(<, Nat)
             gap == {Len(chain) - k : k \in failed}
  <2>1. IsWellFoundedOn(R, Nat)
    BY NatLessThanWellFounded
  <2>2. gap \subseteq Nat /\ gap # {}
    BY <1>1, <1>2
  <2> HIDE DEF gap
  <2>3. \E x \in gap : \A y \in gap : ~ (<<y, x>> \in R)
    <3> HIDE DEF R
    <3> QED BY <2>1, <2>2, WFMin
  <2>4. PICK x \in gap : \A y \in gap : ~(y < x)
    BY <2>2, <2>3 DEF OpToRel
  <2>5. PICK k \in failed : x = Len(chain) - k
    BY <2>4 DEF gap
  <2>6. ASSUME NEW l \in failed PROVE l <= k
    <3>1. Len(chain) - l \in gap
      BY DEF gap
    <3>2. ~(Len(chain) - l < Len(chain) - k)
      BY <2>4, <2>5, <3>1
    <3>3. l \in 1..Len(chain) /\ k \in 1..Len(chain)
      OBVIOUS
    <3> QED BY <1>1, <3>2, <3>3
  <2> QED BY <2>6
<1>4. last \in failed
  BY <1>3
<1> QED BY <1>1, <1>4 DEF Attempt


-----------------------------------------------------------------------------
(* Types *)

\* Once the headers of a server have come, the last attempt has its status.
Tried == {"judge", "retry", "refusal", "sigRetry", "refused", "sigBody", "body", "chunk"}

\* The types, and what makes the status of the last attempt one: an attempt was
\* made, it got a status, and a body that is read is that of a 200.
TypeInv ==
    /\ TypeOK
    /\ i > 0
    /\ stage = "countTokens" /\ wait = "headers" => CtServer # 0
    /\ stage = "servers" /\ wait \in Tried => chain # <<>> /\ Status # 0
    /\ stage = "servers" /\ wait \in {"body", "chunk"} => Status = 200
    /\ wait = "answer" => stage \in {"countTokens", "servers", "dropped"}
    /\ stage \in {"countTokens", "servers"} /\ wait = "answer" => chain # <<>>

\* The initial state is well typed.
LEMMA TypeInit == Init => TypeInv
<1> SUFFICES ASSUME Init PROVE TypeInv
  OBVIOUS
<1>1. chain \in Seq(Attempt) /\ log \in Seq(LogEntry)
  BY DEF Init
<1>2. ct = FALSE /\ attempted = FALSE /\ limited = FALSE
  BY DEF Init
<1>3. {ct, attempted, limited} \subseteq BOOLEAN
  BY <1>2
<1> QED
  BY <1>1, <1>3, WaterfallAssumption
  DEF Init, TypeInv, TypeOK, Stages, Waits, Answers, PermitStates, Tried

\* The status of the last attempt is a status, or 0 if there was no answer.
LEMMA StatusTyped ==
    ASSUME chain \in Seq(Attempt), chain # <<>>
    PROVE  Status \in Statuses \cup {0}
<1>1. Len(chain) \in 1..Len(chain) /\ \A k \in 1..Len(chain) : chain[k] \in Attempt
  OBVIOUS
<1> QED BY <1>1 DEF Status, Attempt

\* One step per action.
LEMMA TypeStep == TypeInv /\ [Next]_vars => TypeInv'
<1> SUFFICES ASSUME TypeInv, [Next]_vars PROVE TypeInv'
  OBVIOUS
<1> USE WaterfallAssumption DEF TypeInv, TypeOK, Stages, Waits, Errors, Answers, PermitStates, Tried, Status, control, charge, flags, circuit
<1>1. CASE Route
  <2>1. CASE Reject
    BY <2>1 DEF Reject, Return
  <2>2. CASE Accept
    BY <2>2 DEF Accept, Enter
  <2>3. CASE AsideSend
    BY <2>3 DEF AsideSend, Aside, Wait
  <2>4. CASE PriorityExhausted
    BY <2>4 DEF PriorityExhausted, Exhausted, Enter
  <2>5. CASE FallbackExhausted
    BY <2>5 DEF FallbackExhausted, Exhausted, Return
  <2>6. CASE CheckSubscription
    BY <2>6 DEF CheckSubscription, Enforce, Enter, FallBack
  <2>7. CASE BonusExhausted
    BY <2>7 DEF BonusExhausted, Exhausted, Enforce, Enter, FallBack
  <2>8. CASE NoCountTokens
    BY <2>8 DEF NoCountTokens, Enter
  <2>9. CASE Estimate
    BY <2>9 DEF Estimate, Return
  <2>10. CASE Forward
    BY <2>10 DEF Forward, Wait
  <2>11. CASE CtSend
    BY <2>11 DEF CtSend, Wait
  <2>12. CASE Skip
    BY <2>12 DEF Skip, Here, Advance
  <2>13. CASE SkipLimited
    BY <2>13 DEF SkipLimited, Here, Advance
  <2>14. ASSUME NEW probe \in BOOLEAN, Send(probe) PROVE TypeInv'
    BY <2>14 DEF Send, Here, Wait
  <2>15. CASE Retry
    BY <2>15 DEF Retry, Here, RetryDue
  <2>16. CASE ReadRefusal
    BY <2>16 DEF ReadRefusal, Here, Wait
  <2>17. CASE FailoverStatus
    BY <2>17 DEF FailoverStatus, Judging, Here, RecordError, Report, Advance
  <2>18. CASE UpstreamError
    <3>1. Status \in Statuses
      BY <2>18, StatusTyped DEF UpstreamError, Judging, Here
    <3>2. Log("upstream_error", Status)
      BY <2>18 DEF UpstreamError
    <3> HIDE DEF Status
    <3>3. log' \in Seq(LogEntry)
      BY <3>1, <3>2, Logged
    <3> USE DEF Status
    <3> QED BY <2>18, <3>3 DEF UpstreamError, Judging, Here, Report, Relay, Return, Wait
  <2>19. ASSUME NEW sse \in BOOLEAN, Ok(sse) PROVE TypeInv'
    BY <2>19 DEF Ok, Judging, Here, Wait
  <2>20. CASE ServersExhausted
    <3>1. CASE attempted
      <4> DEFINE type == IF \A k \in 1..Len(chain) : chain[k].status = 0
                         THEN "connection_error" ELSE "all_servers_exhausted"
      <4>1. Log(type, FinalStatus)
        BY <2>20, <3>1 DEF ServersExhausted
      <4>2. type \in {"connection_error", "all_servers_exhausted"}
        OBVIOUS
      <4> HIDE DEF type
      <4>3. FinalStatus \in Statuses \cup {429} /\ log \in Seq(LogEntry)
        BY FinalStatusTyped
      <4>4. log' \in Seq(LogEntry)
        BY <4>1, <4>2, <4>3, Logged
      <4> QED BY <2>20, <3>1, <4>4 DEF ServersExhausted, FallBack, Enter
    <3>2. CASE ~attempted
      BY <2>20, <3>2 DEF ServersExhausted, FallBack, Enter
    <3> QED BY <3>1, <3>2
  <2>21. QED
    BY <1>1, <2>1, <2>2, <2>3, <2>4, <2>5, <2>6, <2>7, <2>8, <2>9, <2>10, <2>11, <2>12, <2>13, <2>14, <2>15, <2>16, <2>17, <2>18, <2>19, <2>20 DEF Route
<1>2. CASE TimeOut
  <2>1. CASE AsideTimesOut
    BY <2>1 DEF AsideTimesOut, Aside, Advance
  <2>2. CASE SendTimesOut
    BY <2>2, Pushed DEF SendTimesOut, NoAnswer, Here, RecordError, Report, Advance
  <2>3. CASE ArrivesLate
    BY <2>3, Forfeited DEF ArrivesLate, Here, RecordError, Report, Advance
  <2>4. CASE SigBody
    BY <2>4 DEF SigBody, Here, Return
  <2>5. QED
    BY <1>2, <2>1, <2>2, <2>3, <2>4 DEF TimeOut
<1>3. CASE Upstream
  <2>1. CASE AsideBody
    BY <2>1 DEF AsideBody, Aside, AsideAnswer, Return
  <2>2. CASE AsideFails
    BY <2>2 DEF AsideFails, Aside, Advance
  <2>3. CASE Forwarded
    BY <2>3 DEF Forwarded, Return
  <2>4. CASE CtFails
    BY <2>4, Pushed DEF CtFails, Enter
  <2>5. CASE SendFails
    BY <2>5, Pushed DEF SendFails, NoAnswer, Here, RecordError, Report, Advance
  <2>6. CASE RetryFails
    BY <2>6 DEF RetryFails, Here
  <2>7. CASE PassedOn
    BY <2>7 DEF PassedOn, Return
  <2>8. CASE BadSignature
    BY <2>8 DEF BadSignature, Here, Wait
  <2>9. CASE OtherRefusal
    BY <2>9 DEF OtherRefusal, Here, Wait
  <2>10. CASE SigFails
    BY <2>10 DEF SigFails, Here, Wait
  <2>11. CASE SigBody
    BY <2>11 DEF SigBody, Here, Return
  <2>12. CASE Arrives
    BY <2>12, Logged DEF Arrives, Here, Report, Return, LogSuccess
  <2>13. CASE StreamBreaks
    BY <2>13, Forfeited DEF StreamBreaks, Here, RecordError, Report, Advance
  <2>14. ASSUME NEW sse \in BOOLEAN, AsideSucceeds(sse) PROVE TypeInv'
    BY <2>14 DEF AsideSucceeds, Aside, AsideAnswer, Return, Wait
  <2>15. ASSUME NEW sse \in BOOLEAN, SigSucceeds(sse) PROVE TypeInv'
    BY <2>15, Pushed DEF SigSucceeds, Here, Report, Return, Wait
  <2>16. ASSUME NEW status \in Statuses, CtAnswers(status) PROVE TypeInv'
    <3>1. CtServer \in 1..(Servers + 1) /\ Push(CtServer, status)
      BY <2>16 DEF CtAnswers
    <3>2. chain' \in Seq(Attempt) /\ chain' # <<>>
      BY <3>1, Pushed
    <3>3. Log("upstream_error", status) => log' \in Seq(LogEntry)
      BY Logged
    <3> QED BY <2>16, <3>2, <3>3 DEF CtAnswers, Enter, Wait
  <2>17. ASSUME NEW status \in Statuses, Responds(status) PROVE TypeInv'
    BY <2>17, Pushed DEF Responds, Here
  <2>18. ASSUME NEW status \in Statuses, RetryAnswers(status) PROVE TypeInv'
    BY <2>18, Pushed DEF RetryAnswers, Here, Wait
  <2>19. ASSUME NEW status \in Statuses, SigFailover(status) PROVE TypeInv'
    BY <2>19, Pushed DEF SigFailover, Here, Report, Advance
  <2>20. ASSUME NEW status \in Statuses, SigError(status) PROVE TypeInv'
    BY <2>20, Pushed, Logged DEF SigError, Here, Report, Wait
  <2>21. QED
    BY <1>3, <2>1, <2>2, <2>3, <2>4, <2>5, <2>6, <2>7, <2>8, <2>9, <2>10, <2>11, <2>12, <2>13, <2>14, <2>15, <2>16, <2>17, <2>18, <2>19, <2>20 DEF Upstream
<1>4. CASE HangUp
  BY <1>4 DEF HangUp, Ended
<1>5. CASE UNCHANGED vars
  BY <1>5 DEF vars
<1>6. QED
  BY <1>1, <1>2, <1>3, <1>4, <1>5 DEF Next

\* The variables of a request keep their types: TypeOK for every instance.
THEOREM TypeCorrect == Spec => []TypeOK
<1>1. TypeInv => TypeOK
  BY DEF TypeInv
<1>2. QED
  BY <1>1, TypeInit, TypeStep, PTL DEF Spec

-----------------------------------------------------------------------------
(* The log *)

\* The request writes its one entry when it gives up, or when a server answers
\* for good; until then it has no answer.  One that has attempted a server made
\* an attempt before it can give up.
LogInv ==
    /\ FailuresAreLogged
    /\ stage \notin {"fallback", "done", "dropped"} =>
          answer = "none" /\ (wait # "answer" => log = <<>>)
    /\ stage \in {"countTokens", "servers"} /\ wait = "answer" /\ Status # 200
          => log # <<>>
    /\ stage \in {"countTokens", "servers"} /\ wait # "headers" /\ attempted
          => chain # <<>>
    /\ stage = "servers" /\ wait = "sigBody" => Status = 200
    /\ stage \in {"received", "priority", "subscription", "bonus"} => ~attempted
    /\ stage = "servers" /\ wait # "no" => i <= Servers
    /\ stage = "fallback" => answer \in Errors

\* Nothing is logged at the start.
LEMMA LogInit == Init => LogInv
BY DEF Init, LogInv, FailuresAreLogged

\* One step per action.
LEMMA LogStep == TypeInv /\ LogInv /\ [Next]_vars => LogInv'
<1> SUFFICES ASSUME TypeInv, LogInv, [Next]_vars PROVE LogInv'
  OBVIOUS
<1>a. /\ log \in Seq(LogEntry) /\ chain \in Seq(Attempt)
      /\ stage = "servers" /\ wait \in Tried => chain # <<>> /\ Status \in Statuses
      /\ stage = "servers" /\ wait \in {"body", "chunk"} => Status = 200
      /\ stage \in {"countTokens", "servers"} /\ wait = "answer" => chain # <<>>
      /\ stage = "countTokens" /\ wait = "headers" => CtServer \in 1..(Servers + 1)
      /\ wait = "answer" => stage \in {"countTokens", "servers", "dropped"}
      /\ i \in Nat \ {0} /\ attempted \in BOOLEAN
  BY WaterfallAssumption, StatusTyped DEF TypeInv, TypeOK
<1> USE WaterfallAssumption, <1>a DEF LogInv, FailuresAreLogged, Errors, Tried, Status, control, charge, flags, circuit
<1>1. CASE Route
  <2>1. CASE Reject
    BY <2>1 DEF Reject, Return
  <2>2. CASE Accept
    BY <2>2 DEF Accept, Enter
  <2>3. CASE AsideSend
    BY <2>3 DEF AsideSend, Aside, Wait
  <2>4. CASE PriorityExhausted
    BY <2>4 DEF PriorityExhausted, Exhausted, Enter
  <2>5. CASE FallbackExhausted
    BY <2>5 DEF FallbackExhausted, Exhausted, Return
  <2>6. CASE CheckSubscription
    BY <2>6 DEF CheckSubscription, Enforce, Enter, FallBack
  <2>7. CASE BonusExhausted
    BY <2>7 DEF BonusExhausted, Exhausted, Enforce, Enter, FallBack
  <2>8. CASE NoCountTokens
    BY <2>8 DEF NoCountTokens, Enter
  <2>9. CASE Estimate
    BY <2>9 DEF Estimate, Return
  <2>10. CASE Forward
    BY <2>10 DEF Forward, Wait
  <2>11. CASE CtSend
    BY <2>11 DEF CtSend, Wait
  <2>12. CASE Skip
    BY <2>12 DEF Skip, Here, Advance
  <2>13. CASE SkipLimited
    BY <2>13 DEF SkipLimited, Here, Advance
  <2>14. ASSUME NEW probe \in BOOLEAN, Send(probe) PROVE LogInv'
    BY <2>14 DEF Send, Here, Wait
  <2>15. CASE Retry
    BY <2>15 DEF Retry, Here
  <2>16. CASE ReadRefusal
    BY <2>16 DEF ReadRefusal, Here, Wait
  <2>17. CASE FailoverStatus
    BY <2>17 DEF FailoverStatus, Judging, Here, RecordError, Report, Advance
  <2>18. CASE UpstreamError
    <3>1. Status \in Statuses /\ log = <<>> /\ chain # <<>>
      BY <2>18 DEF UpstreamError, Judging, Here
    <3>2. Log("upstream_error", Status)
      BY <2>18 DEF UpstreamError
    <3> HIDE DEF Status
    <3>3. log' # <<>> /\ Len(log') = Len(log) + 1
      BY <3>1, <3>2, Logged
    <3> USE DEF Status
    <3> QED BY <2>18, <3>1, <3>3 DEF UpstreamError, Judging, Here, Report, Relay, Return, Wait
  <2>19. ASSUME NEW sse \in BOOLEAN, Ok(sse) PROVE LogInv'
    BY <2>19 DEF Ok, Judging, Here, Wait
  <2>20. CASE ServersExhausted
    <3>1. CASE attempted
      <4> DEFINE type == IF \A k \in 1..Len(chain) : chain[k].status = 0
                         THEN "connection_error" ELSE "all_servers_exhausted"
      <4>1. Log(type, FinalStatus)
        BY <2>20, <3>1 DEF ServersExhausted
      <4>2. type \in {"connection_error", "all_servers_exhausted"}
        OBVIOUS
      <4> HIDE DEF type
      <4>3. FinalStatus \in Statuses \cup {429}
        BY FinalStatusTyped
      <4>4. log' # <<>> /\ Len(log') = Len(log) + 1
        BY <4>1, <4>2, <4>3, Logged
      <4> QED BY <2>20, <3>1, <4>4 DEF ServersExhausted, FallBack, Enter
    <3>2. CASE ~attempted
      BY <2>20, <3>2 DEF ServersExhausted, FallBack, Enter
    <3> QED BY <3>1, <3>2
  <2>21. QED
    BY <1>1, <2>1, <2>2, <2>3, <2>4, <2>5, <2>6, <2>7, <2>8, <2>9, <2>10, <2>11, <2>12, <2>13, <2>14, <2>15, <2>16, <2>17, <2>18, <2>19, <2>20 DEF Route
<1>2. CASE TimeOut
  <2>1. CASE AsideTimesOut
    BY <2>1 DEF AsideTimesOut, Aside, Advance
  <2>2. CASE SendTimesOut
    BY <2>2, Pushed DEF SendTimesOut, NoAnswer, Here, RecordError, Report, Advance
  <2>3. CASE ArrivesLate
    BY <2>3, Forfeited DEF ArrivesLate, Here, RecordError, Report, Advance
  <2>4. CASE SigBody
    BY <2>4 DEF SigBody, Here, Return
  <2>5. QED
    BY <1>2, <2>1, <2>2, <2>3, <2>4 DEF TimeOut
<1>3. CASE Upstream
  <2>1. CASE AsideBody
    BY <2>1 DEF AsideBody, Aside, AsideAnswer, Return
  <2>2. CASE AsideFails
    BY <2>2 DEF AsideFails, Aside, Advance
  <2>3. CASE Forwarded
    BY <2>3 DEF Forwarded, Return
  <2>4. CASE CtFails
    BY <2>4, Pushed DEF CtFails, Enter
  <2>5. CASE SendFails
    BY <2>5, Pushed DEF SendFails, NoAnswer, Here, RecordError, Report, Advance
  <2>6. CASE RetryFails
    BY <2>6 DEF RetryFails, Here
  <2>7. CASE PassedOn
    BY <2>7 DEF PassedOn, Return
  <2>8. CASE BadSignature
    BY <2>8 DEF BadSignature, Here, Wait
  <2>9. CASE OtherRefusal
    BY <2>9 DEF OtherRefusal, Here, Wait
  <2>10. CASE SigFails
    BY <2>10 DEF SigFails, Here, Wait
  <2>11. CASE SigBody
    BY <2>11 DEF SigBody, Here, Return
  <2>12. CASE Arrives
    BY <2>12, Logged DEF Arrives, Here, Report, Return, LogSuccess
  <2>13. CASE StreamBreaks
    BY <2>13, Forfeited DEF StreamBreaks, Here, RecordError, Report, Advance
  <2>14. ASSUME NEW sse \in BOOLEAN, AsideSucceeds(sse) PROVE LogInv'
    BY <2>14 DEF AsideSucceeds, Aside, AsideAnswer, Return, Wait
  <2>15. ASSUME NEW sse \in BOOLEAN, SigSucceeds(sse) PROVE LogInv'
    BY <2>15, Pushed DEF SigSucceeds, Here, Report, Return, Wait
  <2>16. ASSUME NEW status \in Statuses, CtAnswers(status) PROVE LogInv'
    <3>1. Push(CtServer, status) /\ log = <<>>
      BY <2>16 DEF CtAnswers
    <3>2. chain' # <<>> /\ Status' = status
      BY <2>16, <3>1, Pushed DEF CtAnswers
    <3>3. Log("upstream_error", status) => log' # <<>> /\ Len(log') = Len(log) + 1
      BY Logged
    <3>4. CASE status = 200
      BY <2>16, <3>1, <3>2, <3>4 DEF CtAnswers, Enter, Wait
    <3>5. CASE status \in Failover
      BY <2>16, <3>1, <3>2, <3>5 DEF CtAnswers, Enter, Wait
    <3>6. CASE status \notin Failover \cup {200}
      <4>1. Log("upstream_error", status)
        BY <2>16, <3>6 DEF CtAnswers
      <4>2. log' # <<>> /\ Len(log') = 1
        BY <3>1, <3>3, <4>1
      <4> QED BY <2>16, <3>1, <3>2, <3>6, <4>2 DEF CtAnswers, Wait
    <3> QED BY <3>4, <3>5, <3>6
  <2>17. ASSUME NEW status \in Statuses, Responds(status) PROVE LogInv'
    BY <2>17, Pushed DEF Responds, Here
  <2>18. ASSUME NEW status \in Statuses, RetryAnswers(status) PROVE LogInv'
    BY <2>18, Pushed DEF RetryAnswers, Here, Wait
  <2>19. ASSUME NEW status \in Statuses, SigFailover(status) PROVE LogInv'
    BY <2>19, Pushed DEF SigFailover, Here, Report, Advance
  <2>20. ASSUME NEW status \in Statuses, SigError(status) PROVE LogInv'
    <3>1. Push(i, status) /\ Log("upstream_error", status) /\ log = <<>>
      BY <2>20 DEF SigError, Here
    <3>2. chain' # <<>> /\ log' # <<>> /\ Len(log') = Len(log) + 1
      BY <2>20, <3>1, Pushed, Logged DEF SigError, Here
    <3> QED BY <2>20, <3>1, <3>2 DEF SigError, Here, Wait
  <2>21. QED
    BY <1>3, <2>1, <2>2, <2>3, <2>4, <2>5, <2>6, <2>7, <2>8, <2>9, <2>10, <2>11, <2>12, <2>13, <2>14, <2>15, <2>16, <2>17, <2>18, <2>19, <2>20 DEF Upstream
<1>4. CASE HangUp
  BY <1>4 DEF HangUp, Ended
<1>5. CASE UNCHANGED vars
  BY <1>5 DEF vars
<1>6. QED
  BY <1>1, <1>2, <1>3, <1>4, <1>5 DEF Next

\* A failure of the upstreams that the client is told about is logged, once, with
\* the attempts it is about, unless it is the 504 for a signature retry that
\* stalled: FailuresAreLogged for every instance.
THEOREM FailuresLogged == Spec => []FailuresAreLogged
<1>1. LogInv => FailuresAreLogged
  BY DEF LogInv
<1>2. QED
  BY <1>1, TypeInit, TypeStep, LogInit, LogStep, PTL DEF Spec

-----------------------------------------------------------------------------
(* The verdicts *)

\* A probe has succeeded only at the server that has answered with a 200, when
\* that answer is all that is left to wait for; it has failed only at a server
\* that the request has left.
VerdictInv ==
    \A s \in 1..Servers :
        /\ permit[s] = "success" =>
              /\ s = i /\ chain # <<>> /\ Status = 200
              /\ answer \in {"served", "stalled"} \/ wait = "sigBody"
              /\ stage \in {"done", "dropped"} \/ (stage = "servers" /\ wait = "sigBody")
        /\ permit[s] = "error" /\ stage = "servers" => s < i

\* There is no verdict at the start.
LEMMA VerdictInit == Init => VerdictInv
BY DEF Init, VerdictInv

\* One step per action.
LEMMA VerdictStep == PermitInv /\ TypeInv /\ VerdictInv /\ [Next]_vars => VerdictInv'
<1> SUFFICES ASSUME PermitInv, TypeInv, VerdictInv, [Next]_vars PROVE VerdictInv'
  OBVIOUS
<1>a. /\ chain \in Seq(Attempt)
      /\ stage = "servers" /\ wait \in Tried => chain # <<>>
      /\ stage = "servers" /\ wait \in {"body", "chunk"} => Status = 200
  BY DEF TypeInv, TypeOK
<1> USE WaterfallAssumption, <1>a DEF VerdictInv, PermitInv, PermitStates, Ahead, Tried, Status, control, charge, flags, circuit
<1>1. CASE Route
  <2>1. CASE Reject
    BY <2>1 DEF Reject, Return
  <2>2. CASE Accept
    BY <2>2 DEF Accept, Enter
  <2>3. CASE AsideSend
    BY <2>3 DEF AsideSend, Aside, Wait
  <2>4. CASE PriorityExhausted
    BY <2>4 DEF PriorityExhausted, Exhausted, Enter
  <2>5. CASE FallbackExhausted
    BY <2>5 DEF FallbackExhausted, Exhausted, Return
  <2>6. CASE CheckSubscription
    BY <2>6 DEF CheckSubscription, Enforce, Enter, FallBack
  <2>7. CASE BonusExhausted
    BY <2>7 DEF BonusExhausted, Exhausted, Enforce, Enter, FallBack
  <2>8. CASE NoCountTokens
    BY <2>8 DEF NoCountTokens, Enter
  <2>9. CASE Estimate
    BY <2>9 DEF Estimate, Return
  <2>10. CASE Forward
    BY <2>10 DEF Forward, Wait
  <2>11. CASE CtSend
    BY <2>11 DEF CtSend, Wait
  <2>12. CASE Skip
    BY <2>12 DEF Skip, Here, Advance
  <2>13. CASE SkipLimited
    BY <2>13 DEF SkipLimited, Here, Advance
  <2>14. ASSUME NEW probe \in BOOLEAN, Send(probe) PROVE VerdictInv'
    BY <2>14 DEF Send, Here, Wait
  <2>15. CASE Retry
    BY <2>15 DEF Retry, Here
  <2>16. CASE ReadRefusal
    BY <2>16 DEF ReadRefusal, Here, Wait
  <2>17. CASE FailoverStatus
    BY <2>17 DEF FailoverStatus, Judging, Here, RecordError, Report, Advance
  <2>18. CASE UpstreamError
    BY <2>18 DEF UpstreamError, Judging, Here, Report, Relay, Return, Wait, Log
  <2>19. ASSUME NEW sse \in BOOLEAN, Ok(sse) PROVE VerdictInv'
    BY <2>19 DEF Ok, Judging, Here, Wait
  <2>20. CASE ServersExhausted
    BY <2>20 DEF ServersExhausted, FallBack, Enter, Log
  <2>21. QED
    BY <1>1, <2>1, <2>2, <2>3, <2>4, <2>5, <2>6, <2>7, <2>8, <2>9, <2>10, <2>11, <2>12, <2>13, <2>14, <2>15, <2>16, <2>17, <2>18, <2>19, <2>20 DEF Route
<1>2. CASE TimeOut
  <2>1. CASE AsideTimesOut
    BY <2>1 DEF AsideTimesOut, Aside, Advance
  <2>2. CASE SendTimesOut
    BY <2>2, Pushed DEF SendTimesOut, NoAnswer, Here, RecordError, Report, Advance
  <2>3. CASE ArrivesLate
    BY <2>3, Forfeited DEF ArrivesLate, Here, RecordError, Report, Advance
  <2>4. CASE SigBody
    BY <2>4 DEF SigBody, Here, Return
  <2>5. QED
    BY <1>2, <2>1, <2>2, <2>3, <2>4 DEF TimeOut
<1>3. CASE Upstream
  <2>1. CASE AsideBody
    BY <2>1 DEF AsideBody, Aside, AsideAnswer, Return
  <2>2. CASE AsideFails
    BY <2>2 DEF AsideFails, Aside, Advance
  <2>3. CASE Forwarded
    BY <2>3 DEF Forwarded, Return
  <2>4. CASE CtFails
    BY <2>4, Pushed DEF CtFails, Enter
  <2>5. CASE SendFails
    BY <2>5, Pushed DEF SendFails, NoAnswer, Here, RecordError, Report, Advance
  <2>6. CASE RetryFails
    BY <2>6 DEF RetryFails, Here
  <2>7. CASE PassedOn
    BY <2>7 DEF PassedOn, Return
  <2>8. CASE BadSignature
    BY <2>8 DEF BadSignature, Here, Wait
  <2>9. CASE OtherRefusal
    BY <2>9 DEF OtherRefusal, Here, Wait
  <2>10. CASE SigFails
    BY <2>10 DEF SigFails, Here, Wait
  <2>11. CASE SigBody
    BY <2>11 DEF SigBody, Here, Return
  <2>12. CASE Arrives
    BY <2>12 DEF Arrives, Here, Report, Return
  <2>13. CASE StreamBreaks
    BY <2>13, Forfeited DEF StreamBreaks, Here, RecordError, Report, Advance
  <2>14. ASSUME NEW sse \in BOOLEAN, AsideSucceeds(sse) PROVE VerdictInv'
    BY <2>14 DEF AsideSucceeds, Aside, AsideAnswer, Return, Wait
  <2>15. ASSUME NEW sse \in BOOLEAN, SigSucceeds(sse) PROVE VerdictInv'
    BY <2>15, Pushed DEF SigSucceeds, Here, Report, Return, Wait
  <2>16. ASSUME NEW status \in Statuses, CtAnswers(status) PROVE VerdictInv'
    BY <2>16, Pushed DEF CtAnswers, Enter, Wait
  <2>17. ASSUME NEW status \in Statuses, Responds(status) PROVE VerdictInv'
    BY <2>17, Pushed DEF Responds, Here
  <2>18. ASSUME NEW status \in Statuses, RetryAnswers(status) PROVE VerdictInv'
    BY <2>18, Pushed DEF RetryAnswers, Here, Wait
  <2>19. ASSUME NEW status \in Statuses, SigFailover(status) PROVE VerdictInv'
    BY <2>19, Pushed DEF SigFailover, Here, Report, Advance
  <2>20. ASSUME NEW status \in Statuses, SigError(status) PROVE VerdictInv'
    BY <2>20, Pushed DEF SigError, Here, Report, Wait
  <2>21. QED
    BY <1>3, <2>1, <2>2, <2>3, <2>4, <2>5, <2>6, <2>7, <2>8, <2>9, <2>10, <2>11, <2>12, <2>13, <2>14, <2>15, <2>16, <2>17, <2>18, <2>19, <2>20 DEF Upstream
<1>4. CASE HangUp
  BY <1>4 DEF HangUp, Ended
<1>5. CASE UNCHANGED vars
  BY <1>5 DEF vars
<1>6. QED
  BY <1>1, <1>2, <1>3, <1>4, <1>5 DEF Next

\* A probe succeeds only by the 200 that the client was served, or at the headers
\* of a signature retry, and fails only when the request goes on: VerdictFits for
\* every instance.
THEOREM VerdictsFit == Spec => []VerdictFits
<1>1. VerdictInv => VerdictFits
  BY DEF VerdictInv, VerdictFits
<1>2. QED
  BY <1>1, PermitInit, PermitStep, TypeInit, TypeStep, VerdictInit, VerdictStep, PTL DEF Spec

-----------------------------------------------------------------------------
(* The order of the servers *)

\* The first attempt may have been made by the count-tokens detour.
Detour(k) == k = 1 /\ ct /\ chain[k].server = CtServer

\* The other attempts are in the order of the servers and at servers before the
\* current one, or at the current one once its headers have come.
TurnInv ==
    /\ stage \in {"received", "priority", "subscription", "bonus"} => chain = <<>>
    /\ stage = "countTokens" /\ wait # "answer" => chain = <<>>
    /\ stage = "countTokens" /\ wait = "headers" => ct
    /\ stage = "servers" =>
          /\ wait # "no" => ~CtDone
          /\ \A k \in 1..Len(chain) :
                \/ Detour(k)
                \/ chain[k].server < i
                \/ chain[k].server = i /\ wait \notin {"no", "headers"}
          /\ \A k, l \in 1..Len(chain) :
                k <= l => Detour(k) \/ chain[k].server <= chain[l].server

\* No attempt has been made at the start.
LEMMA TurnInit == Init => TurnInv
BY DEF Init, TurnInv

\* The attempts are at servers.
LEMMA ServersTyped ==
    ASSUME chain \in Seq(Attempt)
    PROVE  Len(chain) \in Nat /\ \A k \in 1..Len(chain) : chain[k].server \in 1..(Servers + 1)
<1>1. Len(chain) \in Nat /\ \A k \in 1..Len(chain) : chain[k] \in Attempt
  OBVIOUS
<1> QED BY <1>1 DEF Attempt

\* An attempt at the current server is the last in the order.
LEMMA PushedHere ==
    ASSUME TypeInv, TurnInv, Here, wait # "no",
           NEW status \in Statuses \cup {0}, Push(i, status)
    PROVE  /\ \A k \in 1..Len(chain') :
                 (k = 1 /\ ct /\ chain'[k].server = CtServer) \/ chain'[k].server <= i
           /\ \A k, l \in 1..Len(chain') : k <= l =>
                 \/ k = 1 /\ ct /\ chain'[k].server = CtServer
                 \/ chain'[k].server <= chain'[l].server
           /\ \A k \in 1..Len(chain') : chain'[k].server \in Nat
           /\ Len(chain') \in Nat
<1>1. /\ chain \in Seq(Attempt) /\ i \in 1..(Servers + 1) /\ i \in Nat
      /\ Len(chain) \in Nat
      /\ \A k \in 1..Len(chain) : chain[k].server \in 1..(Servers + 1)
  BY WaterfallAssumption, ServersTyped DEF TypeInv, TypeOK, Here
<1>2. /\ Len(chain') = Len(chain) + 1
      /\ chain'[Len(chain')].server = i
      /\ \A k \in 1..Len(chain) : chain'[k] = chain[k]
  BY <1>1, Pushed
<1>3. /\ \A k \in 1..Len(chain) : Detour(k) \/ chain[k].server <= i
      /\ \A k, l \in 1..Len(chain) :
            k <= l => Detour(k) \/ chain[k].server <= chain[l].server
  BY <1>1 DEF TurnInv, Here
<1>4. \A k \in 1..Len(chain') : k \in 1..Len(chain) \/ k = Len(chain')
  BY <1>1, <1>2
<1>5. \A k \in 1..Len(chain') : chain'[k].server \in Nat
  BY <1>1, <1>2, <1>4
<1>6. \A k \in 1..Len(chain') :
         (k = 1 /\ ct /\ chain'[k].server = CtServer) \/ chain'[k].server <= i
  BY <1>1, <1>2, <1>3, <1>4 DEF Detour
<1>7. ASSUME NEW k \in 1..Len(chain'), NEW l \in 1..Len(chain'), k <= l
      PROVE  \/ k = 1 /\ ct /\ chain'[k].server = CtServer
             \/ chain'[k].server <= chain'[l].server
  <2>1. CASE l = Len(chain')
    BY <1>2, <1>6, <2>1
  <2>2. CASE l \in 1..Len(chain)
    <3>1. k \in 1..Len(chain)
      BY <1>1, <1>2, <1>7, <2>2
    <3> QED BY <1>2, <1>3, <1>7, <2>2, <3>1 DEF Detour
  <2> QED BY <1>4, <2>1, <2>2
<1> QED BY <1>1, <1>2, <1>5, <1>6, <1>7

\* One step per action.
LEMMA TurnStep == TypeInv /\ TurnInv /\ [Next]_vars => TurnInv'
<1> SUFFICES ASSUME TypeInv, TurnInv, [Next]_vars PROVE TurnInv'
  OBVIOUS
<1>a. /\ chain \in Seq(Attempt) /\ Len(chain) \in Nat
      /\ \A k \in 1..Len(chain) : chain[k].server \in 1..(Servers + 1)
      /\ stage = "servers" /\ wait \in Tried => chain # <<>>
      /\ stage = "countTokens" /\ wait = "headers" => CtServer \in 1..(Servers + 1)
      /\ wait = "answer" => stage \in {"countTokens", "servers", "dropped"}
      /\ i \in Nat \ {0} /\ ct \in BOOLEAN
  BY WaterfallAssumption, ServersTyped DEF TypeInv, TypeOK
<1> USE WaterfallAssumption, <1>a DEF TurnInv, Detour, CtDone, Tried, control, charge, flags, circuit
<1>1. CASE Route
  <2>1. CASE Reject
    BY <2>1 DEF Reject, Return
  <2>2. CASE Accept
    BY <2>2 DEF Accept, Enter
  <2>3. CASE AsideSend
    BY <2>3 DEF AsideSend, Aside, Wait
  <2>4. CASE PriorityExhausted
    BY <2>4 DEF PriorityExhausted, Exhausted, Enter
  <2>5. CASE FallbackExhausted
    BY <2>5 DEF FallbackExhausted, Exhausted, Return
  <2>6. CASE CheckSubscription
    BY <2>6 DEF CheckSubscription, Enforce, Enter, FallBack
  <2>7. CASE BonusExhausted
    BY <2>7 DEF BonusExhausted, Exhausted, Enforce, Enter, FallBack
  <2>8. CASE NoCountTokens
    BY <2>8 DEF NoCountTokens, Enter
  <2>9. CASE Estimate
    BY <2>9 DEF Estimate, Return
  <2>10. CASE Forward
    BY <2>10 DEF Forward, Wait
  <2>11. CASE CtSend
    BY <2>11 DEF CtSend, Wait
  <2>12. CASE Skip
    BY <2>12 DEF Skip, Here, Advance
  <2>13. CASE SkipLimited
    BY <2>13 DEF SkipLimited, Here, Advance
  <2>14. ASSUME NEW probe \in BOOLEAN, Send(probe) PROVE TurnInv'
    BY <2>14 DEF Send, Here, Wait
  <2>15. CASE Retry
    BY <2>15 DEF Retry, Here
  <2>16. CASE ReadRefusal
    BY <2>16 DEF ReadRefusal, Here, Wait
  <2>17. CASE FailoverStatus
    BY <2>17 DEF FailoverStatus, Judging, Here, RecordError, Report, Advance
  <2>18. CASE UpstreamError
    BY <2>18 DEF UpstreamError, Judging, Here, Report, Relay, Return, Wait, Log
  <2>19. ASSUME NEW sse \in BOOLEAN, Ok(sse) PROVE TurnInv'
    BY <2>19 DEF Ok, Judging, Here, Wait
  <2>20. CASE ServersExhausted
    BY <2>20 DEF ServersExhausted, FallBack, Enter, Log
  <2>21. QED
    BY <1>1, <2>1, <2>2, <2>3, <2>4, <2>5, <2>6, <2>7, <2>8, <2>9, <2>10, <2>11, <2>12, <2>13, <2>14, <2>15, <2>16, <2>17, <2>18, <2>19, <2>20 DEF Route
<1>2. CASE TimeOut
  <2>1. CASE AsideTimesOut
    BY <2>1 DEF AsideTimesOut, Aside, Advance
  <2>2. CASE SendTimesOut
    BY <2>2, PushedHere DEF SendTimesOut, NoAnswer, Here, RecordError, Report, Advance
  <2>3. CASE ArrivesLate
    <3>1. /\ Len(chain') = Len(chain)
          /\ \A k \in 1..Len(chain) : chain'[k].server = chain[k].server
          /\ Forfeit
      BY <2>3, Forfeited DEF ArrivesLate, Here
    <3> QED BY <2>3, <3>1 DEF ArrivesLate, Here, RecordError, Report, Advance
  <2>4. CASE SigBody
    BY <2>4 DEF SigBody, Here, Return
  <2>5. QED
    BY <1>2, <2>1, <2>2, <2>3, <2>4 DEF TimeOut
<1>3. CASE Upstream
  <2>1. CASE AsideBody
    BY <2>1 DEF AsideBody, Aside, AsideAnswer, Return
  <2>2. CASE AsideFails
    BY <2>2 DEF AsideFails, Aside, Advance
  <2>3. CASE Forwarded
    BY <2>3 DEF Forwarded, Return
  <2>4. CASE CtFails
    <3>1. chain = <<>> /\ Push(CtServer, 0) /\ ct /\ CtServer \in 1..(Servers + 1)
      BY <2>4 DEF CtFails
    <3>2. Len(chain') = 1 /\ chain'[1].server = CtServer
      BY <3>1, Pushed
    <3> QED BY <2>4, <3>1, <3>2 DEF CtFails, Enter
  <2>5. CASE SendFails
    BY <2>5, PushedHere DEF SendFails, NoAnswer, Here, RecordError, Report, Advance
  <2>6. CASE RetryFails
    BY <2>6 DEF RetryFails, Here
  <2>7. CASE PassedOn
    BY <2>7 DEF PassedOn, Return
  <2>8. CASE BadSignature
    BY <2>8 DEF BadSignature, Here, Wait
  <2>9. CASE OtherRefusal
    BY <2>9 DEF OtherRefusal, Here, Wait
  <2>10. CASE SigFails
    BY <2>10 DEF SigFails, Here, Wait
  <2>11. CASE SigBody
    BY <2>11 DEF SigBody, Here, Return
  <2>12. CASE Arrives
    BY <2>12 DEF Arrives, Here, Report, Return
  <2>13. CASE StreamBreaks
    BY <2>13, Forfeited, SMTT(30) DEF StreamBreaks, Here, RecordError, Report, Advance
  <2>14. ASSUME NEW sse \in BOOLEAN, AsideSucceeds(sse) PROVE TurnInv'
    BY <2>14 DEF AsideSucceeds, Aside, AsideAnswer, Return, Wait
  <2>15. ASSUME NEW sse \in BOOLEAN, SigSucceeds(sse) PROVE TurnInv'
    BY <2>15, PushedHere DEF SigSucceeds, Here, Report, Return, Wait
  <2>16. ASSUME NEW status \in Statuses, CtAnswers(status) PROVE TurnInv'
    <3>1. chain = <<>> /\ Push(CtServer, status) /\ ct /\ CtServer \in 1..(Servers + 1)
      BY <2>16 DEF CtAnswers
    <3>2. Len(chain') = 1 /\ chain'[1].server = CtServer
      BY <3>1, Pushed
    <3> QED BY <2>16, <3>1, <3>2 DEF CtAnswers, Enter, Wait
  <2>17. ASSUME NEW status \in Statuses, Responds(status) PROVE TurnInv'
    BY <2>17, PushedHere DEF Responds, Here
  <2>18. ASSUME NEW status \in Statuses, RetryAnswers(status) PROVE TurnInv'
    BY <2>18, PushedHere DEF RetryAnswers, Here, Wait
  <2>19. ASSUME NEW status \in Statuses, SigFailover(status) PROVE TurnInv'
    <3>1. Push(i, status) /\ Here /\ wait # "no" /\ status \in Statuses \cup {0}
      BY <2>19 DEF SigFailover
    <3>2. /\ \A k \in 1..Len(chain') :
                (k = 1 /\ ct /\ chain'[k].server = CtServer) \/ chain'[k].server <= i
          /\ \A k, l \in 1..Len(chain') : k <= l =>
                \/ k = 1 /\ ct /\ chain'[k].server = CtServer
                \/ chain'[k].server <= chain'[l].server
          /\ \A k \in 1..Len(chain') : chain'[k].server \in Nat
      BY <3>1, PushedHere
    <3> QED BY <2>19, <3>1, <3>2 DEF SigFailover, Here, Advance
  <2>20. ASSUME NEW status \in Statuses, SigError(status) PROVE TurnInv'
    <3>1. Push(i, status) /\ Here /\ wait # "no" /\ status \in Statuses \cup {0}
      BY <2>20 DEF SigError
    <3>2. /\ \A k \in 1..Len(chain') :
                (k = 1 /\ ct /\ chain'[k].server = CtServer) \/ chain'[k].server <= i
          /\ \A k, l \in 1..Len(chain') : k <= l =>
                \/ k = 1 /\ ct /\ chain'[k].server = CtServer
                \/ chain'[k].server <= chain'[l].server
          /\ \A k \in 1..Len(chain') : chain'[k].server \in Nat
      BY <3>1, PushedHere
    <3> QED BY <2>20, <3>1, <3>2 DEF SigError, Here, Wait
  <2>21. QED
    BY <1>3, <2>1, <2>2, <2>3, <2>4, <2>5, <2>6, <2>7, <2>8, <2>9, <2>10, <2>11, <2>12, <2>13, <2>14, <2>15, <2>16, <2>17, <2>18, <2>19, <2>20 DEF Upstream
<1>4. CASE HangUp
  BY <1>4 DEF HangUp, Ended
<1>5. CASE UNCHANGED vars
  BY <1>5 DEF vars
<1>6. QED
  BY <1>1, <1>2, <1>3, <1>4, <1>5 DEF Next

\* The next attempt is at no server that the request has left.
TurnTaken ==
    Len(chain') > Len(chain) =>
        \A k, l \in 1..Len(chain) :
           k <= l /\ chain[k].server = chain'[Len(chain')].server
              => chain[l].server = chain[k].server

\* An attempt is made at the current server, or it is the first one.
LEMMA TurnsTaken == TypeInv /\ TurnInv /\ [Next]_vars => TurnTaken
<1> SUFFICES ASSUME TypeInv, TurnInv, [Next]_vars PROVE TurnTaken
  OBVIOUS
<1>a. /\ chain \in Seq(Attempt) /\ Len(chain) \in Nat
      /\ \A k \in 1..Len(chain) : chain[k].server \in 1..(Servers + 1)
      /\ i \in Nat \ {0}
      /\ stage = "servers" /\ wait \in Tried => chain # <<>>
  BY ServersTyped DEF TypeInv, TypeOK
<1>b. chain' = chain \/ chain = <<>> => TurnTaken
  BY <1>a DEF TurnTaken
<1>c. ASSUME NEW status \in Statuses \cup {0}, Here, wait # "no", Push(i, status)
      PROVE  TurnTaken
  <2>1. i \in 1..(Servers + 1)
    BY <1>a, <1>c, WaterfallAssumption DEF Here
  <2>2. chain'[Len(chain')].server = i
    BY <1>a, <1>c, <2>1, Pushed
  <2>3. ASSUME NEW k \in 1..Len(chain), NEW l \in 1..Len(chain),
               k <= l, chain[k].server = i
        PROVE  chain[l].server = chain[k].server
    <3>1. ~Detour(k)
      BY <1>c, <2>3 DEF TurnInv, Detour, CtDone, Here
    <3>2. i <= chain[l].server /\ ~Detour(l)
      BY <1>a, <1>c, <2>3, <3>1 DEF TurnInv, Detour, Here
    <3>3. chain[l].server <= i
      BY <1>a, <1>c, <3>2 DEF TurnInv, Here
    <3> QED BY <1>a, <2>3, <3>2, <3>3
  <2> QED BY <2>2, <2>3 DEF TurnTaken
<1>d. ASSUME Here, wait \in Tried, Forfeit PROVE TurnTaken
  BY <1>a, <1>d, Forfeited DEF TurnTaken, Here
<1> USE DEF control, charge, flags, circuit
<1>1. CASE Route
  <2>1. chain' = chain
    BY <1>1 DEF Route, Reject, Accept, AsideSend, PriorityExhausted, FallbackExhausted,
       CheckSubscription, BonusExhausted, NoCountTokens, Estimate, Forward, CtSend, Skip,
       SkipLimited, Send, Retry, ReadRefusal, FailoverStatus, UpstreamError, Ok, ServersExhausted
  <2> QED BY <1>b, <2>1
<1>2. CASE TimeOut
  <2>1. CASE SendTimesOut
    BY <1>c, <2>1 DEF SendTimesOut, NoAnswer, Here
  <2>2. CASE ArrivesLate
    BY <1>d, <2>2 DEF ArrivesLate, Here, Tried
  <2>3. CASE AsideTimesOut \/ SigBody
    BY <1>b, <2>3 DEF AsideTimesOut, SigBody
  <2> QED BY <1>2, <2>1, <2>2, <2>3 DEF TimeOut
<1>3. CASE Upstream
  <2>1. CASE SendFails
    BY <1>c, <2>1 DEF SendFails, NoAnswer, Here
  <2>2. CASE StreamBreaks
    BY <1>b, <1>d, <2>2 DEF StreamBreaks, Here, Tried
  <2>3. CASE CtFails \/ \E status \in Statuses : CtAnswers(status)
    BY <1>b, <2>3 DEF CtFails, CtAnswers, TurnInv
  <2>4. CASE \E status \in Statuses :
               Responds(status) \/ RetryAnswers(status) \/ SigFailover(status) \/ SigError(status)
    BY <1>c, <2>4 DEF Responds, RetryAnswers, SigFailover, SigError, Here
  <2>5. CASE \E sse \in BOOLEAN : SigSucceeds(sse)
    BY <1>c, <2>5, WaterfallAssumption DEF SigSucceeds, Here
  <2>6. CASE \/ AsideBody \/ AsideFails \/ Forwarded \/ RetryFails \/ PassedOn
             \/ BadSignature \/ OtherRefusal \/ SigFails \/ SigBody \/ Arrives
             \/ \E sse \in BOOLEAN : AsideSucceeds(sse)
    BY <1>b, <2>6 DEF AsideBody, AsideFails, Forwarded, RetryFails, PassedOn, BadSignature,
       OtherRefusal, SigFails, SigBody, Arrives, AsideSucceeds
  <2> QED BY <1>3, <2>1, <2>2, <2>3, <2>4, <2>5, <2>6 DEF Upstream
<1>4. CASE HangUp
  BY <1>b, <1>4 DEF HangUp
<1>5. CASE UNCHANGED vars
  BY <1>b, <1>5 DEF vars
<1> QED BY <1>1, <1>2, <1>3, <1>4, <1>5 DEF Next

\* Once the request has moved on from a server it makes no attempt there any
\* more: NoSecondTurn for every instance.
THEOREM TurnsEnd == Spec => NoSecondTurn
<1>1. TypeInv /\ TurnInv /\ [Next]_vars => [TurnTaken]_vars
  BY TurnsTaken
<1>2. Spec => [][TurnTaken]_vars
  BY <1>1, TypeInit, TypeStep, TurnInit, TurnStep, PTL DEF Spec
<1>3. QED
  BY <1>2 DEF NoSecondTurn, TurnTaken

=============================================================================
