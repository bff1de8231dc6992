----------------------------- MODULE Waterfall -----------------------------
(***************************************************************************)
(* One request on its way through the proxy, proxy_handler_inner of        *)
(* viber-router-api/src/routes/proxy.rs: the user's priority endpoints,    *)
(* the subscription check, the bonus servers, the count-tokens detour, the *)
(* servers of the group in order, and the user's fallback endpoints.       *)
(*                                                                         *)
(* An upstream, the circuits, the limits and the clock answer in every way *)
(* they can; the other requests are in those answers.  A wait that the     *)
(* router does not put a timer on ends only if the upstream lets it.       *)
(***************************************************************************)
EXTENDS Naturals, Sequences, FiniteSets

CONSTANTS
    Servers,    \* the servers of the group are 1..Servers, in priority order
    Keyed,      \* the servers the request has a key for
    Breaker,    \* the servers with a circuit breaker
    CtServer,   \* the count-tokens server: 0 if none, Servers + 1 if no member
    Endpoints,  \* the user endpoints of the sub-key, in each of the two modes
    MaxBonus,   \* most bonus subscriptions of the sub-key
    Statuses,   \* the statuses upstreams answer with
    Failover,   \* failover_status_codes of the group
    RetryCodes, \* retry_status_codes of the servers
    Retries,    \* retry_count of the servers
    Ttft,       \* ttft_timeout_ms of the group is set
    TimeLimit,  \* a non-streaming timeout is set, for the server or globally
    Unasked,    \* upstreams may stream what was not asked to be streamed
    HangUps,    \* the client may hang up
    Requests    \* the requests looked at

Shapes == [path : {"messages", "countTokens", "other"}, stream : BOOLEAN,
           subKey : BOOLEAN, thinking : BOOLEAN]

ASSUME WaterfallAssumption ==
    /\ Servers \in Nat /\ Endpoints \in Nat /\ MaxBonus \in Nat /\ Retries \in Nat
    /\ Keyed \subseteq 1..Servers /\ Breaker \subseteq 1..Servers
    /\ CtServer \in 0..(Servers + 1)
    /\ Statuses \subseteq Nat \ {0} /\ 200 \in Statuses
    /\ Failover \subseteq Statuses \ {200} /\ RetryCodes \subseteq Statuses
    /\ {Ttft, TimeLimit, Unasked, HangUps} \subseteq BOOLEAN
    /\ Requests \subseteq Shapes

VARIABLES
    req,       \* what the request asks for
    stage,     \* the waterfall the request is in
    wait,      \* what it waits for there
    i,         \* the entry of the waterfall it is at
    left,      \* retries left at the current server
    bonus,     \* bonus_servers_to_try, counted
    sub,       \* selected_subscription_id: none, selected but pending, enforced
    counted,   \* times a subscription counted it (increment_rpm, given an RPM limit)
    ct,        \* ct_default_attempted
    attempted, \* any_server_attempted
    limited,   \* any_rate_limited
    chain,     \* failover_chain
    permit,    \* cb_probe of each server, and the verdict reported for it
    errors,    \* the servers record_error was called for
    log,       \* the entries of proxy_logs
    answer     \* what the client gets; in "fallback", unless an endpoint answers

control == <<stage, wait, i, left>>
charge  == <<bonus, sub, counted>>
flags   == <<ct, attempted, limited>>
circuit == <<permit, errors>>
vars    == <<req, control, charge, flags, chain, circuit, log, answer>>

-----------------------------------------------------------------------------

Stages == {"received", "priority", "subscription", "bonus", "countTokens",
           "servers", "fallback", "done", "dropped"}

Waits == {"no", "headers", "body", "chunk", "judge", "retry", "refusal",
          "sigRetry", "refused", "sigBody", "answer", "forward"}

Errors == {"rateLimited", "noKeys", "subscription", "overloaded"}

Answers == {"none", "rejected", "endpoint", "bonus", "estimate", "forwarded",
            "served", "upstreamError", "stalled"} \cup Errors

PermitStates == {"none", "held", "success", "release", "error"}

Attempt == [server : 1..(Servers + 1), status : Statuses \cup {0}]

LogEntry == [type : {"failover_success", "upstream_error", "connection_error",
                     "all_servers_exhausted"},
             status : Statuses \cup {429}]

TypeOK ==
    /\ req \in Requests
    /\ stage \in Stages /\ wait \in Waits
    /\ i \in Nat /\ left \in 0..Retries
    /\ bonus \in 0..MaxBonus
    /\ sub \in {"none", "pending", "enforced"}
    /\ counted \in Nat
    /\ {ct, attempted, limited} \subseteq BOOLEAN
    /\ chain \in Seq(Attempt)
    /\ permit \in [1..Servers -> PermitStates]
    /\ errors \subseteq Breaker
    /\ log \in Seq(LogEntry)
    /\ answer \in Answers

Init ==
    /\ req \in Requests
    /\ stage = "received" /\ wait = "no" /\ i = 1 /\ left = 0
    /\ bonus = 0 /\ sub = "none" /\ counted = 0
    /\ ct = FALSE /\ attempted = FALSE /\ limited = FALSE
    /\ chain = <<>> /\ log = <<>>
    /\ permit = [s \in 1..Servers |-> "none"]
    /\ errors = {}
    /\ answer = "none"

-----------------------------------------------------------------------------
(* Helpers *)

\* is_billing_endpoint
Billing == req.path = "messages"

Status == chain[Len(chain)].status

\* What is_sse finds in the headers.
MayBeSse(sse) == sse => req.stream \/ Unasked

Wait(what) == wait' = what /\ UNCHANGED <<stage, i, left>>

\* Go to the first entry of another waterfall.
Enter(next) == stage' = next /\ wait' = "no" /\ i' = 1 /\ left' = 0

\* The next entry of the same waterfall.
Advance == i' = i + 1 /\ wait' = "no" /\ left' = 0 /\ UNCHANGED stage

\* The client gets its answer.
Return(what) ==
    /\ stage' = "done" /\ wait' = "no" /\ UNCHANGED <<i, left>>
    /\ answer' = what

\* fallback_or_error: the fallback endpoints first, then this error.
FallBack(error) == Enter("fallback") /\ answer' = error

Push(server, status) ==
    chain' = Append(chain, [server |-> server, status |-> status])

\* The last attempt timed out or broke off: it counts as a connection error.
Forfeit == chain' = [chain EXCEPT ![Len(chain)].status = 0]

Log(type, status) == log' = Append(log, [type |-> type, status |-> status])

\* What is reported to the circuit of the current server if it is probed.
Report(verdict) ==
    permit' = [permit EXCEPT ![i] = IF @ = "held" THEN verdict ELSE @]

RecordErrorAlways ==
    /\ Report("error")
    /\ errors' = errors \cup {i}

RecordError ==
    /\ Report("error")
    /\ errors' = errors \cup ({i} \cap Breaker)

\* A 200 that took more than one attempt is logged.
LogSuccess ==
    IF Len(chain) > 1 THEN Log("failover_success", Status) ELSE UNCHANGED log

\* build_response passes the last answer on; its body has no timer.
PassedOn ==
    /\ stage \in {"countTokens", "servers"} /\ wait = "answer"
    /\ Return(IF Status = 200 THEN "served" ELSE "upstreamError")
    /\ UNCHANGED <<req, charge, flags, chain, circuit, log>>

TimerForBodies ==
    \/ wait \in {"body", "sigBody"} /\ TimeLimit
    \/ wait = "chunk" /\ Ttft /\ i < Servers

\* Whether the router put a timer on the current wait.
Timer ==
    \/ /\ wait = "headers"
       /\ \/ stage \in {"priority", "fallback"}
          \/ stage \in {"bonus", "servers"} /\ ~req.stream /\ TimeLimit
    \/ wait \in {"body", "sigBody"} /\ TimeLimit
    \/ wait = "chunk" /\ Ttft /\ i < Servers

-----------------------------------------------------------------------------
(* Before any upstream *)

\* A blocked path, an unknown or disabled key, a blocked user agent, a body
\* that is too large or cannot be translated, a model that is not allowed.
Reject ==
    /\ stage = "received"
    /\ Return("rejected")
    /\ UNCHANGED <<req, charge, flags, chain, circuit, log>>

Accept ==
    /\ stage = "received"
    /\ Enter("priority")
    /\ UNCHANGED <<req, charge, flags, chain, circuit, log, answer>>

-----------------------------------------------------------------------------
(* The user endpoints and the bonus servers: pass on the first 2xx *)

Aside == stage \in {"priority", "bonus", "fallback"}

Count == IF stage = "bonus" THEN bonus
         ELSE IF req.subKey THEN Endpoints ELSE 0

AsideAnswer == IF stage = "bonus" THEN "bonus" ELSE "endpoint"

AsideSend ==
    /\ Aside /\ wait = "no" /\ i <= Count
    /\ Wait("headers")
    /\ UNCHANGED <<req, charge, flags, chain, circuit, log, answer>>

\* 2xx: a stream is passed on at once, any other body is read first.
AsideSucceeds(sse) ==
    /\ Aside /\ wait = "headers" /\ MayBeSse(sse)
    /\ IF sse THEN Return(AsideAnswer) ELSE Wait("body") /\ UNCHANGED answer
    /\ UNCHANGED <<req, charge, flags, chain, circuit, log>>

AsideBody ==
    /\ Aside /\ wait = "body"
    /\ Return(AsideAnswer)
    /\ UNCHANGED <<req, charge, flags, chain, circuit, log>>

\* Another status or a connection error.
AsideFails ==
    /\ Aside /\ wait = "headers"
    /\ Advance
    /\ UNCHANGED <<req, charge, flags, chain, circuit, log, answer>>

AsideTimesOut ==
    /\ Aside /\ Timer
    /\ Advance
    /\ UNCHANGED <<req, charge, flags, chain, circuit, log, answer>>

Exhausted == wait = "no" /\ i > Count

PriorityExhausted ==
    /\ stage = "priority" /\ Exhausted
    /\ Enter("subscription")
    /\ UNCHANGED <<req, charge, flags, chain, circuit, log, answer>>

\* No fallback endpoint answered: the client gets the error.
FallbackExhausted ==
    /\ stage = "fallback" /\ Exhausted
    /\ Return(answer)
    /\ UNCHANGED <<req, charge, flags, chain, circuit, log>>

-----------------------------------------------------------------------------
(* The subscription of the sub-key *)

\* wait_for_tpm succeeds, and increment_rpm counts the request.
Enforce == sub' = "enforced" /\ counted' = counted + 1

\* check_subscriptions, for billing endpoints only.
CheckSubscription ==
    /\ stage = "subscription"
    /\ \/ /\ ~(Billing /\ req.subKey)
          /\ Enter("countTokens")
          /\ UNCHANGED <<charge, answer>>
       \/ /\ Billing /\ req.subKey
          /\ \/ \* Allowed
                /\ Enforce
                /\ Enter("countTokens")
                /\ UNCHANGED <<bonus, answer>>
             \/ \* Blocked, or allowed and out of tokens
                /\ FallBack("subscription")
                /\ UNCHANGED charge
             \/ \* BonusServers, with or without a fallback_subscription
                /\ bonus' \in 1..MaxBonus
                /\ sub' \in {"none", "pending"}
                /\ Enter("bonus")
                /\ UNCHANGED <<counted, answer>>
    /\ UNCHANGED <<req, flags, chain, circuit, log>>

BonusExhaustedUnenforced ==
    /\ stage = "bonus" /\ Exhausted
    /\ Enter("countTokens")
    /\ UNCHANGED <<req, charge, flags, chain, circuit, log, answer>>

\* The bonus servers failed: enforce the pending fallback subscription.
BonusExhausted ==
    /\ stage = "bonus" /\ Exhausted
    /\ \/ sub = "pending" /\ Enforce /\ Enter("countTokens") /\ UNCHANGED answer
       \/ sub = "pending" /\ FallBack("subscription") /\ UNCHANGED <<sub, counted>>
       \/ sub = "none" /\ Enter("countTokens") /\ UNCHANGED <<sub, counted, answer>>
    /\ UNCHANGED <<req, bonus, flags, chain, circuit, log>>

-----------------------------------------------------------------------------
(* The count-tokens detour *)

\* Another path, no global setting, and no server of the group for it.
NoCountTokens ==
    /\ stage = "countTokens" /\ wait = "no"
    /\ Enter("servers")
    /\ UNCHANGED <<req, charge, flags, chain, circuit, log, answer>>

\* ct_always_estimate
Estimate ==
    /\ stage = "countTokens" /\ wait = "no" /\ req.path = "countTokens"
    /\ Return("estimate")
    /\ UNCHANGED <<req, charge, flags, chain, circuit, log>>

\* The endpoint of the settings; its failure is answered with an estimate.
Forward ==
    /\ stage = "countTokens" /\ wait = "no" /\ req.path = "countTokens"
    /\ Wait("forward")
    /\ UNCHANGED <<req, charge, flags, chain, circuit, log, answer>>

Forwarded ==
    /\ stage = "countTokens" /\ wait = "forward"
    /\ Return("forwarded") \/ Return("estimate")
    /\ UNCHANGED <<req, charge, flags, chain, circuit, log>>

\* The count-tokens server of the group, when there is a key for it.
CtSend ==
    /\ stage = "countTokens" /\ wait = "no" /\ req.path = "countTokens"
    /\ CtServer # 0
    /\ ct' = TRUE /\ attempted' = TRUE /\ UNCHANGED limited
    /\ Wait("headers")
    /\ UNCHANGED <<req, charge, chain, circuit, log, answer>>

CtAnswers(status) ==
    /\ stage = "countTokens" /\ wait = "headers"
    /\ Push(CtServer, status)
    /\ \/ status = 200 /\ Wait("answer") /\ UNCHANGED log
       \/ status \in Failover /\ Enter("servers") /\ UNCHANGED log
       \/ /\ status \notin Failover \cup {200}
          /\ Wait("answer") /\ Log("upstream_error", status)
    /\ UNCHANGED <<req, charge, flags, circuit, answer>>

CtFailsUnrecorded ==
    /\ stage = "countTokens" /\ wait = "headers"
    /\ Enter("servers")
    /\ UNCHANGED <<req, charge, flags, chain, circuit, log, answer>>

CtFails ==
    /\ stage = "countTokens" /\ wait = "headers"
    /\ Push(CtServer, 0)
    /\ Enter("servers")
    /\ UNCHANGED <<req, charge, flags, circuit, log, answer>>

-----------------------------------------------------------------------------
(* A server of the group *)

Here == stage = "servers" /\ i <= Servers

CtDoneForgotten == FALSE
\* The count-tokens server has had its turn.
CtDone == ct /\ i = CtServer

\* No key, or the tokens, the model or the hour do not fit.
Skip ==
    /\ Here /\ wait = "no"
    /\ Advance
    /\ UNCHANGED <<req, charge, flags, chain, circuit, log, answer>>

\* is_rate_limited or is_rate_limited_per_key
SkipLimited ==
    /\ Here /\ wait = "no" /\ i \in Keyed /\ ~CtDone
    /\ limited' = TRUE /\ UNCHANGED <<ct, attempted>>
    /\ Advance
    /\ UNCHANGED <<req, charge, chain, circuit, log, answer>>

\* check_access allows the request, or grants it the probe permit.
Send(probe) ==
    /\ Here /\ wait = "no" /\ i \in Keyed /\ ~CtDone
    /\ probe => i \in Breaker
    /\ permit' = IF probe THEN [permit EXCEPT ![i] = "held"] ELSE permit
    /\ attempted' = TRUE /\ UNCHANGED <<ct, limited>>
    /\ Wait("headers")
    /\ UNCHANGED <<req, charge, chain, errors, log, answer>>

\* A connection error or a non-streaming timeout.
NoAnswer ==
    /\ Push(i, 0)
    /\ RecordError
    /\ Advance
    /\ UNCHANGED <<req, charge, flags, log, answer>>

SendFails == Here /\ wait = "headers" /\ NoAnswer

SendTimesOut == Here /\ wait = "headers" /\ Timer /\ NoAnswer

Responds(status) ==
    /\ Here /\ wait = "headers"
    /\ Push(i, status)
    /\ wait' = "judge" /\ left' = Retries /\ UNCHANGED <<stage, i>>
    /\ UNCHANGED <<req, charge, flags, circuit, log, answer>>

\* The same server is tried again while its status asks for it.
RetryDue == left > 0 /\ Status \in RetryCodes

Retry ==
    /\ Here /\ wait = "judge" /\ RetryDue
    /\ wait' = "retry" /\ left' = left - 1 /\ UNCHANGED <<stage, i>>
    /\ UNCHANGED <<req, charge, flags, chain, circuit, log, answer>>

RetryAnswers(status) ==
    /\ Here /\ wait = "retry"
    /\ Push(i, status)
    /\ Wait("judge")
    /\ UNCHANGED <<req, charge, flags, circuit, log, answer>>

\* The retries end and the last answer stands.
RetryFails ==
    /\ Here /\ wait = "retry"
    /\ wait' = "judge" /\ left' = 0 /\ UNCHANGED <<stage, i>>
    /\ UNCHANGED <<req, charge, flags, chain, circuit, log, answer>>

\* A billed 400 is judged by its body, which has no timer.
ReadRefusal ==
    /\ Here /\ wait = "judge" /\ ~RetryDue /\ Status = 400 /\ Billing
    /\ Wait("refusal")
    /\ UNCHANGED <<req, charge, flags, chain, circuit, log, answer>>

\* It is about the signature of a thinking block: once more without them.
BadSignature ==
    /\ Here /\ wait = "refusal" /\ req.thinking
    /\ Wait("sigRetry")
    /\ UNCHANGED <<req, charge, flags, chain, circuit, log, answer>>

OtherRefusal ==
    /\ Here /\ wait = "refusal"
    /\ Wait("refused")
    /\ UNCHANGED <<req, charge, flags, chain, circuit, log, answer>>

Judging ==
    /\ Here
    /\ \/ wait = "refused"
       \/ wait = "judge" /\ ~RetryDue /\ ~(Status = 400 /\ Billing)

\* The body of a refusal is at hand, that of another error is not.
Relay ==
    IF wait = "refused" THEN Return("upstreamError")
                        ELSE Wait("answer") /\ UNCHANGED answer

FailoverStatus ==
    /\ Judging /\ Status \in Failover
    /\ RecordError
    /\ Advance
    /\ UNCHANGED <<req, charge, flags, chain, log, answer>>

UpstreamErrorLeaks ==
    /\ Judging /\ Status \notin Failover \cup {200}
    /\ Log("upstream_error", Status) /\ Relay
    /\ UNCHANGED <<req, charge, flags, chain, circuit>>

\* Any other error is the client's to see.
UpstreamError ==
    /\ Judging /\ Status \notin Failover \cup {200}
    /\ Log("upstream_error", Status)
    /\ Report("release")
    /\ Relay
    /\ UNCHANGED <<req, charge, flags, chain, errors>>

SigSucceeds(sse) ==
    /\ Here /\ wait = "sigRetry" /\ MayBeSse(sse)
    /\ Push(i, 200)
    /\ Report("success")
    /\ IF sse THEN Return("served") ELSE Wait("sigBody") /\ UNCHANGED answer
    /\ UNCHANGED <<req, charge, flags, errors, log>>

SigFailoverLeaks(status) ==
    /\ Here /\ wait = "sigRetry" /\ status \in Failover
    /\ Push(i, status)
    /\ Advance
    /\ UNCHANGED <<req, charge, flags, circuit, log, answer>>

SigFailover(status) ==
    /\ Here /\ wait = "sigRetry" /\ status \in Failover
    /\ Push(i, status)
    /\ Report("release")
    /\ Advance
    /\ UNCHANGED <<req, charge, flags, errors, log, answer>>

SigError(status) ==
    /\ Here /\ wait = "sigRetry" /\ status \notin Failover \cup {200}
    /\ Push(i, status)
    /\ Log("upstream_error", status)
    /\ Report("release")
    /\ Wait("answer")
    /\ UNCHANGED <<req, charge, flags, errors, answer>>

\* The retry did not reach the server: the 400 stands.
SigFails ==
    /\ Here /\ wait = "sigRetry"
    /\ Wait("refused")
    /\ UNCHANGED <<req, charge, flags, chain, circuit, log, answer>>

\* build_tracked_billing_response
SigBody ==
    /\ Here /\ wait = "sigBody"
    /\ Return("served") \/ (Timer /\ Return("stalled"))
    /\ UNCHANGED <<req, charge, flags, chain, circuit, log>>

-----------------------------------------------------------------------------
(* A 200: the body, or the first chunk of the stream, is still to come *)

OkCountsHeaders(sse) ==
    /\ Judging /\ Status = 200 /\ MayBeSse(sse)
    /\ Wait(IF sse THEN "chunk" ELSE "body")
    /\ Report("success")
    /\ UNCHANGED <<req, charge, flags, chain, errors, log, answer>>

Ok(sse) ==
    /\ Judging /\ Status = 200 /\ MayBeSse(sse)
    /\ Wait(IF sse THEN "chunk" ELSE "body")
    /\ UNCHANGED <<req, charge, flags, chain, circuit, log, answer>>

Arrives ==
    /\ Here /\ wait \in {"body", "chunk"}
    /\ Report("success")
    /\ LogSuccess
    /\ Return("served")
    /\ UNCHANGED <<req, charge, flags, chain, errors>>

\* The body, or the first chunk before the last server, is late.
ArrivesLate ==
    /\ Here /\ wait \in {"body", "chunk"} /\ Timer
    /\ Forfeit
    /\ RecordError
    /\ Advance
    /\ UNCHANGED <<req, charge, flags, log, answer>>

\* An empty or broken stream.  Without a timer the attempt keeps its 200.
StreamBreaks ==
    /\ Here /\ wait = "chunk"
    /\ IF Timer THEN Forfeit ELSE UNCHANGED chain
    /\ RecordError
    /\ Advance
    /\ UNCHANGED <<req, charge, flags, log, answer>>

-----------------------------------------------------------------------------
(* After the last server *)

FinalStatus ==
    LET failed == {k \in 1..Len(chain) : chain[k].status # 0}
    IN  IF failed = {} THEN 429
        ELSE chain[CHOOSE k \in failed : \A l \in failed : l <= k].status

ServersExhausted ==
    /\ stage = "servers" /\ i > Servers
    /\ \/ ~attempted /\ limited /\ FallBack("rateLimited") /\ UNCHANGED log
       \/ ~attempted /\ ~limited /\ FallBack("noKeys") /\ UNCHANGED log
       \/ /\ attempted
          /\ Log(IF \A k \in 1..Len(chain) : chain[k].status = 0
                 THEN "connection_error" ELSE "all_servers_exhausted", FinalStatus)
          /\ FallBack("overloaded")
    /\ UNCHANGED <<req, charge, flags, chain, circuit>>

-----------------------------------------------------------------------------

Ended == stage \in {"done", "dropped"}

\* The client hangs up: the handler is dropped where it waits.
HangUp ==
    /\ HangUps /\ ~Ended
    /\ stage' = "dropped" /\ UNCHANGED <<wait, i, left>>
    /\ UNCHANGED <<req, charge, flags, chain, circuit, log, answer>>

\* What the router does without waiting for anybody.
Route ==
    \/ Reject \/ Accept \/ AsideSend \/ PriorityExhausted \/ FallbackExhausted
    \/ CheckSubscription \/ BonusExhausted
    \/ NoCountTokens \/ Estimate \/ Forward \/ CtSend
    \/ Skip \/ SkipLimited \/ (\E probe \in BOOLEAN : Send(probe))
    \/ Retry \/ ReadRefusal \/ FailoverStatus \/ UpstreamError
    \/ (\E sse \in BOOLEAN : Ok(sse))
    \/ ServersExhausted

\* What a timer of the router does.
TimeOut ==
    \/ AsideTimesOut \/ SendTimesOut \/ ArrivesLate
    \/ SigBody /\ Timer

\* What the upstreams do.
Upstream ==
    \/ AsideBody \/ AsideFails \/ Forwarded \/ CtFails \/ SendFails \/ RetryFails
    \/ PassedOn \/ BadSignature \/ OtherRefusal \/ SigFails \/ SigBody \/ Arrives \/ StreamBreaks
    \/ \E sse \in BOOLEAN : AsideSucceeds(sse) \/ SigSucceeds(sse)
    \/ \E status \in Statuses :
          \/ CtAnswers(status) \/ Responds(status) \/ RetryAnswers(status)
          \/ SigFailover(status) \/ SigError(status)

Next == Route \/ TimeOut \/ Upstream \/ HangUp

Spec == Init /\ [][Next]_vars

\* The router's own steps and its timers get their turn; upstreams owe nothing.
FairSpec == Spec /\ WF_vars(Route \/ TimeOut)

-----------------------------------------------------------------------------
(* Safety *)

\* A request holds the probe permit of the server it is at and of no other,
\* and none when it has been answered: whichever of the ways out of a server
\* it takes, the permit is handed back.  A dropped request keeps its permit.
NoPermitLeaks ==
    \A s \in 1..Servers : permit[s] = "held" =>
        s = i /\ stage \in {"servers", "dropped"} /\ wait # "no"

\* A probe succeeds only by the 200 that the client was served, and fails only
\* when the request goes on to another server: a 200 whose body or first chunk is
\* late, or whose stream breaks before it, is no success.  The 200 of a signature
\* retry is one from its headers on, and remains one if its body then stalls.
VerdictFits ==
    \A s \in 1..Servers :
        /\ permit[s] = "success" =>
              s = i /\ Status = 200 /\ (answer \in {"served", "stalled"} \/ wait = "sigBody")
        /\ permit[s] = "error" => stage # "servers" \/ s < i

\* A request of a sub-key that reaches the servers of the group was counted
\* against one subscription, once, unless the sub-key has bonus subscriptions
\* only; one that a bonus server answered was not counted.
CountedOnce ==
    /\ counted <= 1
    /\ Billing /\ req.subKey /\ chain # <<>> =>
          counted = 1 \/ (sub = "none" /\ bonus > 0)
    /\ answer = "bonus" => counted = 0

\* No server is tried again once the request has moved on: the count-tokens
\* server does not get a second turn as a member of the group.
NoSecondTurn ==
    [][Len(chain') > Len(chain) =>
          \A k, l \in 1..Len(chain) :
             k <= l /\ chain[k].server = chain'[Len(chain')].server
                => chain[l].server = chain[k].server]_vars

\* An answer that says the upstreams failed has exactly one log entry, about
\* attempts that were made, except one: the 504 for a signature retry whose body
\* stalled has none.  Nor has an error given without an attempt.
FailuresAreLogged ==
    /\ Len(log) <= 1
    /\ answer \in {"overloaded", "upstreamError"} => log # <<>> /\ chain # <<>>
    /\ answer = "stalled" => log = <<>> /\ Status = 200
    /\ answer \in {"rateLimited", "noKeys", "subscription"} => log = <<>>

Permits == INSTANCE PermitUse WITH Circuits <- 1..Servers

\* Towards the circuits the request behaves as PermitUse: one permit at a time,
\* and one verdict for it.
UsesPermits == Permits!Spec

-----------------------------------------------------------------------------
(* Liveness, without hang-ups *)

\* The waits no timer ends: a second send to the same server, a body passed on
\* or judged, whatever a count-tokens request waits for outside the servers of
\* the group, the headers of a stream, and its first chunk unless the timeout
\* for it is set and another server is left.  Without a timeout for answers in
\* one piece, their headers and bodies.
Untimed ==
    \/ wait \in {"retry", "refusal", "sigRetry", "answer", "forward"}
    \/ wait = "headers" /\ stage = "countTokens"
    \/ wait = "headers" /\ stage \in {"bonus", "servers"} /\ (req.stream \/ ~TimeLimit)
    \/ wait = "chunk" /\ (Ttft => i = Servers)
    \/ wait \in {"body", "sigBody"} /\ ~TimeLimit

\* Every request is answered, whatever the upstreams do, or it hangs in one of
\* these waits: in no other does it need an upstream's help.
AnsweredOrHanging == <>(stage = "done") \/ <>[]Untimed

\* Nor does it keep a probe permit: the verdict is reported, even if the body of
\* an error then stalls, unless it hangs before there is a verdict.
PermitsReported == Permits!AlwaysReported \/ <>[](Untimed /\ wait # "answer")

-----------------------------------------------------------------------------
(* What the comments promise and the code does not do *)

\* A request that is not streamed is answered: a global default exists "so no
\* path is left unbounded by default".  A retry is sent without a timeout.
Answered == <>(stage = "done")

\* "Empty stream or error --- treat as connection error": the log entry of a
\* request that no server served does not say 200.
FinalStatusIsAFailure ==
    \A k \in 1..Len(log) : log[k].type # "failover_success" => log[k].status # 200
=============================================================================
