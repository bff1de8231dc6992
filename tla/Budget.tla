------------------------------ MODULE Budget ------------------------------
(***************************************************************************)
(* The cost budgets of a key's subscriptions (subscription.rs): how a      *)
(* request is admitted on one, and how its cost reaches the Redis counters *)
(* and, through the usage buffer, the table they are rebuilt from.         *)
(*                                                                         *)
(* A request reads the subscription list, then for each active             *)
(* subscription the counters of its budgets: the total one, the weekly one *)
(* and the one of the request's model.  A counter that is missing is       *)
(* summed from token_usage_logs and SET.  When the answer ends, its cost   *)
(* is added to the same counters one after the other, and an entry is      *)
(* logged.  Nothing holds these steps together.                            *)
(*                                                                         *)
(* A counter is modelled by how many times it holds each request's cost.   *)
(* The key of a counter is <<subscription, scope, start>>.                 *)
(***************************************************************************)
EXTENDS FiniteSetsExt, LogBuffer

CONSTANTS
    None,
    Subs,          \* the non-bonus subscriptions, as check_subscriptions sorts them
    Over,          \* sets of subscriptions that may have expired before
    Windowed,      \* those with reset_hours
    Models,
    ModelOf,       \* the model each request asks for
    Cost,          \* what each request will cost
    Streamed,      \* the requests answered by a stream: charged by a spawned task
    Limit,         \* cost_limit_usd
    WeeklyLimit,   \* weekly_cost_limit_usd, 0 for none
    ModelLimit,    \* the limit model_limits gives a model, 0 for none
    Unpriced,      \* pay_per_request subscriptions that lack a model, with that model
    Duration,      \* duration_days, in ticks
    WindowLen,     \* reset_hours, in ticks
    WeekLen,       \* a week, in ticks
    MaxNow,        \* bound: the clock stops here
    MaxFailures    \* bound: commands and queries that fail, keys lost

(***************************************************************************)
(* Besides the writer's, Faults has sets of "redis" (a command fails),     *)
(* "sql" (a query fails), "hangup" (the client leaves), "evict" (Redis     *)
(* loses a counter) and "retention" (old entries are dropped).             *)
(***************************************************************************)

Requests == Entries
SubIds   == Elements(Subs)

ASSUME BudgetAssumption ==
    /\ None \notin Nat
    /\ Subs \in Seq(STRING) /\ Subs # <<>>
    /\ IsFiniteSet(Requests) /\ Cost \in [Requests -> Nat]
    /\ {Limit, WeeklyLimit, ModelLimit} \subseteq [SubIds -> Nat]
    /\ WindowLen \in Nat \ {0} /\ WeekLen \in Nat \ {0} /\ MaxNow \in Nat
    /\ MaxFailures \in Nat
    /\ ModelOf \in [Requests -> Models]
    /\ Windowed \subseteq SubIds /\ Streamed \subseteq Requests
    /\ Models \cap {"total", "week"} = {}

VARIABLES
    now,           \* the clock
    failures,      \* how many commands and queries have failed, or keys been lost
    pc,            \* where each request is
    index,         \* the subscription it looks at, an index of Subs
    scope,         \* the budget it looks at
    key,           \* the counter it reads or adds to
    summed,        \* the requests whose costs its SUM returned
    view,          \* activated_at of the subscriptions its list calls active
    listed,        \* key_subs: the list Redis holds, None for missing
    status,        \* status of each subscription in the database
    activated,     \* activated_at in the database
    marker,        \* subscriptions with a sub_activated key
    marks,         \* spawned status updates that have not run
    winStart,      \* sub_window_start
    counter,       \* sub_cost and sub_weekly_cost
    created,       \* created_at of each priced entry
    purged,        \* entries in dropped partitions
    charged,       \* history: the counters each request's cost was added to
    before,        \* history: the requests that had ended when each one came
    lossy          \* history: the counters that have ever gone without a cost that
                   \* was added to them

reqVars  == <<pc, index, scope, key, summed, view>>
rowVars  == <<listed, status, activated, marker, marks>>
costVars == <<winStart, counter, charged, created, purged>>
histVars == <<before, lossy>>
vars == <<logVars, reqVars, rowVars, costVars, now, failures, histVars>>

Scopes   == {"total", "week"} \cup Models
Keys     == SubIds \X Scopes \X (0..MaxNow)
Statuses == {"active", "exhausted", "expired"}

\* A list as a request uses it: the active subscriptions, with activated_at.
Lists == UNION {[S -> 0..MaxNow \cup {None}] : S \in SUBSET SubIds}

InCheck  == {"consider", "pick", "get", "sum", "set"}
InCharge == {"activate", "stamp", "stampAlone", "week", "window", "windowGet", "total",
             "model", "log", "logUnpriced"}

TypeOK ==
    /\ LogTypeOK
    /\ now \in 0..MaxNow
    /\ failures \in 0..MaxFailures
    /\ pc \in [Requests -> {"new", "serve", "blocked", "done"} \cup InCheck \cup InCharge]
    /\ index \in [Requests -> 1..Len(Subs)]
    /\ scope \in [Requests -> Scopes]
    /\ key \in [Requests -> Keys \cup {None}]
    /\ summed \in [Requests -> SUBSET Requests]
    /\ view \in [Requests -> Lists]
    /\ listed \in Lists \cup {None}
    /\ status \in [SubIds -> Statuses]
    /\ activated \in [SubIds -> 0..MaxNow \cup {None}]
    /\ marker \subseteq SubIds
    /\ marks \subseteq SubIds \X (Statuses \ {"active"})
    /\ winStart \in [SubIds -> 0..MaxNow \cup {None}]
    /\ counter \in [Keys -> [Requests -> Nat] \cup {None}]
    /\ created \in [Requests -> 0..MaxNow \cup {None}]
    /\ purged \subseteq Requests
    /\ charged \in [Requests -> SUBSET Keys]
    /\ before \in [Requests -> SUBSET Requests]
    /\ lossy \subseteq Keys

Init ==
    /\ LogInit
    /\ now = 0
    /\ failures = 0
    /\ pc = [r \in Requests |-> "new"]
    /\ index = [r \in Requests |-> 1]
    /\ scope = [r \in Requests |-> "total"]
    /\ key = [r \in Requests |-> None]
    /\ summed = [r \in Requests |-> {}]
    /\ view = [r \in Requests |-> <<>>]
    /\ listed = None
    /\ \E over \in Over : status = [s \in SubIds |-> IF s \in over THEN "expired" ELSE "active"]
    /\ activated = [s \in SubIds |-> None]
    /\ marker = {}
    /\ marks = {}
    /\ winStart = [s \in SubIds |-> None]
    /\ counter = [k \in Keys |-> None]
    /\ created = [r \in Requests |-> None]
    /\ purged = {}
    /\ charged = [r \in Requests |-> {}]
    /\ before = [r \in Requests |-> {}]
    /\ lossy = {}

-----------------------------------------------------------------------------
(* Failures.                                                               *)

Fails(fault) ==
    /\ fault \in faults
    /\ failures < MaxFailures
    /\ failures' = failures + 1

\* A command or a query does its work, or fails.
Try(fault, done, undone) ==
    \/ done /\ UNCHANGED failures
    \/ Fails(fault) /\ undone

-----------------------------------------------------------------------------
(* Counters.                                                               *)

Sub(r) == Subs[index[r]]

GoTo(r, step) == pc' = [pc EXCEPT ![r] = step]

\* The Monday of a week.
Monday(t) == t - (t % WeekLen)

\* The key of a budget's counter; start is the window's for a windowed one.
CounterKey(s, sc, start) ==
    <<s, sc, IF sc = "week" THEN Monday(now) ELSE IF s \in Windowed THEN start ELSE 0>>

\* How long the entries of a counter's SUM reach, MaxNow + 1 for ever.
Span(k) ==
    IF k[2] = "week" THEN WeekLen ELSE IF k[1] \in Windowed THEN WindowLen ELSE MaxNow + 1

\* Fault: WHERE subscription_id = $1 forgotten.
MatchesAnySubscription(r, k) ==
    /\ k[2] \in Models => ModelOf[r] = k[2]
    /\ created[r] # None
    /\ created[r] >= k[3] /\ created[r] < k[3] + Span(k)

\* The WHERE of a rebuild: subscription, model, created_at in the window.
Matches(r, k) ==
    /\ Sub(r) = k[1]
    /\ k[2] \in Models => ModelOf[r] = k[2]
    /\ created[r] # None
    /\ created[r] >= k[3] /\ created[r] < k[3] + Span(k)

\* SUM(cost) of some requests.
Total(cost, S) == MapThenSumSet(LAMBDA r : cost[r], S)

CostOf(S) == Total(Cost, S)

\* What a GET of a counter returns.
Amount(c) == Total([r \in Requests |-> c[r] * Cost[r]], Requests)

\* The requests whose cost was added to a counter.
SpentOn(k) == {r \in Requests : k \in charged[r]}

LimitOf(s, sc) ==
    CASE sc = "total" -> Limit[s] [] sc = "week" -> WeeklyLimit[s] [] OTHER -> ModelLimit[s]

-----------------------------------------------------------------------------
(* The check before a request (check_subscriptions).                       *)

Active == [s \in {t \in SubIds : status[t] = "active"} |-> activated[s]]

\* load_subscriptions: the cached list, or the table's, which is then cached.
\* A failed query reads as an empty list, and is cached too.
Load(r) ==
    /\ pc[r] = "new" /\ "main" \in senders
    /\ \/ listed # None /\ view' = [view EXCEPT ![r] = listed] /\ UNCHANGED <<listed, failures>>
       \/ /\ listed = None
          /\ \/ view' = [view EXCEPT ![r] = Active]
                /\ Try("redis", listed' = Active, UNCHANGED listed)
             \/ view' = [view EXCEPT ![r] = <<>>] /\ listed' = <<>> /\ Fails("sql")
       \/ /\ listed # None /\ Fails("redis")
          /\ view' = [view EXCEPT ![r] = Active] /\ listed' = Active
    /\ before' = [before EXCEPT ![r] = {q \in Requests : pc[q] = "done"}]
    /\ GoTo(r, "consider")
    /\ UNCHANGED <<logVars, index, scope, key, summed, status, activated, marker, marks,
                   costVars, now, lossy>>

\* The 300 seconds of the cached list are over.
ListExpires ==
    /\ listed # None
    /\ listed' = None
    /\ UNCHANGED <<logVars, reqVars, status, activated, marker, marks, costVars, now,
                   failures, histVars>>

\* continue: the next subscription, or none is left and the answer is Blocked.
Skip(r) ==
    IF index[r] = Len(Subs)
    THEN GoTo(r, "blocked") /\ UNCHANGED index
    ELSE GoTo(r, "consider") /\ index' = [index EXCEPT ![r] = @ + 1]

\* Past expires_at a subscription is marked by a task of its own.
Consider(r) ==
    LET s == Sub(r)
    IN  /\ pc[r] = "consider"
        /\ CASE s \notin DOMAIN view[r] -> Skip(r) /\ UNCHANGED marks
             [] s \in DOMAIN view[r] /\ view[r][s] # None /\ now > view[r][s] + Duration ->
                  Skip(r) /\ marks' = marks \cup {<<s, "expired">>}
             [] OTHER -> GoTo(r, "pick") /\ UNCHANGED <<index, marks>>
        /\ scope' = [scope EXCEPT ![r] = "total"]
        /\ UNCHANGED <<logVars, key, summed, view, listed, status, activated, marker,
                       costVars, now, failures, histVars>>

\* The budget after a passed one; after the model's the request is admitted.
Pass(r) ==
    /\ UNCHANGED <<index, marks>>
    /\ IF scope[r] \in Models
       THEN GoTo(r, "serve") /\ UNCHANGED scope
       ELSE /\ GoTo(r, "pick")
            /\ scope' = [scope EXCEPT ![r] = IF @ = "total" THEN "week" ELSE ModelOf[r]]

\* Fault: cost > limit where the code says cost >= limit.
JudgeOneMore(r, amount) ==
    IF amount <= LimitOf(Sub(r), scope[r]) THEN Pass(r)
    ELSE /\ Skip(r) /\ UNCHANGED scope
         /\ marks' = IF scope[r] = "total" /\ Sub(r) \notin Windowed
                     THEN marks \cup {<<Sub(r), "exhausted">>} ELSE marks

\* A full total budget without a window is marked exhausted for good.
Judge(r, amount) ==
    IF amount < LimitOf(Sub(r), scope[r]) THEN Pass(r)
    ELSE /\ Skip(r) /\ UNCHANGED scope
         /\ marks' = IF scope[r] = "total" /\ Sub(r) \notin Windowed
                     THEN marks \cup {<<Sub(r), "exhausted">>} ELSE marks

\* Without a weekly or a model's limit there is nothing to check.
Unlimited(s, sc) == sc # "total" /\ LimitOf(s, sc) = 0

\* A pay_per_request subscription serves only the models it has a price for.
\* get_window_start: without a window, or without Redis, the cost is 0.
Pick(r) ==
    LET s     == Sub(r)
        start == winStart[s]
    IN  /\ pc[r] = "pick"
        /\ \/ /\ scope[r] \in Models /\ <<s, scope[r]>> \in Unpriced
              /\ Skip(r) /\ UNCHANGED <<key, scope, marks, failures>>
           \/ /\ <<s, scope[r]>> \notin Unpriced
              /\ Unlimited(s, scope[r])
              /\ Pass(r) /\ UNCHANGED <<key, failures>>
           \/ /\ <<s, scope[r]>> \notin Unpriced
              /\ ~Unlimited(s, scope[r])
              /\ s \in Windowed /\ scope[r] # "week"
              /\ Try("redis", start = None, TRUE)
              /\ Judge(r, 0) /\ UNCHANGED key
           \/ /\ <<s, scope[r]>> \notin Unpriced
              /\ ~Unlimited(s, scope[r])
              /\ s \in Windowed /\ scope[r] # "week" => start # None
              /\ key' = [key EXCEPT ![r] = CounterKey(s, scope[r], start)]
              /\ GoTo(r, "get") /\ UNCHANGED <<index, scope, marks, failures>>
        /\ UNCHANGED <<logVars, summed, view, listed, status, activated, marker, costVars,
                       now, histVars>>

\* GET of the counter: a hit is judged, a miss or a failure goes to the table.
GetCost(r) ==
    LET c == counter[key[r]]
    IN  /\ pc[r] = "get"
        /\ \/ /\ c # None
              /\ Judge(r, Amount(c))
              /\ UNCHANGED failures
           \/ /\ Try("redis", c = None, TRUE)
              /\ GoTo(r, "sum") /\ UNCHANGED <<index, scope, marks>>
        /\ UNCHANGED <<logVars, key, summed, view, listed, status, activated, marker,
                       costVars, now, histVars>>

\* SELECT COALESCE(SUM(cost_usd), 0): a failed query is a sum of 0.
SumCost(r) ==
    /\ pc[r] = "sum"
    /\ Try("sql",
           summed' = [summed EXCEPT ![r] = {q \in stored \ purged : Matches(q, key[r])}],
           summed' = [summed EXCEPT ![r] = {}])
    /\ GoTo(r, "set")
    /\ UNCHANGED <<logVars, index, scope, key, view, rowVars, costVars, now, histVars>>

\* A counter loses the costs that were added to it and are not in a SUM.
Lose(k, sum) == lossy' = IF SpentOn(k) \subseteq sum THEN lossy ELSE lossy \cup {k}

\* Fault: INCRBYFLOAT by the sum instead of SET.
RebuildByAdding(r) ==
    LET held(q) == IF counter[key[r]] = None THEN 0 ELSE counter[key[r]][q]
    IN  /\ pc[r] = "set"
        /\ counter' = [counter EXCEPT ![key[r]] =
                         [q \in Requests |-> held(q) + (IF q \in summed[r] THEN 1 ELSE 0)]]
        /\ Judge(r, CostOf(summed[r]))
        /\ Lose(key[r], summed[r])
        /\ summed' = [summed EXCEPT ![r] = {}]
        /\ UNCHANGED <<logVars, key, view, listed, status, activated, marker, winStart,
                       charged, created, purged, now, failures, before>>

\* SET of the counter to the sum, whatever it holds by now.
Rebuild(r) ==
    /\ pc[r] = "set"
    /\ Try("redis",
           counter' = [counter EXCEPT ![key[r]] =
                         [q \in Requests |-> IF q \in summed[r] THEN 1 ELSE 0]],
           UNCHANGED counter)
    /\ Judge(r, CostOf(summed[r]))
    /\ Lose(key[r], summed[r])
    /\ summed' = [summed EXCEPT ![r] = {}]
    /\ UNCHANGED <<logVars, key, view, listed, status, activated, marker, winStart,
                   charged, created, purged, now, before>>

\* The spawned UPDATE of a status, and the DEL of the cached list.
RunMark(s, st) ==
    /\ <<s, st>> \in marks
    /\ marks' = marks \ {<<s, st>>}
    /\ \/ /\ status' = [status EXCEPT ![s] = IF @ = "active" THEN st ELSE @]
          /\ Try("redis", listed' = None, UNCHANGED listed)
       \/ Fails("sql") /\ listed' = None /\ UNCHANGED status
    /\ UNCHANGED <<logVars, reqVars, activated, marker, costVars, now, histVars>>

-----------------------------------------------------------------------------
(* The charge after an answer (record_non_stream_usage, UsageTrackingStream). *)

\* The answer ends with a usage; the subscription's row is read.
Answer(r) ==
    /\ pc[r] = "serve"
    /\ Try("sql", GoTo(r, "activate"), GoTo(r, "logUnpriced"))
    /\ UNCHANGED <<logVars, index, scope, key, summed, view, rowVars, costVars, now,
                   histVars>>

\* The answer has no usage, its stream breaks, or nobody polls it to its end.
AnswerUnbilled(r) ==
    /\ pc[r] = "serve"
    /\ GoTo(r, "done")
    /\ LeaveUnlogged(r)
    /\ UNCHANGED <<index, scope, key, summed, view, rowVars, costVars, now, failures, histVars>>

\* Fault: the winner and the losers of SET NX mixed up.
ActivateLoser(r) ==
    LET s == Sub(r)
    IN  /\ pc[r] = "activate"
        /\ marker' = marker \cup {s}
        /\ GoTo(r, IF s \in marker THEN "stamp" ELSE "week")
        /\ UNCHANGED <<logVars, index, scope, key, summed, view, listed, status, activated,
                       marks, costVars, now, failures, histVars>>

\* ensure_activated: SET NX.  Only the winner updates the row; a command that
\* fails may have left the marker, and without a connection the row alone is
\* updated.
Activate(r) ==
    LET s == Sub(r)
    IN  /\ pc[r] = "activate"
        /\ \/ /\ marker' = marker \cup {s}
              /\ GoTo(r, IF s \in marker THEN "week" ELSE "stamp")
              /\ UNCHANGED failures
           \/ /\ Fails("redis")
              /\ \/ marker' = marker \cup {s} /\ GoTo(r, "week")
                 \/ UNCHANGED marker /\ (GoTo(r, "week") \/ GoTo(r, "stampAlone"))
        /\ UNCHANGED <<logVars, index, scope, key, summed, view, listed, status, activated,
                       marks, costVars, now, histVars>>

\* UPDATE ... WHERE activated_at IS NULL.
Date(r) == activated' = [activated EXCEPT ![Sub(r)] = IF @ = None THEN now ELSE @]

\* The winner updates the row, selects the key of the cached list and deletes
\* it; either query can fail.  Without a connection there is the UPDATE only.
Stamp(r) ==
    /\ \/ /\ pc[r] = "stamp" /\ Date(r)
          /\ Try("redis", listed' = None, UNCHANGED listed)
       \/ /\ pc[r] = "stamp" /\ Fails("sql")
          /\ Date(r) \/ UNCHANGED activated
          /\ listed' \in {None, listed}
       \/ /\ pc[r] = "stampAlone"
          /\ Try("sql", Date(r), UNCHANGED activated)
          /\ UNCHANGED listed
    /\ GoTo(r, "week")
    /\ UNCHANGED <<logVars, index, scope, key, summed, view, status, marker, marks,
                   costVars, now, histVars>>

\* INCRBYFLOAT: creates a missing counter, without what it once held.
Add(r, k) ==
    LET held(q) == IF counter[k] = None THEN 0 ELSE counter[k][q]
    IN  Try("redis",
            /\ counter' = [counter EXCEPT ![k] =
                              [q \in Requests |-> held(q) + (IF q = r THEN 1 ELSE 0)]]
            /\ charged' = [charged EXCEPT ![r] = @ \cup {k}]
            /\ IF counter[k] = None THEN Lose(k, {}) ELSE UNCHANGED lossy,
            UNCHANGED <<counter, charged, lossy>>)

\* update_cost_counters: without a connection nothing is added; else the
\* weekly counter comes first.
AddWeekly(r) ==
    LET s == Sub(r)
        k == CounterKey(s, "week", 0)
    IN  /\ pc[r] = "week"
        /\ \/ /\ IF WeeklyLimit[s] > 0 THEN Add(r, k)
                 ELSE UNCHANGED <<counter, charged, failures, lossy>>
              /\ IF s \in Windowed
                 THEN GoTo(r, "window") /\ UNCHANGED key
                 ELSE GoTo(r, "total") /\ key' = [key EXCEPT ![r] = CounterKey(s, "total", 0)]
           \/ /\ Fails("redis")
              /\ GoTo(r, "log") /\ UNCHANGED <<key, counter, charged, lossy>>
        /\ UNCHANGED <<logVars, index, scope, summed, view, rowVars, winStart, created,
                       purged, now, before>>

\* ensure_window_start: SET NX EX.
OpenWindow(r) ==
    /\ pc[r] = "window"
    /\ Try("redis",
           winStart' = [winStart EXCEPT ![Sub(r)] = IF @ = None THEN now ELSE @],
           UNCHANGED winStart)
    /\ GoTo(r, "windowGet")
    /\ UNCHANGED <<logVars, index, scope, key, summed, view, rowVars, counter, charged,
                   created, purged, now, histVars>>

\* ensure_window_start: GET.  Without an answer no window counter is touched.
GetWindow(r) ==
    LET start == winStart[Sub(r)]
    IN  /\ pc[r] = "windowGet"
        /\ \/ /\ start # None
              /\ key' = [key EXCEPT ![r] = CounterKey(Sub(r), "total", start)]
              /\ GoTo(r, "total") /\ UNCHANGED failures
           \/ /\ Try("redis", start = None, TRUE)
              /\ GoTo(r, "log") /\ UNCHANGED key
        /\ UNCHANGED <<logVars, index, scope, summed, view, rowVars, costVars, now, histVars>>

AddTotal(r) ==
    /\ pc[r] = "total"
    /\ Add(r, key[r])
    /\ GoTo(r, "model")
    /\ UNCHANGED <<logVars, index, scope, key, summed, view, rowVars, winStart, created,
                   purged, now, before>>

AddModel(r) ==
    /\ pc[r] = "model"
    /\ Add(r, CounterKey(Sub(r), ModelOf[r], key[r][3]))
    /\ GoTo(r, "log")
    /\ UNCHANGED <<logVars, index, scope, key, summed, view, rowVars, winStart, created,
                   purged, now, before>>

\* usage_tx.try_send: an entry without a price counts in no sum.
LogUsage(r) ==
    /\ pc[r] \in {"log", "logUnpriced"}
    /\ created' = [created EXCEPT ![r] = IF pc[r] = "log" THEN now ELSE None]
    /\ Log(r)
    /\ GoTo(r, "done")
    /\ UNCHANGED <<index, scope, key, summed, view, rowVars, winStart, counter, charged,
                   purged, now, failures, histVars>>

\* A client that leaves takes its handler with it, at any await: before the
\* answer, and for an answer in one piece while it is being charged.
HangUp(r) ==
    /\ "hangup" \in faults
    /\ pc[r] \in InCheck \cup (IF r \in Streamed THEN {} ELSE InCharge)
    /\ GoTo(r, "done")
    /\ summed' = [summed EXCEPT ![r] = {}]
    /\ LeaveUnlogged(r)
    /\ UNCHANGED <<index, scope, key, view, rowVars, costVars, now, failures, histVars>>

-----------------------------------------------------------------------------
(* The environment.                                                        *)

\* Time passes; a window's key expires when its hours are over.
Tick ==
    /\ now < MaxNow
    /\ now' = now + 1
    /\ winStart' = [s \in SubIds |->
                      IF winStart[s] # None /\ winStart[s] + WindowLen <= now'
                      THEN None ELSE winStart[s]]
    /\ UNCHANGED <<logVars, reqVars, rowVars, counter, charged, created, purged, failures, histVars>>

\* Redis restarts without its data, or evicts the key.
Evict(k) ==
    /\ Fails("evict")
    /\ counter[k] # None
    /\ counter' = [counter EXCEPT ![k] = None]
    /\ UNCHANGED <<logVars, reqVars, rowVars, winStart, charged, created, purged, now,
                   histVars>>

\* drop_expired_partitions: token_usage_logs loses its old entries.
DropPartition ==
    /\ Fails("retention")
    /\ \E t \in 0..MaxNow :
          LET old == {q \in stored : created[q] # None /\ created[q] < t}
          IN  /\ t <= now
              /\ ~(old \subseteq purged)
              /\ purged' = purged \cup old
    /\ UNCHANGED <<logVars, reqVars, rowVars, winStart, counter, charged, created, now,
                   histVars>>

\* ctrl_c: the listener stops when no handler is left, then main drops its state.
StopListening ==
    /\ \A r \in Requests :
          pc[r] \notin InCheck \cup {"serve"} \cup (IF r \in Streamed THEN {} ELSE InCharge)
    /\ Shutdown
    /\ UNCHANGED <<reqVars, rowVars, costVars, now, failures, histVars>>

\* A blocked request holds the state no longer.
EndBlocked(r) ==
    /\ pc[r] = "blocked"
    /\ LeaveUnlogged(r)
    /\ UNCHANGED <<reqVars, rowVars, costVars, now, failures, histVars>>

\* A request that never comes, because the listener has stopped.
NeverComes(r) ==
    /\ pc[r] = "new" /\ "main" \notin senders
    /\ LeaveUnlogged(r)
    /\ UNCHANGED <<reqVars, rowVars, costVars, now, failures, histVars>>

Flush == (FlushStep \/ Kill) /\ UNCHANGED <<reqVars, rowVars, costVars, now, failures, histVars>>

Step(r) ==
    /\ r \in senders
    /\ \/ Load(r) \/ Consider(r) \/ Pick(r) \/ GetCost(r) \/ SumCost(r) \/ Rebuild(r)
       \/ Answer(r) \/ AnswerUnbilled(r) \/ Activate(r) \/ Stamp(r) \/ AddWeekly(r)
       \/ OpenWindow(r) \/ GetWindow(r) \/ AddTotal(r) \/ AddModel(r) \/ LogUsage(r)
       \/ HangUp(r) \/ EndBlocked(r) \/ NeverComes(r)

Next ==
    \/ \E r \in Requests : Step(r)
    \/ \E m \in marks : RunMark(m[1], m[2])
    \/ ListExpires
    \/ Tick
    \/ \E k \in Keys : Evict(k)
    \/ DropPartition
    \/ StopListening
    \/ Flush

Spec == Init /\ [][Next]_vars

-----------------------------------------------------------------------------
(* Properties.                                                             *)

\* A counter holds a cost at most once: an INCRBYFLOAT never adds what a
\* rebuild has already counted, because a request logs its entry only after
\* it has added its cost to every counter.  No request is refused, and no
\* subscription marked exhausted, for a cost counted twice.
CountedAtMostOnce ==
    \A k \in Keys : counter[k] # None => \A r \in Requests : counter[k][r] <= 1

\* The requests a subscription has really paid for: added to its total, or
\* logged with their cost when the addition failed.
PaidBy(s) ==
    SpentOn(<<s, "total", 0>>) \cup {r \in Requests : Sub(r) = s /\ created[r] # None}

\* exhausted is for good, so it needs a budget that was really spent: no
\* rebuild, failure or lost counter makes a subscription end early.
ExhaustedIsSpent ==
    \A s \in SubIds \ Windowed :
        status[s] = "exhausted" => CostOf(PaidBy(s)) >= Limit[s]

\* Where Redis does not fail, a budget is overrun by requests in flight together
\* or not at all: what had been charged when a request arrived was below the
\* limit, however many requests read and add to the counter at once, unless a
\* rebuild has at some time SET it to a SUM that lacked a cost already added, or
\* an addition has begun it anew after it was lost.
AdmittedBelowLimit ==
    [][\A r \in Requests :
         pc[r] # "serve" /\ pc'[r] = "serve" /\ ("redis" \in faults => failures' = 0) =>
           \A sc \in {"total", "week", ModelOf[r]} :
             LET k == CounterKey(Sub(r), sc, winStart[Sub(r)])
             IN  \/ Unlimited(Sub(r), sc)
                 \/ k \notin Keys
                 \/ k \in lossy'
                 \/ CostOf(before[r] \cap SpentOn(k)) < LimitOf(Sub(r), sc)]_vars

\* A subscription with a bill has its activation date, from which it expires,
\* unless the one request that is to write it is still about to, or a
\* command, a query or a client fails between SET NX and UPDATE.
BilledIsActivated ==
    \A r \in Requests :
        /\ created[r] # None
        /\ faults \cap {"redis", "sql", "hangup"} = {}
        => \/ activated[Sub(r)] # None
           \/ \E q \in Requests : pc[q] = "stamp" /\ Sub(q) = Sub(r)
=============================================================================
