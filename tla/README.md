# viber-router: TLA+ specifications

viber-router is a proxy for LLM APIs. A client sends a request with the key of a
*group* (or with a *sub-key* of it); the router tries the servers of the group in
priority order until one answers. What makes it hard is around that loop: circuit
breakers, rate limits and subscription limits that live in Redis and are shared by
all requests and all instances of the router, and a failover loop with timeouts,
retries, probes and streams in which every way out has something to hand back.

All paths below are under `viber-router-api/src/`.

## 1. Inventory

| Component | Where | State | Operations | Hard behaviour |
|---|---|---|---|---|
| Circuit breaker | `circuit_breaker.rs` | five Redis keys per (group, server, model): `open`, `half`, `probe`, `err`, `succ` | `check_access`, `record_probe_success`, `release_probe`, `record_error` | commands of many requests interleave; keys expire; a probe may outlive its permit |
| Rate limiter | `rate_limiter.rs` | one counter with expiry per server, one per sub-key and server | `is_rate_limited`, `increment_rate_limit`, both also per key | check and increment are apart; INCR and EXPIRE are two commands |
| Proxy waterfall | `routes/proxy.rs` | the local variables of `proxy_handler_inner` | one request: priority endpoints, subscription, bonus servers, count-tokens detour, group servers, fallback endpoints | some forty ways out; timers on some waits; drops at any await |
| Subscription pace | `subscription.rs` | `sub_rpm:*`, `sub_tpm:*` | `is_rpm_limited`, `wait_for_tpm`, `increment_rpm`, `increment_tpm` | a request sleeps between its check and its count |
| Subscription budgets | `subscription.rs` | cost counters and window starts in Redis, the log of charges in PostgreSQL | `check_subscriptions`, `update_cost_counters`, `rebuild_*`, `ensure_window_start`, `ensure_activated` | rebuild races with INCRBYFLOAT; budgets are checked before and charged after |
| Usage of streams | `routes/proxy.rs`, `sse_usage_parser.rs` | `UsageTrackingStream` around the body | `poll_next` | a stream is charged only when it ends |
| Caches | `cache.rs`, `routes/proxy.rs` | group configurations (60 s), user endpoints and subscriptions (300 s), settings (no expiry) | get, set, invalidate | fill races with invalidation |
| Log buffers | `log_buffer.rs`, `ttft_buffer.rs`, `usage_buffer.rs`, `uptime_buffer.rs`, `main.rs` | a channel of 10 000 and a batch of 100, four times | `try_send`, `flush_task` | full channel, failed flush, drain at shutdown |
| Protocol translation | `translate/` | `ChatSseTranslator`, `ResponsesSseTranslator` | requests, whole answers and event streams, between Anthropic's protocol and two of OpenAI's | streams that are cut or lack events; tool calls and their results |
| Admin, public and LLM routes | `routes/admin`, `routes/public`, `routes/llm` | PostgreSQL | CRUD, reports | several statements without a transaction, then an invalidation |
| Partitions | `partition.rs` | monthly tables | create, drop | drops entries that counters are rebuilt from |
| Telegram notifier | `telegram_notifier.rs` | a cooldown key per server and status | `maybe_alert` | cooldown set before the send |
| Key parser, data model, frontend | `routes/key_parser.rs`, `models`, `../../src` | - | - | data, not control |

How they interact: the waterfall calls the rate limiter (check, later increment),
then the circuit breaker (`check_access`), sends, and reports the outcome to the
circuit breaker, inline for errors and in a spawned task for successes and releases.
Before the loop it calls the subscription checks; when an answer is complete it
charges the subscription and queues log entries, which the flush tasks write and from
which a lost cost counter is rebuilt. It finds the group by its key in a cache, which
the admin handlers delete from after they have written the tables. An answer for an
OpenAI client goes through a translator on its way out. The shared state is in Redis and
PostgreSQL, one command or query at a time; there is no lock and no transaction.

What makes each component correct:

- circuit breaker: one probe at a time; the state only moves Closed, Open, HalfOpen;
  no stranded permit, no prolonged cooldown, no circuit open for ever;
- rate limiter and pace: a bounded overshoot, windows that end, waits that end;
- waterfall: permits and counts are settled on each way out, exactly once; failures
  leave one log entry; the request ends;
- budgets: no cost counted twice, no budget ended early, none overrun but by requests
  that were in flight together, or where a counter has lost a cost;
- caches: each write deletes every entry it makes stale, but for causes that are known;
- buffers: nothing is stored twice, and a shutdown drains what was accepted;
- translation: tool arguments arrive once and parse, a stream has one end, a streamed
  answer is the whole answer, and a client's next turn is a conversation Anthropic accepts.

`PROJECT.json` lists the hazards one by one, with the line where each bites.

## 2. Modules

| Module | Models |
|---|---|
| `CircuitBreaker` | one circuit, command by command |
| `CircuitStates` | what it promises: the three-state circuit |
| `RateLimiter` | one limit, per server or per key |
| `SubscriptionPace` | RPM and TPM of one subscription |
| `Waterfall` | one request through `proxy_handler_inner` |
| `PermitUse` | what the circuits expect of a request |
| `LogBuffer` | one log buffer: senders, channel, flush task, shutdown |
| `Budget` | the cost budgets of a key's subscriptions, on top of its usage log (`LogBuffer`) |
| `ConfigRows` | the configuration tables and what a cache entry made from them is |
| `ConfigCache` | the caches: fills, admin handlers, invalidations |
| `AnthropicStream` | the upstream's event stream (external) |
| `ChatStream`, `ResponsesStream` | the two stream translators, one operator per handler |
| `ToolArguments` | how both resolve the arguments of a call |
| `RequestMessages` | the messages of a request, from both protocols |
| `ResponsesClient` | what a Responses client relies on |
| `Translation` | an answer through both translators, and the next turn |
| `*Proofs` | the theorems about each of them; those about the log buffer are in `BudgetProofs` |
| `FoldSteps` | lemmas about `FoldLeft`, instantiated by `TranslationProofs` |
| `MC*` | small instances for TLC |

**CircuitBreaker.** The variables `open`, `half`, `probe`, `err`, `succ` are the Redis
keys (a key with a time to live *is* that time; a counter has its value and its
expiry), and `at[r]` is the command request `r` sends next. An action is one Redis
command with the branch on its reply: `CheckOpen`, `CheckHalf` and `Claim` are the
EXISTS, EXISTS and SET NX EX of `check_access`, `SetOpen` and `Arm` those of
`trip_open`, and so on. `Succeed`, `Inconclusive` and `Fail` are what the proxy reports.
`Tick` is the expiry of keys.

**RateLimiter** and **SubscriptionPace** are built the same way. A request is "admitted" from
the check until its INCR; `Skip` is any later skip condition of the loop.
`SubscriptionPace` adds the sleep of `wait_for_tpm`.

**Waterfall** is one request. `stage` is the waterfall it is in, `i` the entry of it, and
`wait` what the handler awaits (response headers, a body, the first chunk, a retry...).
`permit` and `errors` are what it told the circuits, `chain` is `failover_chain`, `log` its
proxy log. Everything outside the request is a choice: a circuit may grant, allow or
skip, a limit may pass or skip, an upstream may answer with any status, break off, or
stay silent. An action covers the code from one await that matters to the next, with
every record, log entry and flag in between. `Timer` says which waits the router bounds.
Waits for Redis and PostgreSQL are not modelled as waits.

**LogBuffer.** `chan`, `batch` and the table (`stored`) are where an entry can be, besides
`refused` (the channel was full) and `failed` (its INSERT failed). Each entry has a task of its own that
holds a sender. `Receive`, `TickFlush` and `Closed` are the branches of the `select!` in
`flush_task`; `FlushBatch` and `FlushFails` end the INSERT they began. `Shutdown` is the
`drop(state)` of `main`; `Kill` a SIGTERM, for which nothing is registered.

**Budget** extends it with the requests of one key. `pc[r]` is the next command or query of
request `r`: the cached list (`Load`), the subscription it looks at (`Consider`), each
budget's counter (`GetCost`), its rebuild (`SumCost`, then `Rebuild`), the decision (`Judge`), the
answer, the activation (`Activate`, then `Stamp`: at "stamp" the UPDATE, the SELECT of the key and the DEL
of its list, at "stampAlone", without Redis, the UPDATE only), the additions (`AddWeekly`, `OpenWindow`,
`GetWindow`, `AddTotal`, `AddModel`) and the log entry (`LogUsage`). A counter is
not a number but the requests whose cost it holds and how often, so that a cost lost
or counted twice can be told from one that is right. Status updates that the code spawns
(`marks`) run at any time. `lossy` is a history: the counters that have ever gone without a cost that was added
to them, because a rebuild SET them to a SUM without it or because they were lost and an addition began them anew.

**ConfigRows, ConfigCache.** The tables are one record `db`; a row is abstracted to what
the cached values are made of and a version for the rest of its columns. `ConfigOf` is what
`resolve_group_config` returns if nothing changes meanwhile. A request's fill reads the
tables one query at a time (`FindGroup` ... `ReadPart`) and stores what it has. A handler
is a list of tasks, one per statement: writes, SELECTs of what to invalidate, DELs; the client may
hang up between any two (`Abort`). `excused` remembers which entries are stale for a known cause.

**Translation.** `AnthropicStream` is any upstream that sends blocks of text and tool calls one after the
other, and errs as the translators allow for: no block start, no block stop, no
`message_delta`, an error event, a body that ends or breaks anywhere. Only the newest block gets fragments: an earlier
one may lack its stop, but blocks are never interleaved. A call may be announced with an input, and stream
another; what is streamed wins, unless it does not parse. Each event is given to both
translators. Text and arguments are sequences of parts; a part is named by its block and
position, and whether a sequence of fragments is a JSON document is a set (`Objects`). When
the answer is over, each client makes the next turn's request from what it
received, and `RequestMessages` translates it.

**Composition.** The modules meet in abstract specifications. `Waterfall`
implements `PermitUse` (`UsesPermits`): at most one permit at a time, one verdict for it. This
is the client `CircuitBreaker` assumes: `cbProbe[r]` ends in `Succeed`, `Inconclusive` or `Fail`.
`CircuitBreaker` implements `CircuitStates` with `state <- CbState`, the code's `derive_state`.
`Budget` takes only `LogBuffer`'s steps on the log (theorem `UsageIsLogged`), and what it rebuilds from is what
`LogBuffer` stored. `ResponsesStream` implements `ResponsesClient` (`ResponsesProtocol`).

**Faults.** The constant `Faults` is a set of *sets of faults*; a behaviour picks one
of them at the start and keeps it in `faults`. `"redis"` makes any command
fail, with or without its effect in Redis, and the code takes its default; `"crash"` drops a request between two commands; `"stall"`
lets time pass between two commands of one request. `"sql"`, `"insert"`, `"hangup"`, `"evict"`,
`"retention"` and `"kill"` are what else can befall a budget and its log. So one run covers a property that holds under all
faults and another that holds only without some, and a property says in its formula
which faults it tolerates.

## 3. Runs

| Run | Checks | Instance |
|---|---|---|
| `circuit_faults` | types, one probe, permits owned, error windows end, cooldown not prolonged | 3 requests, all faults or stalls only |
| `circuit_refines` | refinement of `CircuitStates`, never stuck open, two probes only where one is late | 2 requests, lost commands and drops, probes of up to 3 ticks with a permit of 2 |
| `circuit_long_probe` | *violated:* `AtMostOneProbe` | a probe of 3 ticks, a permit of 2 |
| `limiter` | types, overshoot, windows end, never stuck | 4 requests, limit 3, window 4 |
| `pace` | types, RPM overshoot, waits end, never stuck | 2 requests, limits and windows of 2, 2 sleeps |
| `waterfall_safety` | types, permits, verdicts, counting, logging, order, refinement of `PermitUse` | 3 servers, the third also the count-tokens server and without breaker, one retry, every request shape, hang-ups |
| `waterfall_live` | answered or hanging in a known wait, permits reported | 2 servers, a third for count-tokens, every request shape, streams nobody asked for, silent upstreams |
| `waterfall_retry_hangs` | *violated:* `Answered` | 2 servers, requests that are not streamed, no client errors |
| `waterfall_empty_stream` | *violated:* `FinalStatusIsAFailure` | 2 servers, no retry |
| `budget` | types, log accounted and drained, costs counted once, no early end, admission, activation | 2 requests, one streamed; an hourly, a pay-per-request and a fixed subscription; every budget is 1 request; 2 ticks; 1 fault of each kind |
| `config_cache` | types, every stale entry is about to be deleted or stale for a known cause | 3 groups, 2 sub-keys, 4 servers, 2 models, 2 settings; each handler alone with 1 failure, 25 pairs without |
| `translation` | types, arguments, ends, whole answers, next turn, refinement of `ResponsesClient` | up to 3 blocks, calls announced with and without an input, each slip of the upstream, 3 beginnings of the history, 3 orders of its results |

**Why the bounds are enough.** The code compares a counter with 1 and with its limit;
counters saturate one above the larger, which keeps every branch. Times are a few
ticks: what matters is the order of the expiries (`open` before `half`, `probe` before
or after its request, `err` between INCR and EXPIRE), and each order occurs. Three requests
are a probe, one that trips the circuit, and one that passes its check in between; four
on a limit of three let the overshoot be reached. Three servers are a first, a middle
one that a request can move to and from, and a last one, for which the TTFT timer is off.
The statuses are a success, a 400, another client error and a failover status; 400 is also a
failover status in `waterfall_safety`, which is the case the signature branch repeats the
failover check for. Every attempt of a chain, not a suffix, is kept.
In `budget` each limit is the cost of one request, so the second request meets every boundary;
two ticks are a window that ends and the next one; a batch of 2 and a channel of 1 are
filled by two entries. The three subscriptions are the three ways of `check_subscriptions`: a full
one that is skipped, one without the model, one that is exhausted for good.
In `config_cache` a race needs one fill and one or two handlers; the pairs are those that write rows the other
reads. Failures are left out of the pairs since a failed statement excuses its entries
and what remains is the handler alone.
In `translation` the third block is the one opened while an earlier one has not stopped and another has.

**Deadlock** is checked in the runs of the breaker, the limiter and the pace, where time always goes on. It is
not checked in the other runs: requests, handlers and answers end.

**Fairness.**
- Breaker: time diverges (`[]<><<Tick>>_vars`). No command of a request is fair:
  while a circuit is open, time alone must reopen it.
- Limiter, pace: time goes on (`WF(Tick)`), and a handler that has begun is scheduled
  (`WF` of its commands), which is tokio's promise. Upstreams and clients owe nothing.
- Caches: none. That what a race or a failure leaves stale goes with its expiry, except for a setting, which has none, is
  Redis's promise, not the router's, and no property.
- Waterfall: `WF(Route \/ TimeOut)`: the router's own steps and its timers. Nothing
  makes an upstream answer or a client stay.

The liveness properties are about the wait itself, not about luck: `WaitEnds` holds
although other requests may use up each new token window, since the code counts its
sleeps; `NeverStuckOpen` holds although requests keep failing during the cooldown.
Many waits have no timer, and `AnsweredOrHanging` says that a request which is not answered hangs in one of
these and in no other (`Untimed`): a per-server retry, the body of a billed 400, the signature retry, the body of
an error that is passed on (`answer`) or of a fallback's answer (`forward`); the headers a count-tokens request waits for
outside the servers of the group; the headers of a stream; and its first chunk at the last server or
without a TTFT timeout, also when the stream was not asked for. The HTTP client's overall
timeout of 8 hours would end them; as in the code's own comments that counts as hanging.

## 4. Proofs

The theorems hold for every value of the constants that meets the module's `ASSUME`.

| Theorem | Property | By |
|---|---|---|
| `CircuitBreakerProofs!TypeCorrect` | `TypeOK` | inductive as it stands |
| `OneProbe` | `OnlyLateProbesMeet` | `PermitInv`, while `InTime` holds: the permit and the age of its probe add up to the TTL, so the key cannot vanish before the probe; only a probe deletes it |
| `CooldownKept` | `CooldownNotExtended` | `OpenChanges`: only SET NX and time touch `open` |
| `CircuitRefinement` (if no fault set has `"stall"`) | `RefinesCircuitStates` | `ArmInv`: the request between SET open and SET half finds the circuit open |
| `NoStrandedPermit` | `PermitIsOwned` | `Owned`: requests off the probe's path are no probes |
| `WindowsEnd` | `ErrorWindowEnds` | inductive under `TypeOK` |
| `RateLimiterProofs!TypeCorrect` | `TypeOK` | inductive |
| `OvershootBounded` | `BoundedOvershoot` | `PlacesInv`: count plus admitted requests stays within the bound |
| `ExpiryFollows` | `WindowEnds` | `ExpiryStep`: only the INCR of a first request makes a counter without expiry, and that request sends the EXPIRE |
| `SubscriptionPaceProofs!TypeCorrect` | `TypeOK` | inductive |
| `RpmBounded` | `RpmOvershoot` | `PlacesInv`, with the sleeping requests among the admitted |
| `WaterfallProofs!PermitsHandedBack` | `NoPermitLeaks` | `PermitInv`: servers whose turn is to come have no permit; none is held in a wait that follows the verdict |
| `PermitRefinement` | `UsesPermits` | `PermitMoves`: each step grants, reports or stutters |
| `CountingCorrect` | `CountedOnce` | `CountInv`: counted at the door of the group servers, and not before |
| `WaterfallProofs!TypeCorrect` | `TypeOK` | `TypeInv`: in every wait after the headers there is a last attempt and it has a status |
| `FailuresLogged` | `FailuresAreLogged` | `LogInv`: nothing is logged before the request gives up or a server's error is passed on; a request that has sent anything and goes on has made an attempt |
| `VerdictsFit` | `VerdictFits` | `VerdictInv`, with `PermitInv`: a success is reported in the step that answers, or at the headers of a signature retry, whose body no failover follows |
| `TurnsEnd` | `NoSecondTurn` | `TurnInv`: the attempts are in the order of the servers, but for one of the count-tokens detour, whose server is passed over |
| `BudgetProofs!BufferTypes` | - | inductive |
| `EntriesAccounted` | `Accounted` | inductive under the types: an entry is sent by a task that still holds its sender, and none of its places is a sender's |
| `ShutdownDrains` | `DrainedAtEnd` | the flush task is in its last flush only after the channel was found empty and closed |
| `UsageIsLogged` | refinement of `LogSpec` | each step of a request logs, releases its sender, or leaves the log alone |
| `UsageAccounted`, `UsageDrained` | `Accounted`, `DrainedAtEnd` | from the two theorems about the buffer |
| `BudgetTypes` | `TypeOK` | `TypeInv`: the types, with the log's (`LogInv`) and the key each place of a request needs (`KeyInv`) |
| `CostsCountedOnce` | `CountedAtMostOnce` | `CountInv`: a request logs its entry after its last addition, so one that still has to add to a counter is in no SUM, hence in no rebuilt counter, and one that is in a SUM adds to nothing any more |
| `ActivatedWhenBilled` | `BilledIsActivated` | `BillInv`: the SET NX has one winner, which is still there or has written the date |
| `ExhaustedWhenSpent` | `ExhaustedIsSpent` | `HoldsInv`, `SumsInv`, `ReadsInv`: what a counter holds, a SUM returned and a request read has been charged; `MarksInv`: so has what a spawned update was decided on |
| `AdmissionBelowLimit` | `AdmittedBelowLimit` | `PassedInv`: of each budget that a request has passed it knows that it was below its limit, or why not; `CompleteInv`: a counter that is not in `lossy` holds every cost added to it; `BeforeInv`, `CurrentInv`: so what had ended before the request is counted |
| `TranslationProofs!TranslationTypes` | `TypeOK` | `SeamInv`: each translator's state is what it has said |
| `ArgumentsArrive` | `ArgumentsArriveOnce` | `CallsInv`, `PlacesInv`, `StageInv`: where the announcement and the arguments of each call are among the chunks, in each stage of the answer |
| `ClosedOnce` | `EndsOnce` | the same, and `Told` |
| `SpeaksTheProtocol` | `ResponsesProtocol` | `Told`: the state of the client, folded over the events so far, is what the translator's own state says it is |
| `StreamedWhole` | `StreamedIsWhole` | `AnswerInv`: what each client has of the stream is at any time the upstream's message so far, but for what is still open: a chat client's text and closed calls (`ReadInv`), the one item a Responses client is being sent (`HearInv`); the parts of a block are the document they stand for (`BlocksInv`) |
| `CallsAreAnswered` | `CallsAnswered` | `TurnInv`, and `Settled` over the conversation: each call has its result in the next user message, or is still owed one, or has one among the results gathered so far. With a message between the results `Owing` is what is left of it: a call's result is among those gathered, or in some later message of the user |
| `ConfigCacheProofs!CacheTypes` | `TypeOK` | `TypeInv`: foreign keys hold in `db`, a fill has read what its stage needs (`Filling`), and each handler has a suffix of its own statements to run (`Runs`) |
| `WritesInvalidate` | `StaleIsDeleted` | `StaleInv`: what is stale is covered by a task that deletes it whatever is written meanwhile; `Planned`: each write still to come has the invalidations it needs after it; `NewInv`: an API key still to come is in no row and no cache |

The invariants are needed because the properties are not inductive: `AtMostOneProbe`
says nothing of the key that protects it, `BoundedOvershoot` nothing of the requests that have
passed the check, `NoPermitLeaks` nothing of the servers still to come.

The streams a client reads and the conversations it sends are folds (`FoldLeft`). The library's induction theorems take a
predicate and the provers cannot instantiate them, so `TranslationProofs` and `BudgetProofs` prove induction for sets from
the least counterexample: a set of naturals that is not empty has a minimum (`NatSet`). `FoldSteps` says of any operator
that a fold over one element more is one step more; an instance of it gives that for each of the nine operators folded over
(`Learning`, `Reading`, `Hearing`...). An instance adds to the context of all that follows it, so the module is kept small.

`StreamedWhole` compares a history with a state: what a client makes of all chunks so far, with the blocks. Since a chat
client sees a call's arguments only when its block is closed, and an earlier block may never have been, the invariant says call by call whether
the arguments have been sent. A Responses client is sent one item at a time and the whole output at the end, so the invariant follows the items
closed so far and the one that is open, and says that no response was heard before the last event.

`CallsAreAnswered` follows the two request translators through a history: what came before the answer, the answer, and the
results, in the order the client gives them, with or without a message among them. Its invariant is about the pair that `convert_messages` and
`convert_input_items` carry along, the messages made so far and the tool results not yet flushed: the assistant's calls are owed (`Covered`) until the
results are there, and the flush puts these at the head of the user message that replies. The answer may have any number of calls.

`WritesInvalidate` rests on one idea. A task's reach depends on the rows: the SELECT of a group's sub-keys finds those
it has when it runs. But a write that takes an entry out of the reach of somebody's SELECT changes what the entry should
be too, and is followed by an invalidation of its own (`SureStays`). The one exception is a disabled sub-key, whose
configuration is empty: it leaves the reach of `invalidate_groups_by_server` with nothing else changed, so the
invariant counts on that SELECT for enabled sub-keys only (`Sure`).

Only model-checked: all liveness, which is beyond this prover (`NeverStuckOpen`, `NeverStuckLimited`,
`NeverStuckRpm`, `WaitEnds`, `AnsweredOrHanging`, `PermitsReported`). Every invariant and action property a passing run checks is stated by a theorem, `AtMostOneProbe` as what follows
from `OneProbe` where no probe outlives its permit.

**What is assumed.** Each `ASSUME` is of the constants alone. `BudgetAssumption`: costs, limits and window
lengths are naturals, a window is not empty, and no model is called `total` or `week` (a counter's key is its
model's name behind a prefix of its own in the code). `RowsAssumption`: `None` is no row and no
configuration, and the tables are finite. `PlansAssumption`: the tables a behaviour starts with
have their types and meet their foreign keys and UNIQUE columns; no group has a sub-key's API key; a handler's arguments
are of the types its path and body are parsed to (`Given`); and what a handler generates is new, a random API key of 24
characters or the random UUID of a row (`IsNew`). No constraint of the database spans the API keys of groups and of
sub-keys: that they differ is a matter of chance, as in the code.

**What the proofs changed in the model.** `AdmittedBelowLimit` was false in instances larger than TLC's. A request
can be judged on a counter that lacks a cost, and afterwards the counter is evicted and another request rebuilds it completely, so
that nothing in the state recalls what the first was judged on: hence the history `lossy`. And with a model's limit
below the subscription's, a window start that cannot be read excuses the admission only if the failure is seen in
the same step. `UpdateGroup` set a count-tokens server that does not exist, which the foreign key of
`groups.count_tokens_server_id` refuses (`migrations/008_count_tokens_default_server.sql`). `StaleIsDeleted` was false
for two plans that TLC had not been given: a sub-key's model changed under another group's id, which is what the code
allows and now excuses the entry (`OfOther`), and an API key handed out twice, which the plans now exclude (`IsNew`).

## 5. Where code and comments part

Three runs are expected to fail, and do; each refutes a sentence of the code.

1. **A slow probe is not the only one** (`circuit_long_probe`). `check_access` promises "at
   most one in-flight request acquires the probe permit"; the permit lives 120 s, a request that is not
   streamed may take 600 s by default, and a stream longer.
2. **A retry is not bounded** (`waterfall_retry_hangs`). The default timeout exists "so no path
   is left unbounded by default"; the per-server retry, the signature retry and the
   bodies of errors are awaited without it.
3. **An empty stream at the last server is logged as a 200** (`waterfall_empty_stream`). "Empty stream or error -
   treat as connection error" holds for the branch with a timer only.

Seen while modelling, without a run of their own.

Circuits and limits:
- a probe that outlived its permit can report success after another trip, and delete
  the half-open marker of the new cooldown: the circuit then closes without a probe;
- `cb:succ` survives a trip by an ordinary request, so "consecutive" successes need not be;
- two EXISTS are not one: a request can find `open` gone just before another request trips the
  circuit, find `half` there just after, and probe while the circuit is open;
- an EXPIRE that is lost on the increment that reaches the RPM limit is followed by no other, and
  nobody sends one later: `NeverStuckRpm` is checked for a Redis that answers;
- the EXPIRE on every increment slides the RPM window, so a slow, steady client is limited too.

The waterfall:
- "No server keys configured" is also the answer when servers were skipped for their hours, tokens, models or circuits;
- a signature retry that answers 200 is a success from its headers on: the probe's success and the uptime are recorded before the
  body is read, and if the body then stalls the client gets a 504 without an entry in the proxy log (`proxy.rs:2951-2971`, `4350-4369`);
  `VerdictFits` and `FailuresAreLogged` state both exceptions;
- a signature retry that succeeds leaves no entry of the failure before it, as any other failover does;
- a signature retry that ends in a failover status releases the probe but records no error, unlike the same status in the first attempt.

Budgets:
- `rebuild_total_cost` sets the counter to a sum it read earlier: what is charged in between is
  overwritten; the next rebuild, after the counter's expiry, finds it in the log;
- a crash between the SET NX of `ensure_activated` and its UPDATE leaves the row without an
  activation date until the key expires: the subscription is served meanwhile, and does not age;
- a client that hangs up before the end of a stream is served and not charged;
- an empty list, the answer to a failed query for subscriptions, is cached for 300 s (`subscription.rs:229`).

Caches:
- a handler that read the database before a change may write the cache after the invalidation: the
  old row is then served for a TTL;
- the default settings, the answer to a failed query, are cached without an expiry (`proxy.rs:852-897`);
- two PUTs of the settings that overlap lose one of the changes;
- the two handlers of a sub-key's models invalidate the group of the path and never check that the sub-key is one of it:
  with another group's id the write succeeds and the sub-key's entry stays (`group_key_allowed_models.rs:57-144`);
- `update_model` invalidates no group, a bulk assignment of a server that fails midway none of the
  rows it has written, and a group whose last allowed model is removed allows every model.

Translation:
- the synthetic tool call that stands for a `json_schema` answer is undone by the non-streamed
  answers (`chat.rs:465-469`) and passed on as a tool call by the streamed ones;
- `finish` says "Flush any buffered partial event" and drops an event that lacks its blank
  line (`chat_sse.rs:89`, `responses_sse.rs:113`);
- a system message between two tool results separates them in a chat request (`chat.rs:254-256`) and does
  not in a responses request; a responses request that opens with a tool result gets no leading user turn;
- in a chat stream an error strands the arguments of open calls, and an upstream that sent `message_stop` after it
  would make two `[DONE]`; a responses stream without `message_start` ends without a word.

Shutdown: only ctrl-c drains the log buffer, a SIGTERM does not (`main.rs:229`).

## 6. Not modelled, and the plan

The data is abstracted throughout: model names, prices and headers are not modelled, nor are
latency, TTFT and uptime records. The Redis keys of different servers, groups and models
are disjoint, so one circuit and one limit stand for all. In `Budget`, `calculate_cost` is the
constant `Cost`, weeks have equal lengths (a change to summer time makes one an hour
shorter), bonus subscriptions are left out (they are tracked and never charged), and
keys whose TTL outlives their use do not expire. In `Translation`, a request is its sequence of roles and tool
calls: images and other parts of contents, `tools`, `tool_choice`,
`response_format`, thinking budgets, rejected parameters, usage numbers and the shape of errors are left out.

Every module of the plan is there: circuit breaker, rate limiter, waterfall, pace, budgets with the log
buffer, the configuration cache, the translation of requests and streams, and the abstract
specifications of the first four and of the log. What would come next:

1. the composition of `Waterfall` and `CircuitBreaker` through `PermitUse`, so that a hanging
   retry is seen to hold a circuit half-open; each is proved against `PermitUse` or its own promise today;
2. `SseUsageParser`, to say which tokens of a stream are charged when it breaks off (today a stream
   is charged or is not);
3. in `Translation`, the other parts of a request: images, `tools` and `tool_choice`, and the error envelopes.

Not planned: the Telegram notifier (its cooldown is one SET NX EX), partitions (date arithmetic run
once a day), the key parser and the data model (no state), the reports of the admin and public routes (queries), and the
frontend. The admin routes are modelled where they write a row that is cached.
