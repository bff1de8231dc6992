---------------------------- MODULE BudgetProofs ----------------------------
(***************************************************************************)
(* Theorems about Budget, for any requests, subscriptions, limits, costs   *)
(* and faults; first those about LogBuffer, the writer its usage entries   *)
(* go through, for any set of entries, any capacity and any batch size.    *)
(***************************************************************************)
EXTENDS Budget, TLAPS, FiniteSetTheorems, WellFoundedInduction

(***************************************************************************)
(* Sequences without repetition                                            *)
(***************************************************************************)

\* What Append does to the elements.
LEMMA Appended ==
    ASSUME NEW S, NEW s \in Seq(S), NEW e \in S
    PROVE  /\ Append(s, e) \in Seq(S)
           /\ Len(Append(s, e)) = Len(s) + 1
           /\ Elements(Append(s, e)) = Elements(s) \cup {e}
           /\ Distinct(s) /\ e \notin Elements(s) => Distinct(Append(s, e))
<1>1. /\ Append(s, e) \in Seq(S)
      /\ Len(Append(s, e)) = Len(s) + 1
      /\ \A i \in 1..Len(s) : Append(s, e)[i] = s[i]
      /\ Append(s, e)[Len(s) + 1] = e
      /\ Len(s) \in Nat
  OBVIOUS
<1>2. 1..(Len(s) + 1) = 1..Len(s) \cup {Len(s) + 1}
  BY <1>1
<1>3. Elements(Append(s, e)) = Elements(s) \cup {e}
  BY <1>1, <1>2 DEF Elements
<1>4. Distinct(s) /\ e \notin Elements(s) => Distinct(Append(s, e))
  BY <1>1, <1>2 DEF Elements, Distinct
<1> QED BY <1>1, <1>3, <1>4

\* What Head and Tail do to them.
LEMMA HeadTail ==
    ASSUME NEW S, NEW s \in Seq(S), s # <<>>
    PROVE  /\ Head(s) \in S /\ Tail(s) \in Seq(S)
           /\ Len(Tail(s)) <= Len(s)
           /\ Elements(s) = Elements(Tail(s)) \cup {Head(s)}
           /\ Distinct(s) => Distinct(Tail(s)) /\ Head(s) \notin Elements(Tail(s))
<1>1. /\ Head(s) = s[1] /\ Head(s) \in S /\ Tail(s) \in Seq(S)
      /\ Len(s) \in Nat /\ Len(s) > 0 /\ Len(Tail(s)) = Len(s) - 1
      /\ \A i \in 1..Len(s) - 1 : Tail(s)[i] = s[i + 1]
  OBVIOUS
<1>2. \A i \in 1..Len(s) : i = 1 \/ (i - 1 \in 1..Len(s) - 1 /\ Tail(s)[i - 1] = s[i])
  BY <1>1
<1>3. Elements(s) = Elements(Tail(s)) \cup {Head(s)}
  BY <1>1, <1>2 DEF Elements
<1>4. Distinct(s) => Distinct(Tail(s)) /\ Head(s) \notin Elements(Tail(s))
  BY <1>1 DEF Elements, Distinct
<1> QED BY <1>1, <1>3, <1>4

\* The empty sequence.
LEMMA NoElements == Elements(<<>>) = {} /\ Distinct(<<>>) /\ Len(<<>>) = 0
  BY DEF Elements, Distinct

\* The elements of a typed sequence.
LEMMA ElementsIn == ASSUME NEW S, NEW s \in Seq(S) PROVE Elements(s) \subseteq S
  BY DEF Elements

(***************************************************************************)
(* Types                                                                   *)
(***************************************************************************)

\* The flush task receives only while there is room in its batch, and writes
\* its last batch only when nothing else can come.
FlusherInv ==
    /\ flusher = "receiving" => Len(batch) < BatchSize
    /\ flusher \in {"writingLast", "ended"} => senders = {} /\ chan = <<>>
    /\ flusher = "ended" => batch = <<>>

LogInv == LogTypeOK /\ FlusherInv

\* The steps of the two sides, in the form every proof below uses.
LEMMA Cases ==
    ASSUME [LogNext]_logVars
    PROVE  \/ \E e \in Entries : Log(e)
           \/ \E e \in Entries : LeaveUnlogged(e)
           \/ Shutdown
           \/ Receive
           \/ TickFlush
           \/ Closed
           \/ FlushBatch
           \/ FlushFails
           \/ Kill
           \/ UNCHANGED logVars
  BY DEF LogNext, FlushStep

\* Initially nothing has been sent.
LEMMA InvInit == LogInit => LogInv
  BY BufferAssumption, NoElements DEF LogInit, LogInv, LogTypeOK, FlusherInv

\* Every step of a sender and of the flush task keeps the invariant.
LEMMA InvStep == LogInv /\ [LogNext]_logVars => LogInv'
<1> SUFFICES ASSUME LogInv, [LogNext]_logVars PROVE LogInv'
  OBVIOUS
<1> USE BufferAssumption DEF LogInv, LogTypeOK, FlusherInv
<1>1. ASSUME NEW e \in Entries, Log(e) PROVE LogInv'
  BY <1>1, Appended DEF Log, TrySend, Release
<1>2. ASSUME NEW e \in Entries, LeaveUnlogged(e) PROVE LogInv'
  BY <1>2 DEF LeaveUnlogged, Release
<1>3. CASE Shutdown
  BY <1>3 DEF Shutdown, Release
<1>4. CASE Receive
  <2>1. Head(chan) \in Entries /\ chan' \in Seq(Entries) /\ Len(chan') <= Len(chan)
    BY <1>4, HeadTail DEF Receive
  <2>2. batch' \in Seq(Entries) /\ Len(batch') = Len(batch) + 1
    BY <1>4, <2>1, Appended DEF Receive
  <2> QED BY <1>4, <2>1, <2>2 DEF Receive
<1>5. CASE TickFlush
  BY <1>5 DEF TickFlush
<1>6. CASE Closed
  BY <1>6 DEF Closed
<1>7. CASE FlushBatch
  BY <1>7, ElementsIn, NoElements DEF FlushBatch, FlushReturns
<1>8. CASE FlushFails
  BY <1>8, ElementsIn, NoElements DEF FlushFails, FlushReturns
<1>9. CASE Kill
  BY <1>9, NoElements DEF Kill
<1>10. CASE UNCHANGED logVars
  BY <1>10 DEF logVars
<1> QED BY Cases, <1>1, <1>2, <1>3, <1>4, <1>5, <1>6, <1>7, <1>8, <1>9, <1>10

\* The writer's variables have their types: neither the channel nor a batch
\* ever holds more than it should.
THEOREM BufferTypes == LogSpec => []LogTypeOK
<1>1. LogInv => LogTypeOK
  BY DEF LogInv
<1> QED BY <1>1, InvInit, InvStep, PTL DEF LogSpec

\* A flush task that ended has emptied the channel and its batch, and no task
\* is left that could send: shutdown loses nothing the channel accepted but
\* what an INSERT refused.
THEOREM ShutdownDrains == LogSpec => []DrainedAtEnd
<1>1. LogInv => DrainedAtEnd
  BY DEF LogInv, FlusherInv, DrainedAtEnd
<1> QED BY <1>1, InvInit, InvStep, PTL DEF LogSpec

(***************************************************************************)
(* Every entry in one place                                                *)
(***************************************************************************)

\* What the places hold, as sets: each step moves entries between them.
LEMMA AccountedStep == LogInv /\ Accounted /\ [LogNext]_logVars => Accounted'
<1> SUFFICES ASSUME LogInv, Accounted, [LogNext]_logVars PROVE Accounted'
  OBVIOUS
<1> DEFINE waiting == Elements(chan)
           held    == Elements(batch)
<1>0. chan \in Seq(Entries) /\ batch \in Seq(Entries)
  BY DEF LogInv, LogTypeOK
<1>1. ASSUME NEW e \in Entries, Log(e) PROVE Accounted'
  <2>1. e \in senders /\ senders' = senders \ {e} /\ e \notin waiting /\ e \notin held
        /\ e \notin stored /\ e \notin refused /\ e \notin failed
    BY <1>1 DEF Log, Release, Accounted, Disjoint
  <2>2. UNCHANGED <<batch, stored, failed>>
    BY <1>1 DEF Log, TrySend
  <2>3. \/ chan' = Append(chan, e) /\ UNCHANGED refused
        \/ refused' = refused \cup {e} /\ UNCHANGED chan
    BY <1>1 DEF Log, TrySend
  <2>4. CASE chan' = Append(chan, e) /\ UNCHANGED refused
    <3>1. Elements(chan') = waiting \cup {e} /\ Distinct(chan')
      BY <1>0, <2>1, <2>4, Appended DEF Accounted
    <3> HIDE DEF waiting, held
    <3> QED BY <2>1, <2>2, <2>4, <3>1 DEF Accounted, Disjoint, waiting, held
  <2>5. CASE refused' = refused \cup {e} /\ UNCHANGED chan
    BY <2>1, <2>2, <2>5 DEF Accounted, Disjoint
  <2> QED BY <2>3, <2>4, <2>5
<1>2. ASSUME NEW e \in Entries, LeaveUnlogged(e) PROVE Accounted'
  BY <1>2 DEF LeaveUnlogged, Release, Accounted, Disjoint
<1>3. CASE Shutdown
  BY <1>3 DEF Shutdown, Release, Accounted, Disjoint
<1>4. CASE Receive
  <2>1. /\ waiting = Elements(chan') \cup {Head(chan)} /\ Head(chan) \in Entries
        /\ Distinct(chan') /\ Head(chan) \notin Elements(chan')
    BY <1>0, <1>4, HeadTail DEF Receive, Accounted
  <2>2. Elements(batch') = held \cup {Head(chan)} /\ Distinct(batch')
    BY <1>0, <1>4, <2>1, Appended DEF Receive, Accounted, Disjoint
  <2>3. UNCHANGED <<senders, stored, refused, failed>>
    BY <1>4 DEF Receive
  <2> QED BY <2>1, <2>2, <2>3 DEF Accounted, Disjoint
<1>5. CASE TickFlush
  BY <1>5 DEF TickFlush, Accounted, Disjoint
<1>6. CASE Closed
  BY <1>6 DEF Closed, Accounted, Disjoint
<1>7. CASE FlushBatch
  BY <1>7, NoElements DEF FlushBatch, FlushReturns, Accounted, Disjoint
<1>8. CASE FlushFails
  BY <1>8, NoElements DEF FlushFails, FlushReturns, Accounted, Disjoint
<1>9. CASE Kill
  BY <1>9, NoElements DEF Kill, Accounted, Disjoint
<1>10. CASE UNCHANGED logVars
  BY <1>10 DEF logVars, Accounted, Disjoint
<1> QED BY Cases, <1>1, <1>2, <1>3, <1>4, <1>5, <1>6, <1>7, <1>8, <1>9, <1>10

\* Nothing is written twice: an entry is still with its task, waits in the
\* channel, is in the batch, is stored, was refused by a full channel or was in
\* a batch whose INSERT failed, and in one of these places only.
THEOREM EntriesAccounted == LogSpec => []Accounted
<1>1. LogInit => Accounted
  BY NoElements DEF LogInit, Accounted, Disjoint
<1> QED BY <1>1, InvInit, InvStep, AccountedStep, PTL DEF LogSpec

(***************************************************************************)
(* The usage entries                                                       *)
(***************************************************************************)

\* What a step of a request does to the writer: it sends the request's entry,
\* lets it go without one, or leaves the writer alone.
LEMMA RequestLogs ==
    ASSUME NEW r \in Requests, Step(r)
    PROVE  Log(r) \/ LeaveUnlogged(r) \/ UNCHANGED logVars
<1>1. CASE Load(r) \/ Consider(r) \/ Pick(r) \/ GetCost(r) \/ SumCost(r) \/ Rebuild(r)
  BY <1>1 DEF Load, Consider, Pick, GetCost, SumCost, Rebuild
<1>2. CASE Answer(r) \/ Activate(r) \/ Stamp(r) \/ AddWeekly(r) \/ OpenWindow(r)
  BY <1>2 DEF Answer, Activate, Stamp, AddWeekly, OpenWindow
<1>3. CASE GetWindow(r) \/ AddTotal(r) \/ AddModel(r)
  BY <1>3 DEF GetWindow, AddTotal, AddModel
<1>4. CASE AnswerUnbilled(r) \/ LogUsage(r) \/ HangUp(r) \/ EndBlocked(r) \/ NeverComes(r)
  BY <1>4 DEF AnswerUnbilled, LogUsage, HangUp, EndBlocked, NeverComes
<1> QED BY <1>1, <1>2, <1>3, <1>4 DEF Step

\* Every step of the budget is a step of the writer or leaves it alone.
LEMMA WriterStep == [Next]_vars => [LogNext]_logVars
<1> SUFFICES ASSUME [Next]_vars PROVE [LogNext]_logVars
  OBVIOUS
<1>1. ASSUME NEW r \in Requests, Step(r) PROVE [LogNext]_logVars
  BY <1>1, RequestLogs DEF LogNext, Requests
<1>2. ASSUME NEW m \in marks, RunMark(m[1], m[2]) PROVE [LogNext]_logVars
  BY <1>2 DEF RunMark
<1>3. CASE ListExpires \/ Tick \/ DropPartition
  BY <1>3 DEF ListExpires, Tick, DropPartition
<1>4. ASSUME NEW k \in Keys, Evict(k) PROVE [LogNext]_logVars
  BY <1>4 DEF Evict
<1>5. CASE StopListening
  BY <1>5 DEF StopListening, LogNext
<1>6. CASE Flush
  BY <1>6 DEF Flush, LogNext
<1>7. CASE UNCHANGED vars
  BY <1>7 DEF vars
<1> QED BY <1>1, <1>2, <1>3, <1>4, <1>5, <1>6, <1>7 DEF Next

\* The usage entries of the charged requests go through a log writer: Budget
\* implements LogBuffer.
THEOREM UsageIsLogged == Spec => LogSpec
<1>1. Init => LogInit
  BY DEF Init
<1> QED BY <1>1, WriterStep, PTL DEF Spec, LogSpec

\* So every usage entry is in one place only, and is inserted at most once.
THEOREM UsageAccounted == Spec => []Accounted
  BY UsageIsLogged, EntriesAccounted, PTL

\* And a writer that ended has drained what the requests sent it.
THEOREM UsageDrained == Spec => []DrainedAtEnd
  BY UsageIsLogged, ShutdownDrains, PTL

(***************************************************************************)
(* Costs counted once                                                      *)
(***************************************************************************)

\* Where a request is once it has been through the INCRBYFLOAT of a scope.
Past(sc) ==
    CASE sc = "week"  -> {"window", "windowGet", "total", "model", "log", "logUnpriced", "done"}
      [] sc = "total" -> {"model", "log", "logUnpriced", "done"}
      [] OTHER        -> {"log", "logUnpriced", "done"}

\* Every entry the writer holds or has stored.
Entered == Elements(chan) \cup Elements(batch) \cup stored

\* A request enters the table only after it has added its cost to its last
\* counter, so no sum holds a cost that is still to be added; and a counter
\* holds a cost only when its request is past the addition.
CountInv ==
    /\ pc = [r \in Requests |-> pc[r]]
    /\ key = [r \in Requests |-> key[r]]
    /\ summed = [r \in Requests |-> summed[r]]
    /\ counter = [k \in Keys |-> counter[k]]
    /\ \A q \in Entered : q \in Requests /\ pc[q] = "done"
    /\ \A r \in Requests : \A q \in summed[r] : q \in Requests /\ pc[q] = "done"
    /\ \A r \in Requests : pc[r] = "total" => key[r][2] = "total"
    /\ \A k \in Keys : counter[k] # None =>
          \A r \in Requests : \/ counter[k][r] = 0
                              \/ counter[k][r] = 1 /\ pc[r] \in Past(k[2])

\* A step of a request that touches neither a counter nor an entry, and does
\* not go back.
LEMMA Moves ==
    ASSUME CountInv, NEW r \in Requests, NEW p, GoTo(r, p),
           pc[r] # "done",
           \A sc : pc[r] \in Past(sc) => p \in Past(sc),
           p = "total" => key'[r][2] = "total",
           key' = [q \in Requests |-> key'[q]],
           \A q \in Requests : q # r => key'[q] = key[q],
           summed' = [q \in Requests |-> summed'[q]],
           \A q \in Requests : summed'[q] = summed[q] \/ summed'[q] \subseteq Entered,
           Entered' \subseteq Entered \cup (IF p = "done" THEN {r} ELSE {}),
           UNCHANGED counter
    PROVE  CountInv'
<1>1. pc' = [q \in Requests |-> pc'[q]] /\ pc'[r] = p
      /\ \A q \in Requests : q # r => pc'[q] = pc[q]
  BY DEF GoTo, CountInv
<1>2. \A q \in Requests : pc[q] = "done" => pc'[q] = "done"
  BY <1>1
<1>3. \A q \in Entered' : q \in Requests /\ pc'[q] = "done"
  BY <1>1, <1>2 DEF CountInv
<1>4. \A s \in Requests : \A q \in summed'[s] : q \in Requests /\ pc'[q] = "done"
  BY <1>2 DEF CountInv
<1>5. \A q \in Requests : pc'[q] = "total" => key'[q][2] = "total"
  BY <1>1 DEF CountInv
<1>6. \A q \in Requests : \A sc : pc[q] \in Past(sc) => pc'[q] \in Past(sc)
  BY <1>1
<1>7. \A k \in Keys : counter[k] # None =>
          \A q \in Requests : \/ counter[k][q] = 0
                              \/ counter[k][q] = 1 /\ pc'[q] \in Past(k[2])
  BY <1>6 DEF CountInv
<1> QED BY <1>1, <1>3, <1>4, <1>5, <1>7 DEF CountInv

\* Where a request is not past any addition.
LEMMA NotPast ==
    ASSUME NEW p \in {"new", "consider", "pick", "get", "sum", "set", "serve", "blocked",
                      "activate", "stamp", "stampAlone", "week"}
    PROVE  \A sc : p \notin Past(sc)
  BY DEF Past

\* The scopes of a request's three additions.
LEMMA Scopes3 ==
    ASSUME NEW r \in Requests
    PROVE  /\ Past("week") = {"window", "windowGet", "total", "model", "log", "logUnpriced", "done"}
           /\ Past("total") = {"model", "log", "logUnpriced", "done"}
           /\ Past(ModelOf[r]) = {"log", "logUnpriced", "done"}
           /\ \A sc : {"log", "logUnpriced", "done"} \subseteq Past(sc)
           /\ \A sc : Past(sc) \subseteq Past("week")
           /\ \A sc : sc # "week" => Past(sc) \subseteq Past("total")
           /\ \A sc : sc \notin {"week", "total"} => Past(sc) \subseteq {"log", "logUnpriced", "done"}
<1>1. ModelOf[r] # "week" /\ ModelOf[r] # "total"
  BY BudgetAssumption
<1> QED BY <1>1 DEF Past

\* An addition to a counter the request is not past.
LEMMA Adds ==
    ASSUME CountInv, NEW r \in Requests, NEW k, NEW p, Add(r, k), GoTo(r, p),
           pc[r] # "done", pc[r] \notin Past(k[2]), p \in Past(k[2]),
           \A sc : pc[r] \in Past(sc) => p \in Past(sc),
           p = "total" => key'[r][2] = "total",
           key' = [q \in Requests |-> key'[q]],
           \A q \in Requests : q # r => key'[q] = key[q],
           UNCHANGED <<summed, logVars>>
    PROVE  CountInv'
<1>1. pc' = [q \in Requests |-> pc'[q]] /\ pc'[r] = p
      /\ \A q \in Requests : q # r => pc'[q] = pc[q]
  BY DEF GoTo, CountInv
<1>2. \A q \in Requests : pc[q] = "done" => pc'[q] = "done"
  BY <1>1
<1>3. Entered' = Entered
  BY DEF logVars, Entered
<1>4. \A q \in Requests : pc'[q] = "total" => key'[q][2] = "total"
  BY <1>1 DEF CountInv
<1>5. \A q \in Requests : \A sc : pc[q] \in Past(sc) => pc'[q] \in Past(sc)
  BY <1>1
<1>6. CASE UNCHANGED counter
  BY <1>1, <1>2, <1>3, <1>4, <1>5, <1>6, ZenonT(40) DEF CountInv
<1>7. ASSUME NEW h, \A q \in Requests : h[q] = IF counter[k] = None THEN 0 ELSE counter[k][q],
             counter' = [counter EXCEPT ![k] =
                            [q \in Requests |-> h[q] + (IF q = r THEN 1 ELSE 0)]]
      PROVE CountInv'
  <2>1. counter' = [j \in Keys |-> counter'[j]]
        /\ \A j \in Keys : j # k => counter'[j] = counter[j]
    BY <1>7 DEF CountInv
  <2>2. ASSUME k \in Keys, NEW q \in Requests
        PROVE  counter'[k][q] = 0 \/ (counter'[k][q] = 1 /\ pc'[q] \in Past(k[2]))
    <3>1. counter'[k][q] = h[q] + (IF q = r THEN 1 ELSE 0)
      BY <1>7, <2>2 DEF CountInv
    <3>2. h[q] = 0 \/ (h[q] = 1 /\ pc[q] \in Past(k[2]))
      BY <1>7, <2>2 DEF CountInv
    <3> QED BY <3>1, <3>2, <1>1, <1>5
  <2>3. \A j \in Keys : counter'[j] # None =>
          \A q \in Requests : \/ counter'[j][q] = 0
                              \/ counter'[j][q] = 1 /\ pc'[q] \in Past(j[2])
    BY <2>1, <2>2, <1>5 DEF CountInv
  <2> QED BY <1>1, <1>2, <1>3, <1>4, <2>1, <2>3, ZenonT(40) DEF CountInv
<1>8. \/ UNCHANGED counter
      \/ counter' = [counter EXCEPT ![k] =
            [q \in Requests |-> (IF counter[k] = None THEN 0 ELSE counter[k][q])
                                + (IF q = r THEN 1 ELSE 0)]]
  BY DEF Add, Try
<1> DEFINE held == [q \in Requests |-> IF counter[k] = None THEN 0 ELSE counter[k][q]]
<1>9. CASE counter' = [counter EXCEPT ![k] =
            [q \in Requests |-> (IF counter[k] = None THEN 0 ELSE counter[k][q])
                                + (IF q = r THEN 1 ELSE 0)]]
  <2>1. \A q \in Requests : held[q] = IF counter[k] = None THEN 0 ELSE counter[k][q]
    OBVIOUS
  <2>2. counter' = [counter EXCEPT ![k] =
                       [q \in Requests |-> held[q] + (IF q = r THEN 1 ELSE 0)]]
    BY <1>9
  <2> HIDE DEF held
  <2> QED BY <1>7, <2>1, <2>2
<1> QED BY <1>6, <1>8, <1>9

\* The writer's own steps move entries on, and bring none in.
LEMMA WriterMoves ==
    ASSUME LogInv, FlushStep \/ Kill
    PROVE  Entered' \subseteq Entered
<1>0. chan \in Seq(Entries) /\ batch \in Seq(Entries)
  BY DEF LogInv, LogTypeOK
<1>1. CASE Receive
  <2>1. Elements(chan) = Elements(chan') \cup {Head(chan)} /\ Head(chan) \in Entries
    BY <1>0, <1>1, HeadTail DEF Receive
  <2>2. Elements(batch') = Elements(batch) \cup {Head(chan)}
    BY <1>0, <1>1, <2>1, Appended DEF Receive
  <2> QED BY <1>1, <2>1, <2>2 DEF Receive, Entered
<1>2. CASE TickFlush \/ Closed
  BY <1>2 DEF TickFlush, Closed, Entered
<1>3. CASE FlushBatch \/ FlushFails
  BY <1>3, NoElements DEF FlushBatch, FlushFails, FlushReturns, Entered
<1>4. CASE Kill
  BY <1>4, NoElements DEF Kill, Entered
<1> QED BY <1>1, <1>2, <1>3, <1>4 DEF FlushStep

\* A request that ends brings in its own entry at most.
LEMMA EndMoves ==
    ASSUME LogInv, NEW r \in Requests, Log(r) \/ LeaveUnlogged(r)
    PROVE  Entered' \subseteq Entered \cup {r}
<1>0. chan \in Seq(Entries) /\ r \in Entries
  BY DEF LogInv, LogTypeOK, Requests
<1>1. CASE LeaveUnlogged(r)
  BY <1>1 DEF LeaveUnlogged, Entered
<1>2. CASE Log(r)
  <2>1. UNCHANGED <<batch, stored>> /\ (chan' = Append(chan, r) \/ UNCHANGED chan)
    BY <1>2 DEF Log, TrySend
  <2>2. Elements(chan') \subseteq Elements(chan) \cup {r}
    <3>1. CASE chan' = Append(chan, r)
      BY <1>0, <3>1, Appended
    <3>2. CASE chan' = chan
      BY <3>2
    <3> QED BY <2>1, <3>1, <3>2
  <2> QED BY <2>1, <2>2 DEF Entered
<1> QED BY <1>1, <1>2

\* The steps of a request that is checked.
LEMMA CheckSteps ==
    ASSUME LogInv, CountInv, NEW r \in Requests,
           Load(r) \/ Consider(r) \/ Pick(r) \/ GetCost(r) \/ SumCost(r)
    PROVE  CountInv'
<1>1. /\ Entered' = Entered
      /\ UNCHANGED counter
      /\ pc[r] \in {"new", "consider", "pick", "get", "sum"}
  BY DEF Load, Consider, Pick, GetCost, SumCost, logVars, costVars, Entered
<1>2. \E p : GoTo(r, p) /\ p # "total"
  <2>1. CASE Consider(r)
    <3>1. Skip(r) \/ GoTo(r, "pick")
      BY <2>1 DEF Consider
    <3> QED BY <3>1 DEF Skip
  <2>2. CASE Load(r) \/ SumCost(r)
    BY <2>2 DEF Load, SumCost
  <2>3. Pass(r) => \E p : GoTo(r, p) /\ p # "total"
    BY DEF Pass
  <2>4. Skip(r) => \E p : GoTo(r, p) /\ p # "total"
    BY DEF Skip
  <2>5. ASSUME NEW amount, Judge(r, amount) PROVE Pass(r) \/ Skip(r)
    BY <2>5 DEF Judge
  <2>6. CASE Pick(r)
    <3>1. Skip(r) \/ Pass(r) \/ Judge(r, 0) \/ GoTo(r, "get")
      BY <2>6 DEF Pick
    <3> QED BY <2>3, <2>4, <2>5, <3>1
  <2>7. CASE GetCost(r)
    <3>1. Judge(r, Amount(counter[key[r]])) \/ GoTo(r, "sum")
      BY <2>7 DEF GetCost
    <3> QED BY <2>3, <2>4, <2>5, <3>1
  <2> QED BY <2>1, <2>2, <2>6, <2>7
<1>3. /\ key' = [q \in Requests |-> key'[q]]
      /\ \A q \in Requests : q # r => key'[q] = key[q]
  BY DEF Load, Consider, Pick, GetCost, SumCost, CountInv
<1>4. /\ summed' = [q \in Requests |-> summed'[q]]
      /\ \A q \in Requests : summed'[q] = summed[q] \/ summed'[q] \subseteq Entered
  BY DEF Load, Consider, Pick, GetCost, SumCost, CountInv, Try, Entered
<1>5. \A sc : pc[r] \notin Past(sc)
  BY <1>1, NotPast
<1> QED BY <1>1, <1>2, <1>3, <1>4, <1>5, Moves

\* A rebuild writes the costs of entries it has summed: all of them ended.
LEMMA RebuildStep ==
    ASSUME CountInv, NEW r \in Requests, Rebuild(r) PROVE CountInv'
<1>1. /\ Entered' = Entered
      /\ pc[r] = "set"
      /\ UNCHANGED key
      /\ summed' = [summed EXCEPT ![r] = {}]
  BY DEF Rebuild, logVars, Entered
<1>2. PICK p : GoTo(r, p) /\ p # "total"
  BY DEF Rebuild, Judge, Skip, Pass
<1>3. /\ pc' = [q \in Requests |-> pc'[q]] /\ pc'[r] = p
      /\ \A q \in Requests : q # r => pc'[q] = pc[q]
  BY <1>2 DEF GoTo, CountInv
<1>4. \A q \in Requests : pc[q] = "done" => pc'[q] = "done"
  BY <1>1, <1>3
<1>5. \A q \in Requests : \A sc : pc[q] \in Past(sc) => pc'[q] \in Past(sc)
  BY <1>1, <1>3, NotPast
<1>6. /\ summed' = [q \in Requests |-> summed'[q]]
      /\ \A s \in Requests : \A q \in summed'[s] : q \in Requests /\ pc'[q] = "done"
  BY <1>1, <1>4 DEF CountInv
<1>7. /\ counter' = [k \in Keys |-> counter'[k]]
      /\ \A k \in Keys : counter'[k] = counter[k]
            \/ counter'[k] = [q \in Requests |-> IF q \in summed[r] THEN 1 ELSE 0]
  BY DEF Rebuild, Try, CountInv
<1>8. \A q \in Requests : q \in summed[r] => \A sc : pc'[q] \in Past(sc)
  BY <1>4, Scopes3 DEF CountInv
<1>9. ASSUME NEW k \in Keys, counter'[k] # None, NEW q \in Requests
      PROVE  \/ counter'[k][q] = 0
             \/ counter'[k][q] = 1 /\ pc'[q] \in Past(k[2])
  <2>1. CASE counter'[k] = counter[k]
    BY <1>5, <1>9, <2>1 DEF CountInv
  <2>2. CASE counter'[k] = [s \in Requests |-> IF s \in summed[r] THEN 1 ELSE 0]
    BY <1>8, <2>2
  <2> QED BY <1>7, <2>1, <2>2
<1>10. \A q \in Entered' : q \in Requests /\ pc'[q] = "done"
  BY <1>1, <1>4 DEF CountInv
<1>11. /\ key' = [q \in Requests |-> key'[q]]
       /\ \A q \in Requests : pc'[q] = "total" => key'[q][2] = "total"
  BY <1>1, <1>2, <1>3 DEF CountInv
<1> QED BY <1>3, <1>6, <1>7, <1>9, <1>10, <1>11 DEF CountInv

\* The steps of a request that is charged, and add nothing to a counter.
LEMMA ChargeSteps ==
    ASSUME LogInv, CountInv, NEW r \in Requests,
           Answer(r) \/ Activate(r) \/ Stamp(r) \/ OpenWindow(r) \/ GetWindow(r)
    PROVE  CountInv'
<1>1. /\ Entered' = Entered
      /\ UNCHANGED <<counter, summed>>
  BY DEF Answer, Activate, Stamp, OpenWindow, GetWindow, logVars, costVars, Entered
<1>2. CASE Answer(r) \/ Activate(r) \/ Stamp(r)
  <2>1. UNCHANGED key /\ pc[r] \in {"serve", "activate", "stamp", "stampAlone"}
    BY <1>2 DEF Answer, Activate, Stamp
  <2>2. \E p : GoTo(r, p) /\ p # "total"
    BY <1>2 DEF Answer, Activate, Stamp, Try
  <2>3. \A sc : pc[r] \notin Past(sc)
    BY <2>1, NotPast
  <2> QED BY <1>1, <2>1, <2>2, <2>3, Moves DEF CountInv
<1>3. CASE OpenWindow(r)
  <2>1. UNCHANGED key /\ pc[r] = "window" /\ GoTo(r, "windowGet")
    BY <1>3 DEF OpenWindow
  <2>2. \A sc : "window" \in Past(sc) => "windowGet" \in Past(sc)
    BY DEF Past
  <2> QED BY <1>1, <2>1, <2>2, Moves DEF CountInv
<1>4. CASE GetWindow(r)
  <2>1. pc[r] = "windowGet"
    BY <1>4 DEF GetWindow
  <2>2. \A sc : "windowGet" \in Past(sc) => "total" \in Past(sc) /\ "log" \in Past(sc)
    BY DEF Past
  <2>3. CASE GoTo(r, "log") /\ UNCHANGED key
    BY <1>1, <2>1, <2>2, <2>3, Moves DEF CountInv
  <2>4. CASE GoTo(r, "total") /\ key' = [key EXCEPT ![r] =
                                           CounterKey(Sub(r), "total", winStart[Sub(r)])]
    <3>1. /\ key'[r][2] = "total"
          /\ key' = [q \in Requests |-> key'[q]]
          /\ \A q \in Requests : q # r => key'[q] = key[q]
      BY <2>4 DEF CounterKey, CountInv
    <3> QED BY <1>1, <2>1, <2>2, <2>4, <3>1, Moves DEF CountInv
  <2> QED BY <1>4, <2>3, <2>4 DEF GetWindow
<1> QED BY <1>2, <1>3, <1>4

\* update_cost_counters: each addition is to a counter of its own scope.
LEMMA AddSteps ==
    ASSUME CountInv, NEW r \in Requests, AddWeekly(r) \/ AddTotal(r) \/ AddModel(r)
    PROVE  CountInv'
<1>1. CASE AddWeekly(r)
  <2> DEFINE k == CounterKey(Sub(r), "week", 0)
  <2>1. k[2] = "week"
    BY DEF CounterKey
  <2>2. PICK p \in {"window", "total", "log"} : GoTo(r, p)
    BY <1>1 DEF AddWeekly
  <2>3. /\ p = "total" => key'[r][2] = "total"
        /\ key' = [q \in Requests |-> key'[q]]
        /\ \A q \in Requests : q # r => key'[q] = key[q]
    <3>1. CASE (GoTo(r, "window") \/ GoTo(r, "log")) /\ UNCHANGED key
      <4>1. p # "total"
        BY <2>2, <3>1 DEF GoTo, CountInv
      <4> QED BY <3>1, <4>1 DEF CountInv
    <3>2. CASE key' = [key EXCEPT ![r] = CounterKey(Sub(r), "total", 0)]
      BY <3>2 DEF CounterKey, CountInv
    <3> QED BY <1>1, <3>1, <3>2 DEF AddWeekly
  <2>4. /\ pc[r] = "week" /\ \A sc : pc[r] \notin Past(sc)
        /\ p \in Past("week")
        /\ UNCHANGED <<summed, logVars>>
    BY <1>1, <2>2, NotPast, Scopes3 DEF AddWeekly
  <2>5. CASE Add(r, k)
    <3> HIDE DEF k
    <3> QED BY <2>1, <2>2, <2>3, <2>4, <2>5, Adds
  <2>6. CASE UNCHANGED counter
    <3>1. Entered' = Entered
      BY <2>4 DEF logVars, Entered
    <3> QED BY <2>2, <2>3, <2>4, <2>6, <3>1, Moves DEF CountInv
  <2> QED BY <1>1, <2>5, <2>6 DEF AddWeekly
<1>2. CASE AddTotal(r)
  <2>1. /\ pc[r] = "total" /\ key[r][2] = "total" /\ Add(r, key[r]) /\ GoTo(r, "model")
        /\ UNCHANGED <<key, summed, logVars>>
    BY <1>2 DEF AddTotal, CountInv
  <2>2. /\ pc[r] \notin Past("total") /\ "model" \in Past("total")
        /\ \A sc : pc[r] \in Past(sc) => "model" \in Past(sc)
    BY <2>1 DEF Past
  <2> QED BY <2>1, <2>2, Adds DEF CountInv
<1>3. CASE AddModel(r)
  <2> DEFINE k == CounterKey(Sub(r), ModelOf[r], key[r][3])
  <2>1. /\ pc[r] = "model" /\ Add(r, k) /\ GoTo(r, "log")
        /\ UNCHANGED <<key, summed, logVars>>
    BY <1>3 DEF AddModel
  <2>2. k[2] = ModelOf[r]
    BY DEF CounterKey
  <2>3. /\ pc[r] \notin Past(ModelOf[r]) /\ "log" \in Past(ModelOf[r])
        /\ \A sc : pc[r] \in Past(sc) => "log" \in Past(sc)
    BY <2>1, Scopes3
  <2> HIDE DEF k
  <2> QED BY <2>1, <2>2, <2>3, Adds DEF CountInv
<1> QED BY <1>1, <1>2, <1>3

\* The steps that end a request, or let a blocked one go.
LEMMA EndSteps ==
    ASSUME LogInv, CountInv, NEW r \in Requests,
           AnswerUnbilled(r) \/ LogUsage(r) \/ HangUp(r) \/ EndBlocked(r) \/ NeverComes(r)
    PROVE  CountInv'
<1>1. CASE AnswerUnbilled(r) \/ LogUsage(r) \/ HangUp(r)
  <2>1. /\ GoTo(r, "done") /\ pc[r] # "done"
        /\ UNCHANGED <<key, counter>>
        /\ summed' = summed \/ summed' = [summed EXCEPT ![r] = {}]
    BY <1>1 DEF AnswerUnbilled, LogUsage, HangUp, costVars, InCheck, InCharge
  <2>2. Log(r) \/ LeaveUnlogged(r)
    BY <1>1 DEF AnswerUnbilled, LogUsage, HangUp
  <2>3. Entered' \subseteq Entered \cup {r}
    BY <2>2, EndMoves
  <2>4. \A sc : "done" \in Past(sc)
    BY DEF Past
  <2>5. /\ summed' = [q \in Requests |-> summed'[q]]
        /\ \A q \in Requests : summed'[q] = summed[q] \/ summed'[q] \subseteq Entered
    BY <2>1 DEF CountInv
  <2> QED BY <2>1, <2>3, <2>4, <2>5, Moves DEF CountInv
<1>2. CASE EndBlocked(r) \/ NeverComes(r)
  <2>1. UNCHANGED <<pc, key, summed, counter>> /\ LeaveUnlogged(r)
    BY <1>2 DEF EndBlocked, NeverComes, reqVars, costVars
  <2>2. Entered' = Entered
    BY <2>1 DEF LeaveUnlogged, Entered
  <2> QED BY <2>1, <2>2 DEF CountInv
<1> QED BY <1>1, <1>2

\* Every step keeps costs counted once.
LEMMA CountStep == LogInv /\ CountInv /\ [Next]_vars => CountInv'
<1> SUFFICES ASSUME LogInv, CountInv, [Next]_vars PROVE CountInv'
  OBVIOUS
<1>1. ASSUME NEW r \in Requests, Step(r) PROVE CountInv'
  BY <1>1, CheckSteps, RebuildStep, ChargeSteps, AddSteps, EndSteps DEF Step
<1>2. ASSUME UNCHANGED <<pc, key, summed, counter>>, Entered' \subseteq Entered PROVE CountInv'
  BY <1>2 DEF CountInv
<1>3. ASSUME NEW m \in marks, RunMark(m[1], m[2]) PROVE CountInv'
  BY <1>2, <1>3 DEF RunMark, logVars, reqVars, costVars, Entered
<1>4. CASE ListExpires \/ Tick \/ DropPartition
  BY <1>2, <1>4 DEF ListExpires, Tick, DropPartition, logVars, reqVars, costVars, Entered
<1>5. ASSUME NEW k \in Keys, Evict(k) PROVE CountInv'
  <2>1. UNCHANGED <<pc, key, summed>> /\ Entered' = Entered
    BY <1>5 DEF Evict, logVars, reqVars, Entered
  <2>2. /\ counter' = [j \in Keys |-> counter'[j]]
        /\ \A j \in Keys : counter'[j] = counter[j] \/ counter'[j] = None
    BY <1>5 DEF Evict, CountInv
  <2> QED BY <2>1, <2>2 DEF CountInv
<1>6. CASE StopListening
  BY <1>2, <1>6 DEF StopListening, Shutdown, reqVars, costVars, Entered
<1>7. CASE Flush
  BY <1>2, <1>7, WriterMoves DEF Flush, reqVars, costVars
<1>8. CASE UNCHANGED vars
  BY <1>2, <1>8 DEF vars, logVars, reqVars, costVars, Entered
<1> QED BY <1>1, <1>3, <1>4, <1>5, <1>6, <1>7, <1>8 DEF Next

\* A counter never holds a request's cost twice: whatever fails, is lost, is
\* rebuilt meanwhile or is dropped, what an INCRBYFLOAT adds no rebuild has
\* counted before.
THEOREM CostsCountedOnce == Spec => []CountedAtMostOnce
<1>1. Init => CountInv
  BY NoElements DEF Init, LogInit, CountInv, Entered
<1>2. Init => LogInv
  BY InvInit DEF Init
<1>3. LogInv /\ [Next]_vars => LogInv'
  BY InvStep, WriterStep
<1>4. CountInv => CountedAtMostOnce
  BY DEF CountInv, CountedAtMostOnce
<1> QED BY <1>1, <1>2, <1>3, <1>4, CountStep, PTL DEF Spec

(***************************************************************************)
(* Sums of costs                                                           *)
(***************************************************************************)

\* Induction over the natural numbers, with a set for the property.
LEMMA NatSet ==
    ASSUME NEW S, 0 \in S, \A n \in Nat : n \in S => n + 1 \in S
    PROVE  \A n \in Nat : n \in S
<1> SUFFICES ASSUME NEW m \in Nat, m \notin S PROVE FALSE
  OBVIOUS
<1> DEFINE R == OpToRel(<, Nat)
           T == {n \in Nat : n \notin S}
<1>1. IsWellFoundedOn(R, Nat)
  BY NatLessThanWellFounded
<1>2. \A x, y \in Nat : x < y => <<x, y>> \in R
  BY DEF OpToRel
<1>3. T \subseteq Nat /\ T # {}
  OBVIOUS
<1> HIDE DEF R
<1>4. \E x \in T : \A y \in T : ~(<<y, x>> \in R)
  <2> HIDE DEF T
  <2> QED BY <1>1, <1>3, WFMin
<1>5. PICK x \in T : \A y \in T : ~(<<y, x>> \in R)
  BY <1>4
<1>6. x \in Nat /\ x # 0 /\ x \notin S
  OBVIOUS
<1>7. x - 1 \in Nat /\ x - 1 < x /\ x = (x - 1) + 1
  BY <1>6
<1>8. x - 1 \in T
  BY <1>6, <1>7
<1> QED BY <1>5, <1>8, <1>2, <1>6, <1>7

\* Induction over the subsets of a finite set, by taking one element out.
LEMMA SubsetInduction ==
    ASSUME NEW U, IsFiniteSet(U), NEW G,
           {} \in G,
           \A t \in SUBSET U : t # {} /\ (\A x \in t : t \ {x} \in G) => t \in G
    PROVE  \A t \in SUBSET U : t \in G
<1> SUFFICES ASSUME NEW m \in SUBSET U, m \notin G PROVE FALSE
  OBVIOUS
<1> DEFINE N == {n \in Nat : \A t \in SUBSET U : Cardinality(t) = n => t \in G}
<1>1. 0 \in N
  BY FS_EmptySet, FS_Subset
<1>2. ASSUME NEW n \in Nat, n \in N PROVE n + 1 \in N
  <2> SUFFICES ASSUME NEW t \in SUBSET U, Cardinality(t) = n + 1 PROVE t \in G
    OBVIOUS
  <2>1. IsFiniteSet(t) /\ t # {}
    BY FS_EmptySet, FS_Subset
  <2>2. ASSUME NEW x \in t PROVE t \ {x} \in G
    <3>1. Cardinality(t \ {x}) = Cardinality(t) - 1
      BY <2>1, FS_RemoveElement
    <3>2. Cardinality(t \ {x}) = n
      BY <3>1
    <3> QED BY <3>2, <1>2
  <2> QED BY <2>1, <2>2
<1> HIDE DEF N
<1>3. \A n \in Nat : n \in N
  BY <1>1, <1>2, NatSet
<1>4. Cardinality(m) \in Nat
  BY FS_Subset, FS_CardinalityType
<1> QED BY <1>3, <1>4 DEF N

\* The element a sum takes out of a set.
Taken(s) == CHOOSE x \in s : TRUE

\* The function a sum over the subsets of a set is defined by.
Sums(cost, U, g) ==
    g = [s \in SUBSET U |-> IF s = {} THEN 0 ELSE cost[Taken(s)] + g[s \ {Taken(s)}]]

\* There is only one, and there is one.
LEMMA SumsAgree ==
    ASSUME NEW U, IsFiniteSet(U), NEW cost, NEW V, NEW W, V \subseteq U, W \subseteq U,
           NEW g, Sums(cost, V, g), NEW h, Sums(cost, W, h)
    PROVE  \A s \in SUBSET (V \cap W) : g[s] = h[s]
<1> DEFINE G == {s \in SUBSET (V \cap W) : g[s] = h[s]}
<1>1. {} \in G
  BY DEF Sums
<1>2. ASSUME NEW s \in SUBSET (V \cap W), s # {}, \A x \in s : s \ {x} \in G PROVE s \in G
  <2>1. Taken(s) \in s
    BY <1>2 DEF Taken
  <2>2. g[s] = cost[Taken(s)] + g[s \ {Taken(s)}] /\ h[s] = cost[Taken(s)] + h[s \ {Taken(s)}]
    BY <1>2 DEF Sums
  <2> QED BY <1>2, <2>1, <2>2
<1>3. IsFiniteSet(V \cap W)
  BY FS_Subset
<1> HIDE DEF G
<1>4. \A s \in SUBSET (V \cap W) : s # {} /\ (\A x \in s : s \ {x} \in G) => s \in G
  BY <1>2
<1> DEFINE X == V \cap W
<1> HIDE DEF X
<1>5. \A s \in SUBSET X : s \in G
  <2>1. IsFiniteSet(X) /\ \A s \in SUBSET X : s # {} /\ (\A x \in s : s \ {x} \in G) => s \in G
    BY <1>3, <1>4 DEF X
  <2> QED BY <1>1, <2>1, SubsetInduction
<1> QED BY <1>5 DEF G, X

\* It is built one element at a time.
LEMMA SumsExist ==
    ASSUME NEW U, IsFiniteSet(U), NEW cost
    PROVE  \E g : Sums(cost, U, g)
<1> DEFINE G == {V \in SUBSET U : \E g : Sums(cost, V, g)}
<1>1. {} \in G
  <2>1. Sums(cost, {}, [s \in SUBSET {} |-> 0])
    BY DEF Sums
  <2> QED BY <2>1
<1>2. ASSUME NEW V \in SUBSET U, V # {}, \A x \in V : V \ {x} \in G PROVE V \in G
  <2> DEFINE of(x) == CHOOSE g : Sums(cost, V \ {x}, g)
             left(s) == CHOOSE x \in V : x \notin s
             at(s) == of(left(s))[s]
             g == [s \in SUBSET V |->
                      IF s = V THEN cost[Taken(V)] + of(Taken(V))[V \ {Taken(V)}] ELSE at(s)]
  <2>1. \A x \in V : Sums(cost, V \ {x}, of(x))
    BY <1>2
  <2>2. Taken(V) \in V
    BY <1>2 DEF Taken
  <2>3. \A s \in SUBSET V : s # V => left(s) \in V /\ left(s) \notin s
    OBVIOUS
  <2> HIDE DEF of, left
  <2>4. ASSUME NEW x \in V, NEW s \in SUBSET (V \ {x}) PROVE at(s) = of(x)[s]
    <3>1. left(s) \in V /\ s \in SUBSET (V \ {left(s)})
      BY <2>3
    <3>2. V \ {x} \subseteq U /\ V \ {left(s)} \subseteq U
          /\ s \in SUBSET ((V \ {left(s)}) \cap (V \ {x}))
      BY <3>1
    <3>3. Sums(cost, V \ {x}, of(x)) /\ Sums(cost, V \ {left(s)}, of(left(s)))
      BY <2>1, <3>1
    <3>4. \A t \in SUBSET ((V \ {left(s)}) \cap (V \ {x})) : of(left(s))[t] = of(x)[t]
      BY <3>2, <3>3, SumsAgree
    <3> QED BY <3>2, <3>4
  <2>5. ASSUME NEW s \in SUBSET V
        PROVE  g[s] = IF s = {} THEN 0 ELSE cost[Taken(s)] + g[s \ {Taken(s)}]
    <3>1. CASE s = V
      <4>1. V \ {Taken(V)} \in SUBSET V /\ V \ {Taken(V)} # V
        BY <2>2
      <4>2. g[V \ {Taken(V)}] = at(V \ {Taken(V)})
        BY <4>1
      <4>3. at(V \ {Taken(V)}) = of(Taken(V))[V \ {Taken(V)}]
        BY <2>2, <2>4
      <4> QED BY <1>2, <3>1, <4>2, <4>3
    <3>2. CASE s # V
      <4> DEFINE x == left(s)
      <4>1. x \in V /\ s \in SUBSET (V \ {x}) /\ g[s] = of(x)[s]
        BY <2>3, <2>4, <3>2
      <4>2. of(x)[s] = IF s = {} THEN 0 ELSE cost[Taken(s)] + of(x)[s \ {Taken(s)}]
        BY <2>1, <4>1 DEF Sums
      <4>3. s \ {Taken(s)} \in SUBSET (V \ {x}) /\ s \ {Taken(s)} \in SUBSET V /\ s \ {Taken(s)} # V
        BY <4>1
      <4>4. g[s \ {Taken(s)}] = of(x)[s \ {Taken(s)}]
        BY <2>4, <4>1, <4>3
      <4> QED BY <4>1, <4>2, <4>4
    <3> QED BY <3>1, <3>2
  <2>6. Sums(cost, V, g)
    <3>1. g = [s \in SUBSET V |-> g[s]]
      OBVIOUS
    <3> HIDE DEF g
    <3> QED BY <2>5, <3>1 DEF Sums
  <2> HIDE DEF g
  <2> QED BY <2>6
<1> HIDE DEF G
<1>3. \A V \in SUBSET U : V \in G
  BY <1>1, <1>2, SubsetInduction
<1>4. U \in G
  BY <1>3
<1> QED BY <1>4 DEF G

\* So a total is what its definition says.
LEMMA TotalDef ==
    ASSUME NEW U, IsFiniteSet(U), NEW cost
    PROVE  Total(cost, U) = IF U = {} THEN 0 ELSE cost[Taken(U)] + Total(cost, U \ {Taken(U)})
<1> DEFINE f(V) == CHOOSE g : Sums(cost, V, g)
<1>1. \A V \in SUBSET U : IsFiniteSet(V)
  BY FS_Subset
<1>2. \A V \in SUBSET U : Sums(cost, V, f(V))
  BY <1>1, SumsExist
<1>3. \A V \in SUBSET U : Total(cost, V) = f(V)[V]
  BY DEF Total, MapThenSumSet, MapThenFoldSet, Sums, Taken
<1> HIDE DEF f
<1>4. CASE U = {}
  BY <1>2, <1>3, <1>4 DEF Sums
<1>5. CASE U # {}
  <2> DEFINE W == U \ {Taken(U)}
  <2>1. f(U)[U] = cost[Taken(U)] + f(U)[W]
    BY <1>2, <1>5 DEF Sums
  <2>2. Sums(cost, U, f(U)) /\ Sums(cost, W, f(W)) /\ W \subseteq U
    BY <1>2
  <2>3. f(U)[W] = f(W)[W]
    <3> HIDE DEF W
    <3>1. \A s \in SUBSET (U \cap W) : f(U)[s] = f(W)[s]
      BY <2>2, SumsAgree
    <3> QED BY <3>1, <2>2
  <2> QED BY <1>3, <1>5, <2>1, <2>3
<1> QED BY <1>4, <1>5

\* A sum of natural numbers is one.
LEMMA TotalType ==
    ASSUME NEW U, IsFiniteSet(U), NEW cost, \A x \in U : cost[x] \in Nat
    PROVE  \A V \in SUBSET U : Total(cost, V) \in Nat
<1> DEFINE G == {V \in SUBSET U : Total(cost, V) \in Nat}
<1>0. \A V \in SUBSET U : IsFiniteSet(V)
  BY FS_Subset
<1>1. {} \in G
  <2>1. Total(cost, {}) = 0
    BY <1>0, TotalDef
  <2> QED BY <2>1
<1>2. ASSUME NEW V \in SUBSET U, V # {}, \A x \in V : V \ {x} \in G PROVE V \in G
  <2>1. Taken(V) \in V
    BY <1>2 DEF Taken
  <2>2. Total(cost, V) = cost[Taken(V)] + Total(cost, V \ {Taken(V)})
    BY <1>0, <1>2, TotalDef
  <2>3. Total(cost, V \ {Taken(V)}) \in Nat
    BY <1>2, <2>1
  <2>4. cost[Taken(V)] \in Nat
    BY <2>1
  <2> QED BY <2>2, <2>3, <2>4
<1> HIDE DEF G
<1>3. \A V \in SUBSET U : V \in G
  BY <1>1, <1>2, SubsetInduction
<1> QED BY <1>3 DEF G

\* Whichever element is taken out first, the total is the same.
LEMMA TotalWith ==
    ASSUME NEW U, IsFiniteSet(U), NEW cost, \A x \in U : cost[x] \in Nat
    PROVE  \A V \in SUBSET U : \A x \in V :
              Total(cost, V) = cost[x] + Total(cost, V \ {x})
<1> DEFINE G == {V \in SUBSET U : \A x \in V :
                   Total(cost, V) = cost[x] + Total(cost, V \ {x})}
<1>0. \A V \in SUBSET U : IsFiniteSet(V) /\ Total(cost, V) \in Nat
  BY FS_Subset, TotalType
<1>1. {} \in G
  OBVIOUS
<1>2. ASSUME NEW V \in SUBSET U, V # {}, \A x \in V : V \ {x} \in G PROVE V \in G
  <2> SUFFICES ASSUME NEW x \in V PROVE Total(cost, V) = cost[x] + Total(cost, V \ {x})
    OBVIOUS
  <2> DEFINE y == Taken(V)
  <2>1. y \in V
    BY <1>2 DEF Taken
  <2>2. Total(cost, V) = cost[y] + Total(cost, V \ {y})
    BY <1>0, <1>2, TotalDef
  <2> HIDE DEF y
  <2>3. CASE x = y
    BY <2>2, <2>3
  <2>4. CASE x # y
    <3>1. Total(cost, V \ {y}) = cost[x] + Total(cost, (V \ {y}) \ {x})
      BY <1>2, <2>1, <2>4
    <3>2. Total(cost, V \ {x}) = cost[y] + Total(cost, (V \ {x}) \ {y})
      BY <1>2, <2>1, <2>4
    <3>3. (V \ {y}) \ {x} = (V \ {x}) \ {y}
      OBVIOUS
    <3>4. cost[x] \in Nat /\ cost[y] \in Nat /\ Total(cost, (V \ {x}) \ {y}) \in Nat
      BY <1>0, <2>1
    <3>5. Total(cost, V \ {y}) = cost[x] + Total(cost, (V \ {x}) \ {y})
      BY <3>1, <3>3
    <3> HIDE DEF G
    <3> QED BY <2>2, <3>2, <3>4, <3>5
  <2> QED BY <2>3, <2>4
<1> HIDE DEF G
<1>3. \A V \in SUBSET U : V \in G
  BY <1>1, <1>2, SubsetInduction
<1> QED BY <1>3 DEF G

\* A total is at most another whose every item is at least as large; what is
\* not in the second set must cost nothing in the first.
LEMMA TotalAtMost ==
    ASSUME NEW U, IsFiniteSet(U),
           NEW c, \A x \in U : c[x] \in Nat, NEW d, \A x \in U : d[x] \in Nat,
           NEW V \in SUBSET U, NEW W \in SUBSET U,
           \A x \in V : IF x \in W THEN c[x] <= d[x] ELSE c[x] = 0
    PROVE  Total(c, V) <= Total(d, W)
<1> DEFINE Below(A, B) == \A x \in A : IF x \in B THEN c[x] <= d[x] ELSE c[x] = 0
           G == {A \in SUBSET U : \A B \in SUBSET U :
                    Below(A, B) => Total(c, A) <= Total(d, B)}
<1>0. \A A \in SUBSET U : IsFiniteSet(A) /\ Total(c, A) \in Nat /\ Total(d, A) \in Nat
  BY FS_Subset, TotalType
<1>1. {} \in G
  <2>1. Total(c, {}) = 0
    BY <1>0, TotalDef
  <2> QED BY <1>0, <2>1
<1>2. ASSUME NEW A \in SUBSET U, A # {}, \A x \in A : A \ {x} \in G PROVE A \in G
  <2> SUFFICES ASSUME NEW B \in SUBSET U, Below(A, B) PROVE Total(c, A) <= Total(d, B)
    OBVIOUS
  <2>1. PICK x \in A : TRUE
    BY <1>2
  <2>2. Total(c, A) = c[x] + Total(c, A \ {x})
    BY TotalWith
  <2>3. /\ c[x] \in Nat /\ d[x] \in Nat
        /\ Total(c, A \ {x}) \in Nat /\ Total(d, B) \in Nat /\ Total(d, B \ {x}) \in Nat
    BY <1>0
  <2>4. CASE x \in B
    <3>1. Total(d, B) = d[x] + Total(d, B \ {x})
      BY <2>4, TotalWith
    <3>2. Below(A \ {x}, B \ {x}) /\ B \ {x} \in SUBSET U
      OBVIOUS
    <3>3. Total(c, A \ {x}) <= Total(d, B \ {x})
      BY <1>2, <3>2
    <3>4. c[x] <= d[x]
      BY <2>4
    <3> HIDE DEF Below, G
    <3> QED BY <2>2, <2>3, <3>1, <3>3, <3>4
  <2>5. CASE x \notin B
    <3>1. Below(A \ {x}, B)
      OBVIOUS
    <3>2. Total(c, A \ {x}) <= Total(d, B)
      BY <1>2, <3>1
    <3>3. c[x] = 0
      BY <2>5
    <3> HIDE DEF Below, G
    <3> QED BY <2>2, <2>3, <3>2, <3>3
  <2> QED BY <2>4, <2>5
<1>3. \A A \in SUBSET U : A \in G
  <2> HIDE DEF G
  <2> QED BY <1>1, <1>2, SubsetInduction
<1> QED BY <1>3

(***************************************************************************)
(* Types                                                                   *)
(***************************************************************************)

\* A request that reads a counter, or adds to its total, knows which one.
KeyInv ==
    \A r \in Requests : pc[r] \in {"get", "sum", "set", "total", "model"} => key[r] \in Keys

TypeInv == LogInv /\ TypeOK /\ KeyInv

\* The beginning of a week is not in the future.
LEMMA MondayIn ==
    ASSUME NEW t \in Nat PROVE Monday(t) \in 0..t
<1>1. WeekLen \in Nat \ {0}
  BY BudgetAssumption
<1>2. t % WeekLen \in Nat /\ t % WeekLen <= t
  BY <1>1
<1> QED BY <1>2 DEF Monday

\* A request looks at one of the subscriptions.
LEMMA SubIn ==
    ASSUME NEW r \in Requests, index[r] \in 1..Len(Subs) PROVE Sub(r) \in SubIds
  BY DEF Sub, SubIds, Elements

\* What CounterKey gives is the key of a counter.
LEMMA KeyIn ==
    ASSUME now \in 0..MaxNow, NEW s \in SubIds, NEW sc \in Scopes, NEW start,
           s \in Windowed /\ sc # "week" => start \in 0..MaxNow
    PROVE  CounterKey(s, sc, start) \in Keys
<1>1. MaxNow \in Nat
  BY BudgetAssumption
<1>2. Monday(now) \in 0..MaxNow
  BY <1>1, MondayIn
<1> QED BY <1>1, <1>2 DEF CounterKey, Keys

\* The scopes a request goes through.
LEMMA ScopesAre ==
    ASSUME NEW r \in Requests
    PROVE  "total" \in Scopes /\ "week" \in Scopes /\ ModelOf[r] \in Scopes
  BY BudgetAssumption DEF Scopes

\* The lists a request may use.
LEMMA ListsAre ==
    ASSUME TypeOK
    PROVE  Active \in Lists /\ <<>> \in Lists
<1>1. Active \in [{t \in SubIds : status[t] = "active"} -> 0..MaxNow \cup {None}]
  BY DEF Active, TypeOK
<1>2. <<>> \in [{} -> 0..MaxNow \cup {None}]
  OBVIOUS
<1> QED BY <1>1, <1>2 DEF Lists

\* A command that may fail leaves the count of failures in its bounds.
LEMMA FailuresIn ==
    ASSUME TypeOK, UNCHANGED failures \/ \E f : Fails(f)
    PROVE  failures' \in 0..MaxFailures
  BY BudgetAssumption DEF TypeOK, Fails

Places == {"new", "serve", "blocked", "done"} \cup InCheck \cup InCharge

\* A request goes to a place, and only there needs the key of a counter.
LEMMA Going ==
    ASSUME TypeInv, NEW r \in Requests, NEW p \in Places, GoTo(r, p),
           key' \in [Requests -> Keys \cup {None}],
           \A q \in Requests : q # r => key'[q] = key[q],
           p \in {"get", "sum", "set", "total", "model"} => key'[r] \in Keys
    PROVE  pc' \in [Requests -> Places] /\ KeyInv'
<1>1. pc \in [Requests -> Places]
  BY DEF TypeInv, TypeOK, Places
<1>2. pc' = [pc EXCEPT ![r] = p]
  BY DEF GoTo
<1> QED BY <1>1, <1>2 DEF TypeInv, KeyInv

\* Skipping a subscription stays on the list.
LEMMA SkipTypes ==
    ASSUME TypeInv, NEW r \in Requests, Skip(r)
    PROVE  /\ index' \in [Requests -> 1..Len(Subs)]
           /\ GoTo(r, "blocked") \/ GoTo(r, "consider")
<1>1. index \in [Requests -> 1..Len(Subs)] /\ Len(Subs) \in Nat
  BY BudgetAssumption DEF TypeInv, TypeOK
<1>2. CASE index[r] = Len(Subs)
  BY <1>1, <1>2 DEF Skip
<1>3. CASE index[r] # Len(Subs)
  <2>1. index[r] + 1 \in 1..Len(Subs)
    BY <1>1, <1>3
  <2>2. GoTo(r, "consider") /\ index' = [index EXCEPT ![r] = index[r] + 1]
    BY <1>3 DEF Skip
  <2> QED BY <1>1, <2>1, <2>2
<1> QED BY <1>2, <1>3

\* Passing a budget stays in the scopes.
LEMMA PassTypes ==
    ASSUME TypeInv, NEW r \in Requests, Pass(r)
    PROVE  /\ UNCHANGED <<index, marks>>
           /\ scope' \in [Requests -> Scopes]
           /\ GoTo(r, "serve") \/ GoTo(r, "pick")
  BY ScopesAre DEF Pass, TypeInv, TypeOK

\* What a verdict on a budget leaves.
LEMMA JudgeTypes ==
    ASSUME TypeInv, NEW r \in Requests, NEW amount, Judge(r, amount)
    PROVE  /\ index' \in [Requests -> 1..Len(Subs)]
           /\ scope' \in [Requests -> Scopes]
           /\ marks' \subseteq SubIds \X (Statuses \ {"active"})
           /\ \E p \in {"blocked", "consider", "serve", "pick"} : GoTo(r, p)
<1>0. Sub(r) \in SubIds
  BY SubIn DEF TypeInv, TypeOK
<1>1. CASE Pass(r)
  BY <1>1, PassTypes DEF TypeInv, TypeOK
<1>2. CASE Skip(r) /\ UNCHANGED scope
           /\ (UNCHANGED marks \/ marks' = marks \cup {<<Sub(r), "exhausted">>})
  BY <1>0, <1>2, SkipTypes DEF TypeInv, TypeOK, Statuses
<1> QED BY <1>1, <1>2 DEF Judge

\* The places a request goes to, one by one.
LEMMA CheckPlaces == {"new", "serve", "blocked", "done", "consider", "pick", "get", "sum", "set",
                      "activate", "stamp", "stampAlone", "week", "window", "windowGet", "total",
                      "model", "log", "logUnpriced"} = Places
  BY DEF Places, InCheck, InCharge

\* The steps of the check.
LEMMA CheckTypes ==
    ASSUME TypeInv, NEW r \in Requests,
           Load(r) \/ Consider(r) \/ Pick(r) \/ GetCost(r) \/ SumCost(r) \/ Rebuild(r)
    PROVE  TypeOK' /\ KeyInv'
<1>0. LogTypeOK' /\ UNCHANGED <<activated, marker, winStart, created, purged, charged, status, now>>
  BY DEF Load, Consider, Pick, GetCost, SumCost, Rebuild, logVars, LogTypeOK, TypeInv, TypeOK,
         costVars, rowVars
<1>f. failures' \in 0..MaxFailures
  <2>1. UNCHANGED failures \/ \E f : Fails(f)
    BY DEF Load, Consider, Pick, GetCost, SumCost, Rebuild, Try
  <2> QED BY <2>1, FailuresIn DEF TypeInv
<1>p. pc \in [Requests -> Places]
  BY DEF TypeInv, TypeOK, Places
<1>s. Sub(r) \in SubIds
  BY SubIn DEF TypeInv, TypeOK
<1>1. CASE Load(r)
  <2>1. Active \in Lists /\ <<>> \in Lists
    BY ListsAre DEF TypeInv
  <2> HIDE DEF Active
  <2>2. listed' \in Lists \cup {None}
    BY <1>1, <2>1 DEF Load, TypeInv, TypeOK, Try, Fails
  <2>3. PICK l \in Lists : view' = [view EXCEPT ![r] = l]
    BY <1>1, <2>1 DEF Load, TypeInv, TypeOK
  <2>4. view' \in [Requests -> Lists]
    BY <2>3 DEF TypeInv, TypeOK
  <2>5. before' \in [Requests -> SUBSET Requests]
    BY <1>1 DEF Load, TypeInv, TypeOK
  <2>6. pc' \in [Requests -> Places] /\ KeyInv'
    <3>1. GoTo(r, "consider") /\ UNCHANGED key
      BY <1>1 DEF Load
    <3> QED BY <3>1, Going, CheckPlaces DEF TypeInv, TypeOK
  <2> QED BY <1>0, <1>f, <1>1, <2>2, <2>4, <2>5, <2>6 DEF Load, TypeInv, TypeOK, costVars, Places
<1>2. CASE Consider(r)
  <2>1. /\ UNCHANGED <<key, summed, view, listed, counter, before, lossy>>
        /\ scope' = [scope EXCEPT ![r] = "total"]
        /\ \/ Skip(r) /\ (UNCHANGED marks \/ marks' = marks \cup {<<Sub(r), "expired">>})
           \/ GoTo(r, "pick") /\ UNCHANGED <<index, marks>>
    BY <1>2 DEF Consider, costVars, histVars
  <2>2. /\ index' \in [Requests -> 1..Len(Subs)]
        /\ marks' \subseteq SubIds \X (Statuses \ {"active"})
        /\ scope' \in [Requests -> Scopes]
    BY <1>s, <2>1, SkipTypes, ScopesAre DEF TypeInv, TypeOK, Statuses
  <2>3. \E p \in {"blocked", "consider", "pick"} : GoTo(r, p)
    BY <2>1, SkipTypes
  <2>4. pc' \in [Requests -> Places] /\ KeyInv'
    BY <2>1, <2>3, Going, CheckPlaces DEF TypeInv, TypeOK
  <2> QED BY <1>0, <1>f, <2>1, <2>2, <2>4 DEF TypeInv, TypeOK, Places
<1>3. CASE Pick(r)
  <2>1. /\ UNCHANGED <<summed, view, listed, counter, before, lossy>>
        /\ \/ Skip(r) /\ UNCHANGED <<key, scope, marks>>
           \/ Pass(r) /\ UNCHANGED key
           \/ Judge(r, 0) /\ UNCHANGED key
           \/ /\ Sub(r) \in Windowed /\ scope[r] # "week" => winStart[Sub(r)] # None
              /\ key' = [key EXCEPT ![r] = CounterKey(Sub(r), scope[r], winStart[Sub(r)])]
              /\ GoTo(r, "get") /\ UNCHANGED <<index, scope, marks>>
    BY <1>3 DEF Pick, costVars, histVars
  <2>2. CASE Skip(r) /\ UNCHANGED <<key, scope, marks>>
    <3>1. pc' \in [Requests -> Places] /\ KeyInv' /\ index' \in [Requests -> 1..Len(Subs)]
      BY <2>2, SkipTypes, Going, CheckPlaces DEF TypeInv, TypeOK
    <3> QED BY <1>0, <1>f, <2>1, <2>2, <3>1 DEF TypeInv, TypeOK, Places
  <2>3. CASE Pass(r) /\ UNCHANGED key
    <3>1. pc' \in [Requests -> Places] /\ KeyInv' /\ UNCHANGED <<index, marks>>
          /\ scope' \in [Requests -> Scopes]
      BY <2>3, PassTypes, Going, CheckPlaces DEF TypeInv, TypeOK
    <3> QED BY <1>0, <1>f, <2>1, <2>3, <3>1 DEF TypeInv, TypeOK, Places
  <2>4. CASE Judge(r, 0) /\ UNCHANGED key
    <3>1. PICK p \in {"blocked", "consider", "serve", "pick"} : GoTo(r, p)
      BY <2>4, JudgeTypes
    <3>2. pc' \in [Requests -> Places] /\ KeyInv'
      BY <2>4, <3>1, Going, CheckPlaces DEF TypeInv, TypeOK
    <3> QED BY <1>0, <1>f, <2>1, <2>4, <3>2, JudgeTypes DEF TypeInv, TypeOK, Places
  <2>5. CASE /\ Sub(r) \in Windowed /\ scope[r] # "week" => winStart[Sub(r)] # None
             /\ key' = [key EXCEPT ![r] = CounterKey(Sub(r), scope[r], winStart[Sub(r)])]
             /\ GoTo(r, "get") /\ UNCHANGED <<index, scope, marks>>
    <3>1. CounterKey(Sub(r), scope[r], winStart[Sub(r)]) \in Keys
      BY <1>s, <2>5, KeyIn DEF TypeInv, TypeOK
    <3>2. key' \in [Requests -> Keys \cup {None}] /\ key'[r] \in Keys
          /\ \A q \in Requests : q # r => key'[q] = key[q]
      BY <2>5, <3>1 DEF TypeInv, TypeOK
    <3>3. pc' \in [Requests -> Places] /\ KeyInv'
      BY <2>5, <3>2, Going, CheckPlaces
    <3> QED BY <1>0, <1>f, <2>1, <2>5, <3>2, <3>3 DEF TypeInv, TypeOK, Places
  <2> QED BY <2>1, <2>2, <2>3, <2>4, <2>5
<1>4. CASE GetCost(r)
  <2>0. pc[r] = "get" /\ key[r] \in Keys
    BY <1>4 DEF GetCost, TypeInv, KeyInv
  <2>1. /\ UNCHANGED <<key, summed, view, listed, counter, before, lossy>>
        /\ \/ \E amount : Judge(r, amount)
           \/ GoTo(r, "sum") /\ UNCHANGED <<index, scope, marks>>
    BY <1>4 DEF GetCost, costVars, histVars
  <2>3. CASE \E amount : Judge(r, amount)
    <3>1. PICK p \in {"blocked", "consider", "serve", "pick"} : GoTo(r, p)
      BY <2>3, JudgeTypes
    <3>2. pc' \in [Requests -> Places] /\ KeyInv'
      BY <2>1, <3>1, Going, CheckPlaces DEF TypeInv, TypeOK
    <3> QED BY <1>0, <1>f, <2>1, <2>3, <3>2, JudgeTypes DEF TypeInv, TypeOK, Places
  <2>4. CASE GoTo(r, "sum") /\ UNCHANGED <<index, scope, marks>>
    <3>1. pc' \in [Requests -> Places] /\ KeyInv'
      BY <2>0, <2>1, <2>4, Going, CheckPlaces DEF TypeInv, TypeOK
    <3> QED BY <1>0, <1>f, <2>1, <2>4, <3>1 DEF TypeInv, TypeOK, Places
  <2> QED BY <2>1, <2>3, <2>4
<1>5. CASE SumCost(r)
  <2>0. pc[r] = "sum" /\ key[r] \in Keys
    BY <1>5 DEF SumCost, TypeInv, KeyInv
  <2>1. /\ UNCHANGED <<index, scope, key, view, listed, marks, counter, before, lossy>>
        /\ GoTo(r, "set")
        /\ \/ summed' = [summed EXCEPT ![r] = {q \in stored \ purged : Matches(q, key[r])}]
           \/ summed' = [summed EXCEPT ![r] = {}]
    BY <1>5 DEF SumCost, costVars, rowVars, histVars, Try
  <2>2. summed' \in [Requests -> SUBSET Requests]
    <3>1. {q \in stored \ purged : Matches(q, key[r])} \subseteq Requests
      BY DEF TypeInv, TypeOK, LogTypeOK, Requests
    <3> QED BY <2>1, <3>1, ZenonT(40) DEF TypeInv, TypeOK
  <2>3. pc' \in [Requests -> Places] /\ KeyInv'
    BY <2>0, <2>1, Going, CheckPlaces DEF TypeInv, TypeOK
  <2> QED BY <1>0, <1>f, <2>1, <2>2, <2>3 DEF TypeInv, TypeOK, Places
<1>6. CASE Rebuild(r)
  <2>0. pc[r] = "set" /\ key[r] \in Keys
    BY <1>6 DEF Rebuild, TypeInv, KeyInv
  <2>1. /\ UNCHANGED <<key, view, listed, before>>
        /\ Judge(r, CostOf(summed[r])) /\ Lose(key[r], summed[r])
        /\ summed' = [summed EXCEPT ![r] = {}]
        /\ UNCHANGED counter \/ counter' = [counter EXCEPT ![key[r]] =
                                   [q \in Requests |-> IF q \in summed[r] THEN 1 ELSE 0]]
    BY <1>6 DEF Rebuild, Try
  <2>2. lossy' \subseteq Keys
    BY <2>0, <2>1 DEF Lose, TypeInv, TypeOK
  <2>3. counter' \in [Keys -> [Requests -> Nat] \cup {None}]
    <3>1. [q \in Requests |-> IF q \in summed[r] THEN 1 ELSE 0] \in [Requests -> Nat]
      OBVIOUS
    <3> QED BY <2>1, <3>1 DEF TypeInv, TypeOK
  <2>4. summed' \in [Requests -> SUBSET Requests]
    BY <2>1 DEF TypeInv, TypeOK
  <2>5. PICK p \in {"blocked", "consider", "serve", "pick"} : GoTo(r, p)
    BY <2>1, JudgeTypes
  <2>6. pc' \in [Requests -> Places] /\ KeyInv'
    BY <2>1, <2>5, Going, CheckPlaces DEF TypeInv, TypeOK
  <2> QED BY <1>0, <1>f, <2>1, <2>2, <2>3, <2>4, <2>6, JudgeTypes DEF TypeInv, TypeOK, Places
<1> QED BY <1>1, <1>2, <1>3, <1>4, <1>5, <1>6

\* An addition leaves a counter of natural numbers.
LEMMA AddTypes ==
    ASSUME TypeInv, NEW r \in Requests, NEW k \in Keys, Add(r, k)
    PROVE  /\ counter' \in [Keys -> [Requests -> Nat] \cup {None}]
           /\ charged' \in [Requests -> SUBSET Keys]
           /\ failures' \in 0..MaxFailures
           /\ lossy' \subseteq Keys
<1>1. UNCHANGED failures \/ \E f : Fails(f)
  BY DEF Add, Try
<1>2. failures' \in 0..MaxFailures
  BY <1>1, FailuresIn DEF TypeInv
<1> DEFINE h == [q \in Requests |-> (IF counter[k] = None THEN 0 ELSE counter[k][q])
                                     + (IF q = r THEN 1 ELSE 0)]
<1>3. h \in [Requests -> Nat]
  <2>1. counter[k] \in [Requests -> Nat] \cup {None}
    BY DEF TypeInv, TypeOK
  <2> QED BY <2>1
<1>4. \/ UNCHANGED <<counter, charged>>
      \/ counter' = [counter EXCEPT ![k] = h] /\ charged' = [charged EXCEPT ![r] = @ \cup {k}]
  BY DEF Add, Try
<1> HIDE DEF h
<1>5. counter' \in [Keys -> [Requests -> Nat] \cup {None}]
  BY <1>3, <1>4 DEF TypeInv, TypeOK
<1>6. charged' \in [Requests -> SUBSET Keys]
  <2>1. charged' = charged \/ charged' = [charged EXCEPT ![r] = @ \cup {k}]
    BY <1>4
  <2>2. charged \in [Requests -> SUBSET Keys] /\ charged[r] \cup {k} \in SUBSET Keys
    BY DEF TypeInv, TypeOK
  <2> QED BY <2>1, <2>2
<1>7. lossy' \subseteq Keys
  BY DEF Add, Try, Lose, TypeInv, TypeOK
<1> QED BY <1>2, <1>5, <1>6, <1>7

\* The steps of the charge.
LEMMA ChargeTypes ==
    ASSUME TypeInv, NEW r \in Requests,
           Answer(r) \/ Activate(r) \/ Stamp(r) \/ AddWeekly(r) \/ OpenWindow(r)
           \/ GetWindow(r) \/ AddTotal(r) \/ AddModel(r)
    PROVE  TypeOK' /\ KeyInv'
<1>0. LogTypeOK' /\ UNCHANGED <<index, scope, summed, view, status, marks, created, purged, now,
                                 before>>
  BY DEF Answer, Activate, Stamp, AddWeekly, OpenWindow, GetWindow, AddTotal, AddModel, logVars,
         LogTypeOK, TypeInv, TypeOK, costVars, rowVars, histVars
<1>f. failures' \in 0..MaxFailures
  <2>1. ASSUME NEW k, Add(r, k) PROVE UNCHANGED failures \/ \E f : Fails(f)
    BY <2>1 DEF Add, Try
  <2>2. UNCHANGED failures \/ \E f : Fails(f)
    BY <2>1 DEF Answer, Activate, Stamp, AddWeekly, OpenWindow, GetWindow, AddTotal, AddModel, Try
  <2> QED BY <2>2, FailuresIn DEF TypeInv
<1>s. Sub(r) \in SubIds
  BY SubIn DEF TypeInv, TypeOK
<1>1. CASE Answer(r) \/ Activate(r) \/ Stamp(r) \/ OpenWindow(r)
  <2>1. /\ UNCHANGED <<key, counter, charged, lossy>>
        /\ \E p \in {"activate", "logUnpriced", "week", "stamp", "stampAlone", "windowGet"} : GoTo(r, p)
    <3>1. CASE Answer(r)
      BY <3>1 DEF Answer, costVars, histVars, Try
    <3>2. CASE Activate(r)
      <4>1. /\ UNCHANGED <<key, counter, charged, lossy>>
            /\ GoTo(r, "week") \/ GoTo(r, "stamp") \/ GoTo(r, "stampAlone")
        BY <3>2 DEF Activate, costVars, histVars
      <4> QED BY <4>1
    <3>3. CASE Stamp(r) \/ OpenWindow(r)
      BY <3>3 DEF Stamp, OpenWindow, costVars, histVars
    <3> QED BY <1>1, <3>1, <3>2, <3>3
  <2>2. pc' \in [Requests -> Places] /\ KeyInv'
    BY <2>1, Going, CheckPlaces DEF TypeInv, TypeOK
  <2>3. /\ marker' \subseteq SubIds
        /\ listed' \in Lists \cup {None}
    BY <1>1, <1>s DEF Answer, Activate, Stamp, OpenWindow, TypeInv, TypeOK, rowVars, Try
  <2>4. activated' \in [SubIds -> 0..MaxNow \cup {None}]
    BY <1>1, <1>s DEF Answer, Activate, Stamp, Date, OpenWindow, TypeInv, TypeOK, rowVars, Try
  <2>5. winStart' \in [SubIds -> 0..MaxNow \cup {None}]
    BY <1>1, <1>s DEF Answer, Activate, Stamp, OpenWindow, TypeInv, TypeOK, costVars, Try
  <2> QED BY <1>0, <1>f, <2>1, <2>2, <2>3, <2>4, <2>5 DEF TypeInv, TypeOK, Places
<1>2. CASE AddWeekly(r) \/ GetWindow(r)
  <2>0. UNCHANGED <<listed, activated, marker, winStart>>
    BY <1>2 DEF AddWeekly, GetWindow, rowVars, costVars
  <2>1. /\ counter' \in [Keys -> [Requests -> Nat] \cup {None}]
        /\ charged' \in [Requests -> SUBSET Keys]
        /\ lossy' \subseteq Keys
    <3>1. CounterKey(Sub(r), "week", 0) \in Keys
      BY <1>s, KeyIn, ScopesAre DEF TypeInv, TypeOK
    <3>2. UNCHANGED <<counter, charged, lossy>> \/ Add(r, CounterKey(Sub(r), "week", 0))
      BY <1>2 DEF AddWeekly, GetWindow, costVars, histVars
    <3> QED BY <3>1, <3>2, AddTypes DEF TypeInv, TypeOK
  <2>2. \/ UNCHANGED key /\ \E p \in {"window", "log"} : GoTo(r, p)
        \/ /\ GoTo(r, "total")
           /\ \E start \in {0, winStart[Sub(r)]} :
                 /\ Sub(r) \in Windowed => start # None
                 /\ key' = [key EXCEPT ![r] = CounterKey(Sub(r), "total", start)]
    <3>1. CASE AddWeekly(r)
      BY <3>1 DEF AddWeekly
    <3>2. CASE GetWindow(r)
      BY <3>2 DEF GetWindow
    <3> QED BY <1>2, <3>1, <3>2
  <2>3. CASE UNCHANGED key /\ \E p \in {"window", "log"} : GoTo(r, p)
    <3>1. pc' \in [Requests -> Places] /\ KeyInv'
      BY <2>3, Going, CheckPlaces DEF TypeInv, TypeOK
    <3> QED BY <1>0, <1>f, <2>0, <2>1, <2>3, <3>1 DEF TypeInv, TypeOK, Places
  <2>4. ASSUME NEW start \in {0, winStart[Sub(r)]}, Sub(r) \in Windowed => start # None,
               key' = [key EXCEPT ![r] = CounterKey(Sub(r), "total", start)], GoTo(r, "total")
        PROVE  TypeOK' /\ KeyInv'
    <3>0. /\ "total" \in Scopes /\ now \in 0..MaxNow
          /\ start \in 0..MaxNow \cup {None}
      <4>1. winStart[Sub(r)] \in 0..MaxNow \cup {None} /\ now \in 0..MaxNow
        BY <1>s DEF TypeInv, TypeOK
      <4>2. 0 \in 0..MaxNow
        BY BudgetAssumption
      <4> QED BY <2>4, <4>1, <4>2, ScopesAre
    <3>1. CounterKey(Sub(r), "total", start) \in Keys
      BY <1>s, <2>4, <3>0, KeyIn
    <3>2. key' \in [Requests -> Keys \cup {None}] /\ key'[r] \in Keys
          /\ \A q \in Requests : q # r => key'[q] = key[q]
      BY <2>4, <3>1 DEF TypeInv, TypeOK
    <3>3. pc' \in [Requests -> Places] /\ KeyInv'
      BY <2>4, <3>2, Going, CheckPlaces
    <3> QED BY <1>0, <1>f, <2>0, <2>1, <3>2, <3>3 DEF TypeInv, TypeOK, Places
  <2> QED BY <2>2, <2>3, <2>4
<1>3. CASE AddTotal(r) \/ AddModel(r)
  <2>0. UNCHANGED <<key, listed, activated, marker, winStart>> /\ key[r] \in Keys
    BY <1>3 DEF AddTotal, AddModel, rowVars, costVars, TypeInv, KeyInv
  <2>1. PICK k \in Keys : Add(r, k)
    <3>1. CASE AddTotal(r)
      BY <2>0, <3>1 DEF AddTotal
    <3>2. CASE AddModel(r)
      <4>1. key[r][3] \in 0..MaxNow
        BY <2>0 DEF Keys
      <4>2. CounterKey(Sub(r), ModelOf[r], key[r][3]) \in Keys
        BY <1>s, <4>1, KeyIn, ScopesAre DEF TypeInv, TypeOK
      <4> QED BY <3>2, <4>2 DEF AddModel
    <3> QED BY <1>3, <3>1, <3>2
  <2>2. PICK p \in {"model", "log"} : GoTo(r, p)
    BY <1>3 DEF AddTotal, AddModel
  <2>3. pc' \in [Requests -> Places] /\ KeyInv'
    BY <2>0, <2>2, Going, CheckPlaces DEF TypeInv, TypeOK
  <2> QED BY <1>0, <2>0, <2>1, <2>3, AddTypes DEF TypeInv, TypeOK, Places
<1> QED BY <1>1, <1>2, <1>3

\* The steps that end a request.
LEMMA EndTypes ==
    ASSUME TypeInv, LogTypeOK', NEW r \in Requests,
           AnswerUnbilled(r) \/ LogUsage(r) \/ HangUp(r) \/ EndBlocked(r) \/ NeverComes(r)
    PROVE  TypeOK' /\ KeyInv'
<1>0. UNCHANGED <<index, scope, key, view, listed, status, activated, marker, marks, winStart,
                  counter, purged, charged, now, failures, before, lossy>>
  BY DEF AnswerUnbilled, LogUsage, HangUp, EndBlocked, NeverComes, reqVars, rowVars, costVars,
         histVars
<1>1. summed' \in [Requests -> SUBSET Requests]
  BY DEF AnswerUnbilled, LogUsage, HangUp, EndBlocked, NeverComes, reqVars, TypeInv, TypeOK
<1>2. created' \in [Requests -> 0..MaxNow \cup {None}]
  BY DEF AnswerUnbilled, LogUsage, HangUp, EndBlocked, NeverComes, costVars, TypeInv, TypeOK
<1>3. pc' \in [Requests -> Places] /\ KeyInv'
  <2>1. CASE UNCHANGED pc
    BY <1>0, <2>1 DEF TypeInv, TypeOK, KeyInv, Places
  <2>2. CASE GoTo(r, "done")
    BY <1>0, <2>2, Going, CheckPlaces DEF TypeInv, TypeOK
  <2> QED BY <2>1, <2>2 DEF AnswerUnbilled, LogUsage, HangUp, EndBlocked, NeverComes, reqVars
<1> QED BY <1>0, <1>1, <1>2, <1>3 DEF TypeInv, TypeOK, Places

\* Every step keeps the types.
LEMMA TypeStep == TypeInv /\ [Next]_vars => TypeInv'
<1> SUFFICES ASSUME TypeInv, [Next]_vars PROVE TypeInv'
  OBVIOUS
<1>0. LogInv' /\ LogTypeOK'
  BY InvStep, WriterStep DEF TypeInv, LogInv
<1>1. ASSUME NEW r \in Requests, Step(r) PROVE TypeOK' /\ KeyInv'
  BY <1>0, <1>1, CheckTypes, ChargeTypes, EndTypes DEF Step
<1> DEFINE Rest ==
             /\ UNCHANGED <<reqVars, histVars, created, charged, activated, marker>>
             /\ now' \in 0..MaxNow /\ failures' \in 0..MaxFailures
             /\ listed' \in Lists \cup {None} /\ status' \in [SubIds -> Statuses]
             /\ marks' \subseteq SubIds \X (Statuses \ {"active"})
             /\ winStart' \in [SubIds -> 0..MaxNow \cup {None}]
             /\ counter' \in [Keys -> [Requests -> Nat] \cup {None}]
             /\ purged' \subseteq Requests
<1> HIDE DEF Rest
<1>2. ASSUME Rest PROVE TypeOK' /\ KeyInv'
  BY <1>0, <1>2 DEF Rest, TypeInv, TypeOK, KeyInv, reqVars, histVars
<1>v. /\ now \in 0..MaxNow /\ failures \in 0..MaxFailures
      /\ listed \in Lists \cup {None} /\ status \in [SubIds -> Statuses]
      /\ marks \subseteq SubIds \X (Statuses \ {"active"})
      /\ winStart \in [SubIds -> 0..MaxNow \cup {None}]
      /\ counter \in [Keys -> [Requests -> Nat] \cup {None}]
      /\ purged \subseteq Requests
  BY DEF TypeInv, TypeOK
<1>f. ASSUME UNCHANGED failures \/ \E f : Fails(f) PROVE failures' \in 0..MaxFailures
  BY <1>f, FailuresIn DEF TypeInv
<1>3. ASSUME NEW m \in marks, RunMark(m[1], m[2]) PROVE TypeOK' /\ KeyInv'
  <2>1. failures' \in 0..MaxFailures
    <3>1. UNCHANGED failures \/ \E f : Fails(f)
      BY <1>3 DEF RunMark, Try
    <3> QED BY <3>1, <1>f
  <2>2. m[1] \in SubIds /\ m[2] \in Statuses
    BY <1>v
  <2>3. status' \in [SubIds -> Statuses]
    BY <1>3, <1>v, <2>2 DEF RunMark
  <2>4. listed' \in Lists \cup {None} /\ marks' \subseteq SubIds \X (Statuses \ {"active"})
    BY <1>3, <1>v DEF RunMark, Try
  <2>5. UNCHANGED <<reqVars, histVars, created, charged, activated, marker, now, winStart,
                    counter, purged>>
    BY <1>3 DEF RunMark, costVars
  <2>6. Rest
    BY <1>v, <2>1, <2>3, <2>4, <2>5 DEF Rest
  <2> QED BY <1>2, <2>6
<1>4. CASE ListExpires \/ StopListening \/ Flush
  <2>1. /\ UNCHANGED <<reqVars, histVars, created, charged, activated, marker, now, failures,
                       winStart, counter, purged, status, marks>>
        /\ listed' = listed \/ listed' = None
    BY <1>4 DEF ListExpires, StopListening, Flush, rowVars, costVars
  <2>2. Rest
    BY <1>v, <2>1 DEF Rest
  <2> QED BY <1>0, <1>2, <2>2 DEF TypeInv
<1>5. CASE Tick
  <2>1. now' \in 0..MaxNow
    BY <1>5, <1>v, BudgetAssumption DEF Tick
  <2>2. winStart' \in [SubIds -> 0..MaxNow \cup {None}]
    BY <1>5, <1>v DEF Tick
  <2>3. UNCHANGED <<reqVars, histVars, created, charged, activated, marker, failures,
                    listed, counter, purged, status, marks>>
    BY <1>5 DEF Tick, rowVars
  <2>4. Rest
    BY <1>v, <2>1, <2>2, <2>3 DEF Rest
  <2> QED BY <1>0, <1>2, <2>4 DEF TypeInv
<1>6. ASSUME NEW k \in Keys, Evict(k) PROVE TypeOK' /\ KeyInv'
  <2>1. counter' \in [Keys -> [Requests -> Nat] \cup {None}]
    BY <1>6, <1>v DEF Evict
  <2>2. UNCHANGED <<reqVars, histVars, created, charged, activated, marker, now, listed,
                    winStart, purged, status, marks>>
    BY <1>6 DEF Evict, rowVars
  <2>3. failures' \in 0..MaxFailures
    BY <1>6, <1>f DEF Evict
  <2>4. Rest
    BY <1>v, <2>1, <2>2, <2>3 DEF Rest
  <2> QED BY <1>2, <2>4
<1>7. CASE DropPartition
  <2>1. purged' \subseteq Requests
    BY <1>7, <1>0, <1>v DEF DropPartition, LogTypeOK, TypeInv, TypeOK, Requests
  <2>2. UNCHANGED <<reqVars, histVars, created, charged, activated, marker, now, listed,
                    winStart, counter, status, marks>>
    BY <1>7 DEF DropPartition, rowVars
  <2>3. failures' \in 0..MaxFailures
    BY <1>7, <1>f DEF DropPartition
  <2>4. Rest
    BY <1>v, <2>1, <2>2, <2>3 DEF Rest
  <2> QED BY <1>0, <1>2, <2>4 DEF TypeInv
<1>8. CASE UNCHANGED vars
  <2>1. UNCHANGED <<reqVars, histVars, created, charged, activated, marker, now, listed,
                    winStart, counter, status, marks, failures, purged>>
    BY <1>8 DEF vars, rowVars, costVars
  <2>2. Rest
    BY <1>v, <2>1 DEF Rest
  <2> QED BY <1>0, <1>2, <2>2 DEF TypeInv
<1> QED BY <1>0, <1>1, <1>3, <1>4, <1>5, <1>6, <1>7, <1>8 DEF Next, TypeInv

\* The initial values have their types.
LEMMA TypeInit == Init => TypeInv
<1> SUFFICES ASSUME Init PROVE TypeInv
  OBVIOUS
<1>1. LogInv
  BY InvInit DEF Init
<1>2. <<>> \in Lists
  <2>1. <<>> \in [{} -> 0..MaxNow \cup {None}]
    OBVIOUS
  <2> QED BY <2>1 DEF Lists
<1>3. 1 \in 1..Len(Subs)
  BY BudgetAssumption
<1>4. status \in [SubIds -> Statuses]
  BY DEF Init, Statuses
<1>5. KeyInv
  BY DEF Init, KeyInv
<1> QED BY <1>1, <1>2, <1>3, <1>4, <1>5, BudgetAssumption
        DEF TypeInv, TypeOK, Init, LogInv, Scopes

\* Every variable of the budgets has its type.
THEOREM BudgetTypes == Spec => []TypeOK
<1>1. TypeInv => TypeOK
  BY DEF TypeInv
<1> QED BY <1>1, TypeInit, TypeStep, PTL DEF Spec

(***************************************************************************)
(* What a step of one request leaves alone                                 *)
(***************************************************************************)

\* What the step of a request says of the others.
Untouched(q) ==
    /\ pc'[q] = pc[q] /\ index'[q] = index[q] /\ scope'[q] = scope[q] /\ key'[q] = key[q]
    /\ summed'[q] = summed[q] /\ created'[q] = created[q] /\ charged'[q] = charged[q]
    /\ before'[q] = before[q]

\* A request moves alone.
LEMMA GoesAlone ==
    ASSUME TypeInv, NEW r \in Requests, NEW p, GoTo(r, p)
    PROVE  pc'[r] = p /\ \A q \in Requests : q # r => pc'[q] = pc[q]
<1>1. pc \in [Requests -> Places]
  BY DEF TypeInv, TypeOK, Places
<1> QED BY <1>1 DEF GoTo

\* A verdict, too, is about one request.
LEMMA JudgesAlone ==
    ASSUME TypeInv, NEW r \in Requests,
           (Skip(r) /\ UNCHANGED scope) \/ Pass(r) \/ \E amount : Judge(r, amount)
    PROVE  \A q \in Requests : q # r =>
              pc'[q] = pc[q] /\ index'[q] = index[q] /\ scope'[q] = scope[q]
<1>0. scope \in [Requests -> Scopes] /\ index \in [Requests -> 1..Len(Subs)]
  BY DEF TypeInv, TypeOK
<1>1. CASE Skip(r) /\ UNCHANGED scope
  <2>1. \E p : GoTo(r, p)
    BY <1>1 DEF Skip
  <2> QED BY <1>0, <1>1, <2>1, GoesAlone DEF Skip
<1>2. CASE Pass(r)
  <2>1. \E p : GoTo(r, p)
    BY <1>2 DEF Pass
  <2> QED BY <1>0, <1>2, <2>1, GoesAlone DEF Pass
<1> QED BY <1>1, <1>2 DEF Judge

\* A step of the check is one request's.
LEMMA CheckAlone ==
    ASSUME TypeInv, NEW r \in Requests,
           Load(r) \/ Consider(r) \/ Pick(r) \/ GetCost(r) \/ SumCost(r) \/ Rebuild(r)
    PROVE  \A q \in Requests : q # r => Untouched(q)
<1>0. /\ key \in [Requests -> Keys \cup {None}] /\ summed \in [Requests -> SUBSET Requests]
      /\ before \in [Requests -> SUBSET Requests]
      /\ scope \in [Requests -> Scopes] /\ index \in [Requests -> 1..Len(Subs)]
  BY DEF TypeInv, TypeOK
<1>1. UNCHANGED <<created, charged>>
  BY DEF Load, Consider, Pick, GetCost, SumCost, Rebuild, costVars
<1>2. CASE Load(r) \/ SumCost(r)
  <2>1. (\E p : GoTo(r, p)) /\ UNCHANGED <<index, scope, key>>
    BY <1>2 DEF Load, SumCost
  <2>2. \A q \in Requests : q # r => summed'[q] = summed[q]
    BY <1>0, <1>2 DEF Load, SumCost, Try
  <2>3. \A q \in Requests : q # r => before'[q] = before[q]
    BY <1>0, <1>2 DEF Load, SumCost, histVars
  <2> QED BY <1>1, <2>1, <2>2, <2>3, GoesAlone DEF Untouched
<1>3. CASE Consider(r)
  <2>1. /\ UNCHANGED <<key, summed, before>>
        /\ scope' = [scope EXCEPT ![r] = "total"]
        /\ \/ Skip(r) /\ (UNCHANGED marks \/ marks' = marks \cup {<<Sub(r), "expired">>})
           \/ GoTo(r, "pick") /\ UNCHANGED <<index, marks>>
    BY <1>3 DEF Consider, costVars, histVars
  <2>2. \A q \in Requests : q # r => pc'[q] = pc[q] /\ index'[q] = index[q]
    <3>1. \E p : GoTo(r, p)
      BY <2>1 DEF Skip
    <3> QED BY <1>0, <2>1, <3>1, GoesAlone DEF Skip
  <2> QED BY <1>0, <1>1, <2>1, <2>2 DEF Untouched
<1>4. CASE Pick(r)
  <2>1. /\ UNCHANGED <<summed, before>>
        /\ \/ Skip(r) /\ UNCHANGED <<key, scope>>
           \/ Pass(r) /\ UNCHANGED key
           \/ Judge(r, 0) /\ UNCHANGED key
           \/ GoTo(r, "get") /\ UNCHANGED <<index, scope>>
              /\ key' = [key EXCEPT ![r] = CounterKey(Sub(r), scope[r], winStart[Sub(r)])]
    BY <1>4 DEF Pick, histVars
  <2>2. \A q \in Requests : q # r => key'[q] = key[q]
    BY <1>0, <2>1
  <2>3. \A q \in Requests : q # r =>
              pc'[q] = pc[q] /\ index'[q] = index[q] /\ scope'[q] = scope[q]
    BY <2>1, JudgesAlone, GoesAlone
  <2> QED BY <1>1, <2>1, <2>2, <2>3 DEF Untouched
<1>5. CASE GetCost(r) \/ Rebuild(r)
  <2>1. UNCHANGED <<key, before>>
    BY <1>5 DEF GetCost, Rebuild, histVars
  <2>2. \A q \in Requests : q # r => summed'[q] = summed[q]
    BY <1>0, <1>5 DEF GetCost, Rebuild
  <2>3. \A q \in Requests : q # r =>
              pc'[q] = pc[q] /\ index'[q] = index[q] /\ scope'[q] = scope[q]
    <3>1. (\E amount : Judge(r, amount)) \/ (GoTo(r, "sum") /\ UNCHANGED <<index, scope>>)
      BY <1>5 DEF GetCost, Rebuild
    <3> QED BY <3>1, JudgesAlone, GoesAlone
  <2> QED BY <1>1, <2>1, <2>2, <2>3 DEF Untouched
<1> QED BY <1>2, <1>3, <1>4, <1>5

\* Past the check a request stays with its subscription.
LEMMA ChargeAlone ==
    ASSUME TypeInv, NEW r \in Requests,
           \/ Answer(r) \/ Activate(r) \/ Stamp(r) \/ AddWeekly(r) \/ OpenWindow(r)
           \/ GetWindow(r) \/ AddTotal(r) \/ AddModel(r)
           \/ AnswerUnbilled(r) \/ LogUsage(r) \/ HangUp(r) \/ EndBlocked(r) \/ NeverComes(r)
    PROVE  /\ \A q \in Requests : q # r => Untouched(q)
           /\ UNCHANGED <<index, scope, before>>
<1>0. /\ key \in [Requests -> Keys \cup {None}] /\ summed \in [Requests -> SUBSET Requests]
      /\ charged \in [Requests -> SUBSET Keys] /\ created \in [Requests -> 0..MaxNow \cup {None}]
  BY DEF TypeInv, TypeOK
<1>1. UNCHANGED <<index, scope, before>>
  BY DEF Answer, Activate, Stamp, AddWeekly, OpenWindow, GetWindow, AddTotal, AddModel,
         AnswerUnbilled, LogUsage, HangUp, EndBlocked, NeverComes, reqVars, histVars
<1>2. (\E p : GoTo(r, p)) \/ UNCHANGED pc
  BY DEF Answer, Activate, Stamp, AddWeekly, OpenWindow, GetWindow, AddTotal, AddModel, Try,
         AnswerUnbilled, LogUsage, HangUp, EndBlocked, NeverComes, reqVars
<1>3. \A q \in Requests : q # r => summed'[q] = summed[q]
  BY <1>0 DEF Answer, Activate, Stamp, AddWeekly, OpenWindow, GetWindow, AddTotal, AddModel,
         AnswerUnbilled, LogUsage, HangUp, EndBlocked, NeverComes, reqVars
<1>4. \A q \in Requests : q # r => created'[q] = created[q]
  BY <1>0 DEF Answer, Activate, Stamp, AddWeekly, OpenWindow, GetWindow, AddTotal, AddModel,
         AnswerUnbilled, LogUsage, HangUp, EndBlocked, NeverComes, costVars
<1>5. \A q \in Requests : q # r => key'[q] = key[q]
  <2>1. CASE AddWeekly(r) \/ GetWindow(r)
    BY <1>0, <2>1 DEF AddWeekly, GetWindow
  <2>2. CASE ~(AddWeekly(r) \/ GetWindow(r))
    BY <2>2 DEF Answer, Activate, Stamp, OpenWindow, AddTotal, AddModel,
         AnswerUnbilled, LogUsage, HangUp, EndBlocked, NeverComes, reqVars
  <2> QED BY <2>1, <2>2
<1>6. \A q \in Requests : q # r => charged'[q] = charged[q]
  <2>1. ASSUME NEW k, Add(r, k) PROVE \A q \in Requests : q # r => charged'[q] = charged[q]
    BY <1>0, <2>1 DEF Add, Try
  <2>2. UNCHANGED charged \/ \E k : Add(r, k)
    BY DEF Answer, Activate, Stamp, AddWeekly, OpenWindow, GetWindow, AddTotal, AddModel,
         AnswerUnbilled, LogUsage, HangUp, EndBlocked, NeverComes, costVars
  <2> QED BY <2>1, <2>2
<1> QED BY <1>1, <1>2, <1>3, <1>4, <1>5, <1>6, GoesAlone DEF Untouched

\* Where a step of the check may take a request.
LEMMA CheckGoes ==
    ASSUME NEW r \in Requests,
           Load(r) \/ Consider(r) \/ Pick(r) \/ GetCost(r) \/ SumCost(r) \/ Rebuild(r)
    PROVE  \E p \in {"blocked", "consider", "serve", "pick", "get", "sum", "set"} : GoTo(r, p)
<1>1. Skip(r) => GoTo(r, "blocked") \/ GoTo(r, "consider")
  BY DEF Skip
<1>2. Pass(r) => GoTo(r, "serve") \/ GoTo(r, "pick")
  BY DEF Pass
<1>3. ASSUME NEW amount, Judge(r, amount) PROVE Skip(r) \/ Pass(r)
  BY <1>3 DEF Judge
<1>4. CASE Load(r) \/ SumCost(r)
  BY <1>4 DEF Load, SumCost
<1>5. CASE Consider(r)
  <2>1. Skip(r) \/ GoTo(r, "pick")
    BY <1>5 DEF Consider
  <2> QED BY <1>1, <2>1
<1>6. CASE Pick(r)
  <2>1. Skip(r) \/ Pass(r) \/ Judge(r, 0) \/ GoTo(r, "get")
    BY <1>6 DEF Pick
  <2> QED BY <1>1, <1>2, <1>3, <2>1
<1>7. CASE GetCost(r) \/ Rebuild(r)
  <2>1. (\E amount : Judge(r, amount)) \/ GoTo(r, "sum")
    BY <1>7 DEF GetCost, Rebuild
  <2> QED BY <1>1, <1>2, <1>3, <2>1
<1> QED BY <1>4, <1>5, <1>6, <1>7

\* A verdict takes a request out of the reading of its counter.
LEMMA JudgeGoes ==
    ASSUME TypeInv, NEW r \in Requests, Skip(r) \/ Pass(r) \/ \E amount : Judge(r, amount)
    PROVE  pc'[r] \in {"blocked", "consider", "serve", "pick"}
<1>1. Skip(r) => GoTo(r, "blocked") \/ GoTo(r, "consider")
  BY DEF Skip
<1>2. Pass(r) => GoTo(r, "serve") \/ GoTo(r, "pick")
  BY DEF Pass
<1>3. Skip(r) \/ Pass(r)
  BY DEF Judge
<1> QED BY <1>1, <1>2, <1>3, GoesAlone

\* A request that is answered is not checked again.
LEMMA ChargeGoes ==
    ASSUME TypeInv, NEW r \in Requests,
           \/ Answer(r) \/ Activate(r) \/ Stamp(r) \/ AddWeekly(r) \/ OpenWindow(r)
           \/ GetWindow(r) \/ AddTotal(r) \/ AddModel(r)
           \/ AnswerUnbilled(r) \/ LogUsage(r) \/ HangUp(r) \/ EndBlocked(r) \/ NeverComes(r)
    PROVE  pc'[r] \notin InCheck \cup {"serve"}
<1>1. CASE Answer(r) \/ Stamp(r) \/ AddWeekly(r) \/ OpenWindow(r)
  <2>1. \E p \in {"activate", "logUnpriced", "week", "window", "windowGet", "total", "log"} :
           GoTo(r, p)
    BY <1>1 DEF Answer, Stamp, AddWeekly, OpenWindow, Try
  <2> QED BY <2>1, GoesAlone DEF InCheck
<1>2. CASE Activate(r) \/ GetWindow(r) \/ AddTotal(r) \/ AddModel(r)
  <2>1. \E p \in {"week", "stamp", "stampAlone", "total", "model", "log"} : GoTo(r, p)
    BY <1>2 DEF Activate, GetWindow, AddTotal, AddModel
  <2> QED BY <2>1, GoesAlone DEF InCheck
<1>3. CASE AnswerUnbilled(r) \/ LogUsage(r) \/ HangUp(r)
  <2>1. GoTo(r, "done")
    BY <1>3 DEF AnswerUnbilled, LogUsage, HangUp
  <2> QED BY <2>1, GoesAlone DEF InCheck
<1>4. CASE EndBlocked(r) \/ NeverComes(r)
  <2>1. UNCHANGED pc /\ pc[r] \in {"blocked", "new"}
    BY <1>4 DEF EndBlocked, NeverComes, reqVars
  <2> QED BY <2>1 DEF InCheck
<1> QED BY <1>1, <1>2, <1>3, <1>4

\* So every step of a request leaves the others alone.
LEMMA StepsAlone ==
    ASSUME TypeInv, NEW r \in Requests, Step(r)
    PROVE  \A q \in Requests : q # r => Untouched(q)
  BY CheckAlone, ChargeAlone DEF Step

\* The steps that are no request's leave every request alone.
LEMMA OthersAlone ==
    ASSUME [Next]_vars, ~\E r \in Requests : Step(r)
    PROVE  UNCHANGED <<reqVars, histVars, created, charged, activated, marker, faults>>
<1>1. ASSUME NEW m \in marks, RunMark(m[1], m[2])
      PROVE  UNCHANGED <<reqVars, histVars, created, charged, activated, marker, faults>>
  BY <1>1 DEF RunMark, costVars, logVars
<1>2. ASSUME NEW k \in Keys, Evict(k)
      PROVE  UNCHANGED <<reqVars, histVars, created, charged, activated, marker, faults>>
  BY <1>2 DEF Evict, rowVars, logVars
<1>3. CASE ListExpires \/ Tick \/ DropPartition
  BY <1>3 DEF ListExpires, Tick, DropPartition, rowVars, costVars, logVars
<1>4. CASE StopListening \/ Flush
  <2>1. UNCHANGED faults
    BY <1>4 DEF StopListening, Flush, Shutdown, FlushStep, Receive, TickFlush, Closed, FlushBatch,
                FlushFails, FlushReturns, Kill
  <2> QED BY <1>4, <2>1 DEF StopListening, Flush, rowVars, costVars
<1>5. CASE UNCHANGED vars
  BY <1>5 DEF vars, rowVars, costVars, logVars
<1> QED BY <1>1, <1>2, <1>3, <1>4, <1>5 DEF Next

(***************************************************************************)
(* Activated before billed                                                 *)
(***************************************************************************)

\* Only a request that ended has an entry with a price.
EndedInv == \A r \in Requests : created[r] # None => pc[r] = "done"

Paying == {"stamp", "stampAlone", "week", "window", "windowGet", "total", "model", "log"}

\* When nothing fails, a subscription that is being paid for has its marker,
\* and one with a marker has its date, or the winner of the SET NX that is to
\* write it.
BillInv ==
    faults \cap {"redis", "sql", "hangup"} = {} =>
       /\ \A r \in Requests : pc[r] \in Paying \/ created[r] # None => Sub(r) \in marker
       /\ \A s \in marker : \/ activated[s] # None
                            \/ \E q \in Requests : pc[q] = "stamp" /\ Sub(q) = s

\* A request that ended takes no step, and one gets an entry only by ending.
LEMMA EndedStep == TypeInv /\ EndedInv /\ [Next]_vars => EndedInv'
<1> SUFFICES ASSUME TypeInv, EndedInv, [Next]_vars PROVE EndedInv'
  OBVIOUS
<1>1. ASSUME NEW r \in Requests, Step(r) PROVE EndedInv'
  <2>1. \A q \in Requests : q # r => Untouched(q)
    BY <1>1, StepsAlone
  <2>2. created'[r] # None => pc'[r] = "done"
    <3>1. CASE LogUsage(r)
      <4>1. GoTo(r, "done")
        BY <3>1 DEF LogUsage
      <4> QED BY <4>1, GoesAlone
    <3>2. CASE ~LogUsage(r)
      <4>1. UNCHANGED created /\ (pc[r] # "done" \/ UNCHANGED pc)
        BY <1>1, <3>2 DEF Step, Load, Consider, Pick, GetCost, SumCost, Rebuild, Answer, Activate,
             Stamp, AddWeekly, OpenWindow, GetWindow, AddTotal, AddModel, AnswerUnbilled,
             HangUp, EndBlocked, NeverComes, costVars, InCheck, InCharge, reqVars
      <4> QED BY <4>1 DEF EndedInv
    <3> QED BY <3>1, <3>2
  <2> QED BY <2>1, <2>2 DEF EndedInv, Untouched
<1>2. CASE ~\E r \in Requests : Step(r)
  BY <1>2, OthersAlone DEF EndedInv, reqVars
<1> QED BY <1>1, <1>2

\* A step that neither stamps nor activates, and starts no payment.
LEMMA BillKeeps ==
    ASSUME BillInv, NEW r \in Requests, \A q \in Requests : q # r => Untouched(q),
           UNCHANGED <<faults, marker, activated>>,
           pc[r] # "stamp",
           pc'[r] \in Paying \/ created'[r] # None =>
              (pc[r] \in Paying \/ created[r] # None) /\ index'[r] = index[r]
    PROVE  BillInv'
<1>1. \A q \in Requests : pc'[q] \in Paying \/ created'[q] # None =>
         (pc[q] \in Paying \/ created[q] # None) /\ Sub(q)' = Sub(q)
  BY DEF Untouched, Sub
<1>2. \A q \in Requests : pc[q] = "stamp" => pc'[q] = "stamp" /\ Sub(q)' = Sub(q)
  BY DEF Untouched, Sub
<1> QED BY <1>1, <1>2 DEF BillInv

\* Every step leaves a date, or a winner that is to write it.
LEMMA BillStep == TypeInv /\ EndedInv /\ BillInv /\ [Next]_vars => BillInv'
<1> SUFFICES ASSUME TypeInv, EndedInv, BillInv, [Next]_vars PROVE BillInv'
  OBVIOUS
<1>1. CASE ~\E r \in Requests : Step(r)
  BY <1>1, OthersAlone DEF BillInv, reqVars, Sub
<1>2. ASSUME NEW r \in Requests, Step(r) PROVE BillInv'
  <2>0. \A q \in Requests : q # r => Untouched(q)
    BY <1>2, StepsAlone
  <2>f. UNCHANGED faults
    BY <1>2, RequestLogs DEF logVars, Log, TrySend, LeaveUnlogged
  <2>1. CASE Load(r) \/ Consider(r) \/ Pick(r) \/ GetCost(r) \/ SumCost(r) \/ Rebuild(r)
    <3>1. pc[r] \in {"new", "consider", "pick", "get", "sum", "set"}
          /\ UNCHANGED <<marker, activated, created>>
      BY <2>1 DEF Load, Consider, Pick, GetCost, SumCost, Rebuild, costVars, rowVars
    <3>2. \E p \in {"blocked", "consider", "serve", "pick", "get", "sum", "set"} : GoTo(r, p)
      BY <2>1, CheckGoes
    <3>3. pc'[r] \notin Paying
      BY <3>2, GoesAlone DEF Paying
    <3>4. created[r] = None
      BY <3>1 DEF EndedInv
    <3> QED BY <2>0, <2>f, <3>1, <3>3, <3>4, BillKeeps
  <2>2. CASE AddWeekly(r) \/ OpenWindow(r) \/ GetWindow(r) \/ AddTotal(r) \/ AddModel(r)
    <3>1. pc[r] \in Paying /\ pc[r] # "stamp" /\ UNCHANGED <<marker, activated>>
      BY <2>2 DEF AddWeekly, OpenWindow, GetWindow, AddTotal, AddModel, rowVars, Paying
    <3> QED BY <2>0, <2>f, <2>2, <3>1, BillKeeps, ChargeAlone
  <2>3. CASE LogUsage(r)
    <3>1. /\ pc[r] \in {"log", "logUnpriced"} /\ UNCHANGED <<marker, activated>>
          /\ created' = [created EXCEPT ![r] = IF pc[r] = "log" THEN now ELSE None]
          /\ GoTo(r, "done")
      BY <2>3 DEF LogUsage, rowVars
    <3>2. created'[r] = IF pc[r] = "log" THEN now ELSE None
      BY <3>1 DEF TypeInv, TypeOK
    <3>3. pc'[r] \notin Paying
      BY <3>1, GoesAlone DEF Paying
    <3> QED BY <2>0, <2>f, <2>3, <3>1, <3>2, <3>3, BillKeeps, ChargeAlone DEF Paying
  <2>4. CASE Answer(r) \/ AnswerUnbilled(r) \/ EndBlocked(r) \/ NeverComes(r)
    <3>1. /\ pc[r] \in {"serve", "blocked", "new"} /\ UNCHANGED <<marker, activated, created>>
          /\ UNCHANGED pc \/ \E p \in {"activate", "logUnpriced", "done"} : GoTo(r, p)
      BY <2>4 DEF Answer, AnswerUnbilled, EndBlocked, NeverComes, rowVars, costVars, reqVars, Try
    <3>2. pc'[r] \notin Paying /\ created[r] = None
      BY <3>1, GoesAlone DEF EndedInv, Paying
    <3> QED BY <2>0, <2>f, <3>1, <3>2, BillKeeps
  <2>5. CASE HangUp(r)
    BY <2>f, <2>5 DEF HangUp, BillInv
  <2>6. CASE Activate(r)
    <3> SUFFICES ASSUME faults \cap {"redis", "sql", "hangup"} = {}
                 PROVE  /\ \A q \in Requests :
                              pc'[q] \in Paying \/ created'[q] # None => Sub(q)' \in marker'
                        /\ \A s \in marker' : \/ activated'[s] # None
                              \/ \E q \in Requests : pc'[q] = "stamp" /\ Sub(q)' = s
      BY <2>f DEF BillInv
    <3>1. /\ marker' = marker \cup {Sub(r)}
          /\ GoTo(r, IF Sub(r) \in marker THEN "week" ELSE "stamp")
          /\ pc[r] = "activate"
          /\ UNCHANGED <<index, activated, created>>
      BY <2>6 DEF Activate, Fails, costVars
    <3>2. \A q \in Requests : Sub(q)' = Sub(q)
      BY <3>1 DEF Sub
    <3>3. pc'[r] = IF Sub(r) \in marker THEN "week" ELSE "stamp"
      BY <3>1, GoesAlone
    <3>4. \A q \in Requests : q # r => pc'[q] = pc[q]
      BY <2>0 DEF Untouched
    <3>5. \A q \in Requests : pc[q] = "stamp" => pc'[q] = "stamp"
      BY <3>1, <3>4
    <3> QED BY <3>1, <3>2, <3>3, <3>4, <3>5 DEF BillInv, EndedInv
  <2>7. CASE Stamp(r)
    <3> SUFFICES ASSUME faults \cap {"redis", "sql", "hangup"} = {}
                 PROVE  /\ \A q \in Requests :
                              pc'[q] \in Paying \/ created'[q] # None => Sub(q)' \in marker'
                        /\ \A s \in marker' : \/ activated'[s] # None
                              \/ \E q \in Requests : pc'[q] = "stamp" /\ Sub(q)' = s
      BY <2>f DEF BillInv
    <3>1. /\ activated' = [activated EXCEPT ![Sub(r)] = IF @ = None THEN now ELSE @]
          /\ pc[r] \in {"stamp", "stampAlone"}
          /\ UNCHANGED <<index, marker, created>>
      BY <2>7 DEF Stamp, Date, Try, Fails, costVars
    <3>2. \A q \in Requests : Sub(q)' = Sub(q)
      BY <3>1 DEF Sub
    <3>3. \A q \in Requests : q # r => pc'[q] = pc[q]
      BY <2>0 DEF Untouched
    <3>4. activated'[Sub(r)] # None /\ \A s \in SubIds : activated[s] # None => activated'[s] # None
      <4>1. activated \in [SubIds -> 0..MaxNow \cup {None}] /\ Sub(r) \in SubIds
            /\ now \in 0..MaxNow /\ MaxNow \in Nat /\ None \notin Nat /\ marker \subseteq SubIds
        BY SubIn, BudgetAssumption DEF TypeInv, TypeOK
      <4> QED BY <3>1, <4>1
    <3>5. Sub(r) \in marker /\ marker \subseteq SubIds
      BY <3>1 DEF BillInv, Paying, TypeInv, TypeOK
    <3>6. ASSUME NEW s \in marker
          PROVE activated'[s] # None \/ \E q \in Requests : pc'[q] = "stamp" /\ Sub(q)' = s
      <4>1. CASE activated[s] # None
        BY <3>4, <3>5, <4>1
      <4>2. CASE activated[s] = None
        <5>1. PICK q \in Requests : pc[q] = "stamp" /\ Sub(q) = s
          BY <4>2 DEF BillInv
        <5> QED BY <3>2, <3>3, <3>4, <5>1
      <4> QED BY <4>1, <4>2
    <3>7. ASSUME NEW q \in Requests, pc'[q] \in Paying \/ created'[q] # None PROVE Sub(q)' \in marker'
      BY <3>1, <3>2, <3>3, <3>5, <3>7 DEF BillInv
    <3> QED BY <3>1, <3>6, <3>7
  <2> QED BY <1>2, <2>1, <2>2, <2>3, <2>4, <2>5, <2>6, <2>7 DEF Step
<1> QED BY <1>1, <1>2

\* Nobody is billed on a subscription that nothing will ever activate: when
\* no command, query or client fails, the SET NX has one winner, and it is
\* still there, or has written the date.
THEOREM ActivatedWhenBilled == Spec => []BilledIsActivated
<1>1. Init => EndedInv /\ BillInv
  BY DEF Init, EndedInv, BillInv, Paying
<1>2. EndedInv /\ BillInv => BilledIsActivated
  BY DEF EndedInv, BillInv, BilledIsActivated
<1> QED BY <1>1, <1>2, TypeInit, TypeStep, EndedStep, BillStep, PTL DEF Spec

(***************************************************************************)
(* Exhausted only when spent                                               *)
(***************************************************************************)

\* A request reads the counter of the budget it looks at.
ReadsInv ==
    \A r \in Requests :
       pc[r] \in {"get", "sum", "set"} /\ scope[r] = "total" /\ Sub(r) \notin Windowed
          => key[r] = <<Sub(r), "total", 0>>

\* A sum is of priced entries of the subscription, and is used at once.
SumsInv ==
    \A r \in Requests : \A q \in summed[r] :
       pc[r] = "set" /\ q \in Requests /\ created[q] # None /\ Sub(q) = key[r][1]

\* A total counter without a window holds only what the subscription paid for.
HoldsInv ==
    \A s \in SubIds \ Windowed : counter[<<s, "total", 0>>] # None =>
       \A q \in Requests : counter[<<s, "total", 0>>][q] # 0 => q \in PaidBy(s)

\* So it is marked exhausted only when that reaches its limit.
MarksInv ==
    \A s \in SubIds \ Windowed :
       <<s, "exhausted">> \in marks \/ status[s] = "exhausted" => CostOf(PaidBy(s)) >= Limit[s]

\* A request that ended takes no step.
LEMMA EndedTakesNone ==
    ASSUME NEW r \in Requests, Step(r) PROVE pc[r] # "done"
<1>1. CASE Load(r) \/ Consider(r) \/ Pick(r) \/ GetCost(r) \/ SumCost(r) \/ Rebuild(r)
  BY <1>1 DEF Load, Consider, Pick, GetCost, SumCost, Rebuild
<1>2. CASE Answer(r) \/ Activate(r) \/ Stamp(r) \/ AddWeekly(r) \/ OpenWindow(r)
           \/ GetWindow(r) \/ AddTotal(r) \/ AddModel(r)
  BY <1>2 DEF Answer, Activate, Stamp, AddWeekly, OpenWindow, GetWindow, AddTotal, AddModel
<1>3. CASE AnswerUnbilled(r) \/ LogUsage(r) \/ HangUp(r) \/ EndBlocked(r) \/ NeverComes(r)
  BY <1>3 DEF AnswerUnbilled, LogUsage, HangUp, EndBlocked, NeverComes, InCheck, InCharge
<1> QED BY <1>1, <1>2, <1>3 DEF Step

\* It stays where it is, with its entry and its subscription.
LEMMA EndedStays ==
    ASSUME TypeInv, [Next]_vars, NEW q \in Requests, pc[q] = "done"
    PROVE  pc'[q] = "done" /\ created'[q] = created[q] /\ charged'[q] = charged[q] /\ Sub(q)' = Sub(q)
<1>1. CASE ~\E r \in Requests : Step(r)
  BY <1>1, OthersAlone DEF reqVars, Sub
<1>2. ASSUME NEW r \in Requests, Step(r)
      PROVE  /\ pc'[q] = "done" /\ created'[q] = created[q]
             /\ charged'[q] = charged[q] /\ Sub(q)' = Sub(q)
  BY <1>2, StepsAlone, EndedTakesNone DEF Untouched, Sub
<1> QED BY <1>1, <1>2

\* What was added to a counter stays added to it, as far as the history goes.
LEMMA ChargedStays ==
    ASSUME TypeInv, [Next]_vars, NEW q \in Requests PROVE charged[q] \subseteq charged'[q]
<1>1. CASE ~\E r \in Requests : Step(r)
  BY <1>1, OthersAlone
<1>2. ASSUME NEW r \in Requests, Step(r) PROVE charged[q] \subseteq charged'[q]
  <2>1. ASSUME NEW k, Add(r, k) PROVE charged[q] \subseteq charged'[q]
    <3>1. charged \in [Requests -> SUBSET Keys]
      BY DEF TypeInv, TypeOK
    <3> QED BY <2>1, <3>1 DEF Add, Try
  <2>2. CASE Load(r) \/ Consider(r) \/ Pick(r) \/ GetCost(r) \/ SumCost(r) \/ Rebuild(r)
    BY <2>2 DEF Load, Consider, Pick, GetCost, SumCost, Rebuild, costVars
  <2>3. CASE Answer(r) \/ Activate(r) \/ Stamp(r) \/ AddWeekly(r) \/ OpenWindow(r)
             \/ GetWindow(r) \/ AddTotal(r) \/ AddModel(r)
    <3>1. UNCHANGED charged \/ \E k : Add(r, k)
      BY <2>3 DEF Answer, Activate, Stamp, AddWeekly, OpenWindow, GetWindow, AddTotal, AddModel,
                  costVars
    <3> QED BY <2>1, <3>1
  <2>4. CASE AnswerUnbilled(r) \/ LogUsage(r) \/ HangUp(r) \/ EndBlocked(r) \/ NeverComes(r)
    BY <2>4 DEF AnswerUnbilled, LogUsage, HangUp, EndBlocked, NeverComes, costVars
  <2> QED BY <1>2, <2>2, <2>3, <2>4 DEF Step
<1> QED BY <1>1, <1>2

\* So what a subscription was paid for only grows.
LEMMA PaidGrows ==
    ASSUME TypeInv, EndedInv, [Next]_vars, NEW s PROVE PaidBy(s) \subseteq PaidBy(s)'
<1> SUFFICES ASSUME NEW q \in PaidBy(s) PROVE q \in PaidBy(s)'
  OBVIOUS
<1>1. q \in Requests
  BY DEF PaidBy, SpentOn
<1>2. CASE q \in SpentOn(<<s, "total", 0>>)
  BY <1>1, <1>2, ChargedStays DEF PaidBy, SpentOn
<1>3. CASE Sub(q) = s /\ created[q] # None
  BY <1>1, <1>3, EndedStays DEF PaidBy, EndedInv
<1> QED BY <1>2, <1>3 DEF PaidBy

\* The cost of more requests is no less.
LEMMA CostGrows ==
    ASSUME NEW V \in SUBSET Requests, NEW W \in SUBSET Requests, V \subseteq W
    PROVE  CostOf(V) \in Nat /\ CostOf(W) \in Nat /\ CostOf(V) <= CostOf(W)
<1>1. IsFiniteSet(Requests) /\ \A q \in Requests : Cost[q] \in Nat
  BY BudgetAssumption
<1>2. Total(Cost, V) <= Total(Cost, W)
  BY <1>1, TotalAtMost
<1> QED BY <1>1, <1>2, TotalType DEF CostOf

\* What a GET returns is at most the cost of the requests the counter holds,
\* when it holds none twice.
LEMMA AmountAtMost ==
    ASSUME NEW c, NEW V \in SUBSET Requests,
           \A q \in Requests : c[q] = 0 \/ (c[q] = 1 /\ q \in V)
    PROVE  Amount(c) \in Nat /\ Amount(c) <= CostOf(V)
<1>1. IsFiniteSet(Requests) /\ \A q \in Requests : Cost[q] \in Nat
  BY BudgetAssumption
<1> DEFINE each == [q \in Requests |-> c[q] * Cost[q]]
<1>2. \A q \in Requests : /\ each[q] \in Nat
                          /\ IF q \in V THEN each[q] <= Cost[q] ELSE each[q] = 0
  <2> SUFFICES ASSUME NEW q \in Requests
               PROVE  /\ each[q] \in Nat
                      /\ IF q \in V THEN each[q] <= Cost[q] ELSE each[q] = 0
    OBVIOUS
  <2>1. CASE c[q] = 0
    BY <1>1, <2>1
  <2>2. CASE c[q] = 1 /\ q \in V
    BY <1>1, <2>2
  <2> QED BY <2>1, <2>2
<1> HIDE DEF each
<1>3. Total(each, Requests) <= Total(Cost, V)
  BY <1>1, <1>2, TotalAtMost
<1>4. Total(each, Requests) \in Nat
  BY <1>1, <1>2, TotalType
<1> QED BY <1>3, <1>4 DEF CostOf, Amount, each

\* What a GET returns is at least the cost of any requests the counter holds.
LEMMA AmountAtLeast ==
    ASSUME NEW c \in [Requests -> Nat], NEW V \in SUBSET Requests, \A q \in V : c[q] > 0
    PROVE  Amount(c) \in Nat /\ CostOf(V) <= Amount(c)
<1>1. IsFiniteSet(Requests) /\ \A q \in Requests : Cost[q] \in Nat
  BY BudgetAssumption
<1> DEFINE each == [q \in Requests |-> c[q] * Cost[q]]
<1>2. ASSUME NEW n \in Nat, NEW m \in Nat PROVE n * m \in Nat /\ (n > 0 => m <= n * m)
  <2>1. n * m \in Nat
    OBVIOUS
  <2>2. n > 0 => n * m = m + (n - 1) * m /\ (n - 1) * m \in Nat
    OBVIOUS
  <2> QED BY <2>1, <2>2
<1>3. \A q \in Requests : each[q] \in Nat
  BY <1>1, <1>2
<1>4. \A q \in V : IF q \in Requests THEN Cost[q] <= each[q] ELSE Cost[q] = 0
  BY <1>1, <1>2
<1> HIDE DEF each
<1>5. Total(Cost, V) <= Total(each, Requests)
  BY <1>1, <1>3, <1>4, TotalAtMost
<1>6. Total(each, Requests) \in Nat
  BY <1>1, <1>3, TotalType
<1> QED BY <1>5, <1>6 DEF CostOf, Amount, each

\* Every step of a check reads the counter of its budget.
LEMMA ReadsStep == TypeInv /\ ReadsInv /\ [Next]_vars => ReadsInv'
<1> SUFFICES ASSUME TypeInv, ReadsInv, [Next]_vars PROVE ReadsInv'
  OBVIOUS
<1>1. CASE ~\E r \in Requests : Step(r)
  BY <1>1, OthersAlone DEF ReadsInv, reqVars, Sub
<1>2. ASSUME NEW r \in Requests, Step(r) PROVE ReadsInv'
  <2>0. \A q \in Requests : q # r => Untouched(q)
    BY <1>2, StepsAlone
  <2>1. CASE pc'[r] \notin {"get", "sum", "set"}
    BY <2>0, <2>1 DEF ReadsInv, Untouched, Sub
  <2>2. CASE GoTo(r, "get") /\ Pick(r)
    <3>1. UNCHANGED <<index, scope>> /\
          key' = [key EXCEPT ![r] = CounterKey(Sub(r), scope[r], winStart[Sub(r)])]
      <4>1. pc'[r] = "get"
        BY <2>2, GoesAlone
      <4>2. ~Skip(r) /\ ~Pass(r) /\ ~Judge(r, 0)
        BY <4>1, JudgeGoes
      <4> QED BY <2>2, <4>2 DEF Pick
    <3>2. scope[r] = "total" /\ Sub(r) \notin Windowed => key'[r] = <<Sub(r), "total", 0>>
      BY <3>1 DEF CounterKey, TypeInv, TypeOK
    <3> QED BY <2>0, <3>1, <3>2 DEF ReadsInv, Untouched, Sub
  <2>3. CASE UNCHANGED <<index, scope, key>> /\ pc[r] \in {"get", "sum"}
    BY <2>0, <2>3 DEF ReadsInv, Untouched, Sub
  <2>4. CASE Load(r) \/ Consider(r)
    <3>1. Skip(r) \/ GoTo(r, "pick") \/ GoTo(r, "consider")
      BY <2>4 DEF Load, Consider
    <3> QED BY <2>1, <3>1, JudgeGoes, GoesAlone
  <2>5. CASE Pick(r)
    <3>1. Skip(r) \/ Pass(r) \/ Judge(r, 0) \/ GoTo(r, "get")
      BY <2>5 DEF Pick
    <3> QED BY <2>1, <2>2, <2>5, <3>1, JudgeGoes
  <2>6. CASE GetCost(r)
    <3>1. Judge(r, Amount(counter[key[r]])) \/ UNCHANGED <<index, scope>>
      BY <2>6 DEF GetCost
    <3>2. UNCHANGED key /\ pc[r] = "get"
      BY <2>6 DEF GetCost
    <3> QED BY <2>1, <2>3, <3>1, <3>2, JudgeGoes
  <2>7. CASE SumCost(r)
    BY <2>3, <2>7 DEF SumCost
  <2>8. CASE Rebuild(r)
    BY <2>1, <2>8, JudgeGoes DEF Rebuild
  <2>9. CASE \/ Answer(r) \/ Activate(r) \/ Stamp(r) \/ AddWeekly(r) \/ OpenWindow(r)
             \/ GetWindow(r) \/ AddTotal(r) \/ AddModel(r)
             \/ AnswerUnbilled(r) \/ LogUsage(r) \/ HangUp(r) \/ EndBlocked(r) \/ NeverComes(r)
    BY <2>1, <2>9, ChargeGoes DEF InCheck
  <2> QED BY <1>2, <2>4, <2>5, <2>6, <2>7, <2>8, <2>9 DEF Step
<1> QED BY <1>1, <1>2

\* Every sum is of entries that stay as they are.
LEMMA SumsStep == TypeInv /\ EndedInv /\ SumsInv /\ [Next]_vars => SumsInv'
<1> SUFFICES ASSUME TypeInv, EndedInv, SumsInv, [Next]_vars PROVE SumsInv'
  OBVIOUS
<1>0. \A q \in Requests : created[q] # None => created'[q] # None /\ Sub(q)' = Sub(q)
  BY EndedStays DEF EndedInv
<1>1. CASE ~\E r \in Requests : Step(r)
  BY <1>1, OthersAlone DEF SumsInv, reqVars, Sub
<1>2. ASSUME NEW r \in Requests, Step(r) PROVE SumsInv'
  <2>0. \A q \in Requests : q # r => Untouched(q)
    BY <1>2, StepsAlone
  <2>1. CASE SumCost(r)
    <3>1. /\ pc'[r] = "set" /\ UNCHANGED <<index, key, created>>
          /\ \/ summed' = [summed EXCEPT ![r] = {q \in stored \ purged : Matches(q, key[r])}]
             \/ summed' = [summed EXCEPT ![r] = {}]
      BY <2>1, GoesAlone DEF SumCost, Try, costVars
    <3>2. ASSUME NEW q \in summed'[r]
          PROVE  q \in Requests /\ created[q] # None /\ Sub(q) = key[r][1]
      <4>1. stored \subseteq Requests /\ summed \in [Requests -> SUBSET Requests]
        BY DEF TypeInv, TypeOK, LogTypeOK, Requests
      <4> QED BY <3>1, <3>2, <4>1 DEF Matches
    <3> QED BY <1>0, <2>0, <3>1, <3>2 DEF SumsInv, Untouched
  <2>2. CASE ~SumCost(r)
    <3>1. summed'[r] = {}
      <4>0. summed \in [Requests -> SUBSET Requests]
        BY DEF TypeInv, TypeOK
      <4>1. CASE pc[r] = "set"
        <5>1. Rebuild(r) \/ HangUp(r)
          BY <1>2, <4>1 DEF Step, Load, Consider, Pick, GetCost, SumCost, Answer, AnswerUnbilled,
               Activate, Stamp, AddWeekly, OpenWindow, GetWindow, AddTotal, AddModel, LogUsage,
               EndBlocked, NeverComes
        <5> QED BY <4>0, <5>1 DEF Rebuild, HangUp
      <4>2. CASE pc[r] # "set"
        <5>1. summed[r] = {}
          BY <4>2 DEF SumsInv
        <5>2. UNCHANGED summed \/ summed' = [summed EXCEPT ![r] = {}]
          BY <1>2, <2>2 DEF Step, Load, Consider, Pick, GetCost, Rebuild, Answer, AnswerUnbilled,
               Activate, Stamp, AddWeekly, OpenWindow, GetWindow, AddTotal, AddModel, LogUsage,
               HangUp, EndBlocked, NeverComes, reqVars
        <5> QED BY <4>0, <5>1, <5>2
      <4> QED BY <4>1, <4>2
    <3> QED BY <1>0, <2>0, <3>1 DEF SumsInv, Untouched
  <2> QED BY <2>1, <2>2
<1> QED BY <1>1, <1>2

\* What a step does to the counters: it loses one, rebuilds one or adds to one.
LEMMA CounterChanges ==
    ASSUME TypeInv, [Next]_vars
    PROVE  \/ UNCHANGED <<counter, charged>>
           \/ \E k \in Keys : counter' = [counter EXCEPT ![k] = None] /\ UNCHANGED charged
           \/ \E r \in Requests : /\ key[r] \in Keys
                                  /\ UNCHANGED charged /\ Lose(key[r], summed[r])
                                  /\ counter' = [counter EXCEPT ![key[r]] =
                                        [q \in Requests |-> IF q \in summed[r] THEN 1 ELSE 0]]
           \/ \E r \in Requests, k \in Keys :
                 /\ charged' = [charged EXCEPT ![r] = @ \cup {k}]
                 /\ counter[k] = None => Lose(k, {})
                 /\ counter' = [counter EXCEPT ![k] =
                       [q \in Requests |-> (IF counter[k] = None THEN 0 ELSE counter[k][q])
                                           + (IF q = r THEN 1 ELSE 0)]]
<1>1. ASSUME NEW r \in Requests, Step(r), <<counter, charged>>' # <<counter, charged>>
      PROVE  Rebuild(r) \/ \E k \in Keys : Add(r, k)
  <2>1. Rebuild(r) \/ AddWeekly(r) \/ AddTotal(r) \/ AddModel(r)
    BY <1>1 DEF Step, Load, Consider, Pick, GetCost, SumCost, Answer, AnswerUnbilled,
               Activate, Stamp, OpenWindow, GetWindow, LogUsage,
               HangUp, EndBlocked, NeverComes, costVars
  <2>s. Sub(r) \in SubIds
    BY SubIn DEF TypeInv, TypeOK
  <2>2. CASE AddWeekly(r)
    <3>1. CounterKey(Sub(r), "week", 0) \in Keys
      BY <2>s, KeyIn, ScopesAre DEF TypeInv, TypeOK
    <3> QED BY <1>1, <2>2, <3>1 DEF AddWeekly
  <2>3. CASE AddTotal(r)
    BY <2>3 DEF AddTotal, TypeInv, KeyInv
  <2>4. CASE AddModel(r)
    <3>1. key[r] \in Keys
      BY <2>4 DEF AddModel, TypeInv, KeyInv
    <3>2. key[r][3] \in 0..MaxNow
      BY <3>1 DEF Keys
    <3>3. CounterKey(Sub(r), ModelOf[r], key[r][3]) \in Keys
      BY <2>s, <3>2, KeyIn, ScopesAre DEF TypeInv, TypeOK
    <3> QED BY <2>4, <3>3 DEF AddModel
  <2> QED BY <2>1, <2>2, <2>3, <2>4
<1>2. ASSUME NEW r \in Requests, Rebuild(r), <<counter, charged>>' # <<counter, charged>>
      PROVE  /\ key[r] \in Keys
             /\ UNCHANGED charged /\ Lose(key[r], summed[r])
             /\ counter' = [counter EXCEPT ![key[r]] =
                               [q \in Requests |-> IF q \in summed[r] THEN 1 ELSE 0]]
  BY <1>2 DEF Rebuild, Try, TypeInv, KeyInv
<1>3. ASSUME NEW r \in Requests, NEW k \in Keys, Add(r, k),
             <<counter, charged>>' # <<counter, charged>>
      PROVE  /\ charged' = [charged EXCEPT ![r] = @ \cup {k}]
             /\ counter[k] = None => Lose(k, {})
             /\ counter' = [counter EXCEPT ![k] =
                   [q \in Requests |-> (IF counter[k] = None THEN 0 ELSE counter[k][q])
                                       + (IF q = r THEN 1 ELSE 0)]]
  BY <1>3 DEF Add, Try
<1>4. ASSUME ~\E r \in Requests : Step(r), <<counter, charged>>' # <<counter, charged>>
      PROVE  \E k \in Keys : counter' = [counter EXCEPT ![k] = None] /\ UNCHANGED charged
  BY <1>4 DEF Next, RunMark, ListExpires, Tick, Evict, DropPartition, StopListening, Flush, vars,
       costVars
<1> QED BY <1>1, <1>2, <1>3, <1>4

\* A counter that has gone without a cost is not forgotten.
LEMMA LossyGrows ==
    ASSUME TypeInv, [Next]_vars PROVE lossy \subseteq lossy'
<1>1. CASE ~\E r \in Requests : Step(r)
  BY <1>1, OthersAlone DEF histVars
<1>2. ASSUME NEW r \in Requests, Step(r) PROVE lossy \subseteq lossy'
  <2>1. ASSUME NEW k, Add(r, k) PROVE lossy \subseteq lossy'
    BY <2>1 DEF Add, Try, Lose
  <2>2. ASSUME NEW k, NEW S, Lose(k, S) PROVE lossy \subseteq lossy'
    BY <2>2 DEF Lose
  <2>3. UNCHANGED lossy \/ (\E k : Add(r, k)) \/ (\E k, S : Lose(k, S))
    BY <1>2 DEF Step, Load, Consider, Pick, GetCost, SumCost, Rebuild, Answer, AnswerUnbilled,
         Activate, Stamp, AddWeekly, OpenWindow, GetWindow, AddTotal, AddModel, LogUsage,
         HangUp, EndBlocked, NeverComes, histVars
  <2> QED BY <2>1, <2>2, <2>3
<1> QED BY <1>1, <1>2

\* A counter that has never gone without a cost holds all that were added to it.
CompleteInv ==
    \A k \in Keys \ lossy : counter[k] # None => \A q \in SpentOn(k) : counter[k][q] > 0

\* A rebuild or an addition that loses a cost says so.
LEMMA CompleteStep == TypeInv /\ CompleteInv /\ [Next]_vars => CompleteInv'
<1> SUFFICES ASSUME TypeInv, CompleteInv, [Next]_vars,
                    NEW j \in Keys, j \notin lossy', counter'[j] # None,
                    NEW q \in Requests, j \in charged'[q]
             PROVE  counter'[j][q] > 0
  BY DEF CompleteInv, SpentOn
<1>0. /\ counter \in [Keys -> [Requests -> Nat] \cup {None}]
      /\ charged \in [Requests -> SUBSET Keys] /\ lossy \subseteq Keys
  BY DEF TypeInv, TypeOK
<1>1. ASSUME counter'[j] = counter[j], j \in charged[q] PROVE counter'[j][q] > 0
  BY <1>1, LossyGrows DEF CompleteInv, SpentOn
<1>2. CASE UNCHANGED <<counter, charged>>
  BY <1>1, <1>2
<1>3. ASSUME NEW k \in Keys, counter' = [counter EXCEPT ![k] = None], UNCHANGED charged
      PROVE  counter'[j][q] > 0
  BY <1>0, <1>1, <1>3
<1>4. ASSUME NEW r \in Requests, key[r] \in Keys, UNCHANGED charged, Lose(key[r], summed[r]),
             counter' = [counter EXCEPT ![key[r]] =
                            [p \in Requests |-> IF p \in summed[r] THEN 1 ELSE 0]]
      PROVE  counter'[j][q] > 0
  <2>1. CASE key[r] = j
    <3>1. SpentOn(j) \subseteq summed[r]
      BY <1>0, <1>4, <2>1 DEF Lose
    <3>2. q \in summed[r]
      BY <1>4, <3>1 DEF SpentOn
    <3> QED BY <1>0, <1>4, <2>1, <3>2
  <2>2. CASE key[r] # j
    BY <1>0, <1>1, <1>4, <2>2
  <2> QED BY <2>1, <2>2
<1>5. ASSUME NEW r \in Requests, NEW k \in Keys,
             charged' = [charged EXCEPT ![r] = @ \cup {k}],
             counter[k] = None => Lose(k, {}),
             counter' = [counter EXCEPT ![k] =
                [p \in Requests |-> (IF counter[k] = None THEN 0 ELSE counter[k][p])
                                    + (IF p = r THEN 1 ELSE 0)]]
      PROVE  counter'[j][q] > 0
  <2>1. CASE k # j
    <3>1. counter'[j] = counter[j] /\ j \in charged[q]
      BY <1>0, <1>5, <2>1
    <3> QED BY <1>1, <3>1
  <2>2. CASE k = j
    <3>1. counter'[j][q] = (IF counter[j] = None THEN 0 ELSE counter[j][q])
                           + (IF q = r THEN 1 ELSE 0)
      BY <1>0, <1>5, <2>2
    <3>2. counter[j] # None => counter[j][q] \in Nat
      BY <1>0
    <3>3. CASE q = r
      BY <3>1, <3>2, <3>3
    <3>4. CASE q # r
      <4>1. q \in SpentOn(j)
        BY <1>0, <1>5, <3>4 DEF SpentOn
      <4>2. counter[j] # None
        BY <1>0, <1>5, <2>2, <4>1 DEF Lose
      <4>3. counter[j][q] > 0
        BY <4>1, <4>2, LossyGrows DEF CompleteInv
      <4> QED BY <3>1, <3>2, <3>4, <4>2, <4>3
    <3> QED BY <3>3, <3>4
  <2> QED BY <2>1, <2>2
<1> QED BY <1>2, <1>3, <1>4, <1>5, CounterChanges

\* A total counter gets a cost from a paid entry, or with its addition.
LEMMA HoldsStep ==
    TypeInv /\ EndedInv /\ SumsInv /\ HoldsInv /\ [Next]_vars => HoldsInv'
<1> SUFFICES ASSUME TypeInv, EndedInv, SumsInv, HoldsInv, [Next]_vars,
                    NEW s \in SubIds \ Windowed, counter'[<<s, "total", 0>>] # None,
                    NEW q \in Requests, counter'[<<s, "total", 0>>][q] # 0
             PROVE  q \in PaidBy(s)'
  BY DEF HoldsInv
<1> DEFINE k == <<s, "total", 0>>
<1>0. /\ counter \in [Keys -> [Requests -> Nat] \cup {None}] /\ charged \in [Requests -> SUBSET Keys]
      /\ k \in Keys
  <2>1. 0 \in 0..MaxNow /\ "total" \in Scopes
    BY BudgetAssumption DEF Scopes
  <2> QED BY <2>1 DEF TypeInv, TypeOK, Keys
<1>1. PaidBy(s) \subseteq PaidBy(s)'
  BY PaidGrows
<1>2. k[1] = s
  OBVIOUS
<1>3. counter[k] # None /\ counter[k][q] # 0 => q \in PaidBy(s)
  BY DEF HoldsInv
<1>h. counter'[k] # None /\ counter'[k][q] # 0
  OBVIOUS
<1>4. ASSUME NEW r \in Requests, key[r] \in Keys,
             counter' = [counter EXCEPT ![key[r]] =
                            [p \in Requests |-> IF p \in summed[r] THEN 1 ELSE 0]]
      PROVE  q \in PaidBy(s)'
  <2>1. CASE key[r] = k
    <3>1. q \in summed[r]
      BY <1>0, <1>4, <1>h, <2>1
    <3>2. q \in PaidBy(s)
      BY <1>2, <2>1, <3>1 DEF SumsInv, PaidBy
    <3> QED BY <1>1, <3>2
  <2>2. CASE key[r] # k
    <3>1. counter'[k] = counter[k]
      BY <1>0, <1>4, <2>2
    <3> QED BY <1>1, <1>3, <1>h, <3>1
  <2> QED BY <2>1, <2>2
<1>5. ASSUME NEW r \in Requests, NEW j \in Keys,
             charged' = [charged EXCEPT ![r] = @ \cup {j}],
             counter' = [counter EXCEPT ![j] =
                [p \in Requests |-> (IF counter[j] = None THEN 0 ELSE counter[j][p])
                                    + (IF p = r THEN 1 ELSE 0)]]
      PROVE  q \in PaidBy(s)'
  <2>1. CASE j = k /\ q = r
    <3>1. k \in charged'[q]
      BY <1>0, <1>5, <2>1
    <3> QED BY <3>1 DEF PaidBy, SpentOn
  <2>2. CASE j = k /\ q # r
    <3>1. counter'[k][q] = (IF counter[k] = None THEN 0 ELSE counter[k][q]) + 0
      BY <1>0, <1>5, <2>2
    <3>2. counter[k] # None /\ counter[k][q] # 0
      BY <1>0, <1>h, <3>1
    <3> QED BY <1>1, <1>3, <3>2
  <2>3. CASE j # k
    <3>1. counter'[k] = counter[k]
      BY <1>0, <1>5, <2>3
    <3> QED BY <1>1, <1>3, <1>h, <3>1
  <2> QED BY <2>1, <2>2, <2>3
<1>6. CASE \E j \in Keys : counter' = [counter EXCEPT ![j] = None]
  BY <1>0, <1>1, <1>3, <1>h, <1>6
<1>7. CASE UNCHANGED counter
  BY <1>1, <1>3, <1>h, <1>7
<1> QED BY <1>4, <1>5, <1>6, <1>7, CounterChanges

\* A full budget is a total at its limit.
LEMMA JudgeMarks ==
    ASSUME TypeInv, NEW r \in Requests, NEW amount \in Nat, Judge(r, amount),
           NEW s \in SubIds, <<s, "exhausted">> \in marks', <<s, "exhausted">> \notin marks
    PROVE  scope[r] = "total" /\ s = Sub(r) /\ s \notin Windowed /\ amount >= Limit[s]
<1>1. marks' # marks
  OBVIOUS
<1>2. ~Pass(r)
  BY <1>1 DEF Pass
<1>3. /\ ~(amount < LimitOf(Sub(r), scope[r]))
      /\ scope[r] = "total" /\ Sub(r) \notin Windowed
      /\ marks' = marks \cup {<<Sub(r), "exhausted">>}
  BY <1>1, <1>2 DEF Judge
<1>4. s = Sub(r)
  BY <1>3
<1>5. LimitOf(Sub(r), scope[r]) = Limit[s] /\ Limit[s] \in Nat
  BY <1>3, <1>4, BudgetAssumption DEF LimitOf
<1> QED BY <1>3, <1>4, <1>5

\* No step marks a subscription exhausted before it was paid for.
LEMMA MarksStep ==
    TypeInv /\ CountInv /\ EndedInv /\ ReadsInv /\ SumsInv /\ HoldsInv /\ MarksInv /\ [Next]_vars
       => MarksInv'
<1> SUFFICES ASSUME TypeInv, CountInv, EndedInv, ReadsInv, SumsInv, HoldsInv, MarksInv, [Next]_vars,
                    NEW s \in SubIds \ Windowed,
                    <<s, "exhausted">> \in marks' \/ status'[s] = "exhausted"
             PROVE  CostOf(PaidBy(s))' >= Limit[s]
  BY DEF MarksInv
<1> DEFINE k == <<s, "total", 0>>
<1>0. k \in Keys /\ "exhausted" # "expired" /\ Limit[s] \in Nat
  <2>1. 0 \in 0..MaxNow /\ "total" \in Scopes
    BY BudgetAssumption DEF Scopes
  <2> QED BY <2>1, BudgetAssumption DEF Keys
<1>1. PaidBy(s) \subseteq PaidBy(s)' /\ PaidBy(s)' \in SUBSET Requests
      /\ PaidBy(s) \in SUBSET Requests
  BY PaidGrows DEF PaidBy, SpentOn
<1>2. /\ CostOf(PaidBy(s)) \in Nat /\ CostOf(PaidBy(s))' \in Nat
      /\ CostOf(PaidBy(s)) <= CostOf(PaidBy(s))'
  <2>1. CostOf(PaidBy(s)') = CostOf(PaidBy(s))'
    OBVIOUS
  <2> QED BY <1>1, <2>1, CostGrows
<1>3. SUFFICES CostOf(PaidBy(s)) >= Limit[s]
  BY <1>0, <1>2
<1>4. CASE <<s, "exhausted">> \in marks \/ status[s] = "exhausted"
  BY <1>4 DEF MarksInv
<1>5. CASE ~(<<s, "exhausted">> \in marks \/ status[s] = "exhausted")
  <2>1. ASSUME NEW r \in Requests, Step(r) PROVE CostOf(PaidBy(s)) >= Limit[s]
    <3>1. UNCHANGED status /\ marks' # marks
      <4>1. UNCHANGED status
        BY <2>1 DEF Step, Load, Consider, Pick, GetCost, SumCost, Rebuild, Answer, AnswerUnbilled,
             Activate, Stamp, AddWeekly, OpenWindow, GetWindow, AddTotal, AddModel, LogUsage,
             HangUp, EndBlocked, NeverComes, rowVars
      <4> QED BY <1>5, <4>1
    <3>2. Consider(r) \/ Pick(r) \/ GetCost(r) \/ Rebuild(r)
      BY <2>1, <3>1 DEF Step, Load, SumCost, Answer, AnswerUnbilled,
             Activate, Stamp, AddWeekly, OpenWindow, GetWindow, AddTotal, AddModel, LogUsage,
             HangUp, EndBlocked, NeverComes, rowVars
    <3>3. CASE Consider(r)
      <4>1. UNCHANGED marks \/ marks' = marks \cup {<<Sub(r), "expired">>}
        BY <3>3 DEF Consider
      <4> QED BY <1>5, <3>1, <4>1
    <3>4. CASE Pick(r)
      <4>1. Sub(r) \in Windowed /\ Judge(r, 0)
        BY <3>1, <3>4 DEF Pick, Pass
      <4>2. scope[r] = "total" /\ s = Sub(r)
        BY <1>5, <3>1, <4>1, JudgeMarks
      <4> QED BY <4>1, <4>2
    <3>5. CASE GetCost(r)
      <4>1. pc[r] = "get" /\ counter[key[r]] # None /\ Judge(r, Amount(counter[key[r]]))
        BY <3>1, <3>5 DEF GetCost
      <4>2. key[r] \in Keys
        BY <4>1 DEF TypeInv, KeyInv
      <4>3. \A q \in Requests : counter[key[r]][q] = 0 \/ counter[key[r]][q] = 1
        BY <4>1, <4>2 DEF CountInv
      <4>4. Amount(counter[key[r]]) \in Nat
        BY <4>3, AmountAtMost
      <4>5. scope[r] = "total" /\ s = Sub(r) /\ Amount(counter[key[r]]) >= Limit[s]
        BY <1>5, <3>1, <4>1, <4>4, JudgeMarks
      <4>6. key[r] = k
        BY <4>1, <4>5 DEF ReadsInv
      <4>7. \A q \in Requests : counter[k][q] = 0 \/ (counter[k][q] = 1 /\ q \in PaidBy(s))
        BY <4>1, <4>3, <4>6 DEF HoldsInv
      <4>8. Amount(counter[k]) <= CostOf(PaidBy(s))
        BY <1>1, <4>7, AmountAtMost
      <4> QED BY <1>0, <1>2, <4>4, <4>5, <4>6, <4>8
    <3>6. CASE Rebuild(r)
      <4>1. pc[r] = "set" /\ Judge(r, CostOf(summed[r]))
        BY <3>6 DEF Rebuild
      <4>2. summed[r] \in SUBSET Requests
        BY DEF TypeInv, TypeOK
      <4>3. CostOf(summed[r]) \in Nat
        BY <4>2, CostGrows
      <4>4. scope[r] = "total" /\ s = Sub(r) /\ CostOf(summed[r]) >= Limit[s]
        BY <1>5, <3>1, <4>1, <4>3, JudgeMarks
      <4>5. key[r][1] = s
        BY <4>1, <4>4 DEF ReadsInv
      <4>6. summed[r] \subseteq PaidBy(s)
        BY <4>5 DEF SumsInv, PaidBy
      <4>7. CostOf(summed[r]) <= CostOf(PaidBy(s))
        BY <1>1, <4>2, <4>6, CostGrows
      <4> QED BY <1>0, <1>2, <4>3, <4>4, <4>7
    <3> QED BY <3>2, <3>3, <3>4, <3>5, <3>6
  <2>2. CASE ~\E r \in Requests : Step(r)
    <3>1. ASSUME NEW m \in marks, RunMark(m[1], m[2]) PROVE FALSE
      <4>1. m = <<m[1], m[2]>>
        BY DEF TypeInv, TypeOK
      <4>2. marks' \subseteq marks /\ (status' = status \/
               status' = [status EXCEPT ![m[1]] = IF @ = "active" THEN m[2] ELSE @])
        BY <3>1 DEF RunMark
      <4>3. status'[s] = "exhausted"
        BY <1>5, <4>2
      <4>4. m[1] = s /\ m[2] = "exhausted"
        BY <1>5, <4>2, <4>3 DEF TypeInv, TypeOK
      <4> QED BY <1>5, <4>1, <4>4
    <3>2. (\A m \in marks : ~RunMark(m[1], m[2])) => UNCHANGED <<marks, status>>
      BY <2>2 DEF Next, ListExpires, Tick, Evict, DropPartition, StopListening, Flush, vars, rowVars
    <3> QED BY <1>5, <3>1, <3>2
  <2> QED BY <2>1, <2>2
<1> QED BY <1>4, <1>5

\* exhausted is for good, and it is never set before the budget was spent:
\* no rebuild, failure, lost counter or interleaving ends a subscription early.
THEOREM ExhaustedWhenSpent == Spec => []ExhaustedIsSpent
<1> DEFINE Inv == /\ TypeInv /\ CountInv /\ EndedInv /\ ReadsInv
                  /\ SumsInv /\ HoldsInv /\ MarksInv
<1>1. Init => Inv
  <2> SUFFICES ASSUME Init PROVE Inv
    OBVIOUS
  <2>1. TypeInv /\ CountInv
    BY TypeInit, NoElements DEF Init, LogInit, CountInv, Entered
  <2>2. EndedInv /\ ReadsInv /\ SumsInv
    BY DEF Init, EndedInv, ReadsInv, SumsInv
  <2>3. HoldsInv
    <3>1. \A s \in SubIds : <<s, "total", 0>> \in Keys
      BY BudgetAssumption DEF Keys, Scopes
    <3> QED BY <3>1 DEF Init, HoldsInv
  <2>4. MarksInv
    BY DEF Init, MarksInv
  <2> QED BY <2>1, <2>2, <2>3, <2>4
<1>2. Inv /\ [Next]_vars => Inv'
  BY TypeStep, CountStep, EndedStep, ReadsStep, SumsStep, HoldsStep, MarksStep DEF TypeInv
<1>3. Inv => ExhaustedIsSpent
  BY DEF MarksInv, ExhaustedIsSpent
<1> QED BY <1>1, <1>2, <1>3, PTL DEF Spec

(***************************************************************************)
(* Admitted below the limit                                                *)
(***************************************************************************)

\* The earliest start of the counter a request is judged on from now on.
Lower(s, sc) ==
    IF sc = "week" THEN Monday(now)
    ELSE IF s \notin Windowed THEN 0
    ELSE IF winStart[s] = None THEN now ELSE winStart[s]

\* A counter that may have been added to: its window has begun, and a window
\* that has no key any more is over.
Begun(k) ==
    IF k[2] = "week" THEN k[3] <= Monday(now)
    ELSE IF k[1] \notin Windowed THEN k[3] = 0
    ELSE IF winStart[k[1]] = None THEN k[3] < now ELSE k[3] <= winStart[k[1]]

\* What had been added to a counter when a request came was below its limit,
\* or the counter has at some time gone without some of it.
Below(r, k) ==
    k \in lossy \/ CostOf(before[r] \cap SpentOn(k)) < LimitOf(k[1], k[2])

\* A request has passed a budget: so it is for every window still to come.
Passed(r, sc) ==
    \/ Unlimited(Sub(r), sc)
    \/ \A t \in 0..MaxNow : t >= Lower(Sub(r), sc) => Below(r, <<Sub(r), sc, t>>)

\* The budgets are looked at in their order.
ScopeInv == \A r \in Requests : scope[r] \in {"total", "week", ModelOf[r]}

\* The requests that had ended when another came.
BeforeInv == \A r \in Requests : \A q \in before[r] : pc[q] = "done"

\* A window begins in the past, and only counters whose window has begun are
\* added to.
BegunInv ==
    /\ \A s \in SubIds : winStart[s] # None => winStart[s] <= now
    /\ \A q \in Requests : \A k \in charged[q] : Begun(k)
    /\ \A q \in Requests : pc[q] \in {"total", "model"} =>
          Begun(key[q]) /\ key[q][1] = Sub(q) /\ key[q][2] = "total"

\* A request reads a counter of the budget it looks at; nothing was added to
\* a later one by those that had ended when it came.
CurrentInv ==
    \A r \in Requests : pc[r] \in {"get", "sum", "set"} =>
       /\ key[r] = <<Sub(r), scope[r], key[r][3]>>
       /\ key[r][3] <= Lower(Sub(r), scope[r])
       /\ \A t \in 0..MaxNow : t > key[r][3] =>
             before[r] \cap SpentOn(<<Sub(r), scope[r], t>>) = {}

\* The budgets a request has left behind it, it has passed.
PassedInv ==
    ("redis" \in faults => failures = 0) =>
       \A r \in Requests : pc[r] \in {"pick", "get", "sum", "set"} =>
          /\ scope[r] # "total" => Passed(r, "total")
          /\ scope[r] \in Models => Passed(r, "week")

\* Division with a remainder.
LEMMA DivMod ==
    ASSUME NEW t \in Int, NEW w \in Int, w > 0
    PROVE  t = w * (t \div w) + (t % w)
  OBVIOUS

\* A remainder grows by one at most.
LEMMA NextRemainder ==
    ASSUME NEW t \in Nat, NEW w \in Nat \ {0}
    PROVE  (t + 1) % w <= (t % w) + 1
<1> DEFINE q == t \div w
           r == t % w
<1>1. w \in Int /\ w > 0 /\ t \in Int /\ t = w * q + r /\ q \in Int /\ r \in Nat /\ r < w
  <2>1. w \in Int /\ w > 0 /\ t \in Int
    OBVIOUS
  <2>2. t = w * (t \div w) + (t % w)
    BY <2>1, DivMod
  <2> QED BY <2>1, <2>2
<1> HIDE DEF q, r
<1>2. CASE r + 1 < w
  <2>0. w * q \in Int
    BY <1>1
  <2>1. t + 1 = w * q + (r + 1)
    BY <1>1, <2>0
  <2>2. (t + 1) % w = r + 1
    <3>1. r + 1 \in Nat /\ t + 1 \in Int
      BY <1>1
    <3> QED BY <1>1, <1>2, <2>1, <3>1
  <2> QED BY <2>2, <1>1 DEF r
<1>3. CASE r + 1 = w
  <2>0. w * q \in Int
    BY <1>1
  <2>1. t + 1 = w * (q + 1) + 0
    <3>1. w * (q + 1) = w * q + w
      BY <1>1
    <3> QED BY <1>1, <1>3, <3>1, <2>0
  <2>2. (t + 1) % w = 0
    <3>1. q + 1 \in Int /\ t + 1 \in Int
      BY <1>1
    <3> QED BY <1>1, <2>1, <3>1
  <2> QED BY <2>2, <1>1 DEF r
<1> QED BY <1>1, <1>2, <1>3

\* The clock and the windows: a window opens now, or the clock ticks.
LEMMA ClockSteps ==
    ASSUME TypeInv, [Next]_vars
    PROVE  \/ UNCHANGED <<now, winStart>>
           \/ /\ UNCHANGED now
              /\ \E r \in Requests :
                    winStart' = [winStart EXCEPT ![Sub(r)] = IF @ = None THEN now ELSE @]
           \/ Tick
<1>1. ASSUME NEW r \in Requests, Step(r), ~OpenWindow(r) PROVE UNCHANGED <<now, winStart>>
  BY <1>1 DEF Step, Load, Consider, Pick, GetCost, SumCost, Rebuild, Answer, AnswerUnbilled,
     Activate, Stamp, AddWeekly, GetWindow, AddTotal, AddModel, LogUsage, HangUp, EndBlocked,
     NeverComes, costVars
<1>2. ASSUME NEW r \in Requests, OpenWindow(r)
      PROVE  /\ UNCHANGED now
             /\ \/ UNCHANGED winStart
                \/ winStart' = [winStart EXCEPT ![Sub(r)] = IF @ = None THEN now ELSE @]
  BY <1>2 DEF OpenWindow, Try
<1>3. ASSUME NEW m \in marks, RunMark(m[1], m[2]) PROVE UNCHANGED <<now, winStart>>
  BY <1>3 DEF RunMark, costVars
<1>4. ASSUME NEW k \in Keys, Evict(k) PROVE UNCHANGED <<now, winStart>>
  BY <1>4 DEF Evict
<1>5. CASE ListExpires \/ DropPartition \/ StopListening \/ Flush \/ UNCHANGED vars
  BY <1>5 DEF ListExpires, DropPartition, StopListening, Flush, vars, costVars
<1> QED BY <1>1, <1>2, <1>3, <1>4, <1>5 DEF Next

\* A week does not begin earlier than the one before.
LEMMA MondayGrows ==
    ASSUME NEW t \in Nat
    PROVE  Monday(t) \in Nat /\ Monday(t + 1) \in Nat /\ Monday(t) <= Monday(t + 1)
<1>1. WeekLen \in Nat \ {0}
  BY BudgetAssumption
<1>2. (t + 1) % WeekLen <= (t % WeekLen) + 1
  BY <1>1, NextRemainder
<1>3. t % WeekLen \in Nat /\ (t + 1) % WeekLen \in Nat
  BY <1>1
<1>4. Monday(t) \in 0..t /\ Monday(t + 1) \in 0..(t + 1)
  BY MondayIn
<1> QED BY <1>2, <1>3, <1>4 DEF Monday

\* Nor does a window; and what has begun has.
LEMMA WindowsGrow ==
    ASSUME TypeInv, BegunInv, [Next]_vars
    PROVE  /\ \A s \in SubIds : winStart'[s] # None => winStart'[s] <= now'
           /\ \A s \in SubIds : \A sc : Lower(s, sc) <= Lower(s, sc)'
           /\ \A k \in Keys : Begun(k) => Begun(k)'
<1>0. /\ now \in 0..MaxNow /\ MaxNow \in Nat /\ None \notin Nat
      /\ winStart \in [SubIds -> 0..MaxNow \cup {None}]
      /\ WindowLen \in Nat \ {0}
      /\ \A k \in Keys : k[1] \in SubIds /\ k[3] \in 0..MaxNow
  BY BudgetAssumption DEF TypeInv, TypeOK, Keys
<1>1. \A s \in SubIds : winStart[s] # None => winStart[s] <= now
  BY DEF BegunInv
<1>m. Monday(now) \in 0..now
  BY <1>0, MondayIn
<1>2. CASE UNCHANGED <<now, winStart>>
  <2>1. \A s \in SubIds : \A sc : Lower(s, sc) <= Lower(s, sc)'
    BY <1>0, <1>2, <1>m DEF Lower, Monday
  <2>2. \A k \in Keys : Begun(k) => Begun(k)'
    BY <1>2 DEF Begun, Monday
  <2> QED BY <1>1, <1>2, <2>1, <2>2
<1>3. ASSUME NEW r \in Requests, UNCHANGED now,
             winStart' = [winStart EXCEPT ![Sub(r)] = IF @ = None THEN now ELSE @]
      PROVE  /\ \A s \in SubIds : winStart'[s] # None => winStart'[s] <= now'
             /\ \A s \in SubIds : \A sc : Lower(s, sc) <= Lower(s, sc)'
             /\ \A k \in Keys : Begun(k) => Begun(k)'
  <2>1. ASSUME NEW s \in SubIds
        PROVE  \/ winStart'[s] = winStart[s]
               \/ winStart[s] = None /\ winStart'[s] = now /\ now # None
    BY <1>0, <1>3
  <2>2. \A s \in SubIds : \A sc : Lower(s, sc) <= Lower(s, sc)'
    BY <1>0, <1>m, <1>3, <2>1 DEF Lower, Monday
  <2>3. \A k \in Keys : Begun(k) => Begun(k)'
    BY <1>0, <1>3, <2>1 DEF Begun, Monday
  <2>4. \A s \in SubIds : winStart'[s] # None => winStart'[s] <= now'
    BY <1>0, <1>1, <1>3, <2>1
  <2> QED BY <2>2, <2>3, <2>4
<1>4. CASE Tick
  <2>1. now' = now + 1
    BY <1>4 DEF Tick
  <2>2. ASSUME NEW s \in SubIds
        PROVE  winStart'[s] = IF winStart[s] # None /\ winStart[s] + WindowLen <= now'
                              THEN None ELSE winStart[s]
    BY <1>4 DEF Tick
  <2>3. Monday(now) \in Nat /\ Monday(now)' \in Nat /\ Monday(now) <= Monday(now)'
    <3>1. Monday(now)' = Monday(now + 1)
      BY <2>1 DEF Monday
    <3> QED BY <1>0, <3>1, MondayGrows
  <2>4. \A s \in SubIds : winStart'[s] # None => winStart'[s] <= now'
    BY <1>0, <1>1, <2>1, <2>2
  <2>5. ASSUME NEW s \in SubIds, NEW sc PROVE Lower(s, sc) <= Lower(s, sc)'
    <3>1. CASE sc = "week"
      BY <2>3, <3>1 DEF Lower
    <3>2. CASE sc # "week"
      BY <1>0, <1>1, <2>1, <2>2, <3>2 DEF Lower
    <3> QED BY <3>1, <3>2
  <2>6. ASSUME NEW k \in Keys, Begun(k) PROVE Begun(k)'
    <3>1. CASE k[2] = "week"
      BY <1>0, <2>3, <2>6, <3>1 DEF Begun
    <3>2. CASE k[2] # "week"
      BY <1>0, <1>1, <2>1, <2>2, <2>6, <3>2 DEF Begun
    <3> QED BY <3>1, <3>2
  <2> QED BY <2>4, <2>5, <2>6
<1> QED BY <1>2, <1>3, <1>4, ClockSteps

\* The budgets are looked at in their order.
LEMMA ScopeStep == TypeInv /\ ScopeInv /\ [Next]_vars => ScopeInv'
<1> SUFFICES ASSUME TypeInv, ScopeInv, [Next]_vars PROVE ScopeInv'
  OBVIOUS
<1>0. scope \in [Requests -> Scopes]
  BY DEF TypeInv, TypeOK
<1>1. CASE ~\E r \in Requests : Step(r)
  BY <1>1, OthersAlone DEF ScopeInv, reqVars
<1>2. ASSUME NEW r \in Requests, Step(r) PROVE ScopeInv'
  <2>1. \A q \in Requests : q # r => Untouched(q)
    BY <1>2, StepsAlone
  <2>2. \/ UNCHANGED scope
        \/ scope' = [scope EXCEPT ![r] = "total"]
        \/ Pass(r)
    <3>1. ASSUME NEW amount, Judge(r, amount) PROVE UNCHANGED scope \/ Pass(r)
      BY <3>1 DEF Judge
    <3>2. CASE Load(r) \/ Consider(r) \/ SumCost(r)
      BY <3>2 DEF Load, Consider, SumCost
    <3>3. CASE Pick(r) \/ GetCost(r) \/ Rebuild(r)
      BY <3>1, <3>3 DEF Pick, GetCost, Rebuild
    <3> QED BY <1>2, <3>2, <3>3, ChargeAlone DEF Step
  <2>3. scope'[r] \in {"total", "week", ModelOf[r]}
    <3>1. CASE Pass(r)
      BY <1>0, <3>1 DEF Pass, ScopeInv
    <3> QED BY <1>0, <2>2, <3>1 DEF ScopeInv
  <2> QED BY <2>1, <2>3 DEF ScopeInv, Untouched
<1> QED BY <1>1, <1>2

\* Only the arrival of a request says what had ended before it.
LEMMA BeforeChanges ==
    ASSUME TypeInv, [Next]_vars, NEW r \in Requests
    PROVE  \/ before'[r] = before[r]
           \/ Load(r) /\ before'[r] = {q \in Requests : pc[q] = "done"}
<1>1. CASE ~\E q \in Requests : Step(q)
  BY <1>1, OthersAlone DEF histVars
<1>2. ASSUME NEW q \in Requests, q # r, Step(q) PROVE before'[r] = before[r]
  BY <1>2, StepsAlone DEF Untouched
<1>3. ASSUME Step(r), ~Load(r) PROVE before'[r] = before[r]
  <2>1. CASE Consider(r) \/ Pick(r) \/ GetCost(r) \/ SumCost(r) \/ Rebuild(r)
    BY <2>1 DEF Consider, Pick, GetCost, SumCost, Rebuild, histVars
  <2> QED BY <1>3, <2>1, ChargeAlone DEF Step, histVars
<1>4. CASE Load(r)
  BY <1>4 DEF Load, TypeInv, TypeOK
<1> QED BY <1>1, <1>2, <1>3, <1>4

\* What had ended stays ended.
LEMMA BeforeStep == TypeInv /\ BeforeInv /\ [Next]_vars => BeforeInv'
<1> SUFFICES ASSUME TypeInv, BeforeInv, [Next]_vars, NEW r \in Requests, NEW q \in before'[r]
             PROVE  pc'[q] = "done"
  BY DEF BeforeInv
<1>1. q \in Requests /\ pc[q] = "done"
  BY BeforeChanges DEF BeforeInv, TypeInv, TypeOK
<1> QED BY <1>1, EndedStays

\* So what it had spent does not change.
LEMMA SpentBefore ==
    ASSUME TypeInv, BeforeInv, [Next]_vars, NEW r \in Requests, pc[r] # "new", NEW k
    PROVE  (before[r] \cap SpentOn(k))' = before[r] \cap SpentOn(k)
<1>1. before'[r] = before[r] /\ before[r] \subseteq Requests
  BY BeforeChanges DEF Load, TypeInv, TypeOK
<1>2. \A q \in before[r] : charged'[q] = charged[q]
  BY <1>1, EndedStays DEF BeforeInv
<1> QED BY <1>1, <1>2 DEF SpentOn

\* Counters are added to in their windows only.
LEMMA BegunStep == TypeInv /\ BegunInv /\ [Next]_vars => BegunInv'
<1> SUFFICES ASSUME TypeInv, BegunInv, [Next]_vars PROVE BegunInv'
  OBVIOUS
<1>1. /\ \A s \in SubIds : winStart'[s] # None => winStart'[s] <= now'
      /\ \A k \in Keys : Begun(k) => Begun(k)'
  BY WindowsGrow
<1>t. /\ charged \in [Requests -> SUBSET Keys] /\ key \in [Requests -> Keys \cup {None}]
      /\ \A q \in Requests : pc[q] \in {"total", "model"} => key[q] \in Keys
      /\ \A q \in Requests : Sub(q) \in SubIds
      /\ now \in 0..MaxNow /\ MaxNow \in Nat /\ None \notin Nat
      /\ winStart \in [SubIds -> 0..MaxNow \cup {None}]
  BY SubIn, BudgetAssumption DEF TypeInv, TypeOK, KeyInv
<1>2. CASE ~\E r \in Requests : Step(r)
  <2>1. UNCHANGED <<pc, key, index, charged>>
    BY <1>2, OthersAlone DEF reqVars
  <2>2. \A q \in Requests : charged[q] \subseteq Keys
    BY <1>t
  <2> QED BY <1>1, <1>t, <2>1, <2>2 DEF BegunInv, Sub
<1>3. ASSUME NEW r \in Requests, Step(r) PROVE BegunInv'
  <2>0. \A q \in Requests : q # r => Untouched(q)
    BY <1>3, StepsAlone
  <2>1. SUFFICES /\ \A k \in charged'[r] : k \in charged[r] \/ (k \in Keys /\ Begun(k))
                 /\ pc'[r] \in {"total", "model"} =>
                       /\ key'[r] \in Keys /\ Begun(key'[r])
                       /\ key'[r][1] = Sub(r) /\ key'[r][2] = "total" /\ Sub(r)' = Sub(r)
    BY <1>1, <1>t, <2>0 DEF BegunInv, Untouched, Sub
  <2>2. ASSUME NEW k, Add(r, k), k \in Keys, Begun(k)
        PROVE  \A j \in charged'[r] : j \in charged[r] \/ (j \in Keys /\ Begun(j))
    BY <1>t, <2>2 DEF Add, Try
  <2>3. CASE Load(r) \/ Consider(r) \/ Pick(r) \/ GetCost(r) \/ SumCost(r) \/ Rebuild(r)
    <3>1. UNCHANGED charged
      BY <2>3 DEF Load, Consider, Pick, GetCost, SumCost, Rebuild, costVars
    <3>2. pc'[r] \notin {"total", "model"}
      BY <2>3, CheckGoes, GoesAlone
    <3> QED BY <3>1, <3>2
  <2>4. CASE AddWeekly(r)
    <3> DEFINE k == CounterKey(Sub(r), "week", 0)
    <3>1. k \in Keys /\ Begun(k)
      <4>1. k \in Keys
        BY <1>t, KeyIn, ScopesAre
      <4>2. Monday(now) \in 0..now
        BY <1>t, MondayIn
      <4> QED BY <4>1, <4>2 DEF CounterKey, Begun
    <3>2. UNCHANGED charged \/ Add(r, k)
      BY <2>4 DEF AddWeekly
    <3>3. \/ pc'[r] \notin {"total", "model"}
          \/ /\ Sub(r) \notin Windowed
             /\ key'[r] = CounterKey(Sub(r), "total", 0)
      <4>1. CASE GoTo(r, "window") \/ GoTo(r, "log")
        BY <4>1, GoesAlone
      <4>2. CASE Sub(r) \notin Windowed /\ key' = [key EXCEPT ![r] = CounterKey(Sub(r), "total", 0)]
        BY <1>t, <4>2
      <4> QED BY <2>4, <4>1, <4>2 DEF AddWeekly
    <3>4. CounterKey(Sub(r), "total", 0) = <<Sub(r), "total", 0>> \/ Sub(r) \in Windowed
      BY DEF CounterKey
    <3>5. <<Sub(r), "total", 0>> \in Keys
      BY <1>t, ScopesAre DEF Keys
    <3>6. Sub(r) \notin Windowed => Begun(<<Sub(r), "total", 0>>)
      BY DEF Begun
    <3>7. UNCHANGED index
      BY <2>4 DEF AddWeekly
    <3> HIDE DEF k
    <3> QED BY <2>2, <3>1, <3>2, <3>3, <3>4, <3>5, <3>6, <3>7 DEF Sub
  <2>5. CASE GetWindow(r)
    <3>1. UNCHANGED <<charged, index>>
      BY <2>5 DEF GetWindow, costVars
    <3>2. \/ pc'[r] \notin {"total", "model"}
          \/ /\ winStart[Sub(r)] # None
             /\ key'[r] = CounterKey(Sub(r), "total", winStart[Sub(r)])
      <4>1. CASE GoTo(r, "log")
        BY <4>1, GoesAlone
      <4>2. CASE ~GoTo(r, "log")
        BY <1>t, <2>5, <4>2 DEF GetWindow
      <4> QED BY <4>1, <4>2
    <3>3. winStart[Sub(r)] # None => CounterKey(Sub(r), "total", winStart[Sub(r)]) \in Keys
      BY <1>t, KeyIn, ScopesAre
    <3>4. winStart[Sub(r)] # None => Begun(CounterKey(Sub(r), "total", winStart[Sub(r)]))
      BY <1>t DEF CounterKey, Begun
    <3>5. /\ CounterKey(Sub(r), "total", winStart[Sub(r)])[1] = Sub(r)
          /\ CounterKey(Sub(r), "total", winStart[Sub(r)])[2] = "total"
      BY DEF CounterKey
    <3> QED BY <3>1, <3>2, <3>3, <3>4, <3>5 DEF Sub
  <2>6. CASE AddTotal(r)
    <3>1. /\ pc[r] = "total" /\ UNCHANGED <<key, index>> /\ Add(r, key[r])
      BY <2>6 DEF AddTotal
    <3>2. key[r] \in Keys /\ Begun(key[r]) /\ key[r][1] = Sub(r) /\ key[r][2] = "total"
      BY <1>t, <3>1 DEF BegunInv
    <3> QED BY <2>2, <3>1, <3>2 DEF Sub
  <2>7. CASE AddModel(r)
    <3> DEFINE k == CounterKey(Sub(r), ModelOf[r], key[r][3])
    <3>1. pc[r] = "model" /\ Add(r, k) /\ pc'[r] = "log"
      BY <2>7, GoesAlone DEF AddModel
    <3>2. key[r] \in Keys /\ Begun(key[r]) /\ key[r][1] = Sub(r) /\ key[r][2] = "total"
      BY <1>t, <3>1 DEF BegunInv
    <3>3. key[r][3] \in 0..MaxNow
      BY <3>2 DEF Keys
    <3>4. k \in Keys
      BY <1>t, <3>3, KeyIn, ScopesAre
    <3>5. ModelOf[r] # "week"
      BY BudgetAssumption
    <3>6. Begun(k)
      BY <3>2, <3>5 DEF CounterKey, Begun
    <3> HIDE DEF k
    <3> QED BY <2>2, <3>1, <3>4, <3>6
  <2>8. CASE \/ Answer(r) \/ Activate(r) \/ Stamp(r) \/ OpenWindow(r) \/ AnswerUnbilled(r)
             \/ LogUsage(r) \/ HangUp(r) \/ EndBlocked(r) \/ NeverComes(r)
    <3>1. UNCHANGED charged
      BY <2>8 DEF Answer, Activate, Stamp, OpenWindow, AnswerUnbilled, LogUsage, HangUp,
                  EndBlocked, NeverComes, costVars
    <3>2. pc'[r] \notin {"total", "model"}
      <4>1. \/ \E p \in {"activate", "logUnpriced", "week", "windowGet", "done", "stamp", "stampAlone"} :
                    GoTo(r, p)
            \/ UNCHANGED pc /\ pc[r] \in {"blocked", "new"}
        <5>1. CASE Answer(r) \/ Stamp(r) \/ OpenWindow(r)
          BY <5>1 DEF Answer, Stamp, OpenWindow, Try
        <5>2. CASE Activate(r)
          <6>1. GoTo(r, "week") \/ GoTo(r, "stamp") \/ GoTo(r, "stampAlone")
            BY <5>2 DEF Activate
          <6> QED BY <6>1
        <5>3. CASE AnswerUnbilled(r) \/ LogUsage(r) \/ HangUp(r) \/ EndBlocked(r) \/ NeverComes(r)
          BY <5>3 DEF AnswerUnbilled, LogUsage, HangUp, EndBlocked, NeverComes, reqVars
        <5> QED BY <2>8, <5>1, <5>2, <5>3
      <4> QED BY <4>1, GoesAlone
    <3> QED BY <3>1, <3>2
  <2> QED BY <1>3, <2>3, <2>4, <2>5, <2>6, <2>7, <2>8 DEF Step
<1> QED BY <1>2, <1>3

\* The start a request is judged from is a time.
LEMMA LowerType ==
    ASSUME TypeInv, NEW s \in SubIds, NEW sc
    PROVE  Lower(s, sc) \in Nat
<1>1. /\ now \in Nat /\ winStart[s] \in Nat \cup {None}
  BY BudgetAssumption DEF TypeInv, TypeOK
<1>2. Monday(now) \in Nat
  BY <1>1, MondayIn
<1> QED BY <1>1, <1>2 DEF Lower

\* It still is one after a step.
LEMMA LowerNext ==
    ASSUME TypeInv, [Next]_vars, NEW s \in SubIds, NEW sc
    PROVE  Lower(s, sc)' \in Nat
<1>1. now' \in Nat /\ winStart'[s] \in Nat \cup {None}
  BY TypeStep, BudgetAssumption DEF TypeInv, TypeOK
<1>2. \A t \in Nat : Monday(t) \in Nat
  BY MondayIn
<1>3. Monday(now)' \in Nat
  BY <1>1, <1>2 DEF Monday
<1> QED BY <1>1, <1>3 DEF Lower

\* A limit is a number, and no requests cost nothing.
LEMMA LimitType ==
    /\ \A s \in SubIds : \A sc : LimitOf(s, sc) \in Nat
    /\ CostOf({}) = 0
<1>1. \A s \in SubIds : Limit[s] \in Nat /\ WeeklyLimit[s] \in Nat /\ ModelLimit[s] \in Nat
  BY BudgetAssumption
<1>2. CostOf({}) = 0
  BY TotalDef, FS_EmptySet DEF CostOf
<1> QED BY <1>1, <1>2 DEF LimitOf

\* The counter a request reads stays the current one for it.
LEMMA CurrentKeeps ==
    ASSUME TypeInv, BegunInv, BeforeInv, CurrentInv, [Next]_vars, NEW r \in Requests,
           pc[r] \in {"get", "sum", "set"},
           key'[r] = key[r], index'[r] = index[r], scope'[r] = scope[r]
    PROVE  /\ key'[r] = <<Sub(r)', scope'[r], key'[r][3]>>
           /\ key'[r][3] <= Lower(Sub(r), scope[r])'
           /\ \A t \in 0..MaxNow : t > key'[r][3] =>
                 (before[r] \cap SpentOn(<<Sub(r), scope[r], t>>))' = {}
<1>1. Sub(r)' = Sub(r) /\ Sub(r) \in SubIds
  BY SubIn DEF Sub, TypeInv, TypeOK
<1>2. PICK s \in SubIds, sc \in Scopes :
              s = Sub(r) /\ sc = scope[r] /\ s = Sub(r)' /\ sc = scope'[r]
  BY <1>1 DEF TypeInv, TypeOK
<1>3. key[r][3] \in Nat /\ key[r] = <<s, sc, key[r][3]>> /\ key[r][3] <= Lower(s, sc)
  <2>1. key[r] \in Keys /\ MaxNow \in Nat
    BY BudgetAssumption DEF TypeInv, KeyInv
  <2>2. key[r][3] \in Nat
    BY <2>1 DEF Keys
  <2> QED BY <1>2, <2>2 DEF CurrentInv
<1>4. Lower(s, sc) \in Nat /\ Lower(s, sc)' \in Nat /\ Lower(s, sc) <= Lower(s, sc)'
  BY LowerType, LowerNext, WindowsGrow
<1>5. key'[r][3] <= Lower(s, sc)'
  BY <1>3, <1>4
<1>6. Lower(s, sc)' = Lower(Sub(r), scope[r])'
  BY <1>2 DEF Lower
<1>7. ASSUME NEW t \in 0..MaxNow, t > key'[r][3]
      PROVE  (before[r] \cap SpentOn(<<Sub(r), scope[r], t>>))' = {}
  <2>1. before[r] \cap SpentOn(<<s, sc, t>>) = {}
    BY <1>2, <1>7 DEF CurrentInv
  <2>2. (before[r] \cap SpentOn(<<s, sc, t>>))' = {}
    BY <2>1, SpentBefore
  <2> QED BY <1>2, <2>2 DEF SpentOn
<1> QED BY <1>1, <1>2, <1>3, <1>5, <1>6, <1>7

\* A request reads the counter that is the current one when it picks it.
LEMMA CurrentStep ==
    TypeInv /\ BegunInv /\ BeforeInv /\ CurrentInv /\ [Next]_vars => CurrentInv'
<1> SUFFICES ASSUME TypeInv, BegunInv, BeforeInv, CurrentInv, [Next]_vars,
                    NEW r \in Requests, pc'[r] \in {"get", "sum", "set"}
             PROVE  /\ key'[r] = <<Sub(r)', scope'[r], key'[r][3]>>
                    /\ key'[r][3] <= Lower(Sub(r), scope[r])'
                    /\ \A t \in 0..MaxNow : t > key'[r][3] =>
                          (before[r] \cap SpentOn(<<Sub(r), scope[r], t>>))' = {}
  BY DEF CurrentInv
<1>1. CASE ~\E q \in Requests : Step(q)
  <2>1. UNCHANGED <<pc, key, index, scope>>
    BY <1>1, OthersAlone DEF reqVars
  <2> QED BY <2>1, CurrentKeeps
<1>2. ASSUME NEW q \in Requests, Step(q), q # r
      PROVE  /\ pc'[r] = pc[r] /\ key'[r] = key[r] /\ index'[r] = index[r]
             /\ scope'[r] = scope[r]
  BY <1>2, StepsAlone DEF Untouched
<1>3. CASE Step(r)
  <2>1. Pick(r) \/ GetCost(r) \/ SumCost(r)
    <3>1. ~(Load(r) \/ Consider(r))
      <4>1. Load(r) => GoTo(r, "consider")
        BY DEF Load
      <4>2. Consider(r) => Skip(r) \/ GoTo(r, "pick")
        BY DEF Consider
      <4> QED BY <4>1, <4>2, JudgeGoes, GoesAlone
    <3>2. ~Rebuild(r)
      BY JudgeGoes DEF Rebuild
    <3> QED BY <1>3, <3>1, <3>2, ChargeGoes DEF Step, InCheck
  <2>2. CASE GetCost(r) \/ SumCost(r)
    <3>1. pc[r] \in {"get", "sum"} /\ UNCHANGED <<key, index, scope>>
      BY <2>2, JudgeGoes DEF GetCost, SumCost
    <3> QED BY <3>1, CurrentKeeps
  <2>3. CASE Pick(r)
    <3>1. /\ Sub(r) \in Windowed /\ scope[r] # "week" => winStart[Sub(r)] # None
          /\ key' = [key EXCEPT ![r] = CounterKey(Sub(r), scope[r], winStart[Sub(r)])]
          /\ UNCHANGED <<index, scope, now, winStart, charged, before>>
          /\ pc[r] = "pick"
      BY <2>3, JudgeGoes DEF Pick, costVars, histVars
    <3>2. PICK s \in SubIds, sc \in Scopes :
              s = Sub(r) /\ sc = scope[r] /\ s = Sub(r)' /\ sc = scope'[r]
      BY <3>1, SubIn DEF TypeInv, TypeOK, Sub
    <3>3. key'[r] = <<s, sc, IF sc = "week" THEN Monday(now)
                            ELSE IF s \in Windowed THEN winStart[s] ELSE 0>>
      BY <3>1, <3>2 DEF CounterKey, TypeInv, TypeOK
    <3>4. /\ now \in Nat /\ winStart[s] \in Nat \cup {None} /\ Monday(now) \in Nat /\ MaxNow \in Nat
      <4>1. now \in Nat /\ winStart[s] \in Nat \cup {None}
        BY BudgetAssumption DEF TypeInv, TypeOK
      <4>2. Monday(now) \in 0..now
        BY <4>1, MondayIn
      <4> QED BY <4>1, <4>2, BudgetAssumption
    <3>5. Lower(Sub(r), scope[r])' = Lower(s, sc)
      BY <3>1, <3>2 DEF Lower, Monday
    <3>6. key'[r][3] = Lower(s, sc)
      BY <3>1, <3>2, <3>3 DEF Lower
    <3>7. ASSUME NEW t \in 0..MaxNow, t > key'[r][3]
          PROVE  before[r] \cap SpentOn(<<s, sc, t>>) = {}
      <4> SUFFICES ASSUME NEW q \in Requests, <<s, sc, t>> \in charged[q] PROVE FALSE
        BY DEF SpentOn
      <4>1. Begun(<<s, sc, t>>)
        BY DEF BegunInv
      <4> QED BY <3>1, <3>2, <3>3, <3>4, <3>7, <4>1 DEF Begun
    <3>8. \A t \in 0..MaxNow : t > key'[r][3] =>
              (before[r] \cap SpentOn(<<Sub(r), scope[r], t>>))' = {}
      BY <3>1, <3>2, <3>7 DEF SpentOn
    <3>9. Lower(s, sc) \in Nat
      BY LowerType
    <3> QED BY <3>2, <3>3, <3>5, <3>6, <3>8, <3>9
  <2> QED BY <2>1, <2>2, <2>3
<1> QED BY <1>1, <1>2, <1>3, CurrentKeeps

\* A budget once passed stays passed.
LEMMA PassedKeeps ==
    ASSUME TypeInv, BegunInv, BeforeInv, [Next]_vars, NEW r \in Requests, pc[r] # "new",
           index'[r] = index[r], NEW sc \in Scopes, Passed(r, sc)
    PROVE  Passed(r, sc)'
<1>1. Sub(r)' = Sub(r) /\ Sub(r) \in SubIds
  BY SubIn DEF Sub, TypeInv, TypeOK
<1>2. PICK s \in SubIds : s = Sub(r) /\ s = Sub(r)'
  BY <1>1
<1>3. CASE Unlimited(s, sc)
  BY <1>2, <1>3 DEF Passed, Unlimited, LimitOf
<1>4. CASE ~Unlimited(s, sc)
  <2>1. SUFFICES ASSUME NEW t \in 0..MaxNow, t >= Lower(s, sc)'
                 PROVE  Below(r, <<s, sc, t>>)'
    BY <1>2, <1>4 DEF Passed, Lower, Below, SpentOn
  <2>2. t >= Lower(s, sc)
    <3>1. Lower(s, sc) \in Nat /\ Lower(s, sc) <= Lower(s, sc)'
      BY LowerType, WindowsGrow
    <3>2. Lower(s, sc)' \in Nat
      BY LowerNext
    <3> QED BY <2>1, <3>1, <3>2, BudgetAssumption
  <2>3. Below(r, <<s, sc, t>>)
    BY <1>2, <1>4, <2>2 DEF Passed
  <2> DEFINE k == <<s, sc, t>>
  <2>4. (before[r] \cap SpentOn(k))' = before[r] \cap SpentOn(k)
    BY SpentBefore
  <2>5. CostOf((before[r] \cap SpentOn(k))') = CostOf(before[r] \cap SpentOn(k))'
    OBVIOUS
  <2>6. lossy \subseteq lossy'
    BY LossyGrows
  <2> QED BY <2>3, <2>4, <2>5, <2>6 DEF Below, LimitOf
<1> QED BY <1>3, <1>4

\* Redis has not failed.
RedisWorks == "redis" \in faults => failures = 0

\* If it has not now, it had not before.
LEMMA WorksBefore ==
    ASSUME TypeInv, [Next]_vars, RedisWorks'
    PROVE  RedisWorks /\ ~Fails("redis")
<1>1. UNCHANGED faults
  <2>1. ASSUME NEW r \in Requests, Step(r) PROVE UNCHANGED faults
    BY <2>1, RequestLogs DEF logVars, Log, TrySend, LeaveUnlogged
  <2> QED BY <2>1, OthersAlone
<1>2. failures \in Nat
  BY BudgetAssumption DEF TypeInv, TypeOK
<1>3. UNCHANGED failures \/ \E f : Fails(f)
  <2>1. ASSUME NEW r \in Requests, Step(r) PROVE UNCHANGED failures \/ \E f : Fails(f)
    <3>1. CASE Load(r) \/ Consider(r) \/ Pick(r) \/ GetCost(r) \/ SumCost(r) \/ Rebuild(r)
      BY <3>1 DEF Load, Consider, Pick, GetCost, SumCost, Rebuild, Try
    <3>2. CASE Answer(r) \/ Activate(r) \/ Stamp(r) \/ AddWeekly(r) \/ OpenWindow(r)
               \/ GetWindow(r) \/ AddTotal(r) \/ AddModel(r)
      <4>1. ASSUME NEW k, Add(r, k) PROVE UNCHANGED failures \/ \E f : Fails(f)
        BY <4>1 DEF Add, Try
      <4> QED BY <3>2, <4>1 DEF Answer, Activate, Stamp, AddWeekly, OpenWindow, GetWindow,
                                AddTotal, AddModel, Try
    <3>3. CASE AnswerUnbilled(r) \/ LogUsage(r) \/ HangUp(r) \/ EndBlocked(r) \/ NeverComes(r)
      BY <3>3 DEF AnswerUnbilled, LogUsage, HangUp, EndBlocked, NeverComes
    <3> QED BY <2>1, <3>1, <3>2, <3>3 DEF Step
  <2>2. ASSUME NEW m \in marks, RunMark(m[1], m[2]) PROVE UNCHANGED failures \/ \E f : Fails(f)
    BY <2>2 DEF RunMark, Try
  <2>3. CASE ListExpires \/ Tick \/ StopListening \/ Flush \/ UNCHANGED vars
    BY <2>3 DEF ListExpires, Tick, StopListening, Flush, vars
  <2>4. CASE DropPartition \/ \E k \in Keys : Evict(k)
    BY <2>4 DEF DropPartition, Evict
  <2> QED BY <2>1, <2>2, <2>3, <2>4 DEF Next
<1>4. (\E f : Fails(f)) => failures' = failures + 1
  BY DEF Fails
<1>5. Fails("redis") => "redis" \in faults
  BY DEF Fails
<1> QED BY <1>1, <1>2, <1>3, <1>4, <1>5 DEF RedisWorks

\* A request judged on a counter below its limit has passed the budget.
LEMMA JudgedBelow ==
    ASSUME TypeInv, CurrentInv, NEW r \in Requests, pc[r] \in {"get", "set"},
           NEW sc \in Scopes, sc = scope[r],
           NEW amount \in Nat, amount < LimitOf(Sub(r), sc),
           key[r] \notin lossy' => CostOf(before[r] \cap SpentOn(key[r])) <= amount,
           UNCHANGED <<now, winStart, charged, before, index>>
    PROVE  Passed(r, sc)'
<1>1. Sub(r)' = Sub(r) /\ Sub(r) \in SubIds
  BY SubIn DEF Sub, TypeInv, TypeOK
<1>2. PICK s \in SubIds : s = Sub(r) /\ s = Sub(r)'
  BY <1>1
<1>3. /\ key[r] \in Keys /\ key[r] = <<s, sc, key[r][3]>> /\ key[r][3] \in Nat
      /\ key[r][3] <= Lower(s, sc) /\ Lower(s, sc) \in Nat
  <2>1. key[r] \in Keys /\ MaxNow \in Nat
    BY BudgetAssumption DEF TypeInv, KeyInv
  <2>2. key[r][3] \in Nat
    BY <2>1 DEF Keys
  <2> QED BY <1>2, <2>1, <2>2, LowerType DEF CurrentInv
<1>4. SUFFICES ASSUME NEW t \in 0..MaxNow, t >= Lower(s, sc)
               PROVE  Below(r, <<s, sc, t>>)'
  <2>1. Lower(s, sc)' = Lower(s, sc)
    BY DEF Lower, Monday
  <2> QED BY <1>2, <2>1 DEF Passed, Lower, Below, SpentOn
<1> DEFINE k == <<s, sc, t>>
<1>5. (before[r] \cap SpentOn(k))' = before[r] \cap SpentOn(k)
  BY DEF SpentOn
<1>6. CostOf((before[r] \cap SpentOn(k))') = CostOf(before[r] \cap SpentOn(k))'
  OBVIOUS
<1>7. LimitOf(s, sc) \in Nat /\ amount < LimitOf(s, sc)
  BY <1>2, LimitType
<1>8. t \in Nat /\ t >= key[r][3]
  BY <1>3, <1>4, BudgetAssumption
<1>9. CASE t > key[r][3]
  <2>1. before[r] \cap SpentOn(k) = {}
    BY <1>2, <1>9 DEF CurrentInv
  <2>2. CostOf(before[r] \cap SpentOn(k))' = 0
    BY <1>5, <1>6, <2>1, LimitType
  <2> QED BY <1>7, <2>2 DEF Below, LimitOf
<1>10. CASE t = key[r][3]
  <2>1. k = key[r]
    BY <1>3, <1>10
  <2>2. CASE key[r] \notin lossy'
    <3>1. before[r] \cap SpentOn(k) \in SUBSET Requests
      BY DEF SpentOn
    <3>2. CostOf(before[r] \cap SpentOn(k)) \in Nat
      BY <3>1, CostGrows
    <3>3. CostOf(before[r] \cap SpentOn(k)) <= amount
      BY <2>1, <2>2
    <3>4. CostOf(before[r] \cap SpentOn(k)) < LimitOf(s, sc)
      BY <1>7, <3>2, <3>3
    <3>5. CostOf(before[r] \cap SpentOn(k))' = CostOf(before[r] \cap SpentOn(k))
      BY <1>5, <1>6
    <3>6. CostOf(before[r] \cap SpentOn(k))' < LimitOf(s, sc)
      BY <3>4, <3>5
    <3> QED BY <3>6 DEF Below, LimitOf
  <2>3. CASE key[r] \in lossy'
    BY <2>1, <2>3 DEF Below
  <2> QED BY <2>2, <2>3
<1> QED BY <1>3, <1>8, <1>9, <1>10

\* A verdict that lets a request on is of an amount below the limit.
LEMMA JudgePasses ==
    ASSUME TypeInv, NEW r \in Requests, NEW amount, Judge(r, amount),
           pc'[r] \in {"pick", "serve"}
    PROVE  Pass(r) /\ amount < LimitOf(Sub(r), scope[r])
<1>1. ~Skip(r)
  <2>1. Skip(r) => GoTo(r, "blocked") \/ GoTo(r, "consider")
    BY DEF Skip
  <2> QED BY <2>1, GoesAlone
<1> QED BY <1>1 DEF Judge

\* A request goes on only from a budget it has passed.
LEMMA Passing ==
    ASSUME TypeInv, CompleteInv, BegunInv, CurrentInv, [Next]_vars, RedisWorks',
           NEW r \in Requests, Pick(r) \/ GetCost(r) \/ Rebuild(r), pc'[r] \in {"pick", "serve"},
           NEW sc \in Scopes, sc = scope[r]
    PROVE  Pass(r) /\ Passed(r, sc)'
<1>1. Sub(r) \in SubIds
  BY SubIn DEF TypeInv, TypeOK
<1>2. UNCHANGED <<now, winStart, charged, before>>
  BY DEF Pick, GetCost, Rebuild, costVars, histVars
<1>3. ~Fails("redis")
  BY WorksBefore
<1>4. Pass(r) => UNCHANGED index
  BY DEF Pass
<1>5. CASE Pick(r)
  <2>2. ~Skip(r) /\ ~GoTo(r, "get")
    <3>1. Skip(r) => GoTo(r, "blocked") \/ GoTo(r, "consider")
      BY DEF Skip
    <3> QED BY <3>1, GoesAlone
  <2>3. \/ Pass(r) /\ Unlimited(Sub(r), sc)
        \/ /\ Sub(r) \in Windowed /\ sc # "week" /\ winStart[Sub(r)] = None
           /\ Judge(r, 0)
    BY <1>3, <1>5, <2>2 DEF Pick, Try
  <2>4. CASE Pass(r) /\ Unlimited(Sub(r), sc)
    <3>1. Sub(r)' = Sub(r)
      BY <1>4, <2>4 DEF Sub
    <3> QED BY <2>4, <3>1 DEF Passed, Unlimited, LimitOf
  <2>5. CASE /\ Sub(r) \in Windowed /\ sc # "week" /\ winStart[Sub(r)] = None
             /\ Judge(r, 0)
    <3>1. Pass(r) /\ 0 < LimitOf(Sub(r), sc)
      BY <2>5, JudgePasses
    <3>2. PICK s \in SubIds : s = Sub(r) /\ s = Sub(r)'
      BY <1>1, <1>4, <3>1 DEF Sub
    <3>3. SUFFICES ASSUME NEW t \in 0..MaxNow, t >= now PROVE Below(r, <<s, sc, t>>)'
      <4>1. Lower(s, sc)' = now
        BY <1>2, <2>5, <3>2 DEF Lower
      <4> QED BY <3>1, <3>2, <4>1 DEF Passed, Lower, Below, SpentOn
    <3> DEFINE k == <<s, sc, t>>
    <3>4. SpentOn(k) = {}
      <4> SUFFICES ASSUME NEW q \in Requests, k \in charged[q] PROVE FALSE
        BY DEF SpentOn
      <4>1. Begun(k)
        BY DEF BegunInv
      <4>2. t \in Nat /\ now \in Nat
        BY BudgetAssumption DEF TypeInv, TypeOK
      <4> QED BY <2>5, <3>2, <3>3, <4>1, <4>2 DEF Begun
    <3>5. (before[r] \cap SpentOn(k))' = {}
      BY <1>2, <3>4 DEF SpentOn
    <3>6. CostOf((before[r] \cap SpentOn(k))') = CostOf(before[r] \cap SpentOn(k))'
      OBVIOUS
    <3> QED BY <3>1, <3>2, <3>5, <3>6, LimitType DEF Below, LimitOf
  <2> QED BY <2>3, <2>4, <2>5
<1>6. CASE GetCost(r)
  <2> DEFINE c == counter[key[r]]
  <2>1. pc[r] = "get" /\ key[r] \in Keys
    BY <1>6 DEF GetCost, TypeInv, KeyInv
  <2>2. ~GoTo(r, "sum")
    BY GoesAlone
  <2>3. c # None /\ Judge(r, Amount(c)) /\ UNCHANGED lossy
    BY <1>6, <2>2 DEF GetCost, histVars
  <2>4. c \in [Requests -> Nat]
    BY <2>1, <2>3 DEF TypeInv, TypeOK
  <2>5. Pass(r) /\ Amount(c) < LimitOf(Sub(r), sc)
    <3> HIDE DEF c
    <3> QED BY <2>3, JudgePasses
  <2>6. key[r] \notin lossy' => CostOf(before[r] \cap SpentOn(key[r])) <= Amount(c)
    <3> SUFFICES ASSUME key[r] \notin lossy
                 PROVE  CostOf(before[r] \cap SpentOn(key[r])) <= Amount(c)
      BY <2>3
    <3>1. before[r] \cap SpentOn(key[r]) \in SUBSET Requests
      BY DEF SpentOn
    <3>2. \A q \in before[r] \cap SpentOn(key[r]) : c[q] > 0
      BY <2>1, <2>3 DEF CompleteInv
    <3> HIDE DEF c
    <3> QED BY <2>4, <3>1, <3>2, AmountAtLeast
  <2>7. Amount(c) \in Nat
    <3> HIDE DEF c
    <3>1. {} \in SUBSET Requests /\ \A q \in {} : c[q] > 0
      OBVIOUS
    <3> QED BY <2>4, <3>1, AmountAtLeast
  <2> HIDE DEF c
  <2> QED BY <1>2, <1>4, <2>1, <2>3, <2>5, <2>6, <2>7, JudgedBelow
<1>7. CASE Rebuild(r)
  <2>1. /\ pc[r] = "set" /\ Judge(r, CostOf(summed[r])) /\ Lose(key[r], summed[r])
        /\ summed[r] \in SUBSET Requests /\ key[r] \in Keys
    BY <1>7 DEF Rebuild, TypeInv, TypeOK, KeyInv
  <2>2. Pass(r) /\ CostOf(summed[r]) < LimitOf(Sub(r), sc)
    BY <2>1, JudgePasses
  <2>3. CostOf(summed[r]) \in Nat
    BY <2>1, CostGrows
  <2>4. key[r] \notin lossy' => CostOf(before[r] \cap SpentOn(key[r])) <= CostOf(summed[r])
    <3> SUFFICES ASSUME key[r] \notin lossy'
                 PROVE  CostOf(before[r] \cap SpentOn(key[r])) <= CostOf(summed[r])
      OBVIOUS
    <3>1. SpentOn(key[r]) \subseteq summed[r]
      BY <2>1 DEF Lose
    <3>2. before[r] \cap SpentOn(key[r]) \in SUBSET Requests
      BY DEF SpentOn
    <3> QED BY <2>1, <3>1, <3>2, CostGrows
  <2> QED BY <1>2, <1>4, <2>1, <2>2, <2>3, <2>4, JudgedBelow
<1> QED BY <1>5, <1>6, <1>7

\* The steps past the check.
ChargeStep(r) ==
    \/ Answer(r) \/ Activate(r) \/ Stamp(r) \/ AddWeekly(r) \/ OpenWindow(r)
    \/ GetWindow(r) \/ AddTotal(r) \/ AddModel(r)
    \/ AnswerUnbilled(r) \/ LogUsage(r) \/ HangUp(r) \/ EndBlocked(r) \/ NeverComes(r)

\* What a request has passed when it goes on, with the budget just judged.
LEMMA PassesOn ==
    ASSUME TypeInv, CompleteInv, ScopeInv, BegunInv, BeforeInv, CurrentInv, PassedInv,
           [Next]_vars, RedisWorks', NEW r \in Requests,
           Pick(r) \/ GetCost(r) \/ Rebuild(r), pc'[r] \in {"pick", "serve"}
    PROVE  /\ Pass(r)
           /\ scope[r] = "total" => Passed(r, "total")'
           /\ scope[r] = "week" => Passed(r, "total")' /\ Passed(r, "week")'
           /\ scope[r] \in Models =>
                 /\ scope[r] = ModelOf[r] /\ Passed(r, "total")' /\ Passed(r, "week")'
                 /\ Passed(r, ModelOf[r])'
<1>1. PICK sc \in Scopes : sc = scope[r]
  BY DEF TypeInv, TypeOK
<1>2. Pass(r) /\ Passed(r, sc)'
  BY <1>1, Passing
<1>3. UNCHANGED index /\ pc[r] \in {"pick", "get", "sum", "set"}
  BY <1>2 DEF Pass, Pick, GetCost, Rebuild
<1>4. /\ scope[r] # "total" => Passed(r, "total")
      /\ scope[r] \in Models => Passed(r, "week")
  BY <1>3, WorksBefore DEF PassedInv, RedisWorks
<1>5. "total" \in Scopes /\ "week" \in Scopes /\ "total" \notin Models /\ "week" \notin Models
  BY BudgetAssumption DEF Scopes
<1>6. /\ scope[r] # "total" => Passed(r, "total")'
      /\ scope[r] \in Models => Passed(r, "week")'
  BY <1>3, <1>4, <1>5, PassedKeeps
<1>7. sc = "total" => Passed(r, "total")'
  BY <1>2
<1>8. sc = "week" => Passed(r, "week")'
  BY <1>2
<1>9. sc = ModelOf[r] => Passed(r, ModelOf[r])'
  BY <1>2
<1> QED BY <1>1, <1>2, <1>5, <1>6, <1>7, <1>8, <1>9 DEF ScopeInv

\* The budgets behind a request stay passed.
LEMMA PassedStep ==
    TypeInv /\ CompleteInv /\ ScopeInv /\ BegunInv /\ BeforeInv /\ CurrentInv /\ PassedInv
       /\ [Next]_vars => PassedInv'
<1> SUFFICES ASSUME TypeInv, CompleteInv, ScopeInv, BegunInv, BeforeInv, CurrentInv, PassedInv,
                    [Next]_vars, RedisWorks', NEW r \in Requests, pc'[r] \in {"pick", "get", "sum", "set"}
             PROVE  /\ scope'[r] # "total" => Passed(r, "total")'
                    /\ scope'[r] \in Models => Passed(r, "week")'
  BY DEF PassedInv, RedisWorks
<1>0. "total" \in Scopes /\ "week" \in Scopes /\ "total" \notin Models /\ "week" \notin Models
  BY BudgetAssumption DEF Scopes
<1>1. ASSUME pc[r] \in {"pick", "get", "sum", "set"}, index'[r] = index[r], scope'[r] = scope[r]
      PROVE  /\ scope'[r] # "total" => Passed(r, "total")'
             /\ scope'[r] \in Models => Passed(r, "week")'
  <2>1. /\ scope[r] # "total" => Passed(r, "total")
        /\ scope[r] \in Models => Passed(r, "week")
    BY <1>1, WorksBefore DEF PassedInv, RedisWorks
  <2> QED BY <1>0, <1>1, <2>1, PassedKeeps
<1>2. CASE ~\E q \in Requests : Step(q)
  BY <1>1, <1>2, OthersAlone DEF reqVars
<1>3. ASSUME NEW q \in Requests, Step(q), q # r
      PROVE  pc'[r] = pc[r] /\ index'[r] = index[r] /\ scope'[r] = scope[r]
  BY <1>3, StepsAlone DEF Untouched
<1>4. CASE Step(r)
  <2>1. CASE Load(r) \/ Consider(r)
    <3>1. CASE Load(r)
      <4>1. GoTo(r, "consider")
        BY <3>1 DEF Load
      <4> QED BY <4>1, GoesAlone
    <3>2. CASE Consider(r)
      <4>1. scope'[r] = "total"
        BY <3>2 DEF Consider, TypeInv, TypeOK
      <4> QED BY <1>0, <4>1
    <3> QED BY <2>1, <3>1, <3>2
  <2>2. CASE (Pick(r) \/ GetCost(r) \/ Rebuild(r)) /\ pc'[r] = "pick"
    <3>1. /\ Pass(r)
          /\ scope[r] = "total" => Passed(r, "total")'
          /\ scope[r] = "week" => Passed(r, "total")' /\ Passed(r, "week")'
          /\ scope[r] \in Models => Passed(r, "total")' /\ Passed(r, "week")'
      BY <2>2, PassesOn
    <3>2. scope'[r] = IF scope[r] \in Models THEN scope[r]
                      ELSE IF scope[r] = "total" THEN "week" ELSE ModelOf[r]
      BY <3>1 DEF Pass, TypeInv, TypeOK
    <3>3. ModelOf[r] \in Models /\ scope[r] \in {"total", "week", ModelOf[r]}
      BY BudgetAssumption DEF ScopeInv
    <3>4. CASE scope[r] = "total"
      BY <1>0, <3>1, <3>2, <3>4
    <3>5. CASE scope[r] = "week"
      BY <1>0, <3>1, <3>2, <3>5
    <3>6. CASE scope[r] \in Models
      BY <3>1, <3>6
    <3> QED BY <3>3, <3>4, <3>5, <3>6
  <2>3. CASE (Pick(r) \/ GetCost(r) \/ Rebuild(r)) /\ pc'[r] # "pick"
    <3>1. CASE Pick(r)
      <4>1. UNCHANGED <<index, scope>> /\ pc[r] = "pick"
        BY <2>3, <3>1, JudgeGoes DEF Pick
      <4> QED BY <1>1, <4>1
    <3>2. CASE GetCost(r)
      <4>1. UNCHANGED <<index, scope>> /\ pc[r] = "get"
        BY <2>3, <3>2, JudgeGoes DEF GetCost
      <4> QED BY <1>1, <4>1
    <3>3. CASE Rebuild(r)
      BY <2>3, <3>3, JudgeGoes DEF Rebuild
    <3> QED BY <2>3, <3>1, <3>2, <3>3
  <2>4. CASE SumCost(r)
    BY <1>1, <2>4 DEF SumCost
  <2>5. ~ChargeStep(r)
    BY ChargeGoes DEF ChargeStep, InCheck
  <2> QED BY <1>4, <2>1, <2>2, <2>3, <2>4, <2>5 DEF Step, ChargeStep
<1> QED BY <1>1, <1>2, <1>3, <1>4

\* Where Redis has not failed, a request is admitted when what had been added
\* to each counter it is judged by, by the requests that had ended before it
\* came, is below the limit.  Excused are the costs of requests in flight with
\* it, which no check counts, and the counters that have at some time gone
\* without a cost added to them: SET by a rebuild to a SUM that did not reach it
\* yet, or lost and begun anew by an addition.
THEOREM AdmissionBelowLimit == Spec => AdmittedBelowLimit
<1> DEFINE Inv == /\ TypeInv /\ CompleteInv /\ ScopeInv /\ BegunInv /\ BeforeInv
                  /\ CurrentInv /\ PassedInv
<1>1. Init => Inv
  <2> SUFFICES ASSUME Init PROVE Inv
    OBVIOUS
  <2>1. TypeInv
    BY TypeInit
  <2>2. CompleteInv /\ ScopeInv /\ BegunInv /\ BeforeInv /\ CurrentInv /\ PassedInv
    BY DEF Init, CompleteInv, ScopeInv, BegunInv, BeforeInv, CurrentInv, PassedInv
  <2> QED BY <2>1, <2>2
<1>2. Inv /\ [Next]_vars => Inv'
  BY TypeStep, CompleteStep, ScopeStep, BegunStep, BeforeStep, CurrentStep, PassedStep
<1>3. ASSUME Inv, [Next]_vars, NEW r \in Requests, pc[r] # "serve", pc'[r] = "serve",
             "redis" \in faults => failures' = 0, NEW sc \in {"total", "week", ModelOf[r]}
      PROVE  \/ Unlimited(Sub(r), sc)
             \/ CounterKey(Sub(r), sc, winStart[Sub(r)]) \notin Keys
             \/ CounterKey(Sub(r), sc, winStart[Sub(r)]) \in lossy'
             \/ CostOf(before[r] \cap SpentOn(CounterKey(Sub(r), sc, winStart[Sub(r)])))
                   < LimitOf(Sub(r), sc)
  <2>1. ASSUME ~Step(r) PROVE pc'[r] = pc[r]
    BY <1>3, <2>1, OthersAlone, StepsAlone DEF reqVars, Untouched
  <2>2. Step(r)
    BY <1>3, <2>1
  <2>3. Pick(r) \/ GetCost(r) \/ Rebuild(r)
    <3>1. Load(r) \/ Consider(r) \/ SumCost(r) => \E p \in {"consider", "blocked", "pick", "set"} :
             GoTo(r, p)
      <4>1. Consider(r) => Skip(r) \/ GoTo(r, "pick")
        BY DEF Consider
      <4>2. Load(r) \/ SumCost(r) => GoTo(r, "consider") \/ GoTo(r, "set")
        BY DEF Load, SumCost
      <4> QED BY <4>1, <4>2 DEF Skip
    <3>2. ~(Load(r) \/ Consider(r) \/ SumCost(r))
      BY <1>3, <3>1, GoesAlone
    <3> QED BY <1>3, <2>2, <3>2, ChargeGoes DEF Step
  <2>4. UNCHANGED faults
    BY <2>2, RequestLogs DEF logVars, Log, TrySend, LeaveUnlogged
  <2>5. RedisWorks'
    BY <1>3, <2>4 DEF RedisWorks
  <2>6. /\ Pass(r)
        /\ scope[r] \in Models => /\ Passed(r, "total")' /\ Passed(r, "week")'
                                  /\ Passed(r, ModelOf[r])'
    BY <1>3, <2>3, <2>5, PassesOn
  <2>7. scope[r] \in Models /\ UNCHANGED index
    <3>1. GoTo(r, "pick") => pc'[r] # "serve"
      BY <1>3, GoesAlone
    <3> QED BY <1>3, <2>6, <3>1 DEF Pass
  <2>8. Passed(r, sc)'
    BY <2>6, <2>7
  <2>9. UNCHANGED <<now, winStart, charged, before>>
    BY <2>3 DEF Pick, GetCost, Rebuild, costVars, histVars
  <2>10. PICK s \in SubIds : s = Sub(r) /\ s = Sub(r)'
    BY <1>3, <2>7, SubIn DEF Sub, TypeInv, TypeOK
  <2> SUFFICES ASSUME ~Unlimited(s, sc), CounterKey(s, sc, winStart[s]) \in Keys
               PROVE  \/ CounterKey(s, sc, winStart[s]) \in lossy'
                      \/ CostOf(before[r] \cap SpentOn(CounterKey(s, sc, winStart[s])))
                            < LimitOf(s, sc)
    BY <2>10
  <2> DEFINE t == IF sc = "week" THEN Monday(now) ELSE IF s \in Windowed THEN winStart[s] ELSE 0
  <2>11. CounterKey(s, sc, winStart[s]) = <<s, sc, t>>
    BY DEF CounterKey
  <2>12. t \in 0..MaxNow
    BY <2>11 DEF Keys
  <2>13. t = Lower(s, sc)
    BY <1>3, <2>12, BudgetAssumption DEF Lower
  <2>14. Lower(s, sc)' = Lower(s, sc) /\ Lower(s, sc) \in Nat
    BY <1>3, <2>9, LowerType DEF Lower, Monday
  <2> HIDE DEF t
  <2>15. PICK u \in 0..MaxNow : u = t
    BY <2>12
  <2>16. Below(r, <<s, sc, u>>)'
    <3>1. ~Unlimited(s, sc)'
      BY DEF Unlimited, LimitOf
    <3>2. u >= Lower(s, sc)'
      BY <2>13, <2>14, <2>15
    <3> QED BY <2>8, <2>10, <3>1, <3>2 DEF Passed, Lower, Below, SpentOn
  <2>17. (before[r] \cap SpentOn(<<s, sc, u>>))' = before[r] \cap SpentOn(<<s, sc, u>>)
    BY <2>9 DEF SpentOn
  <2>18. CostOf((before[r] \cap SpentOn(<<s, sc, u>>))')
           = CostOf(before[r] \cap SpentOn(<<s, sc, u>>))'
    OBVIOUS
  <2> QED BY <2>11, <2>15, <2>16, <2>17, <2>18 DEF Below, LimitOf
<1>4. Inv /\ [Next]_vars =>
         [\A r \in Requests :
            pc[r] # "serve" /\ pc'[r] = "serve" /\ ("redis" \in faults => failures' = 0) =>
              \A sc \in {"total", "week", ModelOf[r]} :
                LET k == CounterKey(Sub(r), sc, winStart[Sub(r)])
                IN  \/ Unlimited(Sub(r), sc)
                    \/ k \notin Keys
                    \/ k \in lossy'
                    \/ CostOf(before[r] \cap SpentOn(k)) < LimitOf(Sub(r), sc)]_vars
  <2> HIDE DEF Inv
  <2> QED BY <1>3
<1> QED BY <1>1, <1>2, <1>4, PTL DEF Spec, AdmittedBelowLimit
=============================================================================
