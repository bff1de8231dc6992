----------------------------- MODULE LogBuffer -----------------------------
(***************************************************************************)
(* One buffered log writer: log_buffer.rs, and with other columns          *)
(* usage_buffer.rs, ttft_buffer.rs and uptime_buffer.rs.  Request tasks    *)
(* try_send entries into a bounded channel; one flush task receives them   *)
(* into a batch and inserts the batch when it is full, every five seconds, *)
(* and once more when every sender is gone.  main.rs drops its sender      *)
(* after the listener has stopped and awaits the flush task.               *)
(*                                                                         *)
(* Every entry is sent by a task of its own, which holds a clone of the    *)
(* application state, hence of the sender, until it ends.                  *)
(***************************************************************************)
EXTENDS Naturals, Sequences, FiniteSets

CONSTANTS
    Entries,     \* the entries, each named by the task that sends it
    Capacity,    \* entries the channel holds (10 000)
    BatchSize,   \* entries a batch holds (BATCH_SIZE, 100)
    Faults       \* sets of faults: "insert" (an INSERT fails), "kill" (SIGTERM)

ASSUME BufferAssumption ==
    /\ Capacity \in Nat \ {0}
    /\ BatchSize \in Nat \ {0}

VARIABLES
    chan,        \* the channel's content, oldest first
    batch,       \* the flush task's buffer
    flusher,     \* what the flush task does
    senders,     \* tasks that hold a sender, and "main"
    stored,      \* entries in the table
    refused,     \* entries try_send dropped because the channel was full
    failed,      \* entries of batches whose INSERT failed
    faults    \* the faults of this behaviour

logVars == <<chan, batch, flusher, senders, stored, refused, failed, faults>>

Elements(s) == {s[i] : i \in 1..Len(s)}

LogTypeOK ==
    /\ chan \in Seq(Entries) /\ Len(chan) <= Capacity
    /\ batch \in Seq(Entries) /\ Len(batch) <= BatchSize
    /\ flusher \in {"receiving", "writing", "writingLast", "ended", "killed"}
    /\ senders \subseteq Entries \cup {"main"}
    /\ stored \subseteq Entries
    /\ refused \subseteq Entries
    /\ failed \subseteq Entries
    /\ faults \in Faults

LogInit ==
    /\ chan = <<>>
    /\ batch = <<>>
    /\ flusher = "receiving"
    /\ senders = Entries \cup {"main"}
    /\ stored = {}
    /\ refused = {}
    /\ failed = {}
    /\ faults \in Faults

-----------------------------------------------------------------------------
(* The senders.                                                            *)

\* Fault: one entry more than the channel holds.
TrySendTooMany(e) ==
    /\ IF Len(chan) <= Capacity
       THEN chan' = Append(chan, e) /\ UNCHANGED refused
       ELSE refused' = refused \cup {e} /\ UNCHANGED chan
    /\ UNCHANGED <<batch, flusher, stored, failed, faults>>

\* state.log_tx.try_send(entry): a full channel drops the entry.
TrySend(e) ==
    /\ IF Len(chan) < Capacity
       THEN chan' = Append(chan, e) /\ UNCHANGED refused
       ELSE refused' = refused \cup {e} /\ UNCHANGED chan
    /\ UNCHANGED <<batch, flusher, stored, failed, faults>>

\* A task ends and its clone of the state goes with it.
Release(e) ==
    /\ e \in senders
    /\ senders' = senders \ {e}

\* A task sends its entry, and ends.
Log(e) == TrySend(e) /\ Release(e)

\* A task ends without an entry.
LeaveUnlogged(e) ==
    /\ Release(e)
    /\ UNCHANGED <<chan, batch, flusher, stored, refused, failed, faults>>

\* drop(state): the listener has stopped.
Shutdown ==
    /\ Release("main")
    /\ UNCHANGED <<chan, batch, flusher, stored, refused, failed, faults>>

-----------------------------------------------------------------------------
(* The flush task.                                                         *)

Receive ==
    /\ flusher = "receiving"
    /\ chan # <<>>
    /\ chan' = Tail(chan)
    /\ batch' = Append(batch, Head(chan))
    /\ flusher' = IF Len(batch') >= BatchSize THEN "writing" ELSE "receiving"
    /\ UNCHANGED <<senders, stored, refused, failed, faults>>

\* interval.tick() wins the select.
TickFlush ==
    /\ flusher = "receiving"
    /\ batch # <<>>
    /\ flusher' = "writing"
    /\ UNCHANGED <<chan, batch, senders, stored, refused, failed, faults>>

\* Fault: the last flush forgotten.
ClosedAtOnce ==
    /\ flusher = "receiving"
    /\ senders = {}
    /\ chan = <<>>
    /\ flusher' = "ended"
    /\ UNCHANGED <<chan, batch, senders, stored, refused, failed, faults>>

\* rx.recv() returns None: no sender is left and the channel is empty.
Closed ==
    /\ flusher = "receiving"
    /\ senders = {}
    /\ chan = <<>>
    /\ flusher' = IF batch # <<>> THEN "writingLast" ELSE "ended"
    /\ UNCHANGED <<chan, batch, senders, stored, refused, failed, faults>>

\* Fault: buffer.clear() forgotten.
FlushKeepsBatch ==
    /\ flusher \in {"writing", "writingLast"}
    /\ flusher' = IF flusher = "writing" THEN "receiving" ELSE "ended"
    /\ UNCHANGED <<chan, batch, senders, refused, faults>>

\* What follows the INSERT, whatever its result.
FlushReturns ==
    /\ flusher \in {"writing", "writingLast"}
    /\ batch' = <<>>
    /\ flusher' = IF flusher = "writing" THEN "receiving" ELSE "ended"
    /\ UNCHANGED <<chan, senders, refused, faults>>

FlushBatch ==
    /\ FlushReturns
    /\ stored' = stored \cup Elements(batch)
    /\ UNCHANGED failed

\* The error is logged and the batch is cleared all the same.
FlushFails ==
    /\ "insert" \in faults
    /\ FlushReturns
    /\ failed' = failed \cup Elements(batch)
    /\ UNCHANGED stored

\* main.rs waits for ctrl_c only: a SIGTERM ends the process where it stands.
Kill ==
    /\ "kill" \in faults
    /\ flusher \notin {"ended", "killed"}
    /\ flusher' = "killed"
    /\ chan' = <<>>
    /\ batch' = <<>>
    /\ senders' = {}
    /\ UNCHANGED <<stored, refused, failed, faults>>

FlushStep == Receive \/ TickFlush \/ Closed \/ FlushBatch \/ FlushFails

-----------------------------------------------------------------------------
(* The writer on its own.                                                  *)

LogNext ==
    \/ \E e \in Entries : Log(e) \/ LeaveUnlogged(e)
    \/ Shutdown
    \/ FlushStep
    \/ Kill

LogSpec == LogInit /\ [][LogNext]_logVars

-----------------------------------------------------------------------------
(* What it promises.                                                       *)

Distinct(s) == \A i, j \in 1..Len(s) : i # j => s[i] # s[j]

Disjoint(a, b) == a \cap b = {}

\* An entry is in one place only, and once: nothing is written twice, not by
\* a batch that was not cleared, nor by the last flush after a failed one.
Accounted ==
    /\ Distinct(chan) /\ Distinct(batch) /\ Disjoint(Elements(chan), Elements(batch))
    /\ Disjoint(stored, refused) /\ Disjoint(stored, failed) /\ Disjoint(refused, failed)
    /\ \A place \in {stored, refused, failed} :
          Disjoint(place, Elements(chan)) /\ Disjoint(place, Elements(batch))
    /\ \A place \in {stored, refused, failed, Elements(chan), Elements(batch)} :
          Disjoint(place, senders)

\* The flush task ends only when nobody can send any more and everything the
\* channel accepted has been through an INSERT: shutdown drains the buffer.
DrainedAtEnd ==
    flusher = "ended" => senders = {} /\ chan = <<>> /\ batch = <<>>
=============================================================================
