----------------------------- MODULE ChatStream -----------------------------
(***************************************************************************)
(* ChatSseTranslator (translate/chat_sse.rs): one Anthropic event stream   *)
(* rewritten as OpenAI Chat Completions chunks.  One action per handler of *)
(* an upstream event; chunks is everything the client was sent.  The       *)
(* fragments of a tool call's arguments are held back and sent as one      *)
(* chunk when the block closes.                                            *)
(***************************************************************************)
EXTENDS ToolArguments, SequencesExt

CONSTANT IncludeUsage           \* stream_options.include_usage

VARIABLES
    calls,       \* tool calls announced, in order: ToolCallState
    started,     \* the role chunk was sent
    finished,    \* [DONE] was sent by a handler
    chunks       \* what the client was sent

chatVars == <<calls, started, finished, chunks>>

ChatTypeOK ==
    /\ calls \in Seq([index: Index, accumulated: Seq(Index \X {1, 2}),
                      start: Objects, closed: BOOLEAN])
    /\ started \in BOOLEAN
    /\ finished \in BOOLEAN

Chunk(type, index, value) == [type |-> type, index |-> index, value |-> value]
Plain(type) == Chunk(type, 0, <<>>)

ChatInit == /\ calls = <<>>
            /\ started = FALSE
            /\ finished = FALSE
            /\ chunks = <<>>

Arguments(call) == ResolveArguments(call.accumulated, call.start)

OnMessageStart ==
    /\ started' = TRUE
    /\ chunks' = IF started THEN chunks ELSE Append(chunks, Plain("role"))
    /\ UNCHANGED <<calls, finished>>

\* Text and thinking blocks have no start signal in this protocol.
OnContentBlockStart(i, kind, start) ==
    /\ IF kind = "tool_use"
       THEN /\ calls' = Append(calls, [index |-> i, accumulated |-> <<>>,
                                       start |-> start, closed |-> FALSE])
            /\ chunks' = Append(chunks, Chunk("call", Len(calls) + 1, <<<<i, 0>>>>))
       ELSE UNCHANGED <<calls, chunks>>
    /\ UNCHANGED <<started, finished>>

OnTextDelta(part) ==
    /\ chunks' = Append(chunks, Chunk("text", 0, <<part>>))
    /\ UNCHANGED <<calls, started, finished>>

CallsAt(i) == {c \in DOMAIN calls : calls[c].index = i}

\* The most recent call of that block takes the fragment.
OnInputJsonDelta(i, part) ==
    /\ IF CallsAt(i) = {} THEN UNCHANGED calls
       ELSE LET c == CHOOSE d \in CallsAt(i) : \A e \in CallsAt(i) : e <= d
            IN  calls' = [calls EXCEPT ![c].accumulated = Append(@, part)]
    /\ UNCHANGED <<started, finished, chunks>>

\* The oldest call of that block is closed, once.
OnContentBlockStop(i) ==
    /\ IF CallsAt(i) = {} THEN UNCHANGED <<calls, chunks>>
       ELSE LET c == CHOOSE d \in CallsAt(i) : \A e \in CallsAt(i) : d <= e
            IN  IF calls[c].closed THEN UNCHANGED <<calls, chunks>>
                ELSE /\ calls' = [calls EXCEPT ![c].closed = TRUE]
                     /\ chunks' = Append(chunks, Chunk("args", c, Arguments(calls[c])))
    /\ UNCHANGED <<started, finished>>

\* map_stop_reason; the chunk that finishes the answer carries it as its type.
FinishReason(reason) == CASE reason = "max_tokens" -> "length"
                          [] reason = "tool_use"   -> "tool_calls"
                          [] OTHER                 -> "stop"
FinishReasons == {"stop", "length", "tool_calls"}

FinishChunks(reason) ==
    <<Plain(FinishReason(reason))>> \o (IF IncludeUsage THEN <<Plain("usage")>> ELSE <<>>)

\* close_pending_tool_calls: the chunks of every call not yet closed, and the
\* calls after it.
PendingChunks ==
    FlattenSeq([c \in DOMAIN calls |->
        IF calls[c].closed THEN <<>> ELSE <<Chunk("args", c, Arguments(calls[c]))>>])
AllClosed == [c \in DOMAIN calls |-> [calls[c] EXCEPT !.closed = TRUE]]

\* The finish chunk sent without the calls a missing stop left open.
OnMessageDeltaAlone(reason) ==
    /\ chunks' = chunks \o FinishChunks(reason)
    /\ UNCHANGED <<calls, started, finished>>

OnMessageDelta(reason) ==
    /\ calls' = AllClosed
    /\ chunks' = chunks \o PendingChunks \o FinishChunks(reason)
    /\ UNCHANGED <<started, finished>>

OnMessageStop ==
    /\ finished' = TRUE
    /\ chunks' = Append(chunks, Plain("done"))
    /\ UNCHANGED <<calls, started>>

\* An error ends the stream; calls still open keep their empty arguments.
OnError ==
    /\ finished' = TRUE
    /\ chunks' = chunks \o <<Plain("error"), Plain("done")>>
    /\ UNCHANGED <<calls, started>>

\* The upstream's body ended.
Finish ==
    /\ IF finished THEN UNCHANGED <<calls, chunks>>
       ELSE /\ calls' = AllClosed
            /\ chunks' = chunks \o PendingChunks \o <<Plain("done")>>
    /\ UNCHANGED <<started, finished>>
=============================================================================
