-------------------------- MODULE ResponsesStream --------------------------
(***************************************************************************)
(* ResponsesSseTranslator (translate/responses_sse.rs): one Anthropic      *)
(* event stream rewritten as OpenAI Responses events.  One action per      *)
(* handler of an upstream event; events is everything the client was sent  *)
(* (its length is sequence_number).  Each content block becomes one output *)
(* item; at most one item is open at a time.                               *)
(***************************************************************************)
EXTENDS ToolArguments

VARIABLES
    open,        \* the item being streamed, as a sequence of at most one
    closed,      \* the items done, in order
    created,     \* started: response.created was sent
    ended,       \* a terminal event was sent
    events       \* what the client was sent

responsesVars == <<open, closed, created, ended, events>>

\* What an item holds: the text of a message, the arguments of a call.
Item(kind, call, value, status) ==
    [kind |-> kind, call |-> call, value |-> value, status |-> status]

ResponsesTypeOK ==
    /\ open \in Seq([kind: {"message", "function_call"}, index: Index,
                     value: Seq(Index \X {1, 2}), start: Objects])
    /\ Len(open) <= 1
    /\ created \in BOOLEAN
    /\ ended \in BOOLEAN

ResponsesInit == /\ open = <<>>
                 /\ closed = <<>>
                 /\ created = FALSE
                 /\ ended = FALSE
                 /\ events = <<>>

\* An event: its type, the output_index it names, and what it carries.
Event(type, at, value) == [type |-> type, at |-> at, value |-> value]

Here == Len(closed)             \* the output_index of the open item

\* The item an open one becomes when it is done.
Done(item, status) ==
    IF item.kind = "message" THEN Item("message", 0, item.value, status)
    ELSE Item("function_call", item.index, ResolveArguments(item.value, item.start), status)

\* close_item: the events inside the item, then response.output_item.done.
ClosingEvents ==
    IF open = <<>> THEN <<>>
    ELSE LET item == Done(open[1], "completed")
         IN  (IF item.kind = "message"
              THEN <<Event("text_done", Here, item.value), Event("part_done", Here, item.value)>>
              ELSE <<Event("args_done", Here, item.value)>>)
             \o <<Event("item_done", Here, <<item>>)>>

Closed == IF open = <<>> THEN closed ELSE Append(closed, Done(open[1], "completed"))

\* close_open_item_incomplete: the items with the one cut short, and its
\* response.output_item.done.
Cut == IF open = <<>> THEN closed ELSE Append(closed, Done(open[1], "incomplete"))
\* A cut that forgets the open item.
CutSilently == <<>>

CuttingEvents == IF open = <<>> THEN <<>>
                 ELSE <<Event("item_done", Here, <<Done(open[1], "incomplete")>>)>>

Ignored == UNCHANGED responsesVars

OnMessageStart ==
    IF ended \/ created THEN Ignored
    ELSE /\ created' = TRUE
         /\ events' = events \o <<Event("created", 0, <<>>), Event("in_progress", 0, <<>>)>>
         /\ UNCHANGED <<open, closed, ended>>

\* An item opened beside one whose stop went missing.
OpenedBeside(kind, i, value, start) ==
    Append(open, [kind |-> kind, index |-> i, value |-> value, start |-> start])

Opened(kind, i, value, start) ==
    <<[kind |-> kind, index |-> i, value |-> value, start |-> start]>>

\* open_message announces the item and its only part, open_function_call the
\* item alone.
OpeningEvents(kind, i, at) ==
    IF kind = "message"
    THEN <<Event("item_added", at, <<Item(kind, 0, <<>>, "in_progress")>>),
           Event("part_added", at, <<>>)>>
    ELSE <<Event("item_added", at, <<Item(kind, i, <<>>, "in_progress")>>)>>

\* A handler that drops an item whose stop went missing.
OnContentBlockStartDropping(i, kind, start) ==
    IF ended THEN Ignored
    ELSE LET item == IF kind = "text" THEN "message" ELSE "function_call"
         IN  /\ open' = IF kind = "thinking" THEN <<>> ELSE Opened(item, i, <<>>, start)
             /\ events' = IF kind = "thinking" THEN events
                          ELSE events \o OpeningEvents(item, i, Here)
             /\ UNCHANGED <<closed, created, ended>>

\* An item still open is closed first; thinking opens none.
OnContentBlockStart(i, kind, start) ==
    IF ended THEN Ignored
    ELSE LET item == IF kind = "text" THEN "message" ELSE "function_call"
         IN  /\ closed' = Closed
             /\ open' = IF kind = "thinking" THEN <<>> ELSE Opened(item, i, <<>>, start)
             /\ events' = events \o ClosingEvents
                          \o (IF kind = "thinking" THEN <<>>
                              ELSE OpeningEvents(item, i, Len(Closed)))
             /\ UNCHANGED <<created, ended>>

\* A delta with no item open opens the message it implies; one that meets an
\* open function_call is dropped.
OnTextDelta(i, part) ==
    IF ended \/ (open # <<>> /\ open[1].kind = "function_call") THEN Ignored
    ELSE LET item == IF open = <<>> THEN Opened("message", i, <<>>, NoArguments) ELSE open
         IN  /\ open' = [item EXCEPT ![1].value = Append(@, part)]
             /\ events' = events
                          \o (IF open = <<>> THEN OpeningEvents("message", i, Here) ELSE <<>>)
                          \o <<Event("text_delta", Here, <<part>>)>>
             /\ UNCHANGED <<closed, created, ended>>

IsOpen(i) == open # <<>> /\ open[1].index = i

OnInputJsonDelta(i, part) ==
    IF ended \/ ~IsOpen(i) \/ open[1].kind = "message" THEN Ignored
    ELSE /\ open' = [open EXCEPT ![1].value = Append(@, part)]
         /\ events' = Append(events, Event("args_delta", Here, <<part>>))
         /\ UNCHANGED <<closed, created, ended>>

OnContentBlockStop(i) ==
    IF ended \/ ~IsOpen(i) THEN Ignored
    ELSE /\ closed' = Closed
         /\ open' = <<>>
         /\ events' = events \o ClosingEvents
         /\ UNCHANGED <<created, ended>>

\* response.completed; its status is "incomplete" after max_tokens.
OnMessageDelta(reason) ==
    IF ended THEN Ignored
    ELSE /\ open' = <<>>
         /\ closed' = <<>>
         /\ ended' = TRUE
         /\ events' = events \o ClosingEvents
                      \o <<Event(IF reason = "max_tokens" THEN "incomplete" ELSE "completed",
                                 0, Closed)>>
         /\ UNCHANGED created

\* message_stop has no handler.
OnMessageStop == Ignored

\* response.failed, with the item the stream was cut in.
OnError ==
    IF ended THEN Ignored
    ELSE /\ open' = <<>>
         /\ closed' = <<>>
         /\ ended' = TRUE
         /\ events' = events \o CuttingEvents \o <<Event("failed", 0, Cut)>>
         /\ UNCHANGED created

\* A translator that takes a body's end for an answer's end.
FinishSilently == Ignored

\* The upstream's body ended: a response begun and not ended failed.
Finish == IF created /\ ~ended THEN OnError ELSE Ignored
=============================================================================
