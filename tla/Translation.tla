---------------------------- MODULE Translation ----------------------------
(***************************************************************************)
(* The two seams of src/translate around one answer of the upstream.  The  *)
(* same Anthropic event stream is given to the Chat Completions translator *)
(* and to the Responses translator, as TranslatingSseStream would give it  *)
(* to either; then the client of each protocol sends the conversation      *)
(* back, with the calls it received and their results, and the relay       *)
(* translates it for the next turn.  An event is translated when it is     *)
(* complete, so where the bytes are cut into chunks makes no difference;   *)
(* the body may end or break before any event.                             *)
(***************************************************************************)
EXTENDS AnthropicStream, RequestMessages

CONSTANT IncludeUsage

VARIABLES
    calls, started, finished, chunks,          \* the Chat Completions translator
    open, closed, created, ended, events,      \* the Responses translator
    body,        \* the upstream's response body: open, ended or broken
    turn         \* the next turn's requests, once the clients sent it

chatVars == <<calls, started, finished, chunks>>
responsesVars == <<open, closed, created, ended, events>>
vars == <<upstreamVars, chatVars, responsesVars, body, turn>>

Chat == INSTANCE ChatStream
Responses == INSTANCE ResponsesStream
Protocol == INSTANCE ResponsesClient

NoTurn == [head |-> "none", note |-> FALSE, order |-> "none", chat |-> <<>>, responses |-> <<>>]

Init == /\ UpstreamInit
        /\ Chat!ChatInit
        /\ Responses!ResponsesInit
        /\ body = "open"
        /\ turn = NoTurn

Streams == body = "open" /\ UNCHANGED <<body, turn>>

MessageStart ==
    Streams /\ Begins /\ Chat!OnMessageStart /\ Responses!OnMessageStart

ContentBlockStart == \E kind \in Kinds, start \in {NoArguments, Preset(Newest + 1)} :
    /\ Streams
    /\ StartsBlock(kind, start)
    /\ Chat!OnContentBlockStart(Newest + 1, kind, start)
    /\ Responses!OnContentBlockStart(Newest + 1, kind, start)

TextDelta == \E i \in Index :
    /\ Streams
    /\ SendsText(i)
    /\ Chat!OnTextDelta(NextPart(i))
    /\ Responses!OnTextDelta(i, NextPart(i))

InputJsonDelta == \E i \in 1 .. Newest :
    /\ Streams
    /\ SendsFragment(i)
    /\ Chat!OnInputJsonDelta(i, NextPart(i))
    /\ Responses!OnInputJsonDelta(i, NextPart(i))

ContentBlockStop == \E i \in 1 .. Newest :
    Streams /\ StopsBlock(i) /\ Chat!OnContentBlockStop(i) /\ Responses!OnContentBlockStop(i)

MessageDelta == \E r \in {"end_turn", "tool_use", "max_tokens"} :
    Streams /\ SendsReason(r) /\ Chat!OnMessageDelta(r) /\ Responses!OnMessageDelta(r)

MessageStop ==
    Streams /\ SendsStop /\ Chat!OnMessageStop /\ Responses!OnMessageStop

Error ==
    Streams /\ SendsError /\ Chat!OnError /\ Responses!OnError

\* The body ends, wherever the answer is; each translator is finished.
EndBody ==
    /\ body = "open"
    /\ body' = "ended"
    /\ Chat!Finish /\ Responses!Finish
    /\ UNCHANGED <<upstreamVars, turn>>

\* The connection breaks: the translator is dropped, not finished, and the
\* client's body breaks too.
BreakBody ==
    /\ body = "open"
    /\ body' = "broken"
    /\ UNCHANGED <<upstreamVars, chatVars, responsesVars, turn>>

-----------------------------------------------------------------------------
(* What a client has when it has read its stream.                          *)

\* One chunk more for a Chat Completions client: a call's arguments are the
\* concatenation of what arrives under its index.
Reads(a, c) ==
    CASE c.type = "text" -> [a EXCEPT !.text = @ \o c.value]
      [] c.type = "call" -> [a EXCEPT !.calls = Append(@, Call(c.value[1][1], <<>>))]
      [] c.type = "args" ->
            [a EXCEPT !.calls[c.index] = Call(@.id, @.arguments \o c.value)]
      [] c.type \in Chat!FinishReasons -> [a EXCEPT !.finish = Append(@, c.type)]
      [] OTHER -> a

NoAnswer == [text |-> <<>>, calls |-> <<>>, finish |-> <<>>]
ChatAnswer == FoldLeft(Reads, NoAnswer, chunks)

Terminal == {"completed", "incomplete", "failed"}

\* One event more for a Responses client, which takes the answer from the
\* terminal event.
Hears(a, e) ==
    IF e.type \in Terminal
    THEN [output |-> a.output \o e.value, status |-> Append(a.status, e.type)]
    ELSE a

NoResponse == [output |-> <<>>, status |-> <<>>]
ResponsesAnswer == FoldLeft(Hears, NoResponse, events)

-----------------------------------------------------------------------------
(* The same answer, had the client not asked for a stream: the upstream's  *)
(* message, translated as a whole (anthropic_to_response).                 *)

\* The content of the upstream's message.
Content == [i \in 1 .. Newest |-> [type |-> blocks[i].kind, id |-> i,
                                   parts |-> blocks[i].parts, start |-> blocks[i].start]]

\* The input the upstream reports for a tool_use block: what it streamed, or
\* else what it announced.
Input(b) == IF b.parts = <<>> THEN b.start ELSE b.parts

AddText(text, b) == IF b.type = "text" THEN text \o b.parts ELSE text
TextOf(content) == FoldLeft(AddText, <<>>, content)

AddTool(tools, b) == IF b.type = "tool_use" THEN Append(tools, b) ELSE tools
Tools(content) == FoldLeft(AddTool, <<>>, content)

AddShown(shown, b) == IF b.type # "thinking" THEN Append(shown, b) ELSE shown
Shown(content) == FoldLeft(AddShown, <<>>, content)

WholeChat ==
    LET tools == Tools(Content)
    IN  [text   |-> TextOf(Content),
         calls  |-> [n \in DOMAIN tools |-> Call(tools[n].id, Input(tools[n]))],
         finish |-> <<Chat!FinishReason(reason)>>]

\* A block as an item of the output, with these arguments if it is a call.
AsItem(b, arguments) ==
    IF b.type = "text" THEN Responses!Item("message", 0, b.parts, "completed")
    ELSE Responses!Item("function_call", b.id, arguments, "completed")

WholeResponses ==
    LET shown == Shown(Content)
    IN  [output |-> [n \in DOMAIN shown |-> AsItem(shown[n], Input(shown[n]))],
         status |-> <<IF reason = "max_tokens" THEN "incomplete" ELSE "completed">>]

-----------------------------------------------------------------------------
(* The next turn.                                                          *)

Question == Entry("user", <<<<0, 1>>>>, <<>>, 0)
Note == Entry("system", <<<<0, 2>>>>, <<>>, 0)
Result(id) == Entry("tool", <<>>, <<>>, id)

Noted(results, note) ==
    IF note /\ results # <<>> THEN InsertAt(results, 2, Note) ELSE results

Ordered(entries, order) == IF order = "reversed" THEN Reverse(entries) ELSE entries

\* The history with its first user turn, compacted to begin with the answer,
\* or compacted to begin with the results.
From(head, answer, results) ==
    CASE head = "user"    -> <<Question>> \o answer \o results
      [] head = "answer"  -> answer \o results
      [] head = "results" -> results

\* Without calls, the user speaks next.
Replies(results) == IF results = <<>> THEN <<Question>> ELSE results

ChatHistory(head, note, order) ==
    LET a == ChatAnswer
        results == [n \in DOMAIN a.calls |-> Result(a.calls[n].id)]
    IN  From(head, <<Entry("assistant", a.text, a.calls, 0)>>,
             Replies(Noted(Ordered(results, order), note)))

ItemEntry(item) ==
    IF item.kind = "message" THEN Entry("assistant", item.value, <<>>, 0)
    ELSE Entry("assistant", <<>>, <<Call(item.call, item.value)>>, 0)

AddCalled(ids, item) == IF item.kind = "function_call" THEN Append(ids, item.call) ELSE ids
CalledIn(output) == FoldLeft(AddCalled, <<>>, output)

\* A Responses client may also send each result right after its call.
ResponsesHistory(head, note, order) ==
    LET output == ResponsesAnswer.output
        said == [n \in DOMAIN output |-> ItemEntry(output[n])]
        ids == CalledIn(output)
        results == [n \in DOMAIN ids |-> Result(ids[n])]
        paired == FlattenSeq([n \in DOMAIN said |->
                     IF said[n].calls = <<>> THEN <<said[n]>>
                     ELSE <<said[n], Result(output[n].call)>>])
    IN  IF order = "paired" /\ head # "results" /\ results # <<>>
        THEN From(head, paired, <<>>)
        ELSE From(head, said, Replies(Noted(Ordered(results, order), note)))

Heads == {"user", "answer", "results"}
Orders == {"kept", "reversed", "paired"}

\* request_to_anthropic on the next turn of a client whose answer completed.
NextTurn == \E head \in Heads, note \in BOOLEAN, order \in Orders :
    /\ body = "ended" /\ reason # "none" /\ turn = NoTurn
    /\ turn' = [head |-> head, note |-> note, order |-> order,
                chat |-> ConvertMessages(ChatHistory(head, note, order)),
                responses |-> ConvertInput(ResponsesHistory(head, note, order))]
    /\ UNCHANGED <<upstreamVars, chatVars, responsesVars, body>>

Next ==
    \/ MessageStart
    \/ ContentBlockStart
    \/ TextDelta
    \/ InputJsonDelta
    \/ ContentBlockStop
    \/ MessageDelta
    \/ MessageStop
    \/ Error
    \/ EndBody
    \/ BreakBody
    \/ NextTurn

Spec == Init /\ [][Next]_vars

-----------------------------------------------------------------------------

\* Every variable the translators keep has its type.
TypeOK ==
    /\ UpstreamTypeOK
    /\ Chat!ChatTypeOK
    /\ Responses!ResponsesTypeOK
    /\ body \in {"open", "ended", "broken"}

\* The Responses translator speaks the protocol its client relies on, over
\* every answer, slip, error and cut: items one at a time, announced before
\* anything names them and done before the response is, the text of each
\* repeated as it was streamed, its arguments too if those streamed parse and
\* otherwise given way to some that do, one terminal event that lists exactly
\* the items done, and nothing after it (translate/responses_sse.rs).
ResponsesProtocol == Protocol!Spec

Positions(type, n) == {k \in DOMAIN chunks : chunks[k].type = type /\ chunks[k].index = n}
Finishing == {k \in DOMAIN chunks : chunks[k].type \in Chat!FinishReasons}

\* A Chat Completions client concatenates a call's arguments and parses them:
\* each call announced receives them in one chunk that parses to an object,
\* after its announcement and before the finish chunk, and no answer finishes,
\* or ends without an error, while a call still waits for them
\* (close_pending_tool_calls, on_content_block_stop).
ArgumentsArriveOnce ==
    \A n \in DOMAIN calls :
        LET sent == Positions("args", n)
        IN  /\ \A j, k \in sent : j = k
            /\ \A k \in sent :
                  /\ chunks[k].value \in Objects
                  /\ \A a \in Positions("call", n) : a < k
                  /\ \A f \in Finishing : k < f
            /\ \/ Finishing # {}
               \/ body = "ended" /\ Positions("error", 0) = {}
               => sent # {}

\* A client waits for one end: [DONE] closes the Chat Completions stream once
\* and nothing follows it, and a body that ended has been closed in both
\* protocols; a Responses stream that never began is the exception
\* (finish of both translators).
EndsOnce ==
    /\ \A k \in Positions("done", 0) : k = Len(chunks)
    /\ body = "ended" =>
          /\ Positions("done", 0) # {}
          /\ created => Last(events).type \in Terminal

\* An answer that was streamed to its end is the answer the client would have
\* been given as one JSON body: the same text, the same calls with the same
\* arguments, the same reason or status, in both protocols, even when the
\* upstream forgot to start or to stop a block.  Two answers are left out: one
\* with a call whose arguments max_tokens cut short, since nothing says which
\* input its whole body would have, and one asked for by json_schema, whose
\* synthetic tool call is undone for whole bodies and handed on in streams.
StreamedIsWhole ==
    reason # "none" /\ (\A i \in 1 .. Len(blocks) : ~CutShort(blocks[i])) =>
        /\ ChatAnswer = WholeChat
        /\ ResponsesAnswer = WholeResponses

Uses(messages) == FlattenSeq([n \in DOMAIN messages |-> Tools(messages[n].content)])

Holds(messages, n, type, id) ==
    \E k \in DOMAIN messages[n].content :
        messages[n].content[k].type = type /\ messages[n].content[k].id = id

\* The first user message after message n.
Reply(messages, n, m) ==
    /\ m > n /\ messages[m].role = "user"
    /\ \A k \in n + 1 .. m - 1 : messages[k].role # "user"

Asked(messages) ==
    LET tools == Tools(Content)
    IN  Uses(messages) = [n \in DOMAIN tools |->
            ContentBlock("tool_use", tools[n].id,
                         ResolveArguments(tools[n].parts, tools[n].start))]

Answered(messages) ==
    \A n \in DOMAIN messages, i \in Index :
        Holds(messages, n, "tool_use", i) =>
            \E m \in DOMAIN messages :
                Reply(messages, n, m) /\ Holds(messages, m, "tool_result", i)

AnsweredLater(messages) ==
    \A n \in DOMAIN messages, i \in Index :
        Holds(messages, n, "tool_use", i) =>
            \E m \in DOMAIN messages :
                m > n /\ messages[m].role = "user" /\ Holds(messages, m, "tool_result", i)

\* On the next turn the upstream is given back the calls it made, in order and
\* with the arguments it gave, each with its result in the first user message
\* after it, as Anthropic requires; the conversation begins with the user, and
\* in Chat Completions not with a result that answers nothing.  There a system
\* message between two results splits them: each result still comes in a user
\* message after its call, but not always in the first.
CallsAnswered ==
    turn # NoTurn =>
        /\ turn.chat[1].role = "user" /\ turn.responses[1].role = "user"
        /\ \E k \in DOMAIN turn.chat[1].content : turn.chat[1].content[k].type # "tool_result"
        /\ turn.head # "results" =>
              /\ Asked(turn.chat) /\ Asked(turn.responses)
              /\ Answered(turn.responses)
              /\ IF turn.note THEN AnsweredLater(turn.chat) ELSE Answered(turn.chat)
=============================================================================
