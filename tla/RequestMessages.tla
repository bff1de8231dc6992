-------------------------- MODULE RequestMessages --------------------------
(***************************************************************************)
(* The conversation a client sends, rewritten for the upstream:            *)
(* convert_messages (translate/chat.rs) and convert_input_items            *)
(* (translate/responses.rs).  A client's entry is a message, a tool call   *)
(* or a tool result; an upstream message is a role and its content blocks. *)
(* A text is the sequence of its parts, <<>> when it is empty.             *)
(***************************************************************************)
EXTENDS ToolArguments, SequencesExt

\* What a client sends: text and calls of a turn, or the call a result answers.
Entry(role, text, calls, answers) ==
    [role |-> role, text |-> text, calls |-> calls, answers |-> answers]

Call(id, arguments) == [id |-> id, arguments |-> arguments]

Message(role, content) == [role |-> role, content |-> content]
ContentBlock(type, id, value) == [type |-> type, id |-> id, value |-> value]

\* content_blocks, message_content_blocks: an empty text is no block.
TextBlocks(text) == IF text = <<>> THEN <<>> ELSE <<ContentBlock("text", 0, text)>>

\* tool_use_blocks: the stored arguments become an object again.
UseBlocks(calls) ==
    [n \in DOMAIN calls |-> ContentBlock("tool_use", calls[n].id, InputOf(calls[n].arguments))]

ResultBlock(id) == ContentBlock("tool_result", id, <<>>)

SyntheticUser == Message("user", <<ContentBlock("text", 0, <<>>)>>)

\* flush: the results gathered so far become one user message.
Flush(acc) ==
    IF acc.pending = <<>> THEN acc
    ELSE [out |-> Append(acc.out, Message("user", acc.pending)), pending |-> <<>>]

\* Results sent one user message each.
GatherAlone(acc, entry) == [acc EXCEPT !.out = Append(@, Message("user", <<ResultBlock(entry.answers)>>))]

Gather(acc, entry) == [acc EXCEPT !.pending = Append(@, ResultBlock(entry.answers))]

Put(acc, message) == LET f == Flush(acc) IN [f EXCEPT !.out = Append(@, message)]

NoMessages == [out |-> <<>>, pending |-> <<>>]

\* A system message goes to the system prompt, and still ends a run of
\* results.
ChatStep(acc, entry) ==
    CASE entry.role = "tool"   -> Gather(acc, entry)
      [] entry.role = "system" -> Flush(acc)
      [] OTHER -> Put(acc, Message(entry.role, TextBlocks(entry.text) \o UseBlocks(entry.calls)))

\* needs_synthetic_leading_user.
NeedsLeadingUser(messages) ==
    /\ messages # <<>>
    /\ \/ messages[1].role # "user"
       \/ /\ messages[1].content # <<>>
          /\ \A n \in DOMAIN messages[1].content : messages[1].content[n].type = "tool_result"

ConvertMessages(entries) ==
    LET messages == Flush(FoldLeft(ChatStep, NoMessages, entries)).out
    IN  (IF NeedsLeadingUser(messages) THEN <<SyntheticUser>> ELSE <<>>) \o messages

\* A system item does not end a run of results here, and every function_call
\* is an assistant message of its own.
InputStep(acc, entry) ==
    CASE entry.role = "tool"   -> Gather(acc, entry)
      [] entry.role = "system" -> acc
      [] entry.calls # <<>>    -> Put(acc, Message("assistant", UseBlocks(entry.calls)))
      [] OTHER                 -> Put(acc, Message(entry.role, TextBlocks(entry.text)))

ConvertInput(entries) ==
    LET messages == Flush(FoldLeft(InputStep, NoMessages, entries)).out
    IN  (IF messages # <<>> /\ messages[1].role # "user" THEN <<SyntheticUser>> ELSE <<>>)
        \o messages
=============================================================================
