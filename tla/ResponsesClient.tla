-------------------------- MODULE ResponsesClient --------------------------
(***************************************************************************)
(* What a client of the OpenAI Responses event stream may rely on: the     *)
(* protocol the comments and tests of responses_sse.rs describe, stated    *)
(* for the client alone.  The client folds the events it was sent into     *)
(* what it knows; the specification allows a batch of events only if each  *)
(* is lawful after the ones before it.                                     *)
(***************************************************************************)
EXTENDS ToolArguments, SequencesExt

VARIABLE events

\* What the client knows: how far the response is, the item being streamed
\* (its kind, its text or arguments so far, and how far it is), the items
\* done.
Unaware == [phase |-> "silent", kind |-> "none", value |-> <<>>, step |-> "none",
            items |-> <<>>]

After(c, e) ==
    CASE e.type = "created"     -> [c EXCEPT !.phase = "created"]
      [] e.type = "in_progress" -> [c EXCEPT !.phase = "streaming"]
      [] e.type = "item_added"  -> [c EXCEPT !.kind = e.value[1].kind, !.value = <<>>,
                                             !.step = "added"]
      [] e.type = "part_added"  -> [c EXCEPT !.step = "part"]
      [] e.type \in {"text_delta", "args_delta"} -> [c EXCEPT !.value = @ \o e.value]
      [] e.type \in {"text_done", "args_done"}   -> [c EXCEPT !.value = e.value, !.step = "whole"]
      [] e.type = "part_done"   -> [c EXCEPT !.step = "closed"]
      [] e.type = "item_done"   -> [c EXCEPT !.kind = "none", !.step = "none",
                                             !.items = @ \o e.value]
      [] OTHER                  -> [c EXCEPT !.phase = "over"]

Client(sent) == FoldLeft(After, Unaware, sent)

\* The event names the item that is being streamed, and the response is.
Current(c, e) == c.phase = "streaming" /\ e.at = Len(c.items)

\* What ends an item repeats what was streamed of it, unless that is arguments
\* that do not parse, which the client could not use: some that do take their
\* place.
Repeats(c, value) ==
    \/ value = c.value /\ (c.kind = "function_call" => value \in Objects)
    \/ c.kind = "function_call" /\ c.value \notin Objects /\ value \in Objects

\* An item is done once it is whole, or says that it was cut short.
LawfulDone(c, item) ==
    /\ item.kind = c.kind
    /\ Repeats(c, item.value)
    /\ \/ item.status = "incomplete"
       \/ /\ item.status = "completed"
          /\ c.step = IF c.kind = "message" THEN "closed" ELSE "whole"

Lawful(c, e) ==
    CASE e.type = "created"     -> c.phase = "silent"
      [] e.type = "in_progress" -> c.phase = "created"
      [] e.type = "item_added"  -> Current(c, e) /\ c.kind = "none"
      [] e.type = "part_added"  -> Current(c, e) /\ c.kind = "message" /\ c.step = "added"
      [] e.type = "text_delta"  -> Current(c, e) /\ c.kind = "message" /\ c.step = "part"
      [] e.type = "args_delta"  -> Current(c, e) /\ c.kind = "function_call" /\ c.step = "added"
      [] e.type = "text_done"   -> /\ Current(c, e) /\ c.kind = "message" /\ c.step = "part"
                                   /\ Repeats(c, e.value)
      [] e.type = "args_done"   -> /\ Current(c, e) /\ c.kind = "function_call"
                                   /\ c.step = "added" /\ Repeats(c, e.value)
      [] e.type = "part_done"   -> /\ Current(c, e) /\ c.kind = "message" /\ c.step = "whole"
                                   /\ Repeats(c, e.value)
      [] e.type = "item_done"   -> Current(c, e) /\ LawfulDone(c, e.value[1])
      [] e.type \in {"completed", "incomplete"} ->
            /\ c.phase = "streaming" /\ c.kind = "none"
            /\ e.value = c.items
            /\ \A n \in DOMAIN c.items : c.items[n].status = "completed"
      [] e.type = "failed"      -> /\ c.phase # "over" /\ c.kind = "none"
                                   /\ e.value = c.items

Init == events = <<>>

Next == /\ Len(events') > Len(events)
        /\ SubSeq(events', 1, Len(events)) = events
        /\ \A n \in Len(events) + 1 .. Len(events') :
              Lawful(Client(SubSeq(events', 1, n - 1)), events'[n])

Spec == Init /\ [][Next]_events
=============================================================================
