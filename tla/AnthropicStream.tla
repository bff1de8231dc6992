-------------------------- MODULE AnthropicStream --------------------------
(***************************************************************************)
(* The upstream's answer: one Anthropic Messages event stream, as the      *)
(* translators in src/translate rely on it and as they tolerate it.        *)
(* Content blocks come one after another, numbered in the order in which   *)
(* they start, and never interleaved: only the newest is open.  A tool_use *)
(* block may be announced with an input, and may stream one in fragments.  *)
(* One answer may commit one slip the translators say they tolerate.  The  *)
(* events themselves are the parameters of the actions; Translation.tla    *)
(* hands each to both translators.                                         *)
(***************************************************************************)
EXTENDS ToolArguments

CONSTANT Slips                  \* the slips an upstream may commit

ASSUME SlipsAssumption ==
    Slips \subseteq {"none", "no_block_start", "no_block_stop", "no_message_delta"}

VARIABLES
    blocks,      \* the content blocks so far: kind, announced input, parts, open
    stage,       \* how far the answer is
    reason,      \* the stop_reason of message_delta
    slip         \* the slip this upstream commits

upstreamVars == <<blocks, stage, reason, slip>>

Kinds == {"text", "tool_use", "thinking"}

UpstreamTypeOK ==
    /\ blocks \in Seq([kind: Kinds, start: Objects, parts: Seq(Index \X {1, 2}), open: BOOLEAN])
    /\ Len(blocks) <= MaxBlocks
    /\ stage \in {"silent", "streaming", "finishing", "stopped", "failed"}
    /\ reason \in {"none", "end_turn", "tool_use", "max_tokens"}
    /\ slip \in Slips

UpstreamInit ==
    /\ blocks = <<>>
    /\ stage = "silent"
    /\ reason = "none"
    /\ slip \in Slips

Newest == Len(blocks)
AnyOpen == Newest > 0 /\ blocks[Newest].open

\* The slip of an upstream that forgets content_block_stop.
MayLeaveOpen == AnyOpen => slip = "no_block_stop"

LeftOpen == [i \in 1 .. Newest |-> [blocks[i] EXCEPT !.open = FALSE]]

Block(kind, start, parts) == [kind |-> kind, start |-> start, parts |-> parts, open |-> TRUE]

Begins == /\ stage = "silent"
          /\ stage' = "streaming"
          /\ UNCHANGED <<blocks, reason, slip>>

\* content_block_start.
StartsBlock(kind, start) ==
    /\ stage = "streaming" /\ MayLeaveOpen /\ Newest < MaxBlocks
    /\ start # NoArguments => kind = "tool_use"
    /\ blocks' = Append(LeftOpen, Block(kind, start, <<>>))
    /\ UNCHANGED <<stage, reason, slip>>

\* The next part of block i; a block never started begins with its first.
NextPart(i) == <<i, IF i > Newest THEN 1 ELSE Len(blocks[i].parts) + 1>>

\* A text_delta of the open block, or of a block that was never started.
SendsText(i) ==
    /\ stage = "streaming"
    /\ \/ /\ AnyOpen /\ i = Newest
          /\ blocks[i].kind = "text" /\ Len(blocks[i].parts) < 2
          /\ blocks' = [blocks EXCEPT ![i].parts = Append(@, NextPart(i))]
       \/ /\ slip = "no_block_start" /\ ~AnyOpen
          /\ i = Newest + 1 /\ i <= MaxBlocks
          /\ blocks' = Append(blocks, Block("text", NoArguments, <<NextPart(i)>>))
    /\ UNCHANGED <<stage, reason, slip>>

\* An input_json_delta of the open block.
SendsFragment(i) ==
    /\ stage = "streaming" /\ AnyOpen /\ i = Newest
    /\ blocks[i].kind = "tool_use" /\ Len(blocks[i].parts) < 2
    /\ blocks' = [blocks EXCEPT ![i].parts = Append(@, NextPart(i))]
    /\ UNCHANGED <<stage, reason, slip>>

StopsBlock(i) ==
    /\ stage = "streaming" /\ AnyOpen /\ i = Newest
    /\ blocks' = LeftOpen
    /\ UNCHANGED <<stage, reason, slip>>

\* A tool_use block whose input was cut off.
CutShort(b) == b.kind = "tool_use" /\ Len(b.parts) = 1

UsesTools == \E i \in 1 .. Newest : blocks[i].kind = "tool_use"

\* message_delta with its stop_reason: max_tokens may cut a block short.
SendsReason(r) ==
    /\ stage = "streaming" /\ MayLeaveOpen
    /\ slip # "no_message_delta"
    /\ \/ r = "max_tokens"
       \/ /\ \A i \in 1 .. Newest : ~CutShort(blocks[i])
          /\ r = IF UsesTools THEN "tool_use" ELSE "end_turn"
    /\ stage' = "finishing"
    /\ reason' = r
    /\ UNCHANGED <<blocks, slip>>

SendsStop ==
    /\ \/ stage = "finishing"
       \/ stage = "streaming" /\ slip = "no_message_delta" /\ ~AnyOpen
    /\ stage' = "stopped"
    /\ UNCHANGED <<blocks, reason, slip>>

SendsError ==
    /\ stage \in {"silent", "streaming", "finishing"}
    /\ stage' = "failed"
    /\ UNCHANGED <<blocks, reason, slip>>
=============================================================================
