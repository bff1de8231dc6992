--------------------------- MODULE ToolArguments ---------------------------
(***************************************************************************)
(* The arguments of a tool call as the relay's translators see them        *)
(* (translate/mod.rs, and resolve_arguments of both stream translators).   *)
(* A JSON text is the sequence of the fragments it was streamed in; a      *)
(* fragment names the content block it belongs to, so that the arguments   *)
(* of two calls are told apart.                                            *)
(***************************************************************************)
EXTENDS Naturals, Sequences

CONSTANT MaxBlocks              \* content blocks of one answer

ASSUME MaxBlocksAssumption == MaxBlocks \in Nat \ {0}

Index == 1 .. MaxBlocks

\* The JSON text "{}".
NoArguments == <<<<0, 0>>>>

\* The object the model produces for block i, streamed in two fragments;
\* neither of them is JSON alone.
Document(i) == <<<<i, 1>>, <<i, 2>>>>

\* The object that block i may be announced with, before anything is streamed.
Preset(i) == <<<<i, 0>>>>

\* The texts that parse to a JSON object.
Objects == {NoArguments} \cup {Document(i) : i \in Index} \cup {Preset(i) : i \in Index}

\* resolve_arguments: what was streamed, if it parses to an object, else the
\* input the block was announced with.
ResolveArguments(streamed, start) ==
    IF streamed \in Objects THEN streamed ELSE start

\* tool_input_from_arguments: what a client stored becomes an object again;
\* what is none becomes {}.
InputOf(arguments) == IF arguments \in Objects THEN arguments ELSE NoArguments
=============================================================================
