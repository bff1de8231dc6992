------------------------- MODULE TranslationProofs -------------------------
(***************************************************************************)
(* What the two stream translators promise for answers of any number of    *)
(* blocks, any slips of the upstream and any end of its body, and what the *)
(* two request translators make of the conversations that come back.       *)
(***************************************************************************)
EXTENDS Translation, WellFoundedInduction, TLAPS

-----------------------------------------------------------------------------
(* Induction and folds *)

\* Induction over the natural numbers.
LEMMA NatSet ==
    ASSUME NEW S, 0 \in S, \A n \in Nat : n \in S => n + 1 \in S
    PROVE  \A n \in Nat : n \in S
<1> SUFFICES ASSUME NEW m \in Nat, m \notin S PROVE FALSE
  OBVIOUS
<1> DEFINE R == OpToRel(<, Nat)
           T == {n \in Nat : n \notin S}
<1>1. IsWellFoundedOn(R, Nat)
  BY NatLessThanWellFounded
<1>2. \A x, y \in Nat : x < y => <<x, y>> \in R
  BY DEF OpToRel
<1>3. T \subseteq Nat /\ T # {}
  OBVIOUS
<1> HIDE DEF R
<1>4. \E x \in T : \A y \in T : ~(<<y, x>> \in R)
  <2> HIDE DEF T
  <2> QED BY <1>1, <1>3, WFMin
<1>5. PICK x \in T : \A y \in T : ~(<<y, x>> \in R)
  BY <1>4
<1>6. x \in Nat /\ x # 0 /\ x \notin S
  OBVIOUS
<1>7. x - 1 \in Nat /\ x - 1 < x /\ x = (x - 1) + 1
  BY <1>6
<1>8. x - 1 \in T
  BY <1>6, <1>7
<1> QED BY <1>5, <1>8, <1>2, <1>6, <1>7

\* A Responses client learns from the events one by one.
Learning == INSTANCE FoldSteps WITH Op <- Protocol!After, Base <- Protocol!Unaware

-----------------------------------------------------------------------------
(* Types *)

Part == Index \X {1, 2}

\* Both translators read texts and arguments as the upstream writes them.
LEMMA Same ==
    /\ Chat!Index = Index /\ Responses!Index = Index /\ Protocol!Index = Index
    /\ Chat!NoArguments = NoArguments /\ Responses!NoArguments = NoArguments
    /\ Chat!Objects = Objects /\ Responses!Objects = Objects /\ Protocol!Objects = Objects
BY DEF Chat!Index, Responses!Index, Protocol!Index, Index,
       Chat!NoArguments, Responses!NoArguments, Protocol!NoArguments, NoArguments,
       Chat!Objects, Responses!Objects, Protocol!Objects, Objects,
       Chat!Document, Responses!Document, Protocol!Document, Document,
       Chat!Preset, Responses!Preset, Protocol!Preset, Preset

\* What resolve_arguments gives is always an object.
LEMMA Resolved ==
    ASSUME NEW streamed, NEW start \in Objects
    PROVE  /\ ResolveArguments(streamed, start) \in Objects
           /\ Chat!ResolveArguments(streamed, start) \in Objects
           /\ Responses!ResolveArguments(streamed, start) \in Objects
BY Same DEF ResolveArguments, Chat!ResolveArguments, Responses!ResolveArguments

BlockType == [kind: Kinds, start: Objects, parts: Seq(Part), open: BOOLEAN]
CallType == [index: Index, accumulated: Seq(Part), start: Objects, closed: BOOLEAN]
OpenType == [kind: {"message", "function_call"}, index: Index, value: Seq(Part), start: Objects]

\* The types, in the words of this module.
LEMMA TypesAre ==
    TypeOK <=> /\ blocks \in Seq(BlockType) /\ Len(blocks) <= MaxBlocks
               /\ stage \in {"silent", "streaming", "finishing", "stopped", "failed"}
               /\ reason \in {"none", "end_turn", "tool_use", "max_tokens"}
               /\ slip \in Slips
               /\ calls \in Seq(CallType)
               /\ started \in BOOLEAN /\ finished \in BOOLEAN
               /\ open \in Seq(OpenType) /\ Len(open) <= 1
               /\ created \in BOOLEAN /\ ended \in BOOLEAN
               /\ body \in {"open", "ended", "broken"}
BY Same DEF TypeOK, UpstreamTypeOK, Chat!ChatTypeOK, Responses!ResponsesTypeOK,
            BlockType, CallType, OpenType, Part

\* At the start every variable has its type.
LEMMA TypeInit == Init => TypeOK
<1> SUFFICES ASSUME Init PROVE TypeOK
  OBVIOUS
<1>1. /\ blocks = <<>> /\ calls = <<>> /\ open = <<>>
      /\ stage = "silent" /\ reason = "none" /\ slip \in Slips
      /\ started = FALSE /\ finished = FALSE /\ created = FALSE /\ ended = FALSE
      /\ body = "open"
  BY DEF Init, UpstreamInit, Chat!ChatInit, Responses!ResponsesInit
<1>2. Len(blocks) <= MaxBlocks /\ Len(open) <= 1
  BY <1>1, MaxBlocksAssumption
<1>3. blocks \in Seq(BlockType) /\ calls \in Seq(CallType) /\ open \in Seq(OpenType)
  BY <1>1
<1> QED BY <1>1, <1>2, <1>3, TypesAre

\* How a sequence of records changes.
LEMMA Changed ==
    ASSUME NEW S, NEW s \in Seq(S), NEW k \in 1 .. Len(s), NEW e \in S
    PROVE  /\ [s EXCEPT ![k] = e] \in Seq(S)
           /\ Len([s EXCEPT ![k] = e]) = Len(s)
           /\ [s EXCEPT ![k] = e][k] = e
           /\ \A j \in 1 .. Len(s) : j # k => [s EXCEPT ![k] = e][j] = s[j]
<1>1. s \in [1 .. Len(s) -> S] /\ Len(s) \in Nat
  OBVIOUS
<1>2. [s EXCEPT ![k] = e] \in [1 .. Len(s) -> S]
  BY <1>1
<1>3. [s EXCEPT ![k] = e] \in Seq(S)
  BY <1>1, <1>2
<1> QED BY <1>1, <1>2, <1>3

\* Where the elements of a sequence with one more element come from.
LEMMA Added ==
    ASSUME NEW S, NEW s \in Seq(S), NEW e \in S
    PROVE  /\ Append(s, e) \in Seq(S)
           /\ Len(Append(s, e)) = Len(s) + 1
           /\ Append(s, e)[Len(s) + 1] = e
           /\ \A j \in 1 .. Len(s) : Append(s, e)[j] = s[j]
OBVIOUS

\* The part that comes next.
LEMMA NextPartIs ==
    ASSUME TypeOK, NEW i \in Index, i <= Newest => Len(blocks[i].parts) < 2
    PROVE  NextPart(i) \in Part
<1>1. CASE i > Newest
  BY <1>1 DEF NextPart, Part
<1>2. CASE i <= Newest
  <2>1. blocks \in Seq(BlockType) /\ Newest \in Nat /\ i \in 1 .. Len(blocks)
    BY <1>2, TypesAre, MaxBlocksAssumption DEF Newest, Index
  <2>a. blocks[i] \in BlockType
    BY <2>1
  <2>2. blocks[i].parts \in Seq(Part)
    BY <2>a DEF BlockType
  <2>3. Len(blocks[i].parts) + 1 \in {1, 2}
    BY <1>2, <2>2
  <2> QED BY <1>2, <2>1, <2>3 DEF NextPart, Part, Newest
<1>3. Newest \in Nat /\ i \in Nat
  BY TypesAre, MaxBlocksAssumption DEF Newest, Index
<1> QED BY <1>1, <1>2, <1>3

\* The upstream's side of each event.
UpstreamTypes ==
    /\ blocks \in Seq(BlockType) /\ Len(blocks) <= MaxBlocks
    /\ stage \in {"silent", "streaming", "finishing", "stopped", "failed"}
    /\ reason \in {"none", "end_turn", "tool_use", "max_tokens"}
    /\ slip \in Slips

\* The calls left open are those of this upstream block and no other.
LEMMA LeftOpenIs ==
    ASSUME TypeOK
    PROVE  /\ LeftOpen \in Seq(BlockType) /\ Len(LeftOpen) = Newest
           /\ \A i \in 1 .. Newest : LeftOpen[i] = [blocks[i] EXCEPT !.open = FALSE]
<1>1. blocks \in Seq(BlockType) /\ Newest = Len(blocks) /\ Newest \in Nat
  BY TypesAre DEF Newest
<1>2. \A i \in 1 .. Newest : blocks[i] \in BlockType
  BY <1>1
<1>3. \A i \in 1 .. Newest : [blocks[i] EXCEPT !.open = FALSE] \in BlockType
  BY <1>2 DEF BlockType
<1>4. LeftOpen \in [1 .. Newest -> BlockType]
  BY <1>3 DEF LeftOpen
<1>5. LeftOpen \in Seq(BlockType) /\ Len(LeftOpen) = Newest
  BY <1>1, <1>4
<1> QED BY <1>5 DEF LeftOpen

\* message_start leaves every variable of the upstream in its type.
LEMMA StartTypes ==
    ASSUME TypeOK, NEW kind \in Kinds, NEW start \in {NoArguments, Preset(Newest + 1)},
           StartsBlock(kind, start)
    PROVE  UpstreamTypes' /\ start \in Objects /\ Newest + 1 \in Index
<1>1. Newest \in Nat /\ Newest + 1 \in Index /\ Newest = Len(blocks)
  BY TypesAre, MaxBlocksAssumption DEF StartsBlock, Newest, Index
<1>2. start \in Objects
  BY <1>1 DEF Objects
<1>3. <<>> \in Seq(Part)
  OBVIOUS
<1>4. Block(kind, start, <<>>) \in BlockType
  BY <1>2, <1>3 DEF Block, BlockType
<1>5. blocks' \in Seq(BlockType) /\ Len(blocks') = Newest + 1
  BY <1>1, <1>4, LeftOpenIs, Added DEF StartsBlock
<1> QED BY <1>1, <1>2, <1>5, TypesAre, MaxBlocksAssumption DEF StartsBlock, UpstreamTypes, Index

\* So does a body that goes on.
LEMMA GrowTypes ==
    ASSUME TypeOK, NEW i \in 1 .. Newest, Len(blocks[i].parts) < 2, Newest = Len(blocks),
           blocks' = [blocks EXCEPT ![i].parts = Append(@, NextPart(i))]
    PROVE  /\ blocks' \in Seq(BlockType) /\ Len(blocks') = Newest
           /\ NextPart(i) \in Part /\ i \in Index
           /\ blocks'[i] = [blocks[i] EXCEPT !.parts = Append(@, NextPart(i))]
           /\ \A j \in 1 .. Newest : j # i => blocks'[j] = blocks[j]
<1>1. blocks \in Seq(BlockType) /\ Newest \in Nat /\ i \in Index
  BY TypesAre, MaxBlocksAssumption DEF Index
<1>2. NextPart(i) \in Part
  BY <1>1, NextPartIs
<1>3. blocks[i] \in BlockType
  BY <1>1
<1>4. Append(blocks[i].parts, NextPart(i)) \in Seq(Part)
  BY <1>2, <1>3 DEF BlockType
<1>5. [blocks[i] EXCEPT !.parts = Append(@, NextPart(i))] \in BlockType
  BY <1>3, <1>4 DEF BlockType
<1> DEFINE b == [blocks[i] EXCEPT !.parts = Append(@, NextPart(i))]
<1>6. blocks' = [blocks EXCEPT ![i] = b]
  OBVIOUS
<1>7. b \in BlockType /\ i \in 1 .. Len(blocks)
  BY <1>5
<1>8. blocks'[i] = b => blocks'[i] = [blocks[i] EXCEPT !.parts = Append(@, NextPart(i))]
  OBVIOUS
<1> HIDE DEF b
<1>9. /\ blocks' \in Seq(BlockType) /\ Len(blocks') = Len(blocks) /\ blocks'[i] = b
      /\ \A j \in 1 .. Len(blocks) : j # i => blocks'[j] = blocks[j]
  BY <1>1, <1>6, <1>7, Changed
<1> QED BY <1>1, <1>2, <1>8, <1>9

\* So does a text delta.
LEMMA TextTypes ==
    ASSUME TypeOK, NEW i \in Index, SendsText(i)
    PROVE  /\ UpstreamTypes' /\ NextPart(i) \in Part
           /\ \/ /\ Len(blocks') = Newest
                 /\ \A j \in 1 .. Newest : /\ blocks'[j].kind = blocks[j].kind
                                           /\ blocks'[j].open = blocks[j].open
              \/ /\ Len(blocks') = Newest + 1 /\ ~AnyOpen
                 /\ \A j \in 1 .. Newest : blocks'[j] = blocks[j]
<1>a. /\ Newest = Len(blocks) /\ Newest \in Nat
      /\ blocks \in Seq(BlockType)
  BY TypesAre DEF Newest
<1>1. CASE AnyOpen /\ i = Newest /\ Len(blocks[i].parts) < 2
           /\ blocks' = [blocks EXCEPT ![i].parts = Append(@, NextPart(i))]
  <2>1. i \in 1 .. Newest
    BY <1>1, <1>a DEF Index
  <2>2. /\ blocks' \in Seq(BlockType) /\ Len(blocks') = Newest
        /\ NextPart(i) \in Part
        /\ blocks'[i] = [blocks[i] EXCEPT !.parts = Append(@, NextPart(i))]
        /\ \A j \in 1 .. Newest : j # i => blocks'[j] = blocks[j]
    BY <1>1, <1>a, <2>1, GrowTypes
  <2>3. blocks[i] \in BlockType
    BY <1>a, <2>1
  <2>4. blocks'[i].kind = blocks[i].kind /\ blocks'[i].open = blocks[i].open
    BY <2>2, <2>3 DEF BlockType
  <2> QED BY <1>a, <2>2, <2>4, TypesAre DEF UpstreamTypes, SendsText
<1>2. CASE ~AnyOpen /\ i = Newest + 1 /\ i <= MaxBlocks
           /\ blocks' = Append(blocks, Block("text", NoArguments, <<NextPart(i)>>))
  <2>1. NextPart(i) \in Part
    BY <1>2, <1>a, NextPartIs
  <2>2. Block("text", NoArguments, <<NextPart(i)>>) \in BlockType
    BY <2>1 DEF Block, BlockType, Kinds, Objects
  <2>3. /\ blocks' \in Seq(BlockType) /\ Len(blocks') = Newest + 1
        /\ \A j \in 1 .. Newest : blocks'[j] = blocks[j]
    BY <1>2, <1>a, <2>2, Added
  <2> QED BY <1>2, <1>a, <2>1, <2>3, TypesAre DEF UpstreamTypes, SendsText
<1> QED BY <1>1, <1>2 DEF SendsText

\* So does a fragment of the arguments.
LEMMA FragmentTypes ==
    ASSUME TypeOK, NEW i \in 1 .. Newest, SendsFragment(i)
    PROVE  /\ UpstreamTypes' /\ NextPart(i) \in Part /\ i \in Index
           /\ Len(blocks') = Newest
           /\ \A j \in 1 .. Newest : /\ blocks'[j].kind = blocks[j].kind
                                     /\ blocks'[j].open = blocks[j].open
<1>a. /\ Newest = Len(blocks) /\ Newest \in Nat
      /\ blocks \in Seq(BlockType)
  BY TypesAre DEF Newest
<1>2. /\ blocks' \in Seq(BlockType) /\ Len(blocks') = Newest
      /\ NextPart(i) \in Part /\ i \in Index
      /\ blocks'[i] = [blocks[i] EXCEPT !.parts = Append(@, NextPart(i))]
      /\ \A j \in 1 .. Newest : j # i => blocks'[j] = blocks[j]
  BY <1>a, GrowTypes DEF SendsFragment
<1>3. blocks[i] \in BlockType
  BY <1>a
<1>4. blocks'[i].kind = blocks[i].kind /\ blocks'[i].open = blocks[i].open
  BY <1>2, <1>3 DEF BlockType
<1> QED BY <1>a, <1>2, <1>4, TypesAre DEF UpstreamTypes, SendsFragment

\* So does the end of a block.
LEMMA StopTypes ==
    ASSUME TypeOK, NEW i \in 1 .. Newest, StopsBlock(i)
    PROVE  /\ UpstreamTypes' /\ Len(blocks') = Newest
           /\ \A j \in 1 .. Newest : ~blocks'[j].open
<1>1. blocks' \in Seq(BlockType) /\ Len(blocks') = Newest
  BY LeftOpenIs DEF StopsBlock
<1>2. blocks \in Seq(BlockType) /\ Newest = Len(blocks)
  BY TypesAre DEF Newest
<1>3. ASSUME NEW j \in 1 .. Newest PROVE ~blocks'[j].open
  <2>1. blocks[j] \in BlockType
    BY <1>2
  <2>2. blocks'[j] = [blocks[j] EXCEPT !.open = FALSE]
    BY LeftOpenIs DEF StopsBlock
  <2> QED BY <2>1, <2>2 DEF BlockType
<1> QED BY <1>1, <1>2, <1>3, TypesAre DEF UpstreamTypes, StopsBlock

-----------------------------------------------------------------------------
(* The calls of the Chat Completions translator *)

\* Calls are announced in the order of their blocks, one for each.
CallsInv ==
    /\ \A c \in DOMAIN calls : calls[c].index <= Newest
    /\ \A c, d \in DOMAIN calls : c < d => calls[c].index < calls[d].index

\* So no block has two, and the oldest is the most recent one.
LEMMA OneCall ==
    ASSUME TypeOK, CallsInv, NEW i, Chat!CallsAt(i) # {}
    PROVE  \E c \in DOMAIN calls :
              /\ Chat!CallsAt(i) = {c} /\ calls[c].index = i
              /\ c = CHOOSE d \in Chat!CallsAt(i) : \A e \in Chat!CallsAt(i) : e <= d
              /\ c = CHOOSE d \in Chat!CallsAt(i) : \A e \in Chat!CallsAt(i) : d <= e
<1>1. PICK c \in DOMAIN calls : calls[c].index = i
  BY DEF Chat!CallsAt
<1>2. /\ calls \in Seq(CallType) /\ DOMAIN calls = 1 .. Len(calls) /\ Len(calls) \in Nat
      /\ \A d \in DOMAIN calls : calls[d] \in CallType
  BY TypesAre
<1>3. \A d \in DOMAIN calls : calls[d].index \in Nat
  BY <1>2 DEF CallType, Index
<1>4. ASSUME NEW d \in DOMAIN calls, calls[d].index = i PROVE d = c
  BY <1>1, <1>2, <1>3, <1>4 DEF CallsInv
<1>5. Chat!CallsAt(i) = {c}
  BY <1>1, <1>4 DEF Chat!CallsAt
<1>6. c <= c
  BY <1>2
<1>7. /\ c = CHOOSE d \in {c} : \A e \in {c} : e <= d
      /\ c = CHOOSE d \in {c} : \A e \in {c} : d <= e
  BY <1>6
<1> QED BY <1>1, <1>5, <1>7

\* A fragment goes to its call.
LEMMA FragmentTaken ==
    ASSUME TypeOK, CallsInv, NEW i, NEW part \in Part, Chat!OnInputJsonDelta(i, part)
    PROVE  /\ calls' \in Seq(CallType) /\ Len(calls') = Len(calls)
           /\ \A c \in 1 .. Len(calls) : /\ calls'[c].index = calls[c].index
                                         /\ calls'[c].closed = calls[c].closed
           /\ \A c \in 1 .. Len(calls) :
                 calls'[c] = IF calls[c].index = i
                             THEN [calls[c] EXCEPT !.accumulated = Append(@, part)]
                             ELSE calls[c]
           /\ UNCHANGED <<started, finished, chunks>>
<1>1. UNCHANGED <<started, finished, chunks>>
  BY DEF Chat!OnInputJsonDelta
<1>2. calls \in Seq(CallType)
  BY TypesAre
<1>3. CASE Chat!CallsAt(i) = {}
  <2>1. calls' = calls
    BY <1>3 DEF Chat!OnInputJsonDelta
  <2>2. \A c \in 1 .. Len(calls) : calls[c].index # i
    BY <1>2, <1>3 DEF Chat!CallsAt
  <2> QED BY <1>1, <1>2, <2>1, <2>2
<1>4. CASE Chat!CallsAt(i) # {}
  <2>1. PICK c \in DOMAIN calls :
           /\ Chat!CallsAt(i) = {c} /\ calls[c].index = i
           /\ c = CHOOSE d \in Chat!CallsAt(i) : \A e \in Chat!CallsAt(i) : e <= d
    BY <1>4, OneCall
  <2>a. \A d \in 1 .. Len(calls) : calls[d].index = i => d = c
    BY <1>2, <2>1 DEF Chat!CallsAt
  <2>2. calls' = [calls EXCEPT ![c].accumulated = Append(@, part)]
    BY <1>4, <2>1 DEF Chat!OnInputJsonDelta
  <2>3. c \in 1 .. Len(calls) /\ calls[c] \in CallType
    BY <1>2
  <2>4. Append(calls[c].accumulated, part) \in Seq(Part)
    BY <2>3 DEF CallType
  <2> DEFINE e == [calls[c] EXCEPT !.accumulated = Append(@, part)]
  <2>5. e \in CallType /\ e.index = calls[c].index /\ e.closed = calls[c].closed
    BY <2>3, <2>4 DEF CallType
  <2>6. calls' = [calls EXCEPT ![c] = e]
    BY <2>2
  <2>7. e = [calls[c] EXCEPT !.accumulated = Append(@, part)]
    OBVIOUS
  <2> HIDE DEF e
  <2>8. /\ calls' \in Seq(CallType) /\ Len(calls') = Len(calls) /\ calls'[c] = e
        /\ \A d \in 1 .. Len(calls) : d # c => calls'[d] = calls[d]
    BY <1>2, <2>3, <2>5, <2>6, Changed
  <2> QED BY <1>1, <2>1, <2>a, <2>5, <2>7, <2>8
<1> QED BY <1>3, <1>4

\* The stop of a block closes its call and sends its arguments, if there is
\* one and it is not closed.
LEMMA CallStops ==
    ASSUME TypeOK, CallsInv, NEW i, Chat!OnContentBlockStop(i)
    PROVE  /\ UNCHANGED <<started, finished>>
           /\ \/ /\ UNCHANGED <<calls, chunks>>
                 /\ \A c \in DOMAIN calls : calls[c].index = i => calls[c].closed
              \/ \E c \in DOMAIN calls, value \in Objects :
                    /\ calls[c].index = i /\ ~calls[c].closed
                    /\ value = Chat!Arguments(calls[c])
                    /\ chunks' = Append(chunks, Chat!Chunk("args", c, value))
                    /\ calls'[c] = [calls[c] EXCEPT !.closed = TRUE]
                    /\ calls' \in Seq(CallType) /\ Len(calls') = Len(calls)
                    /\ calls'[c].index = i /\ calls'[c].closed
                    /\ \A d \in DOMAIN calls : d # c => calls'[d] = calls[d]
<1>1. UNCHANGED <<started, finished>>
  BY DEF Chat!OnContentBlockStop
<1>2. calls \in Seq(CallType)
  BY TypesAre
<1>3. CASE Chat!CallsAt(i) = {}
  <2>1. \A c \in DOMAIN calls : calls[c].index # i
    BY <1>3 DEF Chat!CallsAt
  <2> QED BY <1>1, <1>3, <2>1 DEF Chat!OnContentBlockStop
<1>4. CASE Chat!CallsAt(i) # {}
  <2>1. PICK c \in DOMAIN calls :
           /\ Chat!CallsAt(i) = {c} /\ calls[c].index = i
           /\ c = CHOOSE d \in Chat!CallsAt(i) : \A e \in Chat!CallsAt(i) : d <= e
    BY <1>4, OneCall
  <2>2. \A d \in DOMAIN calls : calls[d].index = i => d = c
    BY <2>1 DEF Chat!CallsAt
  <2>3. c \in 1 .. Len(calls) /\ calls[c] \in CallType
    BY <1>2
  <2>4. CASE calls[c].closed
    BY <1>1, <1>4, <2>1, <2>2, <2>4 DEF Chat!OnContentBlockStop
  <2>5. CASE ~calls[c].closed
    <3>1. /\ calls' = [calls EXCEPT ![c].closed = TRUE]
          /\ chunks' = Append(chunks, Chat!Chunk("args", c, Chat!Arguments(calls[c])))
      BY <1>4, <2>1, <2>5 DEF Chat!OnContentBlockStop
    <3>2. Chat!Arguments(calls[c]) \in Objects
      BY <2>3, Resolved DEF Chat!Arguments, CallType
    <3> DEFINE e == [calls[c] EXCEPT !.closed = TRUE]
    <3>3. e \in CallType /\ e.index = i /\ e.closed
      BY <2>1, <2>3 DEF CallType
    <3>4. calls' = [calls EXCEPT ![c] = e]
      BY <3>1
    <3>6. e = [calls[c] EXCEPT !.closed = TRUE]
      OBVIOUS
    <3> HIDE DEF e
    <3>5. /\ calls' \in Seq(CallType) /\ Len(calls') = Len(calls) /\ calls'[c] = e
          /\ \A d \in DOMAIN calls : d # c => calls'[d] = calls[d]
      BY <1>2, <2>3, <3>3, <3>4, Changed
    <3> QED BY <1>1, <2>1, <2>5, <3>1, <3>2, <3>3, <3>5, <3>6
  <2> QED BY <2>4, <2>5
<1> QED BY <1>3, <1>4

\* All calls closed.
LEMMA AllClosedIs ==
    ASSUME TypeOK
    PROVE  /\ Chat!AllClosed \in Seq(CallType) /\ Len(Chat!AllClosed) = Len(calls)
           /\ \A c \in 1 .. Len(calls) : /\ Chat!AllClosed[c].index = calls[c].index
                                         /\ Chat!AllClosed[c].closed
                                         /\ Chat!AllClosed[c] = [calls[c] EXCEPT !.closed = TRUE]
<1>1. calls \in Seq(CallType) /\ DOMAIN calls = 1 .. Len(calls) /\ Len(calls) \in Nat
  BY TypesAre
<1>2. \A c \in 1 .. Len(calls) : calls[c] \in CallType
  BY <1>1
<1>3. \A c \in 1 .. Len(calls) :
         LET e == [calls[c] EXCEPT !.closed = TRUE]
         IN  e \in CallType /\ e.index = calls[c].index /\ e.closed
  BY <1>2 DEF CallType
<1>4. Chat!AllClosed = [c \in 1 .. Len(calls) |-> [calls[c] EXCEPT !.closed = TRUE]]
  BY <1>1 DEF Chat!AllClosed
<1>5. Chat!AllClosed \in [1 .. Len(calls) -> CallType]
  BY <1>3, <1>4
<1>6. Chat!AllClosed \in Seq(CallType) /\ Len(Chat!AllClosed) = Len(calls)
  BY <1>1, <1>5
<1> QED BY <1>3, <1>4, <1>6

-----------------------------------------------------------------------------
(* What close_pending_tool_calls sends *)

\* The function by which FlattenSeq joins the first sequences of s.
Joins(s, m, g) == g = [i \in 1 .. m |-> IF i = 1 THEN s[i] ELSE g[i - 1] \o s[i]]

\* There is one, built one sequence at a time.
LEMMA JoinsExist ==
    ASSUME NEW s
    PROVE  \A m \in Nat : \E g : Joins(s, m, g)
<1> DEFINE S == {m \in Nat : \E g : Joins(s, m, g)}
<1>1. 0 \in S
  <2>1. Joins(s, 0, [i \in 1 .. 0 |-> 0])
    BY DEF Joins
  <2> QED BY <2>1
<1>2. ASSUME NEW m \in Nat, m \in S PROVE m + 1 \in S
  <2>1. PICK g : Joins(s, m, g)
    BY <1>2
  <2> DEFINE h == [i \in 1 .. m + 1 |->
                      IF i <= m THEN g[i] ELSE IF i = 1 THEN s[i] ELSE g[i - 1] \o s[i]]
  <2>2. ASSUME NEW i \in 1 .. m + 1
        PROVE  h[i] = IF i = 1 THEN s[i] ELSE h[i - 1] \o s[i]
    <3>1. CASE i <= m
      <4>1. i \in 1 .. m /\ h[i] = g[i]
        BY <3>1
      <4>2. g[i] = IF i = 1 THEN s[i] ELSE g[i - 1] \o s[i]
        BY <2>1, <4>1 DEF Joins
      <4>3. i # 1 => i - 1 \in 1 .. m /\ i - 1 <= m /\ i - 1 \in 1 .. m + 1
        BY <4>1
      <4>4. i # 1 => h[i - 1] = g[i - 1]
        BY <4>3
      <4> QED BY <4>1, <4>2, <4>4
    <3>2. CASE ~(i <= m)
      <4>1. i = m + 1
        BY <3>2
      <4>2. i # 1 => i - 1 \in 1 .. m + 1 /\ i - 1 <= m
        BY <4>1
      <4>3. i # 1 => h[i - 1] = g[i - 1]
        BY <4>2
      <4> QED BY <3>2, <4>3
    <3> QED BY <3>1, <3>2
  <2>3. h = [i \in 1 .. m + 1 |-> h[i]]
    OBVIOUS
  <2> HIDE DEF h
  <2>4. Joins(s, m + 1, h)
    BY <2>2, <2>3 DEF Joins
  <2> QED BY <2>4
<1> HIDE DEF S
<1>3. \A m \in Nat : m \in S
  BY <1>1, <1>2, NatSet
<1> QED BY <1>3 DEF S

Texts == Seq(Nat \X Nat)
ChunkTypes == {"role", "call", "text", "args", "stop", "length", "tool_calls", "usage",
               "done", "error"}
ChunkType == [type: ChunkTypes, index: Nat, value: Texts]

\* Any text the translators handle.
LEMMA TextsAre == Objects \subseteq Texts /\ Seq(Part) \subseteq Texts /\ <<>> \in Texts
<1>1. Part \subseteq Nat \X Nat
  BY DEF Part, Index
<1>2. ASSUME NEW i \in Index PROVE Document(i) \in Texts /\ Preset(i) \in Texts
  BY DEF Document, Preset, Index, Texts
<1>3. NoArguments \in Texts
  BY DEF NoArguments, Texts
<1> QED BY <1>1, <1>2, <1>3 DEF Objects, Texts

\* One chunk with its arguments for every call that is not closed, in order.
LEMMA PendingIs ==
    ASSUME TypeOK
    PROVE  /\ Chat!PendingChunks \in Seq(ChunkType)
           /\ \A k \in 1 .. Len(Chat!PendingChunks) :
                 LET p == Chat!PendingChunks[k]
                 IN  /\ p.type = "args" /\ p.value \in Objects
                     /\ p.index \in 1 .. Len(calls) /\ ~calls[p.index].closed
                     /\ p.value = Chat!Arguments(calls[p.index])
           /\ \A c \in 1 .. Len(calls) : ~calls[c].closed =>
                 \E k \in 1 .. Len(Chat!PendingChunks) : Chat!PendingChunks[k].index = c
           /\ \A j, k \in 1 .. Len(Chat!PendingChunks) :
                 Chat!PendingChunks[j].index = Chat!PendingChunks[k].index => j = k
<1> DEFINE n == Len(calls)
           A(c) == Chat!Chunk("args", c, Chat!Arguments(calls[c]))
           s == [c \in 1 .. n |-> IF calls[c].closed THEN <<>> ELSE <<A(c)>>]
<1>1. calls \in Seq(CallType) /\ DOMAIN calls = 1 .. n /\ n \in Nat
  BY TypesAre
<1>2. \A c \in 1 .. n : calls[c] \in CallType
  BY <1>1
<1>3. \A c \in 1 .. n : /\ A(c) \in ChunkType /\ A(c).index = c /\ A(c).type = "args"
                        /\ A(c).value \in Objects /\ A(c).value = Chat!Arguments(calls[c])
  <2> TAKE c \in 1 .. n
  <2>1. Chat!Arguments(calls[c]) \in Objects
    BY <1>2, Resolved DEF Chat!Arguments, CallType
  <2> DEFINE v == Chat!Arguments(calls[c])
  <2>2. A(c) = [type |-> "args", index |-> c, value |-> v]
    BY DEF Chat!Chunk
  <2>3. c \in Nat /\ v \in Texts /\ v \in Objects /\ v = Chat!Arguments(calls[c])
    BY <1>1, <2>1, TextsAre
  <2> HIDE DEF A, v
  <2> QED BY <2>2, <2>3 DEF ChunkType, ChunkTypes
<1> HIDE DEF A
<1>4. \A c \in 1 .. n : /\ calls[c].closed => s[c] = <<>>
                        /\ ~calls[c].closed => s[c] = <<A(c)>>
  OBVIOUS
<1>5. s \in Seq(Seq(ChunkType)) /\ Len(s) = n
  <2>1. \A c \in 1 .. n : s[c] \in Seq(ChunkType)
    BY <1>3, <1>4
  <2>2. s \in [1 .. n -> Seq(ChunkType)]
    BY <2>1
  <2> HIDE DEF s
  <2> QED BY <1>1, <2>2
<1>6. Chat!PendingChunks = Chat!FlattenSeq(s)
  BY <1>1 DEF Chat!PendingChunks, A
<1> HIDE DEF s
<1>7. CASE n = 0
  <2>1. Chat!PendingChunks = s /\ s = <<>>
    BY <1>5, <1>6, <1>7 DEF Chat!FlattenSeq
  <2> QED BY <1>7, <2>1
<1>8. CASE n # 0
  <2> DEFINE g == CHOOSE h : Joins(s, n, h)
  <2>1. Joins(s, n, g)
    BY <1>1, JoinsExist
  <2>2. Chat!PendingChunks = g[n]
    BY <1>5, <1>6, <1>8 DEF Chat!FlattenSeq, Joins
  <2> HIDE DEF g
  <2> DEFINE Good(p, m) ==
               /\ p \in Seq(ChunkType)
               /\ \A k \in 1 .. Len(p) : /\ p[k].type = "args" /\ p[k].value \in Objects
                                         /\ p[k].index \in 1 .. m /\ ~calls[p[k].index].closed
                                         /\ p[k].value = Chat!Arguments(calls[p[k].index])
               /\ \A c \in 1 .. m : ~calls[c].closed => \E k \in 1 .. Len(p) : p[k].index = c
               /\ \A j, k \in 1 .. Len(p) : p[j].index = p[k].index => j = k
             S == {m \in Nat : m + 1 <= n => Good(g[m + 1], m + 1)}
  <2>3. Good(<<>>, 0)
    OBVIOUS
  <2>4. ASSUME NEW m \in Nat, m + 1 <= n, NEW p, Good(p, m) PROVE Good(p \o s[m + 1], m + 1)
    <3> DEFINE c == m + 1
    <3>1. c \in 1 .. n /\ c \in Nat /\ c \notin 1 .. m /\ 1 .. c = 1 .. m \cup {c}
      BY <1>1, <2>4
    <3>2. CASE calls[c].closed
      <4>1. p \o s[c] = p
        BY <1>4, <3>1, <3>2, <2>4
      <4> QED BY <2>4, <3>1, <3>2, <4>1
    <3>3. CASE ~calls[c].closed
      <4>1. s[c] = <<A(c)>>
        BY <1>4, <3>1, <3>3
      <4> DEFINE q == p \o <<A(c)>>
      <4>2. A(c) \in ChunkType /\ A(c).index = c /\ A(c).type = "args" /\ A(c).value \in Objects
            /\ A(c).value = Chat!Arguments(calls[c])
        BY <1>3, <3>1
      <4> HIDE DEF c
      <4>3. /\ q \in Seq(ChunkType) /\ Len(q) = Len(p) + 1 /\ q[Len(p) + 1] = A(c)
            /\ \A k \in 1 .. Len(p) : q[k] = p[k]
            /\ \A k \in 1 .. Len(q) : k \in 1 .. Len(p) \/ k = Len(p) + 1
            /\ Len(p) \in Nat
        BY <4>2, <2>4
      <4> HIDE DEF q
      <4>a. /\ \A k \in 1 .. Len(p) : /\ p[k].type = "args" /\ p[k].value \in Objects
                                      /\ p[k].index \in 1 .. m /\ ~calls[p[k].index].closed
                                      /\ p[k].value = Chat!Arguments(calls[p[k].index])
            /\ \A d \in 1 .. m : ~calls[d].closed => \E k \in 1 .. Len(p) : p[k].index = d
            /\ \A j, k \in 1 .. Len(p) : p[j].index = p[k].index => j = k
        BY <2>4
      <4>b. ASSUME NEW k \in 1 .. Len(q)
            PROVE  /\ q[k].type = "args" /\ q[k].value \in Objects
                   /\ q[k].index \in 1 .. c /\ ~calls[q[k].index].closed
                   /\ q[k].value = Chat!Arguments(calls[q[k].index])
        <5>1. CASE k \in 1 .. Len(p)
          BY <3>1, <4>3, <4>a, <5>1
        <5>2. CASE k = Len(p) + 1
          BY <3>1, <3>3, <4>2, <4>3, <5>2
        <5> QED BY <4>3, <5>1, <5>2
      <4>c. ASSUME NEW j \in 1 .. Len(q), NEW k \in 1 .. Len(q), q[j].index = q[k].index
            PROVE  j = k
        <5>1. \A l \in 1 .. Len(p) : q[l].index \in 1 .. m
          BY <4>3, <4>a
        <5>2. q[Len(p) + 1].index \notin 1 .. m
          BY <3>1, <4>2, <4>3
        <5>3. CASE j \in 1 .. Len(p) /\ k \in 1 .. Len(p)
          BY <4>3, <4>a, <4>c, <5>3
        <5> QED BY <4>3, <4>c, <5>1, <5>2, <5>3
      <4>4. /\ \A k \in 1 .. Len(q) : /\ q[k].type = "args" /\ q[k].value \in Objects
                                      /\ q[k].index \in 1 .. c /\ ~calls[q[k].index].closed
                                      /\ q[k].value = Chat!Arguments(calls[q[k].index])
            /\ \A j, k \in 1 .. Len(q) : q[j].index = q[k].index => j = k
        BY <4>b, <4>c
      <4>5. \A d \in 1 .. c : ~calls[d].closed => \E k \in 1 .. Len(q) : q[k].index = d
        <5>1. Len(p) + 1 \in 1 .. Len(q) /\ q[Len(p) + 1].index = c
          BY <4>2, <4>3
        <5>2. \A k \in 1 .. Len(p) : k \in 1 .. Len(q)
          BY <4>3
        <5>3. ASSUME NEW d \in 1 .. m, ~calls[d].closed PROVE \E k \in 1 .. Len(q) : q[k].index = d
          <6>1. PICK k \in 1 .. Len(p) : p[k].index = d
            BY <4>a, <5>3
          <6> QED BY <4>3, <5>2, <6>1
        <5> QED BY <3>1, <5>1, <5>3
      <4>6. Good(q, c)
        BY <4>3, <4>4, <4>5
      <4> QED BY <4>1, <4>6 DEF q, c
    <3> QED BY <3>2, <3>3
  <2>5. /\ 1 <= n => g[1] = s[1]
        /\ \A m \in Nat : m + 2 <= n => g[m + 2] = g[m + 1] \o s[m + 2]
    <3>1. 1 <= n => g[1] = s[1]
      BY <1>1, <2>1 DEF Joins
    <3>2. ASSUME NEW m \in Nat, m + 2 <= n PROVE g[m + 2] = g[m + 1] \o s[m + 2]
      <4>1. m + 2 \in 1 .. n /\ m + 2 # 1 /\ (m + 2) - 1 = m + 1
        BY <1>1, <3>2
      <4> QED BY <2>1, <4>1 DEF Joins
    <3> QED BY <3>1, <3>2
  <2>6. 0 \in S
    <3>1. 1 <= n => Good(<<>> \o s[1], 1)
      <4>1. 0 \in Nat /\ 0 + 1 = 1
        OBVIOUS
      <4> HIDE DEF Good
      <4> QED BY <2>3, <2>4, <4>1
    <3>2. 1 <= n => <<>> \o s[1] = s[1]
      <4>1. 1 <= n => s[1] \in Seq(ChunkType)
        BY <1>1, <1>5
      <4> QED BY <4>1
    <3> HIDE DEF Good
    <3> QED BY <2>5, <3>1, <3>2
  <2>7. ASSUME NEW m \in Nat, m \in S PROVE m + 1 \in S
    <3> HIDE DEF Good
    <3>1. CASE m + 2 <= n
      <4>1. m + 1 \in Nat /\ m + 1 <= n /\ (m + 1) + 1 <= n /\ (m + 1) + 1 = m + 2
        BY <1>1, <3>1
      <4>2. Good(g[m + 1], m + 1)
        BY <2>7, <4>1
      <4>3. Good(g[m + 1] \o s[(m + 1) + 1], (m + 1) + 1)
        BY <2>4, <4>1, <4>2
      <4>4. g[m + 2] = g[m + 1] \o s[m + 2]
        BY <2>5, <3>1
      <4> QED BY <4>1, <4>3, <4>4
    <3>2. CASE ~(m + 2 <= n)
      <4>1. ~((m + 1) + 1 <= n) /\ m + 1 \in Nat
        BY <1>1, <3>2
      <4> QED BY <4>1
    <3> QED BY <3>1, <3>2
  <2>8. \A m \in Nat : m \in S
    <3> HIDE DEF S
    <3> QED BY <2>6, <2>7, NatSet
  <2>9. n - 1 \in Nat /\ (n - 1) + 1 = n
    BY <1>1, <1>8
  <2>10. Good(g[n], n)
    <3>1. n - 1 \in S
      BY <2>8, <2>9
    <3>2. (n - 1) + 1 <= n
      BY <1>1, <2>9
    <3> HIDE DEF Good
    <3>3. Good(g[(n - 1) + 1], (n - 1) + 1)
      BY <3>1, <3>2
    <3> QED BY <2>9, <3>3
  <2> QED BY <2>2, <2>10
<1> QED BY <1>7, <1>8

-----------------------------------------------------------------------------
(* Where a call's chunks are *)

IsAt(k, type, c) == chunks[k].type = type /\ chunks[k].index = c

\* A call is announced before its arguments come; they come once, when it is
\* closed, and before the finish chunk.
PlacesInv ==
    /\ chunks \in Seq(ChunkType)
    /\ \A k \in 1 .. Len(chunks) :
          /\ chunks[k].type \in {"call", "args"} => chunks[k].index \in 1 .. Len(calls)
          /\ chunks[k].type = "args" =>
                chunks[k].value \in Objects /\ calls[chunks[k].index].closed
    /\ \A c \in 1 .. Len(calls) :
          calls[c].closed => \E k \in 1 .. Len(chunks) : IsAt(k, "args", c)
    /\ \A j, k \in 1 .. Len(chunks) :
          chunks[j].type = "args" /\ chunks[k].type = "args"
             /\ chunks[j].index = chunks[k].index => j = k
    /\ \A j, k \in 1 .. Len(chunks) :
          chunks[j].type = "call" /\ chunks[k].type = "args"
             /\ chunks[j].index = chunks[k].index => j < k
    /\ \A j, k \in 1 .. Len(chunks) :
          chunks[j].type \in Chat!FinishReasons /\ chunks[k].type = "args" => k < j

\* What is sent is added at the end.
LEMMA Joined ==
    ASSUME NEW S, NEW s \in Seq(S), NEW t \in Seq(S)
    PROVE  /\ s \o t \in Seq(S) /\ Len(s \o t) = Len(s) + Len(t)
           /\ Len(s) \in Nat /\ Len(t) \in Nat
           /\ \A k \in 1 .. Len(s) : (s \o t)[k] = s[k] /\ k \in 1 .. Len(s \o t)
           /\ \A k \in 1 .. Len(t) : (s \o t)[Len(s) + k] = t[k] /\ Len(s) + k \in 1 .. Len(s \o t)
           /\ \A k \in 1 .. Len(s \o t) :
                 \/ k \in 1 .. Len(s)
                 \/ k - Len(s) \in 1 .. Len(t) /\ k = Len(s) + (k - Len(s))
OBVIOUS

\* Some calls are closed, their arguments sent, and what else is sent is about
\* no call.
LEMMA Closing ==
    ASSUME PlacesInv, NEW a \in Seq(ChunkType), NEW tail \in Seq(ChunkType),
           chunks' = chunks \o a \o tail,
           calls \in Seq(CallType), calls' \in Seq(CallType), Len(calls') = Len(calls),
           \A k \in 1 .. Len(a) : /\ a[k].type = "args" /\ a[k].value \in Objects
                                  /\ a[k].index \in 1 .. Len(calls)
                                  /\ ~calls[a[k].index].closed /\ calls'[a[k].index].closed,
           \A j, k \in 1 .. Len(a) : a[j].index = a[k].index => j = k,
           \A c \in 1 .. Len(calls) : /\ calls[c].closed => calls'[c].closed
                                      /\ calls'[c].closed /\ ~calls[c].closed =>
                                            \E k \in 1 .. Len(a) : a[k].index = c,
           \A k \in 1 .. Len(tail) : tail[k].type \notin {"call", "args"},
           \/ a = <<>>
           \/ \A k \in 1 .. Len(chunks) : chunks[k].type \notin Chat!FinishReasons
    PROVE  PlacesInv'
<1> DEFINE b == a \o tail
           m == Len(chunks)
<1>1. chunks' = chunks \o b
  BY DEF PlacesInv
<1>2. /\ b \in Seq(ChunkType) /\ Len(b) = Len(a) + Len(tail) /\ Len(a) \in Nat /\ Len(tail) \in Nat
      /\ \A k \in 1 .. Len(a) : b[k] = a[k] /\ k \in 1 .. Len(b)
      /\ \A k \in 1 .. Len(b) : \/ k \in 1 .. Len(a)
                                \/ k > Len(a) /\ b[k].type \notin {"call", "args"}
  <2>1. /\ b \in Seq(ChunkType) /\ Len(b) = Len(a) + Len(tail) /\ Len(a) \in Nat /\ Len(tail) \in Nat
        /\ \A k \in 1 .. Len(a) : b[k] = a[k] /\ k \in 1 .. Len(b)
        /\ \A k \in 1 .. Len(tail) : b[Len(a) + k] = tail[k]
        /\ \A k \in 1 .. Len(b) : \/ k \in 1 .. Len(a)
                                  \/ k - Len(a) \in 1 .. Len(tail) /\ k = Len(a) + (k - Len(a))
    BY Joined
  <2> HIDE DEF b
  <2>2. ASSUME NEW k \in 1 .. Len(b), k \notin 1 .. Len(a)
        PROVE  k > Len(a) /\ b[k].type \notin {"call", "args"}
    <3>1. k - Len(a) \in 1 .. Len(tail) /\ k = Len(a) + (k - Len(a))
      BY <2>1, <2>2
    <3>2. b[Len(a) + (k - Len(a))] = tail[k - Len(a)]
      BY <2>1, <3>1
    <3>3. b[k] = tail[k - Len(a)]
      BY <3>1, <3>2
    <3> QED BY <2>1, <3>1, <3>3
  <2> QED BY <2>1, <2>2
<1> HIDE DEF b
<1>3. /\ chunks' \in Seq(ChunkType) /\ Len(chunks') = m + Len(b) /\ m \in Nat
      /\ \A k \in 1 .. m : chunks'[k] = chunks[k] /\ k \in 1 .. Len(chunks')
      /\ \A k \in 1 .. Len(b) : chunks'[m + k] = b[k] /\ m + k \in 1 .. Len(chunks')
      /\ \A k \in 1 .. Len(chunks') : \/ k \in 1 .. m
                                      \/ k - m \in 1 .. Len(b) /\ k = m + (k - m)
  <2>1. chunks \in Seq(ChunkType) /\ b \in Seq(ChunkType)
    BY <1>2 DEF PlacesInv
  <2> DEFINE c == chunks'
  <2>2. c = chunks \o b
    BY <1>1
  <2> HIDE DEF c
  <2>3. /\ c \in Seq(ChunkType) /\ Len(c) = m + Len(b) /\ m \in Nat
        /\ \A k \in 1 .. m : c[k] = chunks[k] /\ k \in 1 .. Len(c)
        /\ \A k \in 1 .. Len(b) : c[m + k] = b[k] /\ m + k \in 1 .. Len(c)
        /\ \A k \in 1 .. Len(c) : \/ k \in 1 .. m
                                  \/ k - m \in 1 .. Len(b) /\ k = m + (k - m)
    BY <2>1, <2>2, Joined
  <2> QED BY <2>3 DEF c
<1>4. ASSUME NEW k \in 1 .. Len(chunks'), chunks'[k].type \in {"call", "args"}
      PROVE  \/ k \in 1 .. m /\ chunks'[k] = chunks[k]
             \/ k - m \in 1 .. Len(a) /\ chunks'[k] = a[k - m] /\ k > m
  <2>1. CASE k \in 1 .. m
    BY <1>3, <2>1
  <2>2. CASE k - m \in 1 .. Len(b) /\ k = m + (k - m)
    <3>1. chunks'[m + (k - m)] = b[k - m]
      BY <1>3, <2>2
    <3>2. chunks'[k] = b[k - m] /\ k > m
      BY <1>3, <2>2, <3>1
    <3>3. k - m \in 1 .. Len(a)
      BY <1>2, <1>4, <2>2, <3>2
    <3> QED BY <1>2, <3>2, <3>3
  <2> QED BY <1>3, <2>1, <2>2
<1>5. ASSUME NEW k \in 1 .. Len(chunks')
      PROVE  /\ chunks'[k].type \in {"call", "args"} => chunks'[k].index \in 1 .. Len(calls')
             /\ chunks'[k].type = "args" =>
                   chunks'[k].value \in Objects /\ calls'[chunks'[k].index].closed
  <2>1. CASE k \in 1 .. m /\ chunks'[k] = chunks[k]
    BY <2>1 DEF PlacesInv
  <2>2. CASE k - m \in 1 .. Len(a) /\ chunks'[k] = a[k - m]
    BY <2>2
  <2> QED BY <1>4, <2>1, <2>2
<1>6. ASSUME NEW c \in 1 .. Len(calls'), calls'[c].closed
      PROVE  \E k \in 1 .. Len(chunks') : IsAt(k, "args", c)'
  <2>1. CASE calls[c].closed
    <3>1. PICK k \in 1 .. m : IsAt(k, "args", c)
      BY <2>1 DEF PlacesInv
    <3> QED BY <1>3, <3>1 DEF IsAt
  <2>2. CASE ~calls[c].closed
    <3>1. PICK k \in 1 .. Len(a) : a[k].index = c
      BY <1>6, <2>2
    <3>2. m + k \in 1 .. Len(chunks') /\ chunks'[m + k] = a[k]
      BY <1>2, <1>3
    <3> QED BY <3>1, <3>2 DEF IsAt
  <2> QED BY <2>1, <2>2
<1>7. ASSUME NEW j \in 1 .. Len(chunks'), NEW k \in 1 .. Len(chunks'),
             chunks'[j].type = "args", chunks'[k].type = "args",
             chunks'[j].index = chunks'[k].index
      PROVE  j = k
  <2>1. \A i \in 1 .. m : chunks[i].type = "args" => calls[chunks[i].index].closed
    BY DEF PlacesInv
  <2>2. CASE j \in 1 .. m /\ k \in 1 .. m
    BY <1>3, <1>7, <2>2 DEF PlacesInv
  <2>3. CASE j - m \in 1 .. Len(a) /\ k - m \in 1 .. Len(a)
    <3>1. chunks'[j] = a[j - m] /\ chunks'[k] = a[k - m]
      BY <1>3, <1>4, <1>7, <2>3
    <3> DEFINE x == j - m
               y == k - m
    <3>2. x \in 1 .. Len(a) /\ y \in 1 .. Len(a) /\ a[x].index = a[y].index
      BY <1>7, <2>3, <3>1
    <3> HIDE DEF x, y
    <3>3. x = y
      BY <3>2
    <3> QED BY <1>3, <3>3 DEF x, y
  <2>4. ASSUME NEW x \in 1 .. m, NEW y \in 1 .. Len(a), chunks[x].type = "args"
        PROVE  chunks[x].index # a[y].index
    BY <2>1, <2>4
  <2>5. CASE j \in 1 .. m /\ k - m \in 1 .. Len(a)
    <3>1. chunks'[j] = chunks[j] /\ chunks'[k] = a[k - m]
      BY <1>3, <1>4, <1>7, <2>5
    <3>2. chunks[j].type = "args" /\ chunks[j].index = a[k - m].index
      BY <1>7, <3>1
    <3> QED BY <2>4, <2>5, <3>2
  <2>6. CASE k \in 1 .. m /\ j - m \in 1 .. Len(a)
    <3>1. chunks'[k] = chunks[k] /\ chunks'[j] = a[j - m]
      BY <1>3, <1>4, <1>7, <2>6
    <3>2. chunks[k].type = "args" /\ chunks[k].index = a[j - m].index
      BY <1>7, <3>1
    <3> QED BY <2>4, <2>6, <3>2
  <2> QED BY <1>4, <1>7, <2>2, <2>3, <2>5, <2>6
<1>8. ASSUME NEW j \in 1 .. Len(chunks'), NEW k \in 1 .. Len(chunks'),
             chunks'[j].type = "call", chunks'[k].type = "args",
             chunks'[j].index = chunks'[k].index
      PROVE  j < k
  <2>1. j \in 1 .. m /\ chunks'[j] = chunks[j]
    BY <1>4, <1>8
  <2>2. CASE k \in 1 .. m
    BY <1>3, <1>8, <2>1, <2>2 DEF PlacesInv
  <2> QED BY <1>3, <1>4, <1>8, <2>1, <2>2
<1>9. ASSUME NEW j \in 1 .. Len(chunks'), NEW k \in 1 .. Len(chunks'),
             chunks'[j].type \in Chat!FinishReasons, chunks'[k].type = "args"
      PROVE  k < j
  <2>1. \A x \in Chat!FinishReasons : x \notin {"call", "args"}
    BY DEF Chat!FinishReasons
  <2>2. CASE j \in 1 .. m /\ k \in 1 .. m
    BY <1>3, <1>9, <2>2 DEF PlacesInv
  <2>3. CASE j \in 1 .. m /\ k \notin 1 .. m
    BY <1>3, <1>4, <1>9, <2>3, SMTT(30)
  <2>4. CASE j \notin 1 .. m
    <3>1. j - m \in 1 .. Len(b) /\ j = m + (j - m) /\ chunks'[j] = b[j - m]
      BY <1>3, <2>4
    <3>2. j - m > Len(a)
      BY <1>2, <1>9, <2>1, <3>1
    <3> QED BY <1>2, <1>3, <1>4, <1>9, <3>1, <3>2
  <2> QED BY <2>2, <2>3, <2>4
<1> QED BY <1>3, <1>5, <1>6, <1>7, <1>8, <1>9 DEF PlacesInv

\* A call is announced.
LEMMA Announcing ==
    ASSUME PlacesInv, NEW call \in CallType, ~call.closed, calls \in Seq(CallType),
           NEW value \in Texts,
           calls' = Append(calls, call),
           chunks' = Append(chunks, Chat!Chunk("call", Len(calls) + 1, value))
    PROVE  PlacesInv'
<1> DEFINE x == Chat!Chunk("call", Len(calls) + 1, value)
           m == Len(chunks)
           n == Len(calls)
<1>1. n \in Nat /\ x \in ChunkType /\ x.type = "call" /\ x.index = n + 1
  <2>1. n \in Nat
    OBVIOUS
  <2> QED BY <2>1 DEF Chat!Chunk, ChunkType, ChunkTypes
<1> HIDE DEF x
<1>2. /\ chunks' \in Seq(ChunkType) /\ Len(chunks') = m + 1 /\ m \in Nat
      /\ chunks'[m + 1] = x
      /\ \A k \in 1 .. m : chunks'[k] = chunks[k]
      /\ \A k \in 1 .. Len(chunks') : k \in 1 .. m \/ k = m + 1
  <2>1. chunks \in Seq(ChunkType) /\ chunks' = Append(chunks, x)
    BY DEF PlacesInv, x
  <2> QED BY <1>1, <2>1
<1>3. /\ Len(calls') = n + 1 /\ calls'[n + 1] = call
      /\ \A c \in 1 .. n : calls'[c] = calls[c]
      /\ \A c \in 1 .. Len(calls') : c \in 1 .. n \/ c = n + 1
      /\ 1 .. n \subseteq 1 .. Len(calls') /\ n + 1 \in 1 .. Len(calls')
  BY <1>1
<1>4. ASSUME NEW k \in 1 .. Len(chunks'), chunks'[k].type = "args"
      PROVE  k \in 1 .. m /\ chunks'[k] = chunks[k] /\ chunks[k].index \in 1 .. n
  BY <1>1, <1>2, <1>4 DEF PlacesInv
<1>5. ASSUME NEW k \in 1 .. Len(chunks')
      PROVE  /\ chunks'[k].type \in {"call", "args"} => chunks'[k].index \in 1 .. Len(calls')
             /\ chunks'[k].type = "args" =>
                   chunks'[k].value \in Objects /\ calls'[chunks'[k].index].closed
  BY <1>1, <1>2, <1>3, <1>4 DEF PlacesInv
<1>6. ASSUME NEW c \in 1 .. Len(calls'), calls'[c].closed
      PROVE  \E k \in 1 .. Len(chunks') : IsAt(k, "args", c)'
  <2>1. c \in 1 .. n /\ calls[c].closed
    BY <1>3, <1>6
  <2>2. PICK k \in 1 .. m : IsAt(k, "args", c)
    BY <2>1 DEF PlacesInv
  <2> QED BY <1>2, <2>2 DEF IsAt
<1>7. ASSUME NEW j \in 1 .. Len(chunks'), NEW k \in 1 .. Len(chunks'),
             chunks'[j].type = "args", chunks'[k].type = "args",
             chunks'[j].index = chunks'[k].index
      PROVE  j = k
  BY <1>4, <1>7 DEF PlacesInv
<1>8. ASSUME NEW j \in 1 .. Len(chunks'), NEW k \in 1 .. Len(chunks'),
             chunks'[j].type = "call", chunks'[k].type = "args",
             chunks'[j].index = chunks'[k].index
      PROVE  j < k
  <2>1. k \in 1 .. m /\ chunks'[k] = chunks[k] /\ chunks[k].index \in 1 .. n
    BY <1>4, <1>8
  <2>2. j # m + 1
    BY <1>1, <1>2, <1>8, <2>1
  <2> QED BY <1>2, <1>8, <2>1, <2>2 DEF PlacesInv
<1>9. ASSUME NEW j \in 1 .. Len(chunks'), NEW k \in 1 .. Len(chunks'),
             chunks'[j].type \in Chat!FinishReasons, chunks'[k].type = "args"
      PROVE  k < j
  <2>1. j \in 1 .. m /\ chunks'[j] = chunks[j]
    BY <1>1, <1>2, <1>9 DEF Chat!FinishReasons
  <2> QED BY <1>4, <1>9, <2>1 DEF PlacesInv
<1> QED BY <1>2, <1>5, <1>6, <1>7, <1>8, <1>9 DEF PlacesInv

\* Something is said that is about no call.
LEMMA Saying ==
    ASSUME PlacesInv, calls \in Seq(CallType), calls' = calls,
           NEW tail \in Seq(ChunkType), chunks' = chunks \o tail,
           \A k \in 1 .. Len(tail) : tail[k].type \notin {"call", "args"}
    PROVE  PlacesInv'
<1> DEFINE a == <<>>
<1>1. a \in Seq(ChunkType) /\ Len(a) = 0
  OBVIOUS
<1>2. chunks \in Seq(ChunkType) /\ chunks \o a = chunks
  BY <1>1 DEF PlacesInv
<1>3. chunks' = chunks \o a \o tail /\ a = <<>>
  BY <1>2
<1> HIDE DEF a
<1>4. calls' \in Seq(CallType) /\ Len(calls') = Len(calls)
      /\ \A c \in 1 .. Len(calls) : calls'[c] = calls[c]
  OBVIOUS
<1>5. 1 .. Len(a) = {}
  BY <1>1
<1>6. /\ \A k \in 1 .. Len(a) : /\ a[k].type = "args" /\ a[k].value \in Objects
                                /\ a[k].index \in 1 .. Len(calls)
                                /\ ~calls[a[k].index].closed /\ calls'[a[k].index].closed
      /\ \A j, k \in 1 .. Len(a) : a[j].index = a[k].index => j = k
  BY <1>5
<1>7. \A c \in 1 .. Len(calls) : /\ calls[c].closed => calls'[c].closed
                                /\ calls'[c].closed /\ ~calls[c].closed =>
                                      \E k \in 1 .. Len(a) : a[k].index = c
  BY <1>4
<1> QED BY <1>1, <1>3, <1>4, <1>6, <1>7, Closing

AllDone == \A c \in 1 .. Len(calls) : calls[c].closed

\* How far the calls are when the answer is so far.
StageInv ==
    /\ \A i \in 1 .. Newest : blocks[i].open => i = Newest
    /\ \A c \in 1 .. Len(calls) :
          calls[c].closed \/ blocks[calls[c].index].open \/ slip = "no_block_stop"
    /\ stage = "finishing" => AllDone
    /\ finished <=> stage \in {"stopped", "failed"}
    /\ \A k \in 1 .. Len(chunks) :
          /\ chunks[k].type \in Chat!FinishReasons =>
                AllDone /\ stage \in {"finishing", "stopped", "failed"}
          /\ chunks[k].type = "done" => k = Len(chunks) /\ (finished \/ body = "ended")
    /\ finished \/ body = "ended" =>
          /\ \E k \in 1 .. Len(chunks) : IsAt(k, "done", 0)
          /\ AllDone \/ \E k \in 1 .. Len(chunks) : IsAt(k, "error", 0)

\* While the answer streams nothing is finished.
LEMMA StageKeeps ==
    ASSUME StageInv, chunks \in Seq(ChunkType),
           body = "open", body' = "open", UNCHANGED finished,
           stage \in {"silent", "streaming"}, stage' = "streaming",
           NEW tail \in Seq(ChunkType), chunks' = chunks \o tail,
           \A k \in 1 .. Len(tail) : tail[k].type \in {"role", "text", "call", "args"},
           \A i \in 1 .. Newest' : blocks'[i].open => i = Newest',
           \A c \in 1 .. Len(calls') :
              calls'[c].closed \/ blocks'[calls'[c].index].open \/ slip' = "no_block_stop"
    PROVE  StageInv'
<1>1. finished = FALSE
  BY DEF StageInv
<1>2. \A k \in 1 .. Len(chunks) : chunks[k].type \notin Chat!FinishReasons \cup {"done"}
  BY <1>1 DEF StageInv
<1> DEFINE c == chunks \o tail
<1>3. /\ \A k \in 1 .. Len(chunks) : c[k] = chunks[k]
      /\ \A k \in 1 .. Len(tail) : c[Len(chunks) + k] = tail[k]
      /\ \A k \in 1 .. Len(c) : \/ k \in 1 .. Len(chunks)
                                \/ k - Len(chunks) \in 1 .. Len(tail)
                                   /\ k = Len(chunks) + (k - Len(chunks))
  BY Joined
<1>4. chunks' = c
  OBVIOUS
<1> HIDE DEF c
<1>5. \A k \in 1 .. Len(chunks') : chunks'[k].type \notin Chat!FinishReasons \cup {"done"}
  <2> SUFFICES ASSUME NEW k \in 1 .. Len(c)
               PROVE  c[k].type \notin Chat!FinishReasons \cup {"done"}
    BY <1>4
  <2>1. CASE k \in 1 .. Len(chunks)
    BY <1>2, <1>3, <2>1
  <2>2. CASE k \notin 1 .. Len(chunks)
    <3>1. k - Len(chunks) \in 1 .. Len(tail) /\ c[k] = tail[k - Len(chunks)]
      BY <1>3, <2>2
    <3> QED BY <3>1 DEF Chat!FinishReasons
  <2> QED BY <2>1, <2>2
<1> QED BY <1>1, <1>5 DEF StageInv

\* The upstream and the Chat Completions translator together.
ChatInv ==
    /\ UpstreamTypes
    /\ calls \in Seq(CallType) /\ started \in BOOLEAN /\ finished \in BOOLEAN
    /\ body \in {"open", "ended", "broken"}
    /\ CallsInv
    /\ PlacesInv
    /\ StageInv

\* A call's block has started.
LEMMA Indexed ==
    ASSUME ChatInv
    PROVE  \A c \in 1 .. Len(calls) :
              calls[c].index \in 1 .. Newest /\ calls[c].index \in Nat /\ calls[c].index <= Newest
<1> SUFFICES ASSUME NEW c \in 1 .. Len(calls)
             PROVE  calls[c].index \in 1 .. Newest /\ calls[c].index \in Nat
  BY DEF ChatInv, UpstreamTypes, Newest
<1>1. calls \in Seq(CallType) /\ c \in DOMAIN calls /\ Newest \in Nat
  BY DEF ChatInv, UpstreamTypes, Newest
<1>2. calls[c] \in CallType
  BY <1>1
<1>3. calls[c].index \in Index /\ calls[c].index <= Newest
  BY <1>1, <1>2 DEF CallType, ChatInv, CallsInv
<1> QED BY <1>1, <1>3, MaxBlocksAssumption DEF Index

\* A chunk of a call is a chunk.
LEMMA ChunkTyped ==
    ASSUME NEW type \in ChunkTypes, NEW index \in Nat, NEW value \in Texts
    PROVE  /\ Chat!Chunk(type, index, value) \in ChunkType
           /\ Chat!Chunk(type, index, value).type = type
           /\ Chat!Chunk(type, index, value).index = index
BY DEF Chat!Chunk, ChunkType

\* A chunk about no call is one too.
LEMMA PlainTyped ==
    ASSUME NEW type \in ChunkTypes
    PROVE  /\ Chat!Plain(type) \in ChunkType
           /\ Chat!Plain(type).type = type /\ Chat!Plain(type).index = 0
BY TextsAre, ChunkTyped DEF Chat!Plain

\* A sequence with one element added.
LEMMA OneMore ==
    ASSUME NEW S, NEW s \in Seq(S), NEW e \in S
    PROVE  /\ Append(s, e) = s \o <<e>> /\ <<e>> \in Seq(S) /\ Len(<<e>>) = 1
           /\ \A k \in 1 .. Len(<<e>>) : <<e>>[k] = e
OBVIOUS

\* message_start keeps the chat translator's invariant.
LEMMA ChatStart ==
    ASSUME TypeOK, ChatInv, MessageStart
    PROVE  ChatInv'
<1>1. /\ stage = "silent" /\ stage' = "streaming" /\ body = "open" /\ body' = body
      /\ UNCHANGED <<blocks, reason, slip, calls, finished>> /\ started' = TRUE
      /\ chunks' = IF started THEN chunks ELSE Append(chunks, Chat!Plain("role"))
  BY DEF MessageStart, Streams, Begins, Chat!OnMessageStart
<1>2. chunks \in Seq(ChunkType) /\ calls \in Seq(CallType)
  BY DEF ChatInv, PlacesInv
<1>3. \E tail \in Seq(ChunkType) :
         chunks' = chunks \o tail /\ \A k \in 1 .. Len(tail) : tail[k].type = "role"
  <2>1. CASE started
    <3>1. <<>> \in Seq(ChunkType) /\ chunks' = chunks \o <<>> /\ 1 .. Len(<<>>) = {}
      BY <1>1, <1>2, <2>1
    <3> QED BY <3>1
  <2>2. CASE ~started
    <3> DEFINE x == Chat!Plain("role")
    <3>1. x \in ChunkType /\ x.type = "role"
      BY PlainTyped DEF ChunkTypes
    <3>2. chunks' = Append(chunks, x)
      BY <1>1, <2>2
    <3> HIDE DEF x
    <3> DEFINE tail == <<x>>
    <3>3. /\ tail \in Seq(ChunkType) /\ chunks' = chunks \o tail
          /\ \A k \in 1 .. Len(tail) : tail[k] = x
      BY <1>2, <3>1, <3>2, OneMore
    <3> HIDE DEF tail
    <3> QED BY <3>1, <3>3
  <2> QED BY <2>1, <2>2
<1>4. PICK tail \in Seq(ChunkType) :
         chunks' = chunks \o tail /\ \A k \in 1 .. Len(tail) : tail[k].type = "role"
  BY <1>3
<1>5. PlacesInv'
  BY <1>1, <1>2, <1>4, Saying DEF ChatInv
<1>6. Newest' = Newest
  BY <1>1 DEF Newest
<1>7. StageInv'
  <2>1. /\ \A i \in 1 .. Newest' : blocks'[i].open => i = Newest'
        /\ \A c \in 1 .. Len(calls') :
              calls'[c].closed \/ blocks'[calls'[c].index].open \/ slip' = "no_block_stop"
    BY <1>1, <1>6 DEF ChatInv, StageInv
  <2> QED BY <1>1, <1>2, <1>4, <2>1, StageKeeps DEF ChatInv
<1>8. CallsInv'
  BY <1>1, <1>6 DEF ChatInv, CallsInv
<1>9. UpstreamTypes'
  BY <1>1 DEF ChatInv, UpstreamTypes
<1> QED BY <1>1, <1>5, <1>7, <1>8, <1>9 DEF ChatInv

\* The start of a block keeps it: a call is announced at the next index.
LEMMA ChatBlock ==
    ASSUME TypeOK, ChatInv, ContentBlockStart
    PROVE  ChatInv'
<1>1. PICK kind \in Kinds, start \in {NoArguments, Preset(Newest + 1)} :
         /\ Streams /\ StartsBlock(kind, start)
         /\ Chat!OnContentBlockStart(Newest + 1, kind, start)
  BY DEF ContentBlockStart
<1>2. /\ stage = "streaming" /\ stage' = stage /\ body = "open" /\ body' = body
      /\ UNCHANGED <<started, finished, slip>> /\ MayLeaveOpen
      /\ blocks' = Append(LeftOpen, Block(kind, start, <<>>))
  BY <1>1 DEF Streams, StartsBlock, Chat!OnContentBlockStart
<1>3. UpstreamTypes' /\ start \in Objects /\ Newest + 1 \in Index
  BY <1>1, StartTypes
<1>4. /\ chunks \in Seq(ChunkType) /\ calls \in Seq(CallType)
      /\ blocks \in Seq(BlockType) /\ Newest = Len(blocks) /\ Newest \in Nat
  BY DEF ChatInv, PlacesInv, UpstreamTypes, Newest
<1>5. /\ Newest' = Newest + 1 /\ blocks'[Newest + 1].open
      /\ \A i \in 1 .. Newest : ~blocks'[i].open
      /\ \A i \in 1 .. Newest' : i \in 1 .. Newest \/ i = Newest + 1
  <2>1. Block(kind, start, <<>>) \in BlockType
    BY <1>3 DEF Block, BlockType
  <2>2. /\ Len(blocks') = Newest + 1 /\ blocks'[Newest + 1] = Block(kind, start, <<>>)
        /\ \A i \in 1 .. Newest : blocks'[i] = LeftOpen[i]
    BY <1>2, <2>1, LeftOpenIs, Added
  <2>3. \A i \in 1 .. Newest : blocks[i] \in BlockType
    BY <1>4
  <2>4. \A i \in 1 .. Newest : ~LeftOpen[i].open
    BY <2>3, LeftOpenIs DEF BlockType
  <2> QED BY <1>4, <2>2, <2>4, SMTT(30) DEF Newest, Block
\* Where a block was left open the upstream forgets to stop them.
<1>6. \A c \in 1 .. Len(calls) : calls[c].closed \/ slip = "no_block_stop"
  <2>1. \A c \in 1 .. Len(calls) : calls[c].index \in 1 .. Newest
    BY Indexed
  <2>2. \A c \in 1 .. Len(calls) :
           calls[c].closed \/ blocks[calls[c].index].open \/ slip = "no_block_stop"
    BY DEF ChatInv, StageInv
  <2>3. \A i \in 1 .. Newest : blocks[i].open => i = Newest
    BY DEF ChatInv, StageInv
  <2>4. ASSUME NEW i \in 1 .. Newest, blocks[i].open PROVE slip = "no_block_stop"
    <3>1. i = Newest
      BY <2>3, <2>4
    <3>2. Newest > 0 /\ blocks[Newest].open
      BY <1>4, <2>4, <3>1
    <3> QED BY <1>2, <3>2 DEF MayLeaveOpen, AnyOpen
  <2> QED BY <2>1, <2>2, <2>4
<1>7. CASE kind = "tool_use"
  <2> DEFINE call == [index |-> Newest + 1, accumulated |-> <<>>, start |-> start, closed |-> FALSE]
             value == <<<<Newest + 1, 0>>>>
             x == Chat!Chunk("call", Len(calls) + 1, value)
  <2>1. call \in CallType /\ ~call.closed /\ call.index = Newest + 1
    <3>1. <<>> \in Seq(Part)
      OBVIOUS
    <3> QED BY <1>3, <3>1 DEF CallType
  <2>2. value \in Texts
    BY <1>4 DEF Texts
  <2>3. calls' = Append(calls, call) /\ chunks' = Append(chunks, x)
    BY <1>1, <1>7 DEF Chat!OnContentBlockStart
  <2>4. x \in ChunkType /\ x.type = "call"
    <3> HIDE DEF value
    <3>1. Len(calls) + 1 \in Nat /\ "call" \in ChunkTypes
      BY <1>4 DEF ChunkTypes
    <3> QED BY <2>2, <3>1, ChunkTyped
  <2>5. PlacesInv'
    <3> HIDE DEF call, value
    <3> QED BY <1>4, <2>1, <2>2, <2>3, Announcing DEF ChatInv
  <2> HIDE DEF call, x
  <2>6. /\ calls' \in Seq(CallType) /\ Len(calls') = Len(calls) + 1
        /\ calls'[Len(calls) + 1] = call
        /\ \A c \in 1 .. Len(calls) : calls'[c] = calls[c]
        /\ \A c \in 1 .. Len(calls') : c \in 1 .. Len(calls) \/ c = Len(calls) + 1
        /\ DOMAIN calls' = 1 .. Len(calls') /\ DOMAIN calls = 1 .. Len(calls)
        /\ Len(calls) \in Nat
    BY <1>4, <2>1, <2>3
  <2>7. CallsInv'
    <3>1. \A c \in 1 .. Len(calls) : calls[c].index \in Nat /\ calls[c].index <= Newest
      BY Indexed
    <3>2. \A c \in DOMAIN calls' : calls'[c].index <= Newest'
      BY <1>4, <1>5, <2>1, <2>6, <3>1
    <3>3. ASSUME NEW c \in DOMAIN calls', NEW d \in DOMAIN calls', c < d
          PROVE  calls'[c].index < calls'[d].index
      <4>1. c \in 1 .. Len(calls)
        BY <2>6, <3>3
      <4>2. CASE d \in 1 .. Len(calls)
        BY <2>6, <3>3, <4>1, <4>2 DEF ChatInv, CallsInv
      <4>3. CASE d = Len(calls) + 1
        BY <1>4, <2>1, <2>6, <3>1, <4>1, <4>3
      <4> QED BY <2>6, <4>2, <4>3
    <3> QED BY <3>2, <3>3 DEF CallsInv
  <2>8. StageInv'
    <3>1. /\ \A i \in 1 .. Newest' : blocks'[i].open => i = Newest'
          /\ \A c \in 1 .. Len(calls') :
                calls'[c].closed \/ blocks'[calls'[c].index].open \/ slip' = "no_block_stop"
      BY <1>2, <1>5, <1>6, <2>1, <2>6
    <3>2. /\ chunks' = chunks \o <<x>> /\ <<x>> \in Seq(ChunkType)
          /\ \A k \in 1 .. Len(<<x>>) : <<x>>[k].type \in {"role", "text", "call", "args"}
      BY <1>4, <2>3, <2>4, OneMore
    <3> DEFINE tail == <<x>>
    <3> HIDE DEF tail
    <3>3. /\ tail \in Seq(ChunkType) /\ chunks' = chunks \o tail
          /\ \A k \in 1 .. Len(tail) : tail[k].type \in {"role", "text", "call", "args"}
      BY <3>2 DEF tail
    <3> QED BY <1>2, <1>4, <3>1, <3>3, StageKeeps DEF ChatInv
  <2> QED BY <1>2, <1>3, <2>5, <2>6, <2>7, <2>8 DEF ChatInv
<1>8. CASE kind # "tool_use"
  <2>1. UNCHANGED <<calls, chunks>>
    BY <1>1, <1>8 DEF Chat!OnContentBlockStart
  <2> DEFINE tail == <<>>
  <2>2. tail \in Seq(ChunkType) /\ chunks' = chunks \o tail /\ 1 .. Len(tail) = {}
    BY <1>4, <2>1
  <2> HIDE DEF tail
  <2>3. PlacesInv'
    BY <1>4, <2>1, <2>2, Saying DEF ChatInv
  <2>4. CallsInv'
    <3>1. \A c \in 1 .. Len(calls) : calls[c].index \in Nat /\ calls[c].index <= Newest
      BY Indexed
    <3> QED BY <1>4, <1>5, <2>1, <3>1 DEF ChatInv, CallsInv
  <2>5. StageInv'
    <3>1. /\ \A i \in 1 .. Newest' : blocks'[i].open => i = Newest'
          /\ \A c \in 1 .. Len(calls') :
                calls'[c].closed \/ blocks'[calls'[c].index].open \/ slip' = "no_block_stop"
      BY <1>2, <1>5, <1>6, <2>1
    <3> QED BY <1>2, <1>4, <2>2, <3>1, StageKeeps DEF ChatInv
  <2> QED BY <1>2, <1>3, <2>1, <2>3, <2>4, <2>5 DEF ChatInv
<1> QED BY <1>7, <1>8

\* A text delta keeps it: no call is touched.
LEMMA ChatText ==
    ASSUME TypeOK, ChatInv, TextDelta
    PROVE  ChatInv'
<1>1. PICK i \in Index :
         Streams /\ SendsText(i) /\ Chat!OnTextDelta(NextPart(i))
  BY DEF TextDelta
<1>2. /\ stage = "streaming" /\ stage' = stage /\ body = "open" /\ body' = body
      /\ UNCHANGED <<calls, started, finished, slip>>
  BY <1>1 DEF Streams, SendsText, Chat!OnTextDelta
<1>3. /\ UpstreamTypes' /\ NextPart(i) \in Part
      /\ \/ /\ Len(blocks') = Newest
            /\ \A j \in 1 .. Newest : /\ blocks'[j].kind = blocks[j].kind
                                      /\ blocks'[j].open = blocks[j].open
         \/ /\ Len(blocks') = Newest + 1 /\ ~AnyOpen
            /\ \A j \in 1 .. Newest : blocks'[j] = blocks[j]
  BY <1>1, TextTypes
<1>4. /\ chunks \in Seq(ChunkType) /\ calls \in Seq(CallType)
      /\ Newest = Len(blocks) /\ Newest' = Len(blocks') /\ Newest \in Nat
  BY DEF ChatInv, PlacesInv, UpstreamTypes, Newest
<1>5. \E tail \in Seq(ChunkType) :
         chunks' = chunks \o tail /\ \A k \in 1 .. Len(tail) : tail[k].type = "text"
  <2> DEFINE v == <<NextPart(i)>>
             x == Chat!Chunk("text", 0, v)
             t == <<x>>
  <2>1. v \in Texts
    <3>1. v \in Seq(Part)
      BY <1>3
    <3> QED BY <3>1, TextsAre
  <2>2. chunks' = Append(chunks, x)
    BY <1>1 DEF Chat!OnTextDelta
  <2> HIDE DEF v
  <2>3. x \in ChunkType /\ x.type = "text"
    BY <2>1, ChunkTyped DEF ChunkTypes
  <2> HIDE DEF x
  <2>4. /\ t \in Seq(ChunkType) /\ chunks' = chunks \o t
        /\ \A k \in 1 .. Len(t) : t[k] = x
    BY <1>4, <2>2, <2>3, OneMore
  <2> HIDE DEF t
  <2> QED BY <2>3, <2>4
<1>6. PICK tail \in Seq(ChunkType) :
         chunks' = chunks \o tail /\ \A k \in 1 .. Len(tail) : tail[k].type = "text"
  BY <1>5
<1>7. PlacesInv'
  BY <1>2, <1>4, <1>6, Saying DEF ChatInv
<1>8. CallsInv'
  <2>1. \A c \in 1 .. Len(calls) : calls[c].index \in Nat /\ calls[c].index <= Newest
    BY Indexed
  <2>2. Newest' \in Nat /\ Newest <= Newest'
    BY <1>3, <1>4
  <2>3. calls' = calls /\ DOMAIN calls = 1 .. Len(calls)
    BY <1>2, <1>4
  <2>4. \A c \in DOMAIN calls' : calls'[c].index <= Newest'
    BY <1>4, <2>1, <2>2, <2>3
  <2> QED BY <2>3, <2>4 DEF ChatInv, CallsInv
<1>9. StageInv'
  <2>1. \A j \in 1 .. Newest' : blocks'[j].open => j = Newest'
    <3>1. \A j \in 1 .. Newest : blocks[j].open => j = Newest
      BY DEF ChatInv, StageInv
    <3>2. CASE Len(blocks') = Newest
      BY <1>3, <1>4, <3>1, <3>2
    <3>3. CASE Len(blocks') = Newest + 1
      <4>1. \A j \in 1 .. Newest : blocks'[j] = blocks[j] /\ ~blocks[j].open
        BY <1>3, <1>4, <3>1, <3>3 DEF AnyOpen
      <4>2. \A j \in 1 .. Newest' : j \in 1 .. Newest \/ j = Newest'
        BY <1>4, <3>3
      <4> QED BY <4>1, <4>2
    <3> QED BY <1>3, <3>2, <3>3
  <2>2. \A c \in 1 .. Len(calls') :
           calls'[c].closed \/ blocks'[calls'[c].index].open \/ slip' = "no_block_stop"
    <3>1. \A c \in 1 .. Len(calls) : calls[c].index \in 1 .. Newest
      BY Indexed
    <3>2. \A j \in 1 .. Newest : blocks'[j].open = blocks[j].open
      BY <1>3
    <3> QED BY <1>2, <3>1, <3>2 DEF ChatInv, StageInv
  <2> QED BY <1>2, <1>4, <1>6, <2>1, <2>2, StageKeeps DEF ChatInv
<1> QED BY <1>2, <1>3, <1>7, <1>8, <1>9 DEF ChatInv

\* A sequence to which nothing is added.
LEMMA NoMore ==
    ASSUME NEW S, NEW s \in Seq(S)
    PROVE  \E t \in Seq(S) : s = s \o t /\ 1 .. Len(t) = {}
<1> DEFINE t == <<>>
<1>1. t \in Seq(S) /\ s = s \o t /\ 1 .. Len(t) = {}
  OBVIOUS
<1> HIDE DEF t
<1> QED BY <1>1

\* A fragment keeps it: it is buffered with its call, nothing is sent.
LEMMA ChatFragment ==
    ASSUME TypeOK, ChatInv, InputJsonDelta
    PROVE  ChatInv'
<1>1. PICK i \in 1 .. Newest :
         Streams /\ SendsFragment(i) /\ Chat!OnInputJsonDelta(i, NextPart(i))
  BY DEF InputJsonDelta
<1>2. /\ stage = "streaming" /\ stage' = stage /\ body = "open" /\ body' = body
      /\ UNCHANGED slip
  BY <1>1 DEF Streams, SendsFragment
<1>3. /\ UpstreamTypes' /\ NextPart(i) \in Part
      /\ Len(blocks') = Newest
      /\ \A j \in 1 .. Newest : blocks'[j].open = blocks[j].open
  BY <1>1, FragmentTypes
<1>4. /\ chunks \in Seq(ChunkType) /\ calls \in Seq(CallType)
      /\ Newest = Len(blocks) /\ Newest' = Len(blocks') /\ Newest \in Nat
  BY DEF ChatInv, PlacesInv, UpstreamTypes, Newest
<1>5. /\ calls' \in Seq(CallType) /\ Len(calls') = Len(calls)
      /\ \A c \in 1 .. Len(calls) : /\ calls'[c].index = calls[c].index
                                    /\ calls'[c].closed = calls[c].closed
      /\ UNCHANGED <<started, finished, chunks>>
  BY <1>1, <1>3, FragmentTaken DEF ChatInv
<1>6. PlacesInv'
  BY <1>5 DEF ChatInv, PlacesInv, IsAt
<1>7. CallsInv'
  <2>1. DOMAIN calls = 1 .. Len(calls) /\ DOMAIN calls' = 1 .. Len(calls)
    BY <1>4, <1>5
  <2>2. Newest' = Newest
    BY <1>3, <1>4
  <2> QED BY <1>5, <2>1, <2>2 DEF ChatInv, CallsInv
<1>8. StageInv'
  <2>1. \A c \in 1 .. Len(calls) : calls[c].index \in 1 .. Newest
    BY Indexed
  <2>2. /\ \A j \in 1 .. Newest' : blocks'[j].open => j = Newest'
        /\ \A c \in 1 .. Len(calls') :
              calls'[c].closed \/ blocks'[calls'[c].index].open \/ slip' = "no_block_stop"
    BY <1>2, <1>3, <1>4, <1>5, <2>1 DEF ChatInv, StageInv
  <2>3. PICK tail \in Seq(ChunkType) : chunks = chunks \o tail /\ 1 .. Len(tail) = {}
    BY <1>4, NoMore
  <2> QED BY <1>2, <1>4, <1>5, <2>2, <2>3, StageKeeps DEF ChatInv
<1> QED BY <1>2, <1>3, <1>5, <1>6, <1>7, <1>8 DEF ChatInv

\* The end of a block keeps it: a call's arguments are sent, once.
LEMMA ChatStop ==
    ASSUME TypeOK, ChatInv, ContentBlockStop
    PROVE  ChatInv'
<1>1. PICK i \in 1 .. Newest :
         Streams /\ StopsBlock(i) /\ Chat!OnContentBlockStop(i)
  BY DEF ContentBlockStop
<1>2. /\ stage = "streaming" /\ stage' = stage /\ body = "open" /\ body' = body
      /\ UNCHANGED slip /\ i = Newest
  BY <1>1 DEF Streams, StopsBlock
<1>3. /\ UpstreamTypes' /\ Len(blocks') = Newest
      /\ \A j \in 1 .. Newest : ~blocks'[j].open
  BY <1>1, StopTypes
<1>4. /\ chunks \in Seq(ChunkType) /\ calls \in Seq(CallType)
      /\ Newest = Len(blocks) /\ Newest' = Len(blocks') /\ Newest \in Nat
      /\ DOMAIN calls = 1 .. Len(calls) /\ Len(calls) \in Nat
  BY DEF ChatInv, PlacesInv, UpstreamTypes, Newest
\* The calls of the blocks before the one that stops are closed already.
<1>5. \A c \in 1 .. Len(calls) :
         calls[c].closed \/ calls[c].index = i \/ slip = "no_block_stop"
  BY <1>2, Indexed DEF ChatInv, StageInv
<1>a. UNCHANGED <<started, finished>>
  BY <1>1, CallStops DEF ChatInv
<1>6. CASE UNCHANGED <<calls, chunks>>
           /\ \A c \in DOMAIN calls : calls[c].index = i => calls[c].closed
  <2>1. PlacesInv'
    BY <1>6 DEF ChatInv, PlacesInv, IsAt
  <2>2. CallsInv'
    BY <1>3, <1>4, <1>6 DEF ChatInv, CallsInv
  <2>3. StageInv'
    <3>1. /\ \A j \in 1 .. Newest' : blocks'[j].open => j = Newest'
          /\ \A c \in 1 .. Len(calls') :
                calls'[c].closed \/ blocks'[calls'[c].index].open \/ slip' = "no_block_stop"
      BY <1>2, <1>3, <1>4, <1>5, <1>6
    <3>2. PICK tail \in Seq(ChunkType) : chunks = chunks \o tail /\ 1 .. Len(tail) = {}
      BY <1>4, NoMore
    <3> QED BY <1>2, <1>4, <1>6, <1>a, <3>1, <3>2, StageKeeps DEF ChatInv
  <2> QED BY <1>2, <1>3, <1>6, <1>a, <2>1, <2>2, <2>3 DEF ChatInv
<1>7. ASSUME NEW c \in DOMAIN calls, NEW value \in Objects,
             calls[c].index = i, ~calls[c].closed,
             chunks' = Append(chunks, Chat!Chunk("args", c, value)),
             calls' \in Seq(CallType), Len(calls') = Len(calls),
             calls'[c].index = i, calls'[c].closed,
             \A d \in DOMAIN calls : d # c => calls'[d] = calls[d]
      PROVE  ChatInv'
  <2> DEFINE x == Chat!Chunk("args", c, value)
             a == <<x>>
  <2>1. x \in ChunkType /\ x.type = "args" /\ x.index = c /\ x.value = value
    <3>1. c \in Nat /\ value \in Texts /\ "args" \in ChunkTypes
      BY <1>4, TextsAre DEF ChunkTypes
    <3>2. x.value = value
      BY DEF Chat!Chunk
    <3> QED BY <3>1, <3>2, ChunkTyped
  <2>2. chunks' = Append(chunks, x)
    BY <1>7
  <2> HIDE DEF x
  <2>3. /\ a \in Seq(ChunkType) /\ chunks' = chunks \o a /\ Len(a) = 1
        /\ \A k \in 1 .. Len(a) : a[k] = x
        /\ 1 .. Len(a) = {1}
    BY <1>4, <2>1, <2>2, OneMore
  <2> HIDE DEF a
  <2>4. PICK tail \in Seq(ChunkType) : a = a \o tail /\ 1 .. Len(tail) = {}
    BY <2>3, NoMore
  <2>5. chunks' = chunks \o a \o tail
    BY <1>4, <2>3, <2>4
  <2>6. \A k \in 1 .. Len(chunks) : chunks[k].type \notin Chat!FinishReasons
    BY <1>2 DEF ChatInv, StageInv
  <2>7. PlacesInv'
    <3>1. \A k \in 1 .. Len(a) : /\ a[k].type = "args" /\ a[k].value \in Objects
                                 /\ a[k].index \in 1 .. Len(calls)
                                 /\ ~calls[a[k].index].closed /\ calls'[a[k].index].closed
      BY <1>4, <1>7, <2>1, <2>3
    <3>2. \A j, k \in 1 .. Len(a) : a[j].index = a[k].index => j = k
      BY <2>3
    <3>3. ASSUME NEW d \in 1 .. Len(calls)
          PROVE  /\ calls[d].closed => calls'[d].closed
                 /\ calls'[d].closed /\ ~calls[d].closed =>
                       \E k \in 1 .. Len(a) : a[k].index = d
      <4>1. CASE d = c
        <5>1. 1 \in 1 .. Len(a) /\ a[1].index = d
          BY <2>1, <2>3, <4>1
        <5> QED BY <1>7, <4>1, <5>1
      <4>2. CASE d # c
        <5>1. calls'[d] = calls[d]
          BY <1>4, <1>7, <4>2
        <5> QED BY <5>1
      <4> QED BY <4>1, <4>2
    <3>4. \A k \in 1 .. Len(tail) : tail[k].type \notin {"call", "args"}
      BY <2>4
    <3> QED BY <1>4, <1>7, <2>3, <2>5, <2>6, <3>1, <3>2, <3>3, <3>4, Closing DEF ChatInv
  <2>8. CallsInv'
    <3>1. DOMAIN calls' = DOMAIN calls /\ \A d \in DOMAIN calls : calls'[d].index = calls[d].index
      BY <1>4, <1>7
    <3>2. Newest' = Newest
      BY <1>3, <1>4
    <3> QED BY <3>1, <3>2 DEF ChatInv, CallsInv
  <2>9. StageInv'
    <3>1. \A j \in 1 .. Newest' : blocks'[j].open => j = Newest'
      BY <1>3, <1>4
    <3>2. ASSUME NEW d \in 1 .. Len(calls')
          PROVE  calls'[d].closed \/ blocks'[calls'[d].index].open \/ slip' = "no_block_stop"
      <4>1. CASE d = c
        BY <1>7, <4>1
      <4>2. CASE d # c
        <5>1. calls'[d] = calls[d] /\ d \in 1 .. Len(calls)
          BY <1>4, <1>7, <4>2
        <5>2. calls[d].index # i
          <6>1. c < d \/ d < c
            BY <1>4, <4>2, <5>1
          <6>2. calls[c].index \in Nat /\ calls[d].index \in Nat
            BY <1>4, <5>1, Indexed
          <6>3. /\ c < d => calls[c].index < calls[d].index
                /\ d < c => calls[d].index < calls[c].index
            BY <1>4, <5>1 DEF ChatInv, CallsInv
          <6> QED BY <1>7, <6>1, <6>2, <6>3
        <5> QED BY <1>2, <1>5, <5>1, <5>2
      <4> QED BY <4>1, <4>2
    <3>3. \A k \in 1 .. Len(a) : a[k].type \in {"role", "text", "call", "args"}
      BY <2>1, <2>3
    <3> QED BY <1>2, <1>4, <1>a, <2>3, <3>1, <3>2, <3>3, StageKeeps DEF ChatInv
  <2> QED BY <1>2, <1>3, <1>7, <1>a, <2>7, <2>8, <2>9 DEF ChatInv
<1> QED BY <1>1, <1>6, <1>7, CallStops, ZenonT(40) DEF ChatInv

\* Where an answer finishes or ends: what is sent last, and how far the calls
\* are.
LEMMA StageEnds ==
    ASSUME ChatInv, body = "open", ~finished,
           NEW tail \in Seq(ChunkType), chunks' = chunks \o tail,
           UNCHANGED <<blocks, slip>>, Len(calls') = Len(calls),
           \A c \in 1 .. Len(calls) : /\ calls'[c].index = calls[c].index
                                      /\ calls[c].closed => calls'[c].closed,
           stage \in {"finishing", "stopped", "failed"} =>
              stage' \in {"finishing", "stopped", "failed"},
           stage' = "finishing" => AllDone',
           finished' <=> stage' \in {"stopped", "failed"},
           \A k \in 1 .. Len(tail) :
              /\ tail[k].type \in Chat!FinishReasons =>
                    AllDone' /\ stage' \in {"finishing", "stopped", "failed"}
              /\ tail[k].type = "done" => k = Len(tail) /\ (finished' \/ body' = "ended"),
           Len(tail) > 0 \/ body' # "ended",
           finished' \/ body' = "ended" =>
              /\ \E k \in 1 .. Len(tail) : tail[k].type = "done" /\ tail[k].index = 0
              /\ AllDone' \/ \E k \in 1 .. Len(tail) : tail[k].type = "error" /\ tail[k].index = 0
    PROVE  StageInv'
<1>1. chunks \in Seq(ChunkType) /\ StageInv /\ calls \in Seq(CallType)
  BY DEF ChatInv, PlacesInv
<1> DEFINE c == chunks \o tail
           m == Len(chunks)
<1>2. /\ c \in Seq(ChunkType) /\ Len(c) = m + Len(tail) /\ m \in Nat /\ Len(tail) \in Nat
      /\ \A k \in 1 .. m : c[k] = chunks[k]
      /\ \A k \in 1 .. Len(tail) : c[m + k] = tail[k] /\ m + k \in 1 .. Len(c)
      /\ \A k \in 1 .. Len(c) : (k \in 1 .. m \/ k - m \in 1 .. Len(tail)) /\ k = m + (k - m)
  BY <1>1, Joined
<1>3. chunks' = c
  OBVIOUS
<1> HIDE DEF c
<1>4. \A k \in 1 .. m : chunks[k].type # "done"
  BY <1>1 DEF StageInv
<1>5. AllDone => AllDone'
  BY DEF AllDone
<1>6. ASSUME NEW k \in 1 .. Len(c)
      PROVE  /\ c[k].type \in Chat!FinishReasons =>
                   AllDone' /\ stage' \in {"finishing", "stopped", "failed"}
             /\ c[k].type = "done" => k = Len(c) /\ (finished' \/ body' = "ended")
  <2>1. CASE k \in 1 .. m
    <3>1. c[k] = chunks[k] /\ c[k].type # "done"
      BY <1>2, <1>4, <2>1
    <3>2. chunks[k].type \in Chat!FinishReasons =>
             AllDone /\ stage \in {"finishing", "stopped", "failed"}
      BY <1>1, <2>1 DEF StageInv
    <3> QED BY <1>5, <3>1, <3>2
  <2>2. CASE k \notin 1 .. m
    <3> DEFINE l == k - m
    <3>1. l \in 1 .. Len(tail) /\ k = m + l
      BY <1>2, <2>2
    <3>2. c[k] = tail[l]
      BY <1>2, <3>1
    <3> HIDE DEF l
    <3> QED BY <1>2, <3>1, <3>2
  <2> QED BY <2>1, <2>2
<1>7. ASSUME finished' \/ body' = "ended"
      PROVE  /\ \E k \in 1 .. Len(c) : c[k].type = "done" /\ c[k].index = 0
             /\ AllDone' \/ \E k \in 1 .. Len(c) : c[k].type = "error" /\ c[k].index = 0
  <2>1. PICK k \in 1 .. Len(tail) : tail[k].type = "done" /\ tail[k].index = 0
    BY <1>7
  <2>2. m + k \in 1 .. Len(c) /\ c[m + k] = tail[k]
    BY <1>2
  <2>3. AllDone' \/ \E j \in 1 .. Len(c) : c[j].type = "error" /\ c[j].index = 0
    <3>1. CASE AllDone'
      BY <3>1
    <3>2. CASE ~AllDone'
      <4>1. PICK j \in 1 .. Len(tail) : tail[j].type = "error" /\ tail[j].index = 0
        BY <1>7, <3>2
      <4>2. m + j \in 1 .. Len(c) /\ c[m + j] = tail[j]
        BY <1>2
      <4> QED BY <4>1, <4>2
    <3> QED BY <3>1, <3>2
  <2> QED BY <2>1, <2>2, <2>3
<1>8. /\ \A i \in 1 .. Newest' : blocks'[i].open => i = Newest'
      /\ \A d \in 1 .. Len(calls') :
            calls'[d].closed \/ blocks'[calls'[d].index].open \/ slip' = "no_block_stop"
  BY <1>1 DEF StageInv, Newest
<1>9. /\ \A k \in 1 .. Len(chunks') :
            /\ chunks'[k].type \in Chat!FinishReasons =>
                  AllDone' /\ stage' \in {"finishing", "stopped", "failed"}
            /\ chunks'[k].type = "done" => k = Len(chunks') /\ (finished' \/ body' = "ended")
      /\ finished' \/ body' = "ended" =>
            /\ \E k \in 1 .. Len(chunks') : IsAt(k, "done", 0)'
            /\ AllDone' \/ \E k \in 1 .. Len(chunks') : IsAt(k, "error", 0)'
  BY <1>3, <1>6, <1>7 DEF IsAt
<1> QED BY <1>8, <1>9 DEF StageInv

\* Calls whose blocks are as they were.
LEMMA CallsKept ==
    ASSUME ChatInv, UNCHANGED blocks, calls' \in Seq(CallType), Len(calls') = Len(calls),
           \A c \in 1 .. Len(calls) : calls'[c].index = calls[c].index
    PROVE  CallsInv'
<1>1. DOMAIN calls' = DOMAIN calls /\ DOMAIN calls = 1 .. Len(calls) /\ Newest' = Newest
  BY DEF ChatInv, Newest
<1> QED BY <1>1 DEF ChatInv, CallsInv

\* The calls closed together.
LEMMA AllClosing ==
    ASSUME TypeOK, ChatInv, calls' = Chat!AllClosed,
           NEW tail \in Seq(ChunkType), chunks' = chunks \o Chat!PendingChunks \o tail,
           UNCHANGED blocks,
           \A k \in 1 .. Len(tail) : tail[k].type \notin {"call", "args"},
           AllDone \/ \A k \in 1 .. Len(chunks) : chunks[k].type \notin Chat!FinishReasons
    PROVE  /\ PlacesInv' /\ CallsInv' /\ AllDone'
           /\ calls' \in Seq(CallType) /\ Len(calls') = Len(calls)
           /\ \A c \in 1 .. Len(calls) : /\ calls'[c].index = calls[c].index
                                         /\ calls'[c].closed
           /\ Chat!PendingChunks \in Seq(ChunkType)
           /\ \A k \in 1 .. Len(Chat!PendingChunks) : Chat!PendingChunks[k].type = "args"
<1>1. /\ calls' \in Seq(CallType) /\ Len(calls') = Len(calls)
      /\ \A c \in 1 .. Len(calls) : calls'[c].index = calls[c].index /\ calls'[c].closed
  BY AllClosedIs
<1>2. AllDone'
  BY <1>1 DEF AllDone
<1>3. CallsInv'
  BY <1>1, CallsKept
<1> DEFINE a == Chat!PendingChunks
<1>4. /\ a \in Seq(ChunkType)
      /\ \A k \in 1 .. Len(a) : /\ a[k].type = "args" /\ a[k].value \in Objects
                                /\ a[k].index \in 1 .. Len(calls) /\ ~calls[a[k].index].closed
      /\ \A c \in 1 .. Len(calls) : ~calls[c].closed => \E k \in 1 .. Len(a) : a[k].index = c
      /\ \A j, k \in 1 .. Len(a) : a[j].index = a[k].index => j = k
  BY PendingIs
<1>5. chunks' = chunks \o a \o tail
  OBVIOUS
<1> HIDE DEF a
<1>6. a = <<>> \/ \A k \in 1 .. Len(chunks) : chunks[k].type \notin Chat!FinishReasons
  <2> SUFFICES ASSUME AllDone PROVE a = <<>>
    OBVIOUS
  <2>1. 1 .. Len(a) = {}
    BY <1>4 DEF AllDone
  <2>2. Len(a) \in Nat
    BY <1>4
  <2> QED BY <1>4, <2>1, <2>2
<1>7. PlacesInv /\ calls \in Seq(CallType)
  BY DEF ChatInv
<1>8. \A k \in 1 .. Len(a) : /\ a[k].type = "args" /\ a[k].value \in Objects
                             /\ a[k].index \in 1 .. Len(calls)
                             /\ ~calls[a[k].index].closed /\ calls'[a[k].index].closed
  BY <1>1, <1>4
<1>9. \A c \in 1 .. Len(calls) : /\ calls[c].closed => calls'[c].closed
                                 /\ calls'[c].closed /\ ~calls[c].closed =>
                                       \E k \in 1 .. Len(a) : a[k].index = c
  BY <1>1, <1>4
<1>10. PlacesInv'
  BY <1>1, <1>4, <1>5, <1>6, <1>7, <1>8, <1>9, Closing
<1> QED BY <1>1, <1>2, <1>3, <1>4, <1>10 DEF a

\* The answer finishes: the calls left open are closed, then the reason comes.
LEMMA ChatDelta ==
    ASSUME TypeOK, ChatInv, MessageDelta
    PROVE  ChatInv'
<1>1. PICK r \in {"end_turn", "tool_use", "max_tokens"} :
         Streams /\ SendsReason(r) /\ Chat!OnMessageDelta(r)
  BY DEF MessageDelta
<1>2. /\ stage = "streaming" /\ stage' = "finishing" /\ body = "open" /\ body' = body
      /\ UNCHANGED <<blocks, slip, started, finished>> /\ reason' = r
      /\ calls' = Chat!AllClosed
      /\ chunks' = chunks \o Chat!PendingChunks \o Chat!FinishChunks(r)
  BY <1>1 DEF Streams, SendsReason, Chat!OnMessageDelta
<1> DEFINE tail == Chat!FinishChunks(r)
<1>3. /\ tail \in Seq(ChunkType)
      /\ \A k \in 1 .. Len(tail) : tail[k].type \in Chat!FinishReasons \cup {"usage"}
  <2> DEFINE x == Chat!Plain(Chat!FinishReason(r))
             y == Chat!Plain("usage")
  <2>1. x \in ChunkType /\ x.type \in Chat!FinishReasons
    <3> DEFINE f == Chat!FinishReason(r)
    <3>1. f \in Chat!FinishReasons /\ f \in ChunkTypes
      BY DEF Chat!FinishReason, Chat!FinishReasons, ChunkTypes
    <3> HIDE DEF f
    <3>2. Chat!Plain(f) \in ChunkType /\ Chat!Plain(f).type = f
      BY <3>1, PlainTyped
    <3> QED BY <3>1, <3>2 DEF f
  <2>2. y \in ChunkType /\ y.type = "usage"
    BY PlainTyped DEF ChunkTypes
  <2>3. tail = IF IncludeUsage THEN <<x>> \o <<y>> ELSE <<x>> \o <<>>
    BY DEF Chat!FinishChunks
  <2> HIDE DEF x, y, tail
  <2>4. CASE IncludeUsage
    <3> DEFINE t == <<x>> \o <<y>>
    <3>1. t \in Seq(ChunkType) /\ Len(t) = 2 /\ t[1] = x /\ t[2] = y
      BY <2>1, <2>2
    <3>2. tail = t
      BY <2>3, <2>4
    <3> HIDE DEF t
    <3>3. \A k \in 1 .. Len(tail) : k = 1 \/ k = 2
      <4>1. Len(tail) = 2
        BY <3>1, <3>2
      <4>2. \A k \in 1 .. 2 : k = 1 \/ k = 2
        OBVIOUS
      <4> QED BY <4>1, <4>2
    <3> QED BY <2>1, <2>2, <3>1, <3>2, <3>3
  <2>5. CASE ~IncludeUsage
    <3> DEFINE t == <<x>> \o <<>>
    <3>1. t \in Seq(ChunkType) /\ Len(t) = 1 /\ t[1] = x
      BY <2>1
    <3>2. tail = t
      BY <2>3, <2>5
    <3> HIDE DEF t
    <3>3. \A k \in 1 .. Len(tail) : k = 1
      <4>1. Len(tail) = 1
        BY <3>1, <3>2
      <4>2. \A k \in 1 .. 1 : k = 1
        OBVIOUS
      <4> QED BY <4>1, <4>2
    <3> QED BY <2>1, <3>1, <3>2, <3>3
  <2> QED BY <2>4, <2>5
<1>4. \A k \in 1 .. Len(tail) : tail[k].type \notin {"call", "args", "done"}
  BY <1>3 DEF Chat!FinishReasons
<1>5. chunks' = chunks \o Chat!PendingChunks \o tail
  BY <1>2
<1> HIDE DEF tail
<1>6. \A k \in 1 .. Len(chunks) : chunks[k].type \notin Chat!FinishReasons
  BY <1>2 DEF ChatInv, StageInv
<1>7. /\ PlacesInv' /\ CallsInv' /\ AllDone'
      /\ calls' \in Seq(CallType) /\ Len(calls') = Len(calls)
      /\ \A c \in 1 .. Len(calls) : calls'[c].index = calls[c].index /\ calls'[c].closed
      /\ Chat!PendingChunks \in Seq(ChunkType)
      /\ \A k \in 1 .. Len(Chat!PendingChunks) : Chat!PendingChunks[k].type = "args"
  BY <1>2, <1>3, <1>4, <1>5, <1>6, AllClosing
<1>8. StageInv'
  <2> DEFINE a == Chat!PendingChunks
             t == a \o tail
  <2>1. a \in Seq(ChunkType) /\ \A k \in 1 .. Len(a) : a[k].type = "args"
    BY <1>7
  <2>2. chunks' = chunks \o a \o tail /\ chunks \in Seq(ChunkType)
    BY <1>5 DEF ChatInv, PlacesInv
  <2> HIDE DEF a
  <2>3. chunks' = chunks \o t
    BY <1>3, <2>1, <2>2
  <2>4. t \in Seq(ChunkType) /\ \A k \in 1 .. Len(t) : t[k].type # "done"
    <3>1. /\ t \in Seq(ChunkType)
          /\ \A k \in 1 .. Len(a) : t[k] = a[k]
          /\ \A k \in 1 .. Len(tail) : t[Len(a) + k] = tail[k]
          /\ \A k \in 1 .. Len(t) : \/ k \in 1 .. Len(a)
                                    \/ k - Len(a) \in 1 .. Len(tail) /\ k = Len(a) + (k - Len(a))
      BY <1>3, <2>1, Joined
    <3> HIDE DEF t
    <3>2. ASSUME NEW k \in 1 .. Len(t) PROVE t[k].type # "done"
      <4>1. CASE k \in 1 .. Len(a)
        BY <2>1, <3>1, <4>1
      <4>2. CASE k \notin 1 .. Len(a)
        <5>1. k - Len(a) \in 1 .. Len(tail) /\ t[k] = tail[k - Len(a)]
          BY <3>1, <4>2
        <5> QED BY <1>4, <5>1
      <4> QED BY <4>1, <4>2
    <3> QED BY <3>1, <3>2
  <2> HIDE DEF t
  <2>5. finished = FALSE /\ finished' = FALSE
    BY <1>2 DEF ChatInv, StageInv
  <2> QED BY <1>2, <1>7, <2>3, <2>4, <2>5, StageEnds
<1>9. UpstreamTypes'
  BY <1>2 DEF ChatInv, UpstreamTypes
<1> QED BY <1>2, <1>7, <1>8, <1>9 DEF ChatInv

\* The answer is over: nothing is left open.
LEMMA ChatOver ==
    ASSUME TypeOK, ChatInv, MessageStop
    PROVE  ChatInv'
<1>1. /\ \/ stage = "finishing"
         \/ stage = "streaming" /\ slip = "no_message_delta" /\ ~AnyOpen
      /\ stage' = "stopped" /\ body = "open" /\ body' = body
      /\ UNCHANGED <<blocks, reason, slip, calls, started>> /\ finished' = TRUE
      /\ chunks' = Append(chunks, Chat!Plain("done"))
  BY DEF MessageStop, Streams, SendsStop, Chat!OnMessageStop
<1>2. /\ chunks \in Seq(ChunkType) /\ calls \in Seq(CallType) /\ StageInv
      /\ Newest \in Nat
  BY DEF ChatInv, PlacesInv, UpstreamTypes, Newest
<1>3. AllDone
  <2>1. CASE stage = "finishing"
    BY <1>2, <2>1 DEF StageInv
  <2>2. CASE slip = "no_message_delta" /\ ~AnyOpen
    <3>1. \A i \in 1 .. Newest : ~blocks[i].open
      BY <1>2, <2>2 DEF StageInv, AnyOpen
    <3>2. \A c \in 1 .. Len(calls) : calls[c].index \in 1 .. Newest
      BY Indexed
    <3> QED BY <1>2, <2>2, <3>1, <3>2 DEF StageInv, AllDone
  <2> QED BY <1>1, <2>1, <2>2
<1> DEFINE x == Chat!Plain("done")
           tail == <<x>>
<1>4. x \in ChunkType /\ x.type = "done" /\ x.index = 0
  BY PlainTyped DEF ChunkTypes
<1>5. chunks' = Append(chunks, x)
  BY <1>1
<1> HIDE DEF x
<1>6. /\ tail \in Seq(ChunkType) /\ chunks' = chunks \o tail /\ Len(tail) = 1
      /\ \A k \in 1 .. Len(tail) : tail[k] = x
  BY <1>2, <1>4, <1>5, OneMore
<1> HIDE DEF tail
<1>7. PlacesInv'
  BY <1>1, <1>2, <1>4, <1>6, Saying DEF ChatInv
<1>8. CallsInv'
  BY <1>1, <1>2, CallsKept
<1>9. UpstreamTypes'
  BY <1>1 DEF ChatInv, UpstreamTypes
<1>10. AllDone'
  BY <1>1, <1>3 DEF AllDone
<1>11. StageInv'
  <2>1. finished = FALSE
    BY <1>1, <1>2 DEF StageInv, ChatInv
  <2>2. \A k \in 1 .. Len(tail) : /\ tail[k].type = "done" /\ tail[k].index = 0
                                  /\ tail[k].type \notin Chat!FinishReasons
                                  /\ k = Len(tail)
    BY <1>4, <1>6 DEF Chat!FinishReasons
  <2>3. 1 \in 1 .. Len(tail)
    BY <1>6
  <2>4. \E k \in 1 .. Len(tail) : tail[k].type = "done" /\ tail[k].index = 0
    BY <2>2, <2>3
  <2> QED BY <1>1, <1>6, <1>10, <2>1, <2>2, <2>4, StageEnds
<1> QED BY <1>1, <1>2, <1>7, <1>8, <1>9, <1>11 DEF ChatInv

\* An error ends the answer wherever it is.
LEMMA ChatError ==
    ASSUME TypeOK, ChatInv, Error
    PROVE  ChatInv'
<1>1. /\ stage \in {"silent", "streaming", "finishing"}
      /\ stage' = "failed" /\ body = "open" /\ body' = body
      /\ UNCHANGED <<blocks, reason, slip, calls, started>> /\ finished' = TRUE
      /\ chunks' = chunks \o <<Chat!Plain("error"), Chat!Plain("done")>>
  BY DEF Error, Streams, SendsError, Chat!OnError
<1>2. chunks \in Seq(ChunkType) /\ calls \in Seq(CallType) /\ StageInv
  BY DEF ChatInv, PlacesInv
<1> DEFINE x == Chat!Plain("error")
           y == Chat!Plain("done")
           tail == <<x, y>>
<1>3. x \in ChunkType /\ x.type = "error" /\ x.index = 0
  BY PlainTyped DEF ChunkTypes
<1>4. y \in ChunkType /\ y.type = "done" /\ y.index = 0
  BY PlainTyped DEF ChunkTypes
<1>5. chunks' = chunks \o tail
  BY <1>1
<1> HIDE DEF x, y
<1>6. /\ tail \in Seq(ChunkType) /\ Len(tail) = 2 /\ tail[1] = x /\ tail[2] = y
      /\ \A k \in 1 .. 2 : k = 1 \/ k = 2
  BY <1>3, <1>4
<1> HIDE DEF tail
<1>7. \A k \in 1 .. Len(tail) : /\ tail[k].type \in {"error", "done"}
                                /\ tail[k].type = "done" => k = Len(tail)
  BY <1>3, <1>4, <1>6
<1>8. \A k \in 1 .. Len(tail) : tail[k].type \notin {"call", "args"} \cup Chat!FinishReasons
  BY <1>7 DEF Chat!FinishReasons
<1>9. PlacesInv'
  BY <1>1, <1>2, <1>5, <1>6, <1>8, Saying DEF ChatInv
<1>10. CallsInv'
  BY <1>1, <1>2, CallsKept
<1>11. UpstreamTypes'
  BY <1>1 DEF ChatInv, UpstreamTypes
<1>12. StageInv'
  <2>1. finished = FALSE
    BY <1>1, <1>2 DEF StageInv, ChatInv
  <2>2. 1 \in 1 .. Len(tail) /\ 2 \in 1 .. Len(tail)
    BY <1>6
  <2>3. /\ \E k \in 1 .. Len(tail) : tail[k].type = "done" /\ tail[k].index = 0
        /\ \E k \in 1 .. Len(tail) : tail[k].type = "error" /\ tail[k].index = 0
    BY <1>3, <1>4, <1>6, <2>2
  <2> QED BY <1>1, <1>5, <1>6, <1>7, <1>8, <2>1, <2>3, StageEnds
<1> QED BY <1>1, <1>2, <1>9, <1>10, <1>11, <1>12 DEF ChatInv

\* The body ends: what is open is closed, and the stream is.
LEMMA ChatEnds ==
    ASSUME TypeOK, ChatInv, EndBody
    PROVE  ChatInv'
<1>1. /\ body = "open" /\ body' = "ended"
      /\ UNCHANGED <<blocks, stage, reason, slip, started, finished>>
      /\ IF finished THEN UNCHANGED <<calls, chunks>>
         ELSE /\ calls' = Chat!AllClosed
              /\ chunks' = chunks \o Chat!PendingChunks \o <<Chat!Plain("done")>>
  BY DEF EndBody, Chat!Finish, upstreamVars
<1>2. chunks \in Seq(ChunkType) /\ calls \in Seq(CallType) /\ StageInv
  BY DEF ChatInv, PlacesInv
<1>3. UpstreamTypes'
  BY <1>1 DEF ChatInv, UpstreamTypes
<1>4. CASE finished
  <2>1. UNCHANGED <<calls, chunks>>
    BY <1>1, <1>4
  <2>2. PlacesInv'
    BY <2>1 DEF ChatInv, PlacesInv, IsAt
  <2>3. CallsInv'
    BY <1>1, <1>2, <2>1, CallsKept
  <2>4. StageInv'
    BY <1>1, <1>2, <1>4, <2>1 DEF StageInv, AllDone, IsAt, Newest
  <2> QED BY <1>1, <1>2, <1>3, <2>1, <2>2, <2>3, <2>4 DEF ChatInv
<1>5. CASE ~finished
  <2> DEFINE x == Chat!Plain("done")
             tail == <<x>>
  <2>1. x \in ChunkType /\ x.type = "done" /\ x.index = 0
    BY PlainTyped DEF ChunkTypes
  <2>2. calls' = Chat!AllClosed /\ chunks' = chunks \o Chat!PendingChunks \o tail
    BY <1>1, <1>5
  <2> HIDE DEF x
  <2>3. /\ tail \in Seq(ChunkType) /\ Len(tail) = 1 /\ tail[1] = x
        /\ \A k \in 1 .. Len(tail) : tail[k] = x /\ k = 1
    BY <2>1
  <2> HIDE DEF tail
  <2>4. \A k \in 1 .. Len(tail) : tail[k].type \notin {"call", "args"} \cup Chat!FinishReasons
    BY <2>1, <2>3 DEF Chat!FinishReasons
  <2>5. AllDone \/ \A k \in 1 .. Len(chunks) : chunks[k].type \notin Chat!FinishReasons
    BY <1>2 DEF StageInv
  <2>6. /\ PlacesInv' /\ CallsInv' /\ AllDone'
        /\ calls' \in Seq(CallType) /\ Len(calls') = Len(calls)
        /\ \A c \in 1 .. Len(calls) : calls'[c].index = calls[c].index /\ calls'[c].closed
        /\ Chat!PendingChunks \in Seq(ChunkType)
        /\ \A k \in 1 .. Len(Chat!PendingChunks) : Chat!PendingChunks[k].type = "args"
    BY <1>1, <2>2, <2>3, <2>4, <2>5, AllClosing
  <2>7. StageInv'
    <3> DEFINE a == Chat!PendingChunks
               t == a \o tail
    <3>1. a \in Seq(ChunkType) /\ \A k \in 1 .. Len(a) : a[k].type = "args"
      BY <2>6
    <3>2. chunks' = chunks \o a \o tail
      BY <2>2
    <3> HIDE DEF a
    <3>3. chunks' = chunks \o t
      BY <1>2, <2>3, <3>1, <3>2
    <3>4. /\ t \in Seq(ChunkType) /\ Len(t) = Len(a) + 1 /\ Len(t) > 0
          /\ \A k \in 1 .. Len(a) : t[k] = a[k]
          /\ t[Len(t)] = x /\ Len(t) \in 1 .. Len(t)
          /\ \A k \in 1 .. Len(t) : k \in 1 .. Len(a) \/ k = Len(t)
      <4>1. /\ t \in Seq(ChunkType) /\ Len(t) = Len(a) + Len(tail) /\ Len(a) \in Nat
            /\ \A k \in 1 .. Len(a) : t[k] = a[k]
            /\ \A k \in 1 .. Len(tail) : t[Len(a) + k] = tail[k]
        BY <2>3, <3>1, Joined, ZenonT(40)
      <4> HIDE DEF t
      <4>2. 1 \in 1 .. Len(tail) /\ Len(t) = Len(a) + 1
        BY <2>3, <4>1
      <4>3. t[Len(t)] = x
        BY <2>3, <4>1, <4>2
      <4> QED BY <4>1, <4>2, <4>3
    <3> HIDE DEF t
    <3>5. \A k \in 1 .. Len(t) : /\ t[k].type \notin Chat!FinishReasons
                                 /\ t[k].type = "done" => k = Len(t)
      <4>1. "args" \notin Chat!FinishReasons /\ "done" \notin Chat!FinishReasons
        BY DEF Chat!FinishReasons
      <4> QED BY <2>1, <3>1, <3>4, <4>1
    <3>6. \E k \in 1 .. Len(t) : t[k].type = "done" /\ t[k].index = 0
      BY <2>1, <3>4
    <3>7. stage \notin {"stopped", "failed"}
      BY <1>2, <1>5 DEF StageInv
    <3> QED BY <1>1, <1>5, <2>6, <3>3, <3>4, <3>5, <3>6, <3>7, StageEnds
  <2> QED BY <1>1, <1>2, <1>3, <2>6, <2>7 DEF ChatInv
<1> QED BY <1>4, <1>5

\* In every step, and from the start.
LEMMA ChatKeeps ==
    ASSUME TypeOK, ChatInv, [Next]_vars
    PROVE  ChatInv'
<1>1. CASE BreakBody
  <2>1. UNCHANGED <<upstreamVars, chatVars>> /\ body = "open" /\ body' = "broken"
    BY <1>1 DEF BreakBody
  <2> QED BY <2>1 DEF upstreamVars, chatVars, ChatInv, UpstreamTypes, CallsInv, PlacesInv,
                      StageInv, AllDone, IsAt, Newest
<1>2. CASE NextTurn \/ UNCHANGED vars
  <2>1. UNCHANGED <<upstreamVars, chatVars, body>>
    BY <1>2 DEF NextTurn, vars
  <2> QED BY <2>1 DEF upstreamVars, chatVars, ChatInv, UpstreamTypes, CallsInv, PlacesInv,
                      StageInv, AllDone, IsAt, Newest
<1> QED BY <1>1, <1>2, ChatStart, ChatBlock, ChatText, ChatFragment, ChatStop, ChatDelta,
           ChatOver, ChatError, ChatEnds DEF Next

\* The chat translator's invariant holds at the start.
LEMMA ChatBegins == Init => ChatInv
<1> SUFFICES ASSUME Init PROVE ChatInv
  OBVIOUS
<1>1. /\ blocks = <<>> /\ calls = <<>> /\ chunks = <<>> /\ stage = "silent"
      /\ finished = FALSE /\ body = "open"
  BY DEF Init, UpstreamInit, Chat!ChatInit, Responses!ResponsesInit
<1>2. chunks \in Seq(ChunkType) /\ 1 .. Len(chunks) = {} /\ 1 .. Len(calls) = {}
      /\ DOMAIN calls = {} /\ 1 .. Newest = {}
  BY <1>1 DEF Newest
<1>3. CallsInv /\ PlacesInv
  BY <1>2 DEF CallsInv, PlacesInv
<1>4. StageInv
  BY <1>1, <1>2 DEF StageInv, AllDone
<1>5. UpstreamTypes /\ calls \in Seq(CallType) /\ started \in BOOLEAN
  BY TypeInit, TypesAre DEF UpstreamTypes
<1> QED BY <1>1, <1>3, <1>4, <1>5 DEF ChatInv

-----------------------------------------------------------------------------
(* What a client knows *)

\* A client learns from one more event.
LEMMA Learns ==
    ASSUME NEW S, NEW s \in Seq(S), NEW e \in S
    PROVE  Protocol!Client(Append(s, e)) = Protocol!After(Protocol!Client(s), e)
<1>1. \A t : Protocol!Client(t) = Learning!Fold(t)
  BY DEF Protocol!Client, Protocol!FoldLeft, Protocol!MapThenFoldSet, Protocol!Max,
         Learning!Fold, Learning!MapThenFoldSet, Learning!Greatest
<1>2. Learning!Induction
  BY NatSet DEF Learning!Induction
<1> QED BY <1>1, <1>2, Learning!FoldMore

\* Before any event it knows nothing.
LEMMA Learnt == Protocol!Client(<<>>) = Protocol!Unaware
<1>1. Protocol!Client(<<>>) = Learning!Fold(<<>>)
  BY DEF Protocol!Client, Protocol!FoldLeft, Protocol!MapThenFoldSet, Protocol!Max,
         Learning!Fold, Learning!MapThenFoldSet, Learning!Greatest
<1>2. Learning!Induction
  BY NatSet DEF Learning!Induction
<1> QED BY <1>1, <1>2, Learning!FoldNone

Knows(phase, kind, value, step, items) ==
    [phase |-> phase, kind |-> kind, value |-> value, step |-> step, items |-> items]

\* What each event tells it.
LEMMA AfterIs ==
    ASSUME NEW phase, NEW kind, NEW value, NEW step, NEW items, NEW at, NEW x
    PROVE  LET c == Knows(phase, kind, value, step, items)
           IN  /\ Protocol!After(c, Responses!Event("created", at, x)) =
                     Knows("created", kind, value, step, items)
               /\ Protocol!After(c, Responses!Event("in_progress", at, x)) =
                     Knows("streaming", kind, value, step, items)
               /\ Protocol!After(c, Responses!Event("item_added", at, x)) =
                     Knows(phase, x[1].kind, <<>>, "added", items)
               /\ Protocol!After(c, Responses!Event("part_added", at, x)) =
                     Knows(phase, kind, value, "part", items)
               /\ \A t \in {"text_delta", "args_delta"} :
                     Protocol!After(c, Responses!Event(t, at, x)) =
                        Knows(phase, kind, value \o x, step, items)
               /\ \A t \in {"text_done", "args_done"} :
                     Protocol!After(c, Responses!Event(t, at, x)) =
                        Knows(phase, kind, x, "whole", items)
               /\ Protocol!After(c, Responses!Event("part_done", at, x)) =
                     Knows(phase, kind, value, "closed", items)
               /\ Protocol!After(c, Responses!Event("item_done", at, x)) =
                     Knows(phase, "none", value, "none", items \o x)
<1> DEFINE c == Knows(phase, kind, value, step, items)
<1>1. /\ [c EXCEPT !.phase = "created"] = Knows("created", kind, value, step, items)
      /\ [c EXCEPT !.phase = "streaming"] = Knows("streaming", kind, value, step, items)
      /\ [c EXCEPT !.step = "part"] = Knows(phase, kind, value, "part", items)
      /\ [c EXCEPT !.step = "closed"] = Knows(phase, kind, value, "closed", items)
  BY DEF Knows
<1>a. [c EXCEPT !.value = @ \o x] = Knows(phase, kind, value \o x, step, items)
  BY DEF Knows
<1>b. ASSUME NEW k
      PROVE  [c EXCEPT !.kind = k, !.value = <<>>, !.step = "added"] =
                Knows(phase, k, <<>>, "added", items)
  <2>1. [c EXCEPT !.kind = k] = Knows(phase, k, value, step, items)
    BY DEF Knows
  <2>2. [Knows(phase, k, value, step, items) EXCEPT !.value = <<>>] =
           Knows(phase, k, <<>>, step, items)
    BY DEF Knows
  <2>3. [Knows(phase, k, <<>>, step, items) EXCEPT !.step = "added"] =
           Knows(phase, k, <<>>, "added", items)
    BY DEF Knows
  <2> HIDE DEF c
  <2>4. [c EXCEPT !.kind = k, !.value = <<>>, !.step = "added"] =
           [[[c EXCEPT !.kind = k] EXCEPT !.value = <<>>] EXCEPT !.step = "added"]
    OBVIOUS
  <2> QED BY <2>1, <2>2, <2>3, <2>4, Zenon DEF c
<1>c. ASSUME NEW j
      PROVE  [c EXCEPT !.kind = "none", !.step = "none", !.items = j] =
                Knows(phase, "none", value, "none", j)
  <2>1. [c EXCEPT !.kind = "none"] = Knows(phase, "none", value, step, items)
    BY DEF Knows
  <2>2. [Knows(phase, "none", value, step, items) EXCEPT !.step = "none"] =
           Knows(phase, "none", value, "none", items)
    BY DEF Knows
  <2>3. [Knows(phase, "none", value, "none", items) EXCEPT !.items = j] =
           Knows(phase, "none", value, "none", j)
    BY DEF Knows
  <2> HIDE DEF c
  <2>4. [c EXCEPT !.kind = "none", !.step = "none", !.items = j] =
           [[[c EXCEPT !.kind = "none"] EXCEPT !.step = "none"] EXCEPT !.items = j]
    OBVIOUS
  <2> QED BY <2>1, <2>2, <2>3, <2>4, Zenon DEF c
<1>e. [c EXCEPT !.value = x, !.step = "whole"] = Knows(phase, kind, x, "whole", items)
  <2>1. [c EXCEPT !.value = x] = Knows(phase, kind, x, step, items)
    BY DEF Knows
  <2>2. [Knows(phase, kind, x, step, items) EXCEPT !.step = "whole"] =
           Knows(phase, kind, x, "whole", items)
    BY DEF Knows
  <2> HIDE DEF c
  <2>3. [c EXCEPT !.value = x, !.step = "whole"] =
           [[c EXCEPT !.value = x] EXCEPT !.step = "whole"]
    OBVIOUS
  <2> QED BY <2>1, <2>2, <2>3, Zenon DEF c
<1>d. c.items = items
  BY DEF Knows
<1>2. \A t : Responses!Event(t, at, x).type = t /\ Responses!Event(t, at, x).value = x
  BY DEF Responses!Event
<1> HIDE DEF c
<1>3. /\ Protocol!After(c, Responses!Event("created", at, x)) = [c EXCEPT !.phase = "created"]
      /\ Protocol!After(c, Responses!Event("in_progress", at, x)) = [c EXCEPT !.phase = "streaming"]
  BY <1>2 DEF Protocol!After
<1>4. Protocol!After(c, Responses!Event("item_added", at, x)) =
         Knows(phase, x[1].kind, <<>>, "added", items)
  <2> DEFINE e == Responses!Event("item_added", at, x)
             k == e.value[1].kind
  <2>1. e.type = "item_added" /\ k = x[1].kind
    BY <1>2
  <2> HIDE DEF e
  <2>2. Protocol!After(c, e) = [c EXCEPT !.kind = k, !.value = <<>>, !.step = "added"]
    BY <2>1, Zenon DEF Protocol!After
  <2> HIDE DEF k
  <2>3. Protocol!After(c, e) = Knows(phase, k, <<>>, "added", items)
    BY <1>b, <2>2
  <2> QED BY <2>1, <2>3 DEF e
<1>5. Protocol!After(c, Responses!Event("part_added", at, x)) = [c EXCEPT !.step = "part"]
  BY <1>2 DEF Protocol!After
<1>6. \A t \in {"text_delta", "args_delta"} :
         Protocol!After(c, Responses!Event(t, at, x)) = [c EXCEPT !.value = @ \o x]
  BY <1>2 DEF Protocol!After
<1>7. \A t \in {"text_done", "args_done"} :
         Protocol!After(c, Responses!Event(t, at, x)) = [c EXCEPT !.value = x, !.step = "whole"]
  BY <1>2 DEF Protocol!After
<1>8. Protocol!After(c, Responses!Event("part_done", at, x)) = [c EXCEPT !.step = "closed"]
  BY <1>2 DEF Protocol!After
<1>9. Protocol!After(c, Responses!Event("item_done", at, x)) =
         Knows(phase, "none", value, "none", items \o x)
  <2> DEFINE e == Responses!Event("item_done", at, x)
             j == c.items \o e.value
  <2>1. e.type = "item_done" /\ j = items \o x
    BY <1>2, <1>d
  <2> HIDE DEF e
  <2>2. Protocol!After(c, e) = [c EXCEPT !.kind = "none", !.step = "none", !.items = j]
    BY <2>1, Zenon DEF Protocol!After
  <2> HIDE DEF j
  <2>3. Protocol!After(c, e) = Knows(phase, "none", value, "none", j)
    BY <1>c, <2>2
  <2> QED BY <2>1, <2>3 DEF e
<1> QED BY <1>1, <1>a, <1>e, <1>3, <1>4, <1>5, <1>6, <1>7, <1>8, <1>9 DEF c

\* What it may be told.
LEMMA LawfulIs ==
    ASSUME NEW kind, NEW value, NEW step, NEW items, NEW x
    PROVE  LET c == Knows("streaming", kind, value, step, items)
               n == Len(items)
           IN  /\ kind = "none" => Protocol!Lawful(c, Responses!Event("item_added", n, x))
               /\ kind = "message" /\ step = "added" =>
                     Protocol!Lawful(c, Responses!Event("part_added", n, x))
               /\ kind = "message" /\ step = "part" =>
                     Protocol!Lawful(c, Responses!Event("text_delta", n, x))
               /\ kind = "function_call" /\ step = "added" =>
                     Protocol!Lawful(c, Responses!Event("args_delta", n, x))
               /\ kind = "message" /\ step = "part" /\ x = value =>
                     Protocol!Lawful(c, Responses!Event("text_done", n, x))
               /\ kind = "message" /\ step = "whole" /\ x = value =>
                     Protocol!Lawful(c, Responses!Event("part_done", n, x))
               /\ kind = "function_call" /\ step = "added" /\ x \in Objects
                  /\ (value \in Objects => x = value) =>
                     Protocol!Lawful(c, Responses!Event("args_done", n, x))
               /\ Protocol!LawfulDone(c, x[1]) =>
                     Protocol!Lawful(c, Responses!Event("item_done", n, x))
<1> DEFINE c == Knows("streaming", kind, value, step, items)
           n == Len(items)
<1>1. /\ c.phase = "streaming" /\ c.kind = kind /\ c.value = value /\ c.step = step
      /\ c.items = items
  BY DEF Knows
<1>2. \A t : /\ Responses!Event(t, n, x).type = t /\ Responses!Event(t, n, x).value = x
             /\ Responses!Event(t, n, x).at = n
  BY DEF Responses!Event
<1>3. \A t : Protocol!Current(c, Responses!Event(t, n, x))
  BY <1>1, <1>2 DEF Protocol!Current
<1> HIDE DEF c, n
<1>4. /\ kind = "none" => Protocol!Lawful(c, Responses!Event("item_added", n, x))
      /\ kind = "message" /\ step = "added" =>
            Protocol!Lawful(c, Responses!Event("part_added", n, x))
  BY <1>1, <1>2, <1>3 DEF Protocol!Lawful
<1>5. /\ kind = "message" /\ step = "part" =>
            Protocol!Lawful(c, Responses!Event("text_delta", n, x))
      /\ kind = "function_call" /\ step = "added" =>
            Protocol!Lawful(c, Responses!Event("args_delta", n, x))
  BY <1>1, <1>2, <1>3 DEF Protocol!Lawful
<1>6. /\ kind = "message" /\ step = "part" /\ x = value =>
            Protocol!Lawful(c, Responses!Event("text_done", n, x))
      /\ kind = "message" /\ step = "whole" /\ x = value =>
            Protocol!Lawful(c, Responses!Event("part_done", n, x))
  BY <1>1, <1>2, <1>3 DEF Protocol!Lawful, Protocol!Repeats
<1>7. kind = "function_call" /\ step = "added" /\ x \in Objects
      /\ (value \in Objects => x = value) =>
         Protocol!Lawful(c, Responses!Event("args_done", n, x))
  <2> HAVE /\ kind = "function_call" /\ step = "added" /\ x \in Objects
           /\ (value \in Objects => x = value)
  <2>1. Protocol!Repeats(c, x)
    BY <1>1, Same DEF Protocol!Repeats
  <2> QED BY <1>1, <1>2, <1>3, <2>1 DEF Protocol!Lawful
<1>8. Protocol!LawfulDone(c, x[1]) => Protocol!Lawful(c, Responses!Event("item_done", n, x))
  BY <1>1, <1>2, <1>3 DEF Protocol!Lawful
<1> QED BY <1>4, <1>5, <1>6, <1>7, <1>8 DEF c, n

-----------------------------------------------------------------------------
(* What the Responses translator says *)

ItemType == [kind: {"message", "function_call"}, call: Nat, value: Texts,
             status: {"in_progress", "completed", "incomplete"}]
EventTypes == {"created", "in_progress", "item_added", "part_added", "text_delta", "args_delta",
               "text_done", "args_done", "part_done", "item_done", "completed", "incomplete",
               "failed"}
EventValues == Texts \cup Seq(ItemType)
EventType == [type: EventTypes, at: Nat, value: EventValues]

\* An event of the Responses protocol has its type.
LEMMA EventTyped ==
    ASSUME NEW type \in EventTypes, NEW at \in Nat, NEW value \in EventValues
    PROVE  /\ Responses!Event(type, at, value) \in EventType
           /\ Responses!Event(type, at, value).type = type
BY DEF Responses!Event, EventType

\* After s, everything in t is lawful.
Speaks(s, t) ==
    /\ s \in Seq(EventType) /\ t \in Seq(EventType)
    /\ Len(t) >= Len(s) /\ SubSeq(t, 1, Len(s)) = s
    /\ \A n \in Len(s) + 1 .. Len(t) :
          Protocol!Lawful(Protocol!Client(SubSeq(t, 1, n - 1)), t[n])

\* Nothing said is lawful.
LEMMA SpeaksNot == ASSUME NEW s \in Seq(EventType) PROVE Speaks(s, s)
<1>1. SubSeq(s, 1, Len(s)) = s /\ Len(s) \in Nat
  OBVIOUS
<1>2. Len(s) + 1 .. Len(s) = {}
  BY <1>1
<1> QED BY <1>1, <1>2 DEF Speaks

\* One event more.
LEMMA SpeaksOn ==
    ASSUME NEW s, NEW t, Speaks(s, t), NEW e \in EventType,
           Protocol!Lawful(Protocol!Client(t), e)
    PROVE  /\ Speaks(s, Append(t, e))
           /\ Protocol!Client(Append(t, e)) = Protocol!After(Protocol!Client(t), e)
           /\ Append(t, e)[Len(Append(t, e))] = e /\ Append(t, e) # <<>>
<1> DEFINE u == Append(t, e)
           m == Len(t)
<1>1. /\ s \in Seq(EventType) /\ t \in Seq(EventType) /\ Len(s) \in Nat /\ m \in Nat
      /\ m >= Len(s) /\ SubSeq(t, 1, Len(s)) = s
  BY DEF Speaks
<1>2. /\ u \in Seq(EventType) /\ Len(u) = m + 1 /\ u[m + 1] = e
      /\ \A k \in 1 .. m : u[k] = t[k]
  BY <1>1
<1>3. ASSUME NEW n \in 0 .. m PROVE SubSeq(u, 1, n) = SubSeq(t, 1, n)
  BY <1>1, <1>2
<1>4. SubSeq(u, 1, m) = t
  BY <1>1, <1>3
<1>5. Protocol!Client(u) = Protocol!After(Protocol!Client(t), e)
  BY <1>1, Learns
<1> HIDE DEF u
<1>6. ASSUME NEW n \in Len(s) + 1 .. Len(u)
      PROVE  Protocol!Lawful(Protocol!Client(SubSeq(u, 1, n - 1)), u[n])
  <2>1. CASE n = m + 1
    <3>1. n - 1 = m
      BY <1>1, <2>1
    <3> QED BY <1>2, <1>4, <2>1, <3>1
  <2>2. CASE n # m + 1
    <3>1. n \in Len(s) + 1 .. m /\ n \in 1 .. m /\ n - 1 \in 0 .. m
      BY <1>1, <1>2, <2>2
    <3>2. SubSeq(u, 1, n - 1) = SubSeq(t, 1, n - 1) /\ u[n] = t[n]
      BY <1>2, <1>3, <3>1
    <3> QED BY <3>1, <3>2 DEF Speaks
  <2> QED BY <2>1, <2>2
<1>7. SubSeq(u, 1, Len(s)) = s /\ Len(u) >= Len(s)
  <2>1. Len(s) \in 0 .. m
    BY <1>1
  <2> QED BY <1>1, <1>2, <1>3, <2>1
<1>8. Speaks(s, u)
  BY <1>1, <1>2, <1>6, <1>7 DEF Speaks
<1> QED BY <1>1, <1>2, <1>5, <1>8 DEF u

\* Lawful events are a step of the protocol, or none.
LEMMA Spoken ==
    ASSUME Speaks(events, events')
    PROVE  [Protocol!Next]_events
<1>1. /\ events \in Seq(EventType) /\ events' \in Seq(EventType)
      /\ Len(events') >= Len(events) /\ SubSeq(events', 1, Len(events)) = events
  BY DEF Speaks
<1>2. CASE Len(events') = Len(events)
  <2>1. SubSeq(events', 1, Len(events')) = events'
    BY <1>1
  <2> QED BY <1>1, <1>2, <2>1
<1>3. CASE Len(events') # Len(events)
  <2>1. Len(events') > Len(events)
    BY <1>1, <1>3
  <2> QED BY <1>1, <2>1 DEF Speaks, Protocol!Next
<1> QED BY <1>2, <1>3

\* What the client of a response under way knows: the items done, and the item
\* that is open.
Follows(c, items, item) ==
    IF item = <<>> THEN \E v : c = Knows("streaming", "none", v, "none", items)
    ELSE c = Knows("streaming", item[1].kind, item[1].value,
                   IF item[1].kind = "message" THEN "part" ELSE "added", items)

DoneType == [kind: {"message", "function_call"}, call: Nat, value: Texts, status: {"completed"}]

\* What a client has learnt of an item when the item is done.
LEMMA DoneIs ==
    ASSUME NEW item \in OpenType, NEW status \in {"completed", "incomplete"}
    PROVE  LET done == Responses!Done(item, status)
           IN  /\ done \in ItemType
               /\ status = "completed" => done \in DoneType
               /\ done.kind = item.kind /\ done.status = status
               /\ item.kind = "message" => done.value = item.value
               /\ item.kind = "function_call" =>
                     done.value \in Objects
                     /\ (item.value \in Objects => done.value = item.value)
<1>1. /\ item.kind \in {"message", "function_call"} /\ item.value \in Texts
      /\ item.index \in Nat /\ item.start \in Objects
  BY TextsAre DEF OpenType, Index
<1>2. CASE item.kind = "message"
  <2>1. Responses!Done(item, status) =
           [kind |-> "message", call |-> 0, value |-> item.value, status |-> status]
    BY <1>2 DEF Responses!Done, Responses!Item
  <2> DEFINE v == item.value
  <2>2. v \in Texts
    BY <1>1
  <2> HIDE DEF v
  <2>3. [kind |-> "message", call |-> 0, value |-> v, status |-> status] \in ItemType
    BY <2>2 DEF ItemType
  <2>4. status = "completed" =>
           [kind |-> "message", call |-> 0, value |-> v, status |-> status] \in DoneType
    BY <2>2 DEF DoneType
  <2> QED BY <1>2, <2>1, <2>3, <2>4 DEF v
<1>3. CASE item.kind = "function_call"
  <2> DEFINE v == Responses!ResolveArguments(item.value, item.start)
             i == item.index
  <2>1. Responses!Done(item, status) =
           [kind |-> "function_call", call |-> i, value |-> v, status |-> status]
    BY <1>3 DEF Responses!Done, Responses!Item
  <2>2. v \in Objects /\ i \in Nat
    BY <1>1, Resolved
  <2>3. v \in Texts
    BY <2>2, TextsAre
  <2>a. item.value \in Objects => v = item.value
    BY Same DEF Responses!ResolveArguments
  <2> HIDE DEF v, i
  <2>4. [kind |-> "function_call", call |-> i, value |-> v, status |-> status] \in ItemType
    BY <2>2, <2>3 DEF ItemType
  <2>5. status = "completed" =>
           [kind |-> "function_call", call |-> i, value |-> v, status |-> status] \in DoneType
    BY <2>2, <2>3 DEF DoneType
  <2> QED BY <1>3, <2>1, <2>2, <2>4, <2>5, <2>a
<1> QED BY <1>1, <1>2, <1>3

\* A sequence with two elements added.
LEMMA TwoMore ==
    ASSUME NEW S, NEW s \in Seq(S), NEW d \in S, NEW e \in S
    PROVE  s \o <<d, e>> = Append(Append(s, d), e)
OBVIOUS

\* An item alone, in a sequence or in an event.
LEMMA Alone ==
    ASSUME NEW item \in ItemType
    PROVE  <<item>> \in EventValues /\ <<item>>[1] = item
BY DEF EventValues

\* Event e is said after t, and the client knows c then.
Says(s, t, e, c) ==
    Speaks(s, Append(t, e)) /\ e \in EventType /\ Protocol!Client(Append(t, e)) = c

\* close_item and close_open_item_incomplete: the item is done as it was
\* streamed.
LEMMA ItemDone ==
    ASSUME NEW s, NEW t, Speaks(s, t), NEW items \in Seq(ItemType),
           NEW kind, NEW value, NEW step, NEW item \in ItemType,
           Protocol!Client(t) = Knows("streaming", kind, value, step, items),
           Protocol!LawfulDone(Knows("streaming", kind, value, step, items), item),
           NEW e, e = Responses!Event("item_done", Len(items), <<item>>),
           NEW more, more = Append(items, item)
    PROVE  Says(s, t, e, Knows("streaming", "none", value, "none", more))
<1> DEFINE x == <<item>>
           n == Len(items)
           c == Knows("streaming", kind, value, step, items)
<1>1. x \in EventValues /\ x[1] = item /\ items \o x = more /\ n \in Nat
  BY Alone
<1>a. e = Responses!Event("item_done", n, x)
  OBVIOUS
<1>3. Protocol!LawfulDone(c, x[1])
  BY <1>1
<1> HIDE DEF x, c
<1>4. e \in EventType
  BY <1>1, <1>a, EventTyped DEF EventTypes
<1>5. Protocol!Lawful(c, e)
  BY <1>3, <1>a, LawfulIs DEF c
<1>6. Protocol!After(c, e) = Knows("streaming", "none", value, "none", items \o x)
  BY <1>a, AfterIs DEF c
<1>7. Protocol!Client(t) = c
  BY DEF c
<1>8. Speaks(s, Append(t, e)) /\ Protocol!Client(Append(t, e)) = Protocol!After(c, e)
  BY <1>4, <1>5, <1>7, SpeaksOn
<1> QED BY <1>1, <1>4, <1>6, <1>8 DEF Says

\* close_item, for a message and for a call.
LEMMA MessageDone ==
    ASSUME NEW s, NEW t, Speaks(s, t), NEW items \in Seq(ItemType), NEW item \in ItemType,
           item.kind = "message", item.status = "completed",
           Protocol!Client(t) = Knows("streaming", "message", item.value, "part", items)
    PROVE  LET more == <<Responses!Event("text_done", Len(items), item.value),
                         Responses!Event("part_done", Len(items), item.value)>>
                       \o <<Responses!Event("item_done", Len(items), <<item>>)>>
           IN  /\ Speaks(s, t \o more)
               /\ \E v : Protocol!Client(t \o more) =
                            Knows("streaming", "none", v, "none", Append(items, item))
<1> DEFINE n == Len(items)
           v == item.value
           a == Responses!Event("text_done", n, v)
           b == Responses!Event("part_done", n, v)
           d == Responses!Event("item_done", n, <<item>>)
           ta == Append(t, a)
           tb == Append(ta, b)
           more == <<a, b>> \o <<d>>
<1>1. t \in Seq(EventType) /\ n \in Nat /\ v \in EventValues
  BY DEF Speaks, ItemType, EventValues
<1> HIDE DEF v, more
<1>2. a \in EventType /\ b \in EventType
  BY <1>1, EventTyped DEF EventTypes
<1>3. Protocol!Client(t) = Knows("streaming", "message", v, "part", items)
  BY DEF v
<1>4. /\ Protocol!Lawful(Protocol!Client(t), a)
      /\ Protocol!After(Protocol!Client(t), a) = Knows("streaming", "message", v, "whole", items)
  BY <1>3, LawfulIs, AfterIs
<1> HIDE DEF a
<1>5. Speaks(s, ta) /\ Protocol!Client(ta) = Knows("streaming", "message", v, "whole", items)
  BY <1>2, <1>4, SpeaksOn
<1>6. /\ Protocol!Lawful(Protocol!Client(ta), b)
      /\ Protocol!After(Protocol!Client(ta), b) = Knows("streaming", "message", v, "closed", items)
  BY <1>5, LawfulIs, AfterIs
<1> HIDE DEF ta, b
<1>7. Speaks(s, tb) /\ Protocol!Client(tb) = Knows("streaming", "message", v, "closed", items)
  BY <1>2, <1>5, <1>6, SpeaksOn
<1> HIDE DEF tb, d
<1>8. Protocol!LawfulDone(Knows("streaming", "message", v, "closed", items), item)
  <2> DEFINE k == Knows("streaming", "message", v, "closed", items)
  <2>1. k.kind = "message" /\ k.value = v /\ k.step = "closed"
    BY DEF Knows
  <2> HIDE DEF k
  <2> QED BY <2>1 DEF Protocol!LawfulDone, Protocol!Repeats, v, k
<1>9. /\ Speaks(s, Append(tb, d)) /\ d \in EventType
      /\ Protocol!Client(Append(tb, d)) =
            Knows("streaming", "none", v, "none", Append(items, item))
  <2>1. d = Responses!Event("item_done", Len(items), <<item>>)
    BY DEF d
  <2> DEFINE more1 == Append(items, item)
  <2>2. more1 = Append(items, item)
    OBVIOUS
  <2> HIDE DEF more1
  <2>3. Says(s, tb, d, Knows("streaming", "none", v, "none", more1))
    BY <1>7, <1>8, <2>1, <2>2, ItemDone
  <2> QED BY <2>3 DEF more1, Says
<1>10. t \o more = Append(tb, d)
  <2>1. more = <<a, b>> \o <<d>>
    BY DEF more
  <2>2. t \o (<<a, b>> \o <<d>>) = Append(Append(Append(t, a), b), d)
    BY <1>1, <1>2, <1>9
  <2> QED BY <2>1, <2>2 DEF ta, tb
<1> QED BY <1>9, <1>10 DEF more, a, b, d, v

\* close_item of a call: its arguments are done, then the item is.
LEMMA CallDone ==
    ASSUME NEW s, NEW t, Speaks(s, t), NEW items \in Seq(ItemType), NEW item \in ItemType,
           item.kind = "function_call", item.status = "completed", item.value \in Objects,
           NEW so, Protocol!Client(t) = Knows("streaming", "function_call", so, "added", items),
           so \in Objects => item.value = so
    PROVE  LET more == <<Responses!Event("args_done", Len(items), item.value)>>
                       \o <<Responses!Event("item_done", Len(items), <<item>>)>>
           IN  /\ Speaks(s, t \o more)
               /\ \E v : Protocol!Client(t \o more) =
                            Knows("streaming", "none", v, "none", Append(items, item))
<1> DEFINE n == Len(items)
           v == item.value
           a == Responses!Event("args_done", n, v)
           d == Responses!Event("item_done", n, <<item>>)
           ta == Append(t, a)
           more == <<a>> \o <<d>>
<1>1. t \in Seq(EventType) /\ n \in Nat /\ v \in EventValues /\ v \in Objects
      /\ (so \in Objects => v = so)
  BY DEF Speaks, ItemType, EventValues
<1> HIDE DEF v, more
<1>2. a \in EventType
  BY <1>1, EventTyped DEF EventTypes
<1>3. /\ Protocol!Lawful(Protocol!Client(t), a)
      /\ Protocol!After(Protocol!Client(t), a) =
            Knows("streaming", "function_call", v, "whole", items)
  BY <1>1, LawfulIs, AfterIs
<1> HIDE DEF a
<1>4. Speaks(s, ta) /\ Protocol!Client(ta) = Knows("streaming", "function_call", v, "whole", items)
  BY <1>2, <1>3, SpeaksOn
<1> HIDE DEF ta, d
<1>5. Protocol!LawfulDone(Knows("streaming", "function_call", v, "whole", items), item)
  <2> DEFINE k == Knows("streaming", "function_call", v, "whole", items)
  <2>1. k.kind = "function_call" /\ k.value = v /\ k.step = "whole"
    BY DEF Knows
  <2> HIDE DEF k
  <2> QED BY <2>1, Same DEF Protocol!LawfulDone, Protocol!Repeats, v, k
<1>6. /\ Speaks(s, Append(ta, d)) /\ d \in EventType
      /\ Protocol!Client(Append(ta, d)) =
            Knows("streaming", "none", v, "none", Append(items, item))
  <2>1. d = Responses!Event("item_done", Len(items), <<item>>)
    BY DEF d
  <2> DEFINE more1 == Append(items, item)
  <2>2. more1 = Append(items, item)
    OBVIOUS
  <2> HIDE DEF more1
  <2>3. Says(s, ta, d, Knows("streaming", "none", v, "none", more1))
    BY <1>4, <1>5, <2>1, <2>2, ItemDone
  <2> QED BY <2>3 DEF more1, Says
<1>7. t \o more = Append(ta, d)
  <2>1. more = <<a>> \o <<d>>
    BY DEF more
  <2>2. t \o (<<a>> \o <<d>>) = Append(Append(t, a), d)
    BY <1>1, <1>2, <1>6
  <2> QED BY <2>1, <2>2 DEF ta
<1> QED BY <1>6, <1>7 DEF more, a, d, v

\* close_item.
LEMMA Closes ==
    ASSUME NEW s, NEW t, Speaks(s, t), open \in Seq(OpenType), Len(open) <= 1,
           closed \in Seq(DoneType), Follows(Protocol!Client(t), closed, open)
    PROVE  /\ Speaks(s, t \o Responses!ClosingEvents)
           /\ Follows(Protocol!Client(t \o Responses!ClosingEvents), Responses!Closed, <<>>)
           /\ Responses!Closed \in Seq(DoneType)
<1>1. t \in Seq(EventType)
  BY DEF Speaks
<1>2. CASE open = <<>>
  <2>1. Responses!ClosingEvents = <<>> /\ Responses!Closed = closed
    BY <1>2 DEF Responses!ClosingEvents, Responses!Closed
  <2>2. t \o Responses!ClosingEvents = t
    BY <1>1, <2>1
  <2> QED BY <1>2, <2>1, <2>2
<1>3. CASE open # <<>>
  <2> DEFINE o == open[1]
             item == Responses!Done(o, "completed")
             items == closed
             c == Protocol!Client(t)
             f == Responses!Closed
             more == Responses!ClosingEvents
  <2>1. o \in OpenType
    BY <1>3
  <2>2. /\ item \in ItemType /\ item \in DoneType /\ item.kind = o.kind
        /\ item.status = "completed"
        /\ o.kind = "message" => item.value = o.value
        /\ o.kind = "function_call" =>
              item.value \in Objects /\ (o.value \in Objects => item.value = o.value)
        /\ o.kind \in {"message", "function_call"}
    BY <2>1, DoneIs DEF OpenType
  <2>3. c = Knows("streaming", o.kind, o.value, IF o.kind = "message" THEN "part" ELSE "added",
                  items)
    BY <1>3 DEF Follows
  <2>4. f = Append(items, item) /\ items \in Seq(DoneType)
    BY <1>3 DEF Responses!Closed
  <2>5. more = (IF item.kind = "message"
                THEN <<Responses!Event("text_done", Len(items), item.value),
                       Responses!Event("part_done", Len(items), item.value)>>
                ELSE <<Responses!Event("args_done", Len(items), item.value)>>)
               \o <<Responses!Event("item_done", Len(items), <<item>>)>>
    BY <1>3 DEF Responses!ClosingEvents, Responses!Here
  <2>6. items \in Seq(ItemType)
    <3>1. DoneType \subseteq ItemType
      BY DEF DoneType, ItemType
    <3> QED BY <2>4, <3>1
  <2>7. f \in Seq(DoneType)
    BY <2>2, <2>4
  <2> HIDE DEF o, item, c, f, more, items
  <2>8. CASE o.kind = "message"
    <3>1. c = Knows("streaming", "message", item.value, "part", items)
      BY <2>2, <2>3, <2>8
    <3>2. more = <<Responses!Event("text_done", Len(items), item.value),
                   Responses!Event("part_done", Len(items), item.value)>>
                 \o <<Responses!Event("item_done", Len(items), <<item>>)>>
      BY <2>2, <2>5, <2>8
    <3>3. item.kind = "message"
      BY <2>2, <2>8
    <3>4. /\ Speaks(s, t \o more)
          /\ \E v : Protocol!Client(t \o more) = Knows("streaming", "none", v, "none", f)
      BY <2>2, <2>4, <2>6, <3>1, <3>2, <3>3, MessageDone DEF c
    <3> QED BY <2>7, <3>4 DEF Follows, f, more
  <2>9. CASE o.kind = "function_call"
    <3>1. c = Knows("streaming", "function_call", o.value, "added", items)
      BY <2>3, <2>9
    <3>2. more = <<Responses!Event("args_done", Len(items), item.value)>>
                 \o <<Responses!Event("item_done", Len(items), <<item>>)>>
      BY <2>2, <2>5, <2>9
    <3>3. item.kind = "function_call" /\ item.value \in Objects
          /\ (o.value \in Objects => item.value = o.value)
      BY <2>2, <2>9
    <3>4. /\ Speaks(s, t \o more)
          /\ \E v : Protocol!Client(t \o more) = Knows("streaming", "none", v, "none", f)
      BY <2>2, <2>4, <2>6, <3>1, <3>2, <3>3, CallDone, ZenonT(40) DEF c
    <3> QED BY <2>7, <3>4 DEF Follows, f, more
  <2> QED BY <2>2, <2>8, <2>9
<1> QED BY <1>2, <1>3

\* open_message and open_function_call.
LEMMA Opens ==
    ASSUME NEW s, NEW t, Speaks(s, t), NEW items \in Seq(DoneType),
           NEW kind \in {"message", "function_call"}, NEW i \in Index, NEW start,
           Follows(Protocol!Client(t), items, <<>>)
    PROVE  LET u == t \o Responses!OpeningEvents(kind, i, Len(items))
           IN  /\ Speaks(s, u)
               /\ Follows(Protocol!Client(u), items, Responses!Opened(kind, i, <<>>, start))
<1>1. PICK v : Protocol!Client(t) = Knows("streaming", "none", v, "none", items)
  BY DEF Follows
<1>2. t \in Seq(EventType) /\ Len(items) \in Nat /\ i \in Nat
  BY DEF Speaks, Index
<1> DEFINE call == IF kind = "message" THEN 0 ELSE i
           it == Responses!Item(kind, call, <<>>, "in_progress")
           x == <<it>>
           n == Len(items)
           a == Responses!Event("item_added", n, x)
           ta == Append(t, a)
           o == Responses!Opened(kind, i, <<>>, start)
           more == Responses!OpeningEvents(kind, i, n)
<1>3. it \in ItemType /\ it.kind = kind
  <2> DEFINE e == <<>>
  <2>1. e \in Texts /\ call \in Nat
    BY <1>2, TextsAre
  <2>2. it = [kind |-> kind, call |-> call, value |-> e, status |-> "in_progress"]
    BY DEF Responses!Item
  <2> HIDE DEF e, call
  <2>3. [kind |-> kind, call |-> call, value |-> e, status |-> "in_progress"] \in ItemType
    BY <2>1 DEF ItemType
  <2> QED BY <2>2, <2>3
<1>4. o # <<>> /\ o[1].kind = kind /\ o[1].value = <<>>
  BY DEF Responses!Opened
<1>a. /\ kind = "message" => more = <<a, Responses!Event("part_added", n, <<>>)>>
      /\ kind = "function_call" => more = <<a>>
  BY DEF Responses!OpeningEvents
<1> HIDE DEF it, o, more
<1>5. x \in EventValues /\ x[1].kind = kind
  BY <1>3, Alone
<1> HIDE DEF x
<1>6. a \in EventType
  BY <1>2, <1>5, EventTyped DEF EventTypes
<1>7. Protocol!Lawful(Protocol!Client(t), a)
  BY <1>1, LawfulIs
<1>8. Protocol!After(Protocol!Client(t), a) = Knows("streaming", x[1].kind, <<>>, "added", items)
  BY <1>1, AfterIs
<1> HIDE DEF a
<1>9. Speaks(s, ta) /\ Protocol!Client(ta) = Knows("streaming", kind, <<>>, "added", items)
  BY <1>5, <1>6, <1>7, <1>8, SpeaksOn
<1> HIDE DEF ta
<1>10. CASE kind = "message"
  <2> DEFINE e == <<>>
             b == Responses!Event("part_added", n, e)
  <2>1. e \in EventValues
    BY TextsAre DEF EventValues
  <2>2. Protocol!Client(ta) = Knows("streaming", "message", e, "added", items)
    BY <1>9, <1>10
  <2>3. more = <<a, b>>
    BY <1>10, <1>a
  <2> HIDE DEF e
  <2>4. b \in EventType
    BY <1>2, <2>1, EventTyped DEF EventTypes
  <2>5. Protocol!Lawful(Protocol!Client(ta), b)
    BY <2>2, LawfulIs
  <2>6. Protocol!After(Protocol!Client(ta), b) = Knows("streaming", "message", e, "part", items)
    BY <2>2, AfterIs
  <2> HIDE DEF b
  <2>7. Speaks(s, Append(ta, b)) /\ Protocol!Client(Append(ta, b)) = Knows("streaming", "message", e, "part", items)
    BY <1>9, <2>4, <2>5, <2>6, SpeaksOn
  <2>8. t \o more = Append(ta, b)
    <3>1. t \o <<a, b>> = Append(Append(t, a), b)
      BY <1>2, <1>6, <2>4, TwoMore
    <3> QED BY <2>3, <3>1 DEF ta
  <2>9. Follows(Knows("streaming", "message", e, "part", items), items, o)
    BY <1>4, <1>10 DEF Follows, e
  <2> QED BY <2>7, <2>8, <2>9 DEF more, o
<1>11. CASE kind = "function_call"
  <2>1. t \o more = ta
    <3>1. t \o <<a>> = Append(t, a)
      BY <1>2, <1>6
    <3> QED BY <1>11, <1>a, <3>1 DEF ta
  <2>2. Follows(Knows("streaming", "function_call", <<>>, "added", items), items, o)
    BY <1>4, <1>11 DEF Follows
  <2> QED BY <1>9, <1>11, <2>1, <2>2 DEF more, o
<1> QED BY <1>10, <1>11

\* close_open_item_incomplete.
LEMMA Cuts ==
    ASSUME NEW s, NEW t, Speaks(s, t), open \in Seq(OpenType), Len(open) <= 1,
           closed \in Seq(DoneType), Follows(Protocol!Client(t), closed, open)
    PROVE  /\ Speaks(s, t \o Responses!CuttingEvents)
           /\ Follows(Protocol!Client(t \o Responses!CuttingEvents), Responses!Cut, <<>>)
           /\ Responses!Cut \in Seq(ItemType)
<1>1. t \in Seq(EventType) /\ DoneType \subseteq ItemType
  BY DEF Speaks, DoneType, ItemType
<1>a. closed \in Seq(ItemType)
  BY <1>1
<1>2. CASE open = <<>>
  <2>1. Responses!CuttingEvents = <<>> /\ Responses!Cut = closed
    BY <1>2 DEF Responses!CuttingEvents, Responses!Cut
  <2>2. t \o Responses!CuttingEvents = t
    BY <1>1, <2>1
  <2> QED BY <1>2, <1>a, <2>1, <2>2
<1>3. CASE open # <<>>
  <2> DEFINE o == open[1]
             item == Responses!Done(o, "incomplete")
             items == closed
             c == Protocol!Client(t)
             f == Responses!Cut
             more == Responses!CuttingEvents
             d == Responses!Event("item_done", Len(items), <<item>>)
             step == IF o.kind = "message" THEN "part" ELSE "added"
             k == Knows("streaming", o.kind, o.value, step, items)
  <2>1. o \in OpenType
    BY <1>3
  <2>2. /\ item \in ItemType /\ item.kind = o.kind /\ item.status = "incomplete"
        /\ o.kind = "message" => item.value = o.value
        /\ o.kind = "function_call" =>
              item.value \in Objects /\ (o.value \in Objects => item.value = o.value)
        /\ o.kind \in {"message", "function_call"}
    BY <2>1, DoneIs DEF OpenType
  <2>3. c = k
    BY <1>3 DEF Follows
  <2>4. f = Append(items, item) /\ items \in Seq(ItemType)
    BY <1>3, <1>a DEF Responses!Cut
  <2>5. more = <<d>>
    BY <1>3 DEF Responses!CuttingEvents, Responses!Here
  <2>6. k.kind = o.kind /\ k.value = o.value
    BY DEF Knows
  <2> HIDE DEF o, item, c, f, more, items, k, step
  <2>7. f \in Seq(ItemType)
    BY <2>2, <2>4
  <2>8. Protocol!LawfulDone(k, item)
    BY <2>2, <2>6, Same DEF Protocol!LawfulDone, Protocol!Repeats
  <2>9. d = Responses!Event("item_done", Len(items), <<item>>)
    BY DEF d
  <2> HIDE DEF d
  <2>10. Says(s, t, d, Knows("streaming", "none", o.value, "none", f))
    BY <2>2, <2>3, <2>4, <2>8, <2>9, ItemDone DEF c, k
  <2>11. t \o more = Append(t, d)
    BY <1>1, <2>5, <2>10 DEF Says
  <2> QED BY <2>7, <2>10, <2>11 DEF Says, Follows, f, more
<1> QED BY <1>2, <1>3

-----------------------------------------------------------------------------
(* The handlers of the Responses translator *)

\* What the translator keeps and what its client knows agree.
Told ==
    /\ open \in Seq(OpenType) /\ Len(open) <= 1 /\ closed \in Seq(DoneType)
    /\ created \in BOOLEAN /\ ended \in BOOLEAN /\ events \in Seq(EventType)
    /\ ~created /\ ~ended => /\ open = <<>> /\ closed = <<>>
                             /\ Protocol!Client(events) = Protocol!Unaware
    /\ created /\ ~ended => Follows(Protocol!Client(events), closed, open)
    /\ ended => events # <<>> /\ events[Len(events)].type \in Terminal

\* An event ignored.
LEMMA ResIgnored ==
    ASSUME Told, Responses!Ignored
    PROVE  Told' /\ Speaks(events, events')
<1>1. UNCHANGED <<open, closed, created, ended, events>>
  BY DEF Responses!Ignored, Responses!responsesVars
<1>2. Speaks(events, events)
  BY SpeaksNot DEF Told
<1> QED BY <1>1, <1>2 DEF Told

\* message_start: the Responses translator opens the response.
LEMMA ResStart ==
    ASSUME Told, Responses!OnMessageStart
    PROVE  Told' /\ Speaks(events, events') /\ (~ended => created' /\ ~ended')
<1>1. CASE ended \/ created
  <2>1. Responses!Ignored
    BY <1>1 DEF Responses!OnMessageStart
  <2>2. created' = created /\ ended' = ended
    BY <2>1 DEF Responses!Ignored, Responses!responsesVars
  <2> QED BY <1>1, <2>1, <2>2, ResIgnored
<1>2. CASE ~ended /\ ~created
  <2> DEFINE e == <<>>
             a == Responses!Event("created", 0, e)
             b == Responses!Event("in_progress", 0, e)
             ta == Append(events, a)
             tb == Append(ta, b)
  <2>1. /\ created' = TRUE /\ UNCHANGED <<open, closed, ended>>
        /\ events' = events \o <<a, b>>
    BY <1>2 DEF Responses!OnMessageStart
  <2>2. /\ open = <<>> /\ closed = <<>> /\ events \in Seq(EventType)
        /\ Protocol!Client(events) = Knows("silent", "none", e, "none", <<>>)
    BY <1>2 DEF Told, Protocol!Unaware, Knows
  <2>3. e \in EventValues
    BY TextsAre DEF EventValues
  <2> HIDE DEF e
  <2>4. a \in EventType /\ b \in EventType /\ a.type = "created" /\ b.type = "in_progress"
    BY <2>3, EventTyped DEF EventTypes
  <2>5. /\ Knows("silent", "none", e, "none", <<>>).phase = "silent"
        /\ Knows("created", "none", e, "none", <<>>).phase = "created"
    BY DEF Knows
  <2>6. /\ Protocol!After(Knows("silent", "none", e, "none", <<>>), a) =
              Knows("created", "none", e, "none", <<>>)
        /\ Protocol!After(Knows("created", "none", e, "none", <<>>), b) =
              Knows("streaming", "none", e, "none", <<>>)
    BY AfterIs
  <2> HIDE DEF a, b
  <2>7. Protocol!Lawful(Protocol!Client(events), a)
    BY <2>2, <2>4, <2>5 DEF Protocol!Lawful
  <2>8. Speaks(events, events)
    BY <2>2, SpeaksNot
  <2>9. Speaks(events, ta) /\ Protocol!Client(ta) = Knows("created", "none", e, "none", <<>>)
    BY <2>2, <2>4, <2>6, <2>7, <2>8, SpeaksOn
  <2> HIDE DEF ta
  <2>10. Protocol!Lawful(Protocol!Client(ta), b)
    BY <2>4, <2>5, <2>9 DEF Protocol!Lawful
  <2>11. Speaks(events, tb) /\ Protocol!Client(tb) = Knows("streaming", "none", e, "none", <<>>)
    BY <2>4, <2>6, <2>9, <2>10, SpeaksOn
  <2>12. events' = tb
    BY <2>1, <2>2, <2>4, TwoMore DEF ta
  <2> HIDE DEF tb
  <2>13. Follows(Protocol!Client(tb), <<>>, <<>>) /\ tb \in Seq(EventType)
    BY <2>11 DEF Follows, Speaks
  <2>14. Told'
    BY <1>2, <2>1, <2>2, <2>12, <2>13 DEF Told
  <2> QED BY <1>2, <2>1, <2>11, <2>12, <2>14
<1> QED BY <1>1, <1>2 DEF Told

\* The start of a block closes the item before it and opens its own.
LEMMA ResBlock ==
    ASSUME Told, created, ~ended, NEW i \in Index, NEW kind \in Kinds, NEW start \in Objects,
           Responses!OnContentBlockStart(i, kind, start)
    PROVE  Told' /\ Speaks(events, events') /\ created' /\ ~ended'
<1> DEFINE item == IF kind = "text" THEN "message" ELSE "function_call"
           m == Responses!ClosingEvents
           t == events \o m
           f == Responses!Closed
           more == Responses!OpeningEvents(item, i, Len(f))
           o == Responses!Opened(item, i, <<>>, start)
<1>1. /\ closed' = f /\ open' = IF kind = "thinking" THEN <<>> ELSE o
      /\ events' = events \o m \o (IF kind = "thinking" THEN <<>> ELSE more)
      /\ UNCHANGED <<created, ended>>
  BY DEF Responses!OnContentBlockStart
<1>2. /\ Speaks(events, events) /\ open \in Seq(OpenType) /\ Len(open) <= 1
      /\ closed \in Seq(DoneType) /\ Follows(Protocol!Client(events), closed, open)
  BY SpeaksNot DEF Told
<1>3. Speaks(events, t) /\ Follows(Protocol!Client(t), f, <<>>) /\ f \in Seq(DoneType)
  BY <1>2, Closes
<1>4. o \in Seq(OpenType) /\ Len(o) <= 1
  <2> DEFINE e == <<>>
             r == [kind |-> item, index |-> i, value |-> e, start |-> start]
  <2>1. e \in Seq(Part) /\ item \in {"message", "function_call"}
    OBVIOUS
  <2>2. o = <<r>>
    BY DEF Responses!Opened
  <2> HIDE DEF e, item, o
  <2>3. r \in OpenType
    BY <2>1 DEF OpenType
  <2> QED BY <2>2, <2>3
<1>5. item \in {"message", "function_call"}
  OBVIOUS
<1> HIDE DEF f, t, o, more, m
<1>6. t = events \o m /\ t \in Seq(EventType)
  BY <1>3 DEF t, Speaks
<1> HIDE DEF item
<1>7. CASE kind = "thinking"
  <2>1. t \o <<>> = t
    BY <1>6
  <2>2. events' = t /\ open' = <<>>
    BY <1>1, <1>6, <1>7, <2>1
  <2>3. Told'
    <3>1. open' \in Seq(OpenType) /\ Len(open') <= 1
      BY <2>2
    <3> QED BY <1>1, <1>3, <1>6, <2>2, <3>1 DEF Told
  <2> QED BY <1>1, <1>3, <2>2, <2>3
<1>8. CASE kind # "thinking"
  <2> DEFINE u == t \o more
  <2>1. Speaks(events, u) /\ Follows(Protocol!Client(u), f, o)
    BY <1>3, <1>5, Opens DEF more, o
  <2>2. events' = u /\ open' = o
    BY <1>1, <1>6, <1>8
  <2> HIDE DEF u
  <2>3. u \in Seq(EventType)
    BY <2>1 DEF Speaks
  <2>4. Told'
    BY <1>1, <1>3, <1>4, <2>1, <2>2, <2>3 DEF Told
  <2> QED BY <1>1, <2>1, <2>2, <2>4
<1> QED BY <1>7, <1>8

\* The end of a block closes its item.
LEMMA ResStop ==
    ASSUME Told, created, ~ended, NEW i, Responses!OnContentBlockStop(i)
    PROVE  Told' /\ Speaks(events, events') /\ created' /\ ~ended'
<1>1. CASE ~Responses!IsOpen(i)
  <2>1. Responses!Ignored
    BY <1>1 DEF Responses!OnContentBlockStop
  <2>2. created' = created /\ ended' = ended
    BY <2>1 DEF Responses!Ignored, Responses!responsesVars
  <2> QED BY <2>1, <2>2, ResIgnored
<1>2. CASE Responses!IsOpen(i)
  <2> DEFINE m == Responses!ClosingEvents
             t == events \o m
             f == Responses!Closed
  <2>1. closed' = f /\ open' = <<>> /\ events' = t /\ UNCHANGED <<created, ended>>
    BY <1>2 DEF Responses!OnContentBlockStop
  <2>2. /\ Speaks(events, events) /\ open \in Seq(OpenType) /\ Len(open) <= 1
        /\ closed \in Seq(DoneType) /\ Follows(Protocol!Client(events), closed, open)
    BY SpeaksNot DEF Told
  <2>3. Speaks(events, t) /\ Follows(Protocol!Client(t), f, <<>>) /\ f \in Seq(DoneType)
    BY <2>2, Closes
  <2> HIDE DEF t, f
  <2>4. open' \in Seq(OpenType) /\ Len(open') <= 1 /\ t \in Seq(EventType)
    BY <2>1, <2>3 DEF Speaks
  <2>5. Told'
    BY <2>1, <2>3, <2>4 DEF Told
  <2> QED BY <2>1, <2>3, <2>5
<1> QED BY <1>1, <1>2

\* An item that takes one more part.
LEMMA ItemGrows ==
    ASSUME NEW o \in Seq(OpenType), o # <<>>, Len(o) <= 1, NEW part \in Part
    PROVE  LET p == [o EXCEPT ![1].value = Append(@, part)]
           IN  /\ p \in Seq(OpenType) /\ p # <<>> /\ Len(p) <= 1
               /\ p[1].kind = o[1].kind /\ p[1].value = o[1].value \o <<part>>
<1>1. o[1] \in OpenType /\ 1 \in 1 .. Len(o)
  OBVIOUS
<1>2. Append(o[1].value, part) \in Seq(Part) /\ Append(o[1].value, part) = o[1].value \o <<part>>
  BY <1>1 DEF OpenType
<1> DEFINE v == o[1].value \o <<part>>
           e == [o[1] EXCEPT !.value = v]
           p == [o EXCEPT ![1] = e]
<1>3. v \in Seq(Part) /\ p = [o EXCEPT ![1].value = Append(@, part)]
  BY <1>2
<1> HIDE DEF v
<1>4. e \in OpenType /\ e.kind = o[1].kind /\ e.value = v
  BY <1>1, <1>3 DEF OpenType
<1> HIDE DEF e
<1>5. p \in Seq(OpenType) /\ Len(p) = Len(o) /\ p[1] = e
  BY <1>1, <1>4, Changed
<1> HIDE DEF p
<1>6. p # <<>> /\ Len(p) <= 1
  BY <1>1, <1>5
<1> QED BY <1>3, <1>4, <1>5, <1>6 DEF v

\* A part, in an event.
LEMMA PartValue == ASSUME NEW part \in Part PROVE <<part>> \in EventValues
<1>1. <<part>> \in Seq(Part)
  OBVIOUS
<1> QED BY <1>1, TextsAre DEF EventValues

\* A text delta extends the open message, or opens one.
LEMMA ResText ==
    ASSUME Told, created, ~ended, NEW i \in Index, NEW part \in Part,
           Responses!OnTextDelta(i, part)
    PROVE  Told' /\ Speaks(events, events') /\ created' /\ ~ended'
<1>1. CASE open # <<>> /\ open[1].kind = "function_call"
  <2>1. Responses!Ignored
    BY <1>1 DEF Responses!OnTextDelta
  <2>2. created' = created /\ ended' = ended
    BY <2>1 DEF Responses!Ignored, Responses!responsesVars
  <2> QED BY <2>1, <2>2, ResIgnored
<1>2. CASE ~(open # <<>> /\ open[1].kind = "function_call")
  <2> DEFINE n == Len(closed)
             item == IF open = <<>> THEN Responses!Opened("message", i, <<>>, NoArguments) ELSE open
             more == IF open = <<>> THEN Responses!OpeningEvents("message", i, n) ELSE <<>>
             t == events \o more
             x == <<part>>
             d == Responses!Event("text_delta", n, x)
             p == [item EXCEPT ![1].value = Append(@, part)]
  <2>1. /\ open' = p /\ events' = events \o more \o <<d>>
        /\ UNCHANGED <<closed, created, ended>>
    BY <1>2, Same DEF Responses!OnTextDelta, Responses!Here
  <2>2. /\ Speaks(events, events) /\ open \in Seq(OpenType) /\ Len(open) <= 1
        /\ closed \in Seq(DoneType) /\ Follows(Protocol!Client(events), closed, open)
        /\ events \in Seq(EventType) /\ n \in Nat
    BY SpeaksNot DEF Told
  <2>3. /\ Speaks(events, t) /\ Follows(Protocol!Client(t), closed, item)
        /\ item \in Seq(OpenType) /\ Len(item) <= 1 /\ item # <<>> /\ item[1].kind = "message"
    <3>1. CASE open = <<>>
      <4> DEFINE o == Responses!Opened("message", i, <<>>, NoArguments)
                 m == Responses!OpeningEvents("message", i, n)
                 u == events \o m
      <4>1. Follows(Protocol!Client(events), closed, <<>>)
        BY <2>2, <3>1
      <4>2. Speaks(events, u) /\ Follows(Protocol!Client(u), closed, o)
        BY <2>2, <4>1, Opens
      <4>3. o \in Seq(OpenType) /\ Len(o) <= 1 /\ o # <<>> /\ o[1].kind = "message"
        <5> DEFINE e == <<>>
                   k == "message"
                   r == [kind |-> k, index |-> i, value |-> e, start |-> NoArguments]
        <5>1. e \in Seq(Part) /\ NoArguments \in Objects /\ k \in {"message", "function_call"}
          BY DEF Objects
        <5>2. o = <<r>> /\ r.kind = "message"
          BY DEF Responses!Opened
        <5> HIDE DEF e, k, o
        <5>3. r \in OpenType
          BY <5>1 DEF OpenType
        <5> HIDE DEF r
        <5> QED BY <5>2, <5>3
      <4>4. item = o /\ more = m
        BY <3>1
      <4> HIDE DEF o, m, item, more
      <4> QED BY <4>2, <4>3, <4>4
    <3>2. CASE open # <<>>
      <4>1. item = open /\ more = <<>>
        BY <3>2
      <4>2. t = events
        BY <2>2, <4>1
      <4>3. open[1] \in OpenType
        BY <2>2, <3>2
      <4>4. open[1].kind = "message"
        BY <1>2, <3>2, <4>3 DEF OpenType
      <4> HIDE DEF t, item
      <4> QED BY <2>2, <3>2, <4>1, <4>2, <4>4
    <3> QED BY <3>1, <3>2
  <2> HIDE DEF item, more, n
  <2>4. /\ p \in Seq(OpenType) /\ p # <<>> /\ Len(p) <= 1
        /\ p[1].kind = "message" /\ p[1].value = item[1].value \o x
    BY <2>3, ItemGrows
  <2> HIDE DEF p
  <2>5. Protocol!Client(t) = Knows("streaming", "message", item[1].value, "part", closed)
    BY <2>3 DEF Follows
  <2>6. x \in EventValues
    BY PartValue
  <2>7. t \in Seq(EventType)
    BY <2>3 DEF Speaks
  <2>8. events' = t \o <<d>>
    BY <2>1
  <2> HIDE DEF x, t
  <2>9. d \in EventType
    BY <2>2, <2>6, EventTyped DEF EventTypes
  <2>10. Protocol!Lawful(Protocol!Client(t), d)
    BY <2>5, LawfulIs DEF n
  <2>11. Protocol!After(Protocol!Client(t), d) =
            Knows("streaming", "message", item[1].value \o x, "part", closed)
    BY <2>5, AfterIs
  <2> HIDE DEF d
  <2>12. /\ Speaks(events, Append(t, d))
         /\ Protocol!Client(Append(t, d)) =
               Knows("streaming", "message", item[1].value \o x, "part", closed)
    BY <2>3, <2>9, <2>10, <2>11, SpeaksOn
  <2>13. events' = Append(t, d)
    BY <2>7, <2>8, <2>9
  <2>14. Follows(Protocol!Client(events'), closed, p)
    BY <2>4, <2>12, <2>13 DEF Follows
  <2>15. events' \in Seq(EventType)
    BY <2>12, <2>13 DEF Speaks
  <2>16. Told'
    BY <2>1, <2>2, <2>4, <2>14, <2>15 DEF Told
  <2> QED BY <2>1, <2>12, <2>13, <2>16
<1> QED BY <1>1, <1>2

\* A fragment extends the open call.
LEMMA ResFragment ==
    ASSUME Told, created, ~ended, NEW i \in Index, NEW part \in Part,
           Responses!OnInputJsonDelta(i, part)
    PROVE  Told' /\ Speaks(events, events') /\ created' /\ ~ended'
<1>1. CASE ~Responses!IsOpen(i) \/ open[1].kind = "message"
  <2>1. Responses!Ignored
    BY <1>1 DEF Responses!OnInputJsonDelta
  <2>2. created' = created /\ ended' = ended
    BY <2>1 DEF Responses!Ignored, Responses!responsesVars
  <2> QED BY <2>1, <2>2, ResIgnored
<1>2. CASE Responses!IsOpen(i) /\ open[1].kind # "message"
  <2> DEFINE n == Len(closed)
             x == <<part>>
             d == Responses!Event("args_delta", n, x)
             p == [open EXCEPT ![1].value = Append(@, part)]
             t == events
  <2>1. /\ open' = p /\ events' = Append(t, d) /\ UNCHANGED <<closed, created, ended>>
        /\ open # <<>>
    BY <1>2 DEF Responses!OnInputJsonDelta, Responses!Here, Responses!IsOpen
  <2>2. /\ Speaks(t, t) /\ open \in Seq(OpenType) /\ Len(open) <= 1
        /\ closed \in Seq(DoneType) /\ Follows(Protocol!Client(t), closed, open)
        /\ t \in Seq(EventType) /\ n \in Nat
    BY SpeaksNot DEF Told
  <2>3. open[1].kind = "function_call"
    <3>1. open[1] \in OpenType
      BY <2>1, <2>2
    <3> QED BY <1>2, <3>1 DEF OpenType
  <2>4. /\ p \in Seq(OpenType) /\ p # <<>> /\ Len(p) <= 1
        /\ p[1].kind = "function_call" /\ p[1].value = open[1].value \o x
    BY <2>1, <2>2, <2>3, ItemGrows
  <2> HIDE DEF p, n
  <2>5. Protocol!Client(t) = Knows("streaming", "function_call", open[1].value, "added", closed)
    BY <2>1, <2>2, <2>3 DEF Follows
  <2>6. x \in EventValues
    BY PartValue
  <2> HIDE DEF x, t
  <2>9. d \in EventType
    BY <2>2, <2>6, EventTyped DEF EventTypes
  <2>10. Protocol!Lawful(Protocol!Client(t), d)
    BY <2>5, LawfulIs DEF n
  <2>11. Protocol!After(Protocol!Client(t), d) =
            Knows("streaming", "function_call", open[1].value \o x, "added", closed)
    BY <2>5, AfterIs
  <2> HIDE DEF d
  <2>12. /\ Speaks(t, Append(t, d))
         /\ Protocol!Client(Append(t, d)) =
               Knows("streaming", "function_call", open[1].value \o x, "added", closed)
    BY <2>2, <2>9, <2>10, <2>11, SpeaksOn
  <2>14. Follows(Protocol!Client(events'), closed, p)
    BY <2>1, <2>4, <2>12 DEF Follows
  <2>15. events' \in Seq(EventType)
    BY <2>1, <2>12 DEF Speaks
  <2>16. Told'
    BY <2>1, <2>2, <2>4, <2>14, <2>15 DEF Told
  <2> QED BY <2>1, <2>12, <2>16 DEF t
<1> QED BY <1>1, <1>2

\* The last event of a response.
LEMMA Ends ==
    ASSUME NEW s, NEW t, Speaks(s, t), NEW type \in Terminal, NEW items \in Seq(ItemType),
           \/ type = "failed" /\ Protocol!Client(t) = Protocol!Unaware /\ items = <<>>
           \/ /\ Follows(Protocol!Client(t), items, <<>>)
              /\ type # "failed" => \A n \in DOMAIN items : items[n].status = "completed"
    PROVE  LET u == t \o <<Responses!Event(type, 0, items)>>
           IN  /\ Speaks(s, u) /\ u \in Seq(EventType)
               /\ u # <<>> /\ u[Len(u)].type \in Terminal
<1> DEFINE d == Responses!Event(type, 0, items)
           u == t \o <<d>>
           c == Protocol!Client(t)
<1>1. d \in EventType /\ d.type = type /\ d.value = items
  <2>1. type \in EventTypes /\ items \in EventValues
    BY DEF Terminal, EventTypes, EventValues
  <2> QED BY <2>1, EventTyped DEF Responses!Event
<1>2. t \in Seq(EventType)
  BY DEF Speaks
<1> HIDE DEF d
<1>3. Protocol!Lawful(c, d)
  <2>1. CASE type = "failed" /\ c = Protocol!Unaware /\ items = <<>>
    <3>1. c.phase = "silent" /\ c.kind = "none" /\ c.items = <<>>
      BY <2>1 DEF Protocol!Unaware
    <3> HIDE DEF c
    <3> QED BY <1>1, <2>1, <3>1 DEF Protocol!Lawful
  <2>2. CASE /\ Follows(c, items, <<>>)
             /\ type # "failed" => \A n \in DOMAIN items : items[n].status = "completed"
    <3>1. PICK v : c = Knows("streaming", "none", v, "none", items)
      BY <2>2 DEF Follows
    <3>2. c.phase = "streaming" /\ c.kind = "none" /\ c.items = items
      BY <3>1 DEF Knows
    <3> HIDE DEF c
    <3>3. CASE type = "failed"
      BY <1>1, <3>2, <3>3 DEF Protocol!Lawful
    <3>4. CASE type \in {"completed", "incomplete"}
      BY <1>1, <2>2, <3>2, <3>4 DEF Protocol!Lawful
    <3> QED BY <3>3, <3>4 DEF Terminal
  <2> QED BY <2>1, <2>2
<1>4. u = Append(t, d)
  BY <1>1, <1>2
<1>5. Speaks(s, Append(t, d)) /\ Append(t, d)[Len(Append(t, d))] = d /\ Append(t, d) # <<>>
  BY <1>1, <1>3, SpeaksOn
<1> HIDE DEF u
<1>6. Speaks(s, u) /\ u[Len(u)] = d /\ u # <<>> /\ u \in Seq(EventType)
  BY <1>4, <1>5 DEF Speaks
<1> QED BY <1>1, <1>6 DEF u, d

\* The stop reason completes or cuts the response.
LEMMA ResDelta ==
    ASSUME Told, created, ~ended, NEW r, Responses!OnMessageDelta(r)
    PROVE  Told' /\ Speaks(events, events') /\ ended'
<1> DEFINE m == Responses!ClosingEvents
           t == events \o m
           f == Responses!Closed
           type == IF r = "max_tokens" THEN "incomplete" ELSE "completed"
           d == Responses!Event(type, 0, f)
           u == t \o <<d>>
<1>1. /\ open' = <<>> /\ closed' = <<>> /\ ended' = TRUE /\ created' = created
      /\ events' = events \o m \o <<d>>
  BY DEF Responses!OnMessageDelta
<1>2. /\ Speaks(events, events) /\ open \in Seq(OpenType) /\ Len(open) <= 1
      /\ closed \in Seq(DoneType) /\ Follows(Protocol!Client(events), closed, open)
  BY SpeaksNot DEF Told
<1>3. Speaks(events, t) /\ Follows(Protocol!Client(t), f, <<>>) /\ f \in Seq(DoneType)
  BY <1>2, Closes
<1>4. type \in Terminal /\ type # "failed"
  BY DEF Terminal
<1> HIDE DEF f, type
<1>5. f \in Seq(ItemType) /\ \A n \in DOMAIN f : f[n].status = "completed"
  <2>1. DoneType \subseteq ItemType
    BY DEF DoneType, ItemType
  <2>2. \A n \in DOMAIN f : f[n] \in DoneType
    BY <1>3
  <2> QED BY <1>3, <2>1, <2>2 DEF DoneType
<1>6. events' = u
  BY <1>1
<1> HIDE DEF t
<1>7. Speaks(events, u) /\ u \in Seq(EventType) /\ u # <<>> /\ u[Len(u)].type \in Terminal
  BY <1>3, <1>4, <1>5, Ends
<1> HIDE DEF u
<1>8. /\ open' \in Seq(OpenType) /\ Len(open') <= 1 /\ closed' \in Seq(DoneType)
  BY <1>1
<1>9. Told'
  BY <1>1, <1>6, <1>7, <1>8 DEF Told
<1> QED BY <1>1, <1>6, <1>7, <1>9

\* An error ends the response as failed.
LEMMA ResError ==
    ASSUME Told, Responses!OnError
    PROVE  Told' /\ Speaks(events, events') /\ ended'
<1>1. CASE ended
  <2>1. Responses!Ignored
    BY <1>1 DEF Responses!OnError
  <2>2. ended' = ended
    BY <2>1 DEF Responses!Ignored, Responses!responsesVars
  <2> QED BY <1>1, <2>1, <2>2, ResIgnored
<1>2. CASE ~ended
  <2> DEFINE m == Responses!CuttingEvents
             t == events \o m
             f == Responses!Cut
             type == "failed"
             d == Responses!Event(type, 0, f)
             u == t \o <<d>>
  <2>1. /\ open' = <<>> /\ closed' = <<>> /\ ended' = TRUE /\ created' = created
        /\ events' = events \o m \o <<d>>
    BY <1>2 DEF Responses!OnError
  <2>2. /\ Speaks(events, events) /\ open \in Seq(OpenType) /\ Len(open) <= 1
        /\ closed \in Seq(DoneType) /\ created \in BOOLEAN /\ events \in Seq(EventType)
    BY SpeaksNot DEF Told
  <2>3. /\ Speaks(events, t) /\ f \in Seq(ItemType)
        /\ \/ Protocol!Client(t) = Protocol!Unaware /\ f = <<>>
           \/ Follows(Protocol!Client(t), f, <<>>)
    <3>1. CASE created
      <4>1. Follows(Protocol!Client(events), closed, open)
        BY <1>2, <3>1 DEF Told
      <4> QED BY <2>2, <4>1, Cuts
    <3>2. CASE ~created
      <4>1. open = <<>> /\ closed = <<>> /\ Protocol!Client(events) = Protocol!Unaware
        BY <1>2, <3>2 DEF Told
      <4>2. m = <<>> /\ f = <<>>
        BY <4>1 DEF Responses!CuttingEvents, Responses!Cut
      <4>3. t = events
        BY <2>2, <4>2
      <4> HIDE DEF t, f
      <4>4. f \in Seq(ItemType)
        BY <4>2
      <4> QED BY <2>2, <4>1, <4>2, <4>3, <4>4
    <3> QED BY <2>2, <3>1, <3>2
  <2>4. type \in Terminal
    BY DEF Terminal
  <2>5. events' = u
    BY <2>1
  <2> HIDE DEF f, t
  <2>6. Speaks(events, u) /\ u \in Seq(EventType) /\ u # <<>> /\ u[Len(u)].type \in Terminal
    BY <2>3, <2>4, Ends
  <2> HIDE DEF u
  <2>7. /\ open' \in Seq(OpenType) /\ Len(open') <= 1 /\ closed' \in Seq(DoneType)
    BY <2>1
  <2>8. Told'
    BY <2>1, <2>2, <2>5, <2>6, <2>7 DEF Told
  <2> QED BY <2>1, <2>5, <2>6, <2>8
<1> QED BY <1>1, <1>2 DEF Told

-----------------------------------------------------------------------------
(* The seam *)

\* Both translators, and how far the Responses translator is when the answer
\* is so far.
SeamInv ==
    /\ ChatInv
    /\ Told
    /\ body = "open" /\ stage = "silent" => ~ended
    /\ body = "open" /\ stage = "streaming" => created /\ ~ended
    /\ body = "ended" /\ created => ended

\* The invariant contains the types.
LEMMA SeamTypes == SeamInv => TypeOK
<1> SUFFICES ASSUME SeamInv PROVE TypeOK
  OBVIOUS
<1> QED BY TypesAre DEF SeamInv, ChatInv, UpstreamTypes, Told

\* It holds at the start.
LEMMA SeamBegins == Init => SeamInv
<1> SUFFICES ASSUME Init PROVE SeamInv
  OBVIOUS
<1>1. /\ open = <<>> /\ closed = <<>> /\ events = <<>> /\ created = FALSE /\ ended = FALSE
      /\ body = "open" /\ stage = "silent"
  BY DEF Init, UpstreamInit, Responses!ResponsesInit
<1>2. ChatInv
  BY ChatBegins
<1>3. open \in Seq(OpenType) /\ Len(open) <= 1 /\ closed \in Seq(DoneType) /\ events \in Seq(EventType)
  BY <1>1
<1>4. Protocol!Client(events) = Protocol!Unaware
  BY <1>1, Learnt
<1>5. Told
  BY <1>1, <1>3, <1>4 DEF Told
<1> QED BY <1>1, <1>2, <1>5 DEF SeamInv

\* Every step keeps it and speaks the protocol.
LEMMA SeamKeeps ==
    ASSUME SeamInv, [Next]_vars
    PROVE  SeamInv' /\ Speaks(events, events')
<1>1. TypeOK /\ ChatInv /\ Told
  BY SeamTypes DEF SeamInv
<1>2. ChatInv'
  BY <1>1, ChatKeeps
<1>3. CASE MessageStart
  <2>1. /\ body = "open" /\ body' = body /\ stage = "silent" /\ stage' = "streaming"
        /\ Responses!OnMessageStart
    BY <1>3 DEF MessageStart, Streams, Begins
  <2>2. Told' /\ Speaks(events, events') /\ created' /\ ~ended'
    BY <1>1, <2>1, ResStart DEF SeamInv
  <2> QED BY <1>2, <2>1, <2>2 DEF SeamInv
<1>4. CASE ContentBlockStart
  <2>1. PICK kind \in Kinds, start \in {NoArguments, Preset(Newest + 1)} :
           /\ Streams /\ StartsBlock(kind, start)
           /\ Responses!OnContentBlockStart(Newest + 1, kind, start)
    BY <1>4 DEF ContentBlockStart
  <2>2. body = "open" /\ body' = body /\ stage = "streaming" /\ stage' = stage
    BY <2>1 DEF Streams, StartsBlock
  <2>3. start \in Objects /\ Newest + 1 \in Index
    BY <1>1, <2>1, StartTypes
  <2>4. Told' /\ Speaks(events, events') /\ created' /\ ~ended'
    BY <1>1, <2>1, <2>2, <2>3, ResBlock DEF SeamInv
  <2> QED BY <1>2, <2>2, <2>4 DEF SeamInv
<1>5. CASE TextDelta
  <2>1. PICK i \in Index : Streams /\ SendsText(i) /\ Responses!OnTextDelta(i, NextPart(i))
    BY <1>5 DEF TextDelta
  <2>2. body = "open" /\ body' = body /\ stage = "streaming" /\ stage' = stage
    BY <2>1 DEF Streams, SendsText
  <2>3. NextPart(i) \in Part
    BY <1>1, <2>1, TextTypes
  <2>4. Told' /\ Speaks(events, events') /\ created' /\ ~ended'
    BY <1>1, <2>1, <2>2, <2>3, ResText DEF SeamInv
  <2> QED BY <1>2, <2>2, <2>4 DEF SeamInv
<1>6. CASE InputJsonDelta
  <2>1. PICK i \in 1 .. Newest :
           Streams /\ SendsFragment(i) /\ Responses!OnInputJsonDelta(i, NextPart(i))
    BY <1>6 DEF InputJsonDelta
  <2>2. body = "open" /\ body' = body /\ stage = "streaming" /\ stage' = stage
    BY <2>1 DEF Streams, SendsFragment
  <2>3. NextPart(i) \in Part /\ i \in Index
    BY <1>1, <2>1, FragmentTypes
  <2>4. Told' /\ Speaks(events, events') /\ created' /\ ~ended'
    BY <1>1, <2>1, <2>2, <2>3, ResFragment DEF SeamInv
  <2> QED BY <1>2, <2>2, <2>4 DEF SeamInv
<1>7. CASE ContentBlockStop
  <2>1. PICK i \in 1 .. Newest : Streams /\ StopsBlock(i) /\ Responses!OnContentBlockStop(i)
    BY <1>7 DEF ContentBlockStop
  <2>2. body = "open" /\ body' = body /\ stage = "streaming" /\ stage' = stage
    BY <2>1 DEF Streams, StopsBlock
  <2>3. Told' /\ Speaks(events, events') /\ created' /\ ~ended'
    BY <1>1, <2>1, <2>2, ResStop DEF SeamInv
  <2> QED BY <1>2, <2>2, <2>3 DEF SeamInv
<1>8. CASE MessageDelta
  <2>1. PICK r \in {"end_turn", "tool_use", "max_tokens"} :
           Streams /\ SendsReason(r) /\ Responses!OnMessageDelta(r)
    BY <1>8 DEF MessageDelta
  <2>2. body = "open" /\ body' = body /\ stage = "streaming" /\ stage' = "finishing"
    BY <2>1 DEF Streams, SendsReason
  <2>3. Told' /\ Speaks(events, events')
    BY <1>1, <2>1, <2>2, ResDelta DEF SeamInv
  <2> QED BY <1>2, <2>2, <2>3 DEF SeamInv
<1>9. CASE MessageStop
  <2>1. body = "open" /\ body' = body /\ stage' = "stopped" /\ Responses!Ignored
    BY <1>9 DEF MessageStop, Streams, SendsStop, Responses!OnMessageStop
  <2>2. Told' /\ Speaks(events, events')
    BY <1>1, <2>1, ResIgnored
  <2> QED BY <1>2, <2>1, <2>2 DEF SeamInv
<1>10. CASE Error
  <2>1. body = "open" /\ body' = body /\ stage' = "failed" /\ Responses!OnError
    BY <1>10 DEF Error, Streams, SendsError
  <2>2. Told' /\ Speaks(events, events')
    BY <1>1, <2>1, ResError
  <2> QED BY <1>2, <2>1, <2>2 DEF SeamInv
<1>11. CASE EndBody
  <2>1. body' = "ended" /\ Responses!Finish
    BY <1>11 DEF EndBody
  <2>2. CASE created /\ ~ended
    <3>1. Told' /\ Speaks(events, events') /\ ended'
      BY <1>1, <2>1, <2>2, ResError DEF Responses!Finish
    <3> QED BY <1>2, <2>1, <3>1 DEF SeamInv
  <2>3. CASE ~(created /\ ~ended)
    <3>1. Responses!Ignored
      BY <2>1, <2>3 DEF Responses!Finish
    <3>2. Told' /\ Speaks(events, events') /\ created' = created /\ ended' = ended
      BY <1>1, <3>1, ResIgnored DEF Responses!Ignored, Responses!responsesVars
    <3> QED BY <1>2, <2>1, <2>3, <3>2 DEF SeamInv
  <2> QED BY <2>2, <2>3
<1>12. CASE BreakBody
  <2>1. body' = "broken" /\ UNCHANGED responsesVars
    BY <1>12 DEF BreakBody
  <2>2. Told' /\ Speaks(events, events')
    BY <1>1, <2>1, ResIgnored DEF responsesVars, Responses!Ignored, Responses!responsesVars
  <2> QED BY <1>2, <2>1, <2>2 DEF SeamInv
<1>13. CASE NextTurn \/ UNCHANGED vars
  <2>1. UNCHANGED <<upstreamVars, responsesVars, body>>
    BY <1>13 DEF NextTurn, vars
  <2>2. Told' /\ Speaks(events, events')
    BY <1>1, <2>1, ResIgnored DEF responsesVars, Responses!Ignored, Responses!responsesVars
  <2> QED BY <1>2, <2>1, <2>2 DEF SeamInv, upstreamVars, responsesVars
<1> QED BY <1>3, <1>4, <1>5, <1>6, <1>7, <1>8, <1>9, <1>10, <1>11, <1>12, <1>13 DEF Next

\* It holds in every state of every behaviour.
LEMMA SeamAlways == Spec => []SeamInv
<1>1. SeamInv /\ [Next]_vars => SeamInv'
  BY SeamKeeps
<1> QED BY <1>1, SeamBegins, PTL DEF Spec

\* Every variable the translators keep has its type, for answers of any number
\* of blocks and any slips (translate/chat_sse.rs, translate/responses_sse.rs).
THEOREM TranslationTypes == Spec => []TypeOK
BY SeamAlways, SeamTypes, PTL

\* A call announced to a Chat Completions client receives its arguments once,
\* whole, after its announcement and before the finish chunk, and no answer
\* finishes or ends without an error while a call waits for them
\* (close_pending_tool_calls, on_content_block_stop).
THEOREM ArgumentsArrive == Spec => []ArgumentsArriveOnce
<1>1. SeamInv => ArgumentsArriveOnce
  <2> SUFFICES ASSUME SeamInv PROVE ArgumentsArriveOnce
    OBVIOUS
  <2>1. ChatInv /\ PlacesInv /\ StageInv
    BY DEF SeamInv, ChatInv
  <2>2. /\ chunks \in Seq(ChunkType) /\ DOMAIN chunks = 1 .. Len(chunks)
        /\ calls \in Seq(CallType) /\ DOMAIN calls = 1 .. Len(calls)
    BY <2>1 DEF ChatInv, PlacesInv
  <2> SUFFICES ASSUME NEW n \in 1 .. Len(calls)
               PROVE  LET sent == Positions("args", n)
                      IN  /\ \A j, k \in sent : j = k
                          /\ \A k \in sent :
                                /\ chunks[k].value \in Objects
                                /\ \A a \in Positions("call", n) : a < k
                                /\ \A f \in Finishing : k < f
                          /\ \/ Finishing # {}
                             \/ body = "ended" /\ Positions("error", 0) = {}
                             => sent # {}
    BY <2>2 DEF ArgumentsArriveOnce
  <2>3. \A type, m : Positions(type, m) =
           {k \in 1 .. Len(chunks) : chunks[k].type = type /\ chunks[k].index = m}
    BY <2>2 DEF Positions
  <2>4. Finishing = {k \in 1 .. Len(chunks) : chunks[k].type \in Chat!FinishReasons}
    BY <2>2 DEF Finishing
  <2>5. \A j, k \in Positions("args", n) : j = k
    BY <2>1, <2>3 DEF PlacesInv
  <2>6. ASSUME NEW k \in Positions("args", n)
        PROVE  /\ chunks[k].value \in Objects
               /\ \A a \in Positions("call", n) : a < k
               /\ \A f \in Finishing : k < f
    BY <2>1, <2>3, <2>4 DEF PlacesInv
  <2>7. ASSUME Finishing # {} \/ (body = "ended" /\ Positions("error", 0) = {})
        PROVE  Positions("args", n) # {}
    <3>1. AllDone
      <4>1. CASE Finishing # {}
        BY <2>1, <2>4, <4>1 DEF StageInv
      <4>2. CASE body = "ended" /\ Positions("error", 0) = {}
        BY <2>1, <2>3, <4>2 DEF StageInv, IsAt
      <4> QED BY <2>7, <4>1, <4>2
    <3>2. PICK k \in 1 .. Len(chunks) : IsAt(k, "args", n)
      BY <2>1, <3>1 DEF AllDone, PlacesInv
    <3> QED BY <2>3, <3>2 DEF IsAt
  <2> QED BY <2>5, <2>6, <2>7
<1> QED BY <1>1, SeamAlways, PTL

\* Nothing follows [DONE], and a body that ended has been closed in both
\* protocols (finish of both translators).
THEOREM ClosedOnce == Spec => []EndsOnce
<1>1. SeamInv => EndsOnce
  <2> SUFFICES ASSUME SeamInv PROVE EndsOnce
    OBVIOUS
  <2>1. ChatInv /\ PlacesInv /\ StageInv /\ Told
    BY DEF SeamInv, ChatInv
  <2>2. /\ chunks \in Seq(ChunkType) /\ DOMAIN chunks = 1 .. Len(chunks)
    BY <2>1 DEF PlacesInv
  <2>3. Positions("done", 0) = {k \in 1 .. Len(chunks) : IsAt(k, "done", 0)}
    BY <2>2 DEF Positions, IsAt
  <2>4. \A k \in Positions("done", 0) : k = Len(chunks)
    BY <2>1, <2>3 DEF StageInv, IsAt
  <2>5. body = "ended" => Positions("done", 0) # {}
    BY <2>1, <2>3 DEF StageInv
  <2>6. body = "ended" /\ created => Last(events).type \in Terminal
    BY <2>1 DEF SeamInv, Told, Last
  <2> QED BY <2>4, <2>5, <2>6 DEF EndsOnce
<1> QED BY <1>1, SeamAlways, PTL

\* The Responses translator implements the protocol its client relies on: from
\* the initial state, every step says what is lawful after what was said, or
\* nothing (translate/responses_sse.rs).
THEOREM SpeaksTheProtocol == Spec => ResponsesProtocol
<1>1. Init => Protocol!Init
  BY DEF Init, Responses!ResponsesInit, Protocol!Init
<1>2. SeamInv /\ [Next]_vars => [Protocol!Next]_events
  BY SeamKeeps, Spoken
<1> QED BY <1>1, <1>2, SeamAlways, PTL DEF Spec, ResponsesProtocol, Protocol!Spec

-----------------------------------------------------------------------------
(* The folds of Translation *)

\* The folds as instances of FoldSteps.
Reading == INSTANCE FoldSteps WITH Op <- Reads, Base <- NoAnswer
Hearing == INSTANCE FoldSteps WITH Op <- Hears, Base <- NoResponse
Texting == INSTANCE FoldSteps WITH Op <- AddText, Base <- <<>>
Tooling == INSTANCE FoldSteps WITH Op <- AddTool, Base <- <<>>
Showing == INSTANCE FoldSteps WITH Op <- AddShown, Base <- <<>>
Calling == INSTANCE FoldSteps WITH Op <- AddCalled, Base <- <<>>
Chatting == INSTANCE FoldSteps WITH Op <- ChatStep, Base <- NoMessages
Inputting == INSTANCE FoldSteps WITH Op <- InputStep, Base <- NoMessages

\* What a Chat Completions client has read of these chunks.
Read(s) == FoldLeft(Reads, NoAnswer, s)

\* What a Chat Completions client has after one more chunk.
LEMMA ReadMore ==
    /\ Read(<<>>) = NoAnswer
    /\ \A S : \A s \in Seq(S), e \in S : Read(Append(s, e)) = Reads(Read(s), e)
<1>0. Reading!Induction
  BY NatSet DEF Reading!Induction
<1>1. \A s : Read(s) = Reading!Fold(s)
  BY DEF Read, FoldLeft, MapThenFoldSet, Max,
         Reading!Fold, Reading!MapThenFoldSet, Reading!Greatest
<1> QED BY <1>0, <1>1, Reading!FoldNone, Reading!FoldMore

\* What a Responses client has heard of these events.
Heard(s) == FoldLeft(Hears, NoResponse, s)

\* What a Responses client has after one more event.
LEMMA HeardMore ==
    /\ Heard(<<>>) = NoResponse
    /\ \A S : \A s \in Seq(S), e \in S : Heard(Append(s, e)) = Hears(Heard(s), e)
<1>0. Hearing!Induction
  BY NatSet DEF Hearing!Induction
<1>1. \A s : Heard(s) = Hearing!Fold(s)
  BY DEF Heard, FoldLeft, MapThenFoldSet, Max,
         Hearing!Fold, Hearing!MapThenFoldSet, Hearing!Greatest
<1> QED BY <1>0, <1>1, Hearing!FoldNone, Hearing!FoldMore

\* The blocks of the upstream's message.
ContentType == [type: Kinds, id: Nat, parts: Seq(Part), start: Objects]

\* The text of one more block.
LEMMA TextMore ==
    /\ TextOf(<<>>) = <<>>
    /\ \A s \in Seq(ContentType) : TextOf(s) \in Seq(Part)
    /\ \A s \in Seq(ContentType), b \in ContentType : TextOf(Append(s, b)) = AddText(TextOf(s), b)
<1>0. Texting!Induction
  BY NatSet DEF Texting!Induction
<1>1. \A s : TextOf(s) = Texting!Fold(s)
  BY DEF TextOf, FoldLeft, MapThenFoldSet, Max,
         Texting!Fold, Texting!MapThenFoldSet, Texting!Greatest
<1>2. \A t \in Seq(Part), b \in ContentType : AddText(t, b) \in Seq(Part)
  BY DEF AddText, ContentType
<1>3. <<>> \in Seq(Part)
  OBVIOUS
<1>4. \A s \in Seq(ContentType) : Texting!Fold(s) \in Seq(Part)
  BY <1>0, <1>2, <1>3, Texting!FoldIn
<1> QED BY <1>0, <1>1, <1>4, Texting!FoldNone, Texting!FoldMore

\* The tool calls among one block more.
LEMMA ToolsMore ==
    /\ Tools(<<>>) = <<>>
    /\ \A S : \A s \in Seq(S) : Tools(s) \in Seq({b \in S : b.type = "tool_use"})
    /\ \A S : \A s \in Seq(S), b \in S : Tools(Append(s, b)) = AddTool(Tools(s), b)
<1>0. Tooling!Induction
  BY NatSet DEF Tooling!Induction
<1>1. \A s : Tools(s) = Tooling!Fold(s)
  BY DEF Tools, FoldLeft, MapThenFoldSet, Max,
         Tooling!Fold, Tooling!MapThenFoldSet, Tooling!Greatest
<1>2. ASSUME NEW S PROVE \A s \in Seq(S) : Tooling!Fold(s) \in Seq({b \in S : b.type = "tool_use"})
  <2> DEFINE T == {b \in S : b.type = "tool_use"}
  <2>1. \A t \in Seq(T), b \in S : AddTool(t, b) \in Seq(T)
    BY DEF AddTool
  <2>2. <<>> \in Seq(T)
    OBVIOUS
  <2> HIDE DEF T
  <2>3. \A s \in Seq(S) : Tooling!Fold(s) \in Seq(T)
    BY <1>0, <2>1, <2>2, Tooling!FoldIn
  <2> QED BY <2>3 DEF T
<1> QED BY <1>0, <1>1, <1>2, Tooling!FoldNone, Tooling!FoldMore

\* The items shown of one block more.
LEMMA ShownMore ==
    /\ Shown(<<>>) = <<>>
    /\ \A S : \A s \in Seq(S) : Shown(s) \in Seq({b \in S : b.type # "thinking"})
    /\ \A S : \A s \in Seq(S), b \in S : Shown(Append(s, b)) = AddShown(Shown(s), b)
<1>0. Showing!Induction
  BY NatSet DEF Showing!Induction
<1>1. \A s : Shown(s) = Showing!Fold(s)
  BY DEF Shown, FoldLeft, MapThenFoldSet, Max,
         Showing!Fold, Showing!MapThenFoldSet, Showing!Greatest
<1>2. ASSUME NEW S PROVE \A s \in Seq(S) : Showing!Fold(s) \in Seq({b \in S : b.type # "thinking"})
  <2> DEFINE T == {b \in S : b.type # "thinking"}
  <2>1. \A t \in Seq(T), b \in S : AddShown(t, b) \in Seq(T)
    BY DEF AddShown
  <2>2. <<>> \in Seq(T)
    OBVIOUS
  <2> HIDE DEF T
  <2>3. \A s \in Seq(S) : Showing!Fold(s) \in Seq(T)
    BY <1>0, <2>1, <2>2, Showing!FoldIn
  <2> QED BY <2>3 DEF T
<1> QED BY <1>0, <1>1, <1>2, Showing!FoldNone, Showing!FoldMore

\* The calls in one item more of a Responses client's output.
LEMMA CalledMore ==
    /\ CalledIn(<<>>) = <<>>
    /\ \A s \in Seq(ItemType) : CalledIn(s) \in Seq(Nat)
    /\ \A s \in Seq(ItemType), b \in ItemType : CalledIn(Append(s, b)) = AddCalled(CalledIn(s), b)
<1>0. Calling!Induction
  BY NatSet DEF Calling!Induction
<1>1. \A s : CalledIn(s) = Calling!Fold(s)
  BY DEF CalledIn, FoldLeft, MapThenFoldSet, Max,
         Calling!Fold, Calling!MapThenFoldSet, Calling!Greatest
<1>2. \A t \in Seq(Nat), b \in ItemType : AddCalled(t, b) \in Seq(Nat)
  BY DEF AddCalled, ItemType
<1>3. <<>> \in Seq(Nat)
  OBVIOUS
<1>4. \A s \in Seq(ItemType) : Calling!Fold(s) \in Seq(Nat)
  BY <1>0, <1>2, <1>3, Calling!FoldIn
<1> QED BY <1>0, <1>1, <1>4, Calling!FoldNone, Calling!FoldMore

\* What the entries become in convert_messages, before the last flush.
Converted(s) == FoldLeft(ChatStep, NoMessages, s)

\* convert_messages takes one message more.
LEMMA ConvertedMore ==
    /\ Converted(<<>>) = NoMessages
    /\ \A S : \A s \in Seq(S), e \in S : Converted(Append(s, e)) = ChatStep(Converted(s), e)
<1>0. Chatting!Induction
  BY NatSet DEF Chatting!Induction
<1>1. \A s : Converted(s) = Chatting!Fold(s)
  BY DEF Converted, FoldLeft, MapThenFoldSet, Max,
         Chatting!Fold, Chatting!MapThenFoldSet, Chatting!Greatest
<1> QED BY <1>0, <1>1, Chatting!FoldNone, Chatting!FoldMore

\* And in convert_input_items.
Taken(s) == FoldLeft(InputStep, NoMessages, s)

\* convert_input_items takes one item more.
LEMMA TakenMore ==
    /\ Taken(<<>>) = NoMessages
    /\ \A S : \A s \in Seq(S), e \in S : Taken(Append(s, e)) = InputStep(Taken(s), e)
<1>0. Inputting!Induction
  BY NatSet DEF Inputting!Induction
<1>1. \A s : Taken(s) = Inputting!Fold(s)
  BY DEF Taken, FoldLeft, MapThenFoldSet, Max,
         Inputting!Fold, Inputting!MapThenFoldSet, Inputting!Greatest
<1> QED BY <1>0, <1>1, Inputting!FoldNone, Inputting!FoldMore

-----------------------------------------------------------------------------
(* The content of the upstream's message *)

\* A block as part of the message, and the message these blocks make.
AsContent(i, b) == [type |-> b.kind, id |-> i, parts |-> b.parts, start |-> b.start]
ContentOf(bs) == [i \in 1 .. Len(bs) |-> AsContent(i, bs[i])]

\* Content is what the blocks make.
LEMMA ContentIs == Content = ContentOf(blocks)
BY DEF Content, ContentOf, AsContent, Newest

\* A block, as content.
LEMMA ContentTyped ==
    ASSUME NEW i \in Nat, NEW b \in BlockType
    PROVE  /\ AsContent(i, b) \in ContentType
           /\ AsContent(i, b).type = b.kind /\ AsContent(i, b).id = i
           /\ AsContent(i, b).parts = b.parts /\ AsContent(i, b).start = b.start
BY DEF AsContent, ContentType, BlockType

\* The blocks, as content.
LEMMA ContentSeq ==
    ASSUME NEW bs \in Seq(BlockType)
    PROVE  /\ ContentOf(bs) \in Seq(ContentType) /\ Len(ContentOf(bs)) = Len(bs)
           /\ \A i \in 1 .. Len(bs) : ContentOf(bs)[i] = AsContent(i, bs[i])
<1>1. \A i \in 1 .. Len(bs) : bs[i] \in BlockType /\ i \in Nat
  OBVIOUS
<1>2. ContentOf(bs) \in [1 .. Len(bs) -> ContentType]
  BY <1>1, ContentTyped DEF ContentOf
<1>3. ContentOf(bs) \in Seq(ContentType) /\ Len(ContentOf(bs)) = Len(bs)
  BY <1>2
<1> QED BY <1>3 DEF ContentOf

\* Closing blocks leaves their content.
LEMMA ContentSame ==
    ASSUME NEW bs \in Seq(BlockType), NEW ds \in Seq(BlockType), Len(ds) = Len(bs),
           \A i \in 1 .. Len(bs) : /\ ds[i].kind = bs[i].kind /\ ds[i].parts = bs[i].parts
                                   /\ ds[i].start = bs[i].start
    PROVE  ContentOf(ds) = ContentOf(bs)
BY DEF ContentOf, AsContent

\* One block more.
LEMMA ContentMore ==
    ASSUME NEW bs \in Seq(BlockType), NEW b \in BlockType
    PROVE  ContentOf(Append(bs, b)) = Append(ContentOf(bs), AsContent(Len(bs) + 1, b))
<1> DEFINE ds == Append(bs, b)
           c == AsContent(Len(bs) + 1, b)
<1>1. ds \in Seq(BlockType) /\ Len(ds) = Len(bs) + 1 /\ ds[Len(bs) + 1] = b /\ Len(bs) \in Nat
      /\ \A i \in 1 .. Len(bs) : ds[i] = bs[i]
  OBVIOUS
<1> HIDE DEF ds
<1>2. /\ ContentOf(ds) \in Seq(ContentType) /\ Len(ContentOf(ds)) = Len(bs) + 1
      /\ \A i \in 1 .. Len(bs) + 1 : ContentOf(ds)[i] = AsContent(i, ds[i])
  BY <1>1, ContentSeq
<1>3. /\ ContentOf(bs) \in Seq(ContentType) /\ Len(ContentOf(bs)) = Len(bs)
      /\ \A i \in 1 .. Len(bs) : ContentOf(bs)[i] = AsContent(i, bs[i])
  BY ContentSeq
<1>4. c \in ContentType /\ ContentOf(ds)[Len(bs) + 1] = c
  BY <1>1, <1>2, ContentTyped
<1>5. \A i \in 1 .. Len(bs) : ContentOf(ds)[i] = ContentOf(bs)[i]
  BY <1>1, <1>2, <1>3
<1> HIDE DEF c
<1>6. ContentOf(ds) = Append(ContentOf(bs), c)
  BY <1>1, <1>2, <1>3, <1>4, <1>5
<1> QED BY <1>6 DEF ds, c

\* Sequences with the same elements.
LEMMA SeqSame ==
    ASSUME NEW S, NEW s \in Seq(S), NEW t \in Seq(S), Len(t) = Len(s),
           \A k \in 1 .. Len(s) : t[k] = s[k]
    PROVE  t = s
OBVIOUS

\* A sequence whose last element is known.
LEMMA Ended ==
    ASSUME NEW S, NEW f \in Seq(S), NEW e \in S, NEW s \in Seq(S), Len(s) = Len(f) + 1,
           s[Len(f) + 1] = e, \A k \in 1 .. Len(f) : s[k] = f[k]
    PROVE  s = Append(f, e)
OBVIOUS

\* The newest block changed alone.
LEMMA ContentGrows ==
    ASSUME NEW bs \in Seq(BlockType), NEW ds \in Seq(BlockType), NEW n, n = Len(bs), n > 0,
           Len(ds) = n, \A j \in 1 .. n : j # n => ds[j] = bs[j]
    PROVE  /\ AsContent(n, bs[n]) \in ContentType /\ AsContent(n, ds[n]) \in ContentType
           /\ \E f \in Seq(ContentType) :
                 /\ ContentOf(bs) = Append(f, AsContent(n, bs[n]))
                 /\ ContentOf(ds) = Append(f, AsContent(n, ds[n]))
<1> DEFINE b == AsContent(n, bs[n])
           d == AsContent(n, ds[n])
           f == [i \in 1 .. n - 1 |-> AsContent(i, bs[i])]
<1>1. n \in Nat /\ n - 1 \in Nat /\ n = (n - 1) + 1
      /\ \A i \in 1 .. n : bs[i] \in BlockType /\ ds[i] \in BlockType /\ i \in Nat
  OBVIOUS
<1>2. b \in ContentType /\ d \in ContentType
  BY <1>1, ContentTyped
<1>3. f \in [1 .. n - 1 -> ContentType]
  BY <1>1, ContentTyped
<1>4. f \in Seq(ContentType) /\ Len(f) = n - 1
  BY <1>1, <1>3
<1>5. /\ ContentOf(bs) \in Seq(ContentType) /\ Len(ContentOf(bs)) = n
      /\ \A i \in 1 .. n : ContentOf(bs)[i] = AsContent(i, bs[i])
      /\ ContentOf(ds) \in Seq(ContentType) /\ Len(ContentOf(ds)) = n
      /\ \A i \in 1 .. n : ContentOf(ds)[i] = AsContent(i, ds[i])
  BY ContentSeq
<1>6. \A i \in 1 .. n - 1 : f[i] = ContentOf(bs)[i] /\ f[i] = ContentOf(ds)[i]
  BY <1>1, <1>5
<1>7. ContentOf(bs)[n] = b /\ ContentOf(ds)[n] = d
  BY <1>1, <1>5
<1> HIDE DEF f, b, d
<1>8. ContentOf(bs) = Append(f, b) /\ ContentOf(ds) = Append(f, d)
  <2>1. \A k \in 1 .. Len(f) : ContentOf(bs)[k] = f[k] /\ ContentOf(ds)[k] = f[k]
    BY <1>4, <1>6
  <2>2. /\ Len(ContentOf(bs)) = Len(f) + 1 /\ Len(ContentOf(ds)) = Len(f) + 1
        /\ ContentOf(bs)[Len(f) + 1] = b /\ ContentOf(ds)[Len(f) + 1] = d
    BY <1>1, <1>4, <1>5, <1>7
  <2> QED BY <1>2, <1>4, <1>5, <2>1, <2>2, Ended
<1> QED BY <1>2, <1>4, <1>8 DEF b, d

\* content_block_start: the content with the block, which alone is open.
LEMMA ContentStarts ==
    ASSUME TypeOK, NEW kind \in Kinds, NEW start \in {NoArguments, Preset(Newest + 1)},
           StartsBlock(kind, start)
    PROVE  LET b == AsContent(Newest + 1, Block(kind, start, <<>>))
           IN  /\ Content' = Append(Content, b) /\ b \in ContentType
               /\ b = [type |-> kind, id |-> Newest + 1, parts |-> <<>>, start |-> start]
               /\ Newest' = Newest + 1 /\ blocks'[Newest'] = Block(kind, start, <<>>)
               /\ \A i \in 1 .. Newest : blocks'[i] = [blocks[i] EXCEPT !.open = FALSE]
<1> DEFINE b == Block(kind, start, <<>>)
<1>1. Newest \in Nat /\ Newest + 1 \in Index /\ Newest = Len(blocks) /\ blocks \in Seq(BlockType)
  BY TypesAre, MaxBlocksAssumption DEF StartsBlock, Newest, Index
<1>2. start \in Objects
  BY <1>1 DEF Objects
<1>3. <<>> \in Seq(Part)
  OBVIOUS
<1>4. b \in BlockType /\ b.kind = kind /\ b.parts = <<>> /\ b.start = start
  BY <1>2, <1>3 DEF Block, BlockType
<1>5. /\ LeftOpen \in Seq(BlockType) /\ Len(LeftOpen) = Newest
      /\ \A i \in 1 .. Newest : LeftOpen[i] = [blocks[i] EXCEPT !.open = FALSE]
  BY LeftOpenIs
<1>6. \A i \in 1 .. Newest : blocks[i] \in BlockType
  BY <1>1
<1>7. ContentOf(LeftOpen) = ContentOf(blocks)
  <2>1. \A i \in 1 .. Newest : /\ LeftOpen[i].kind = blocks[i].kind
                               /\ LeftOpen[i].parts = blocks[i].parts
                               /\ LeftOpen[i].start = blocks[i].start
    BY <1>5, <1>6 DEF BlockType
  <2> QED BY <1>1, <1>5, <2>1, ContentSame
<1>8. blocks' = Append(LeftOpen, b)
  BY DEF StartsBlock
<1>9. AsContent(Newest + 1, b) = [type |-> kind, id |-> Newest + 1, parts |-> <<>>, start |-> start]
  BY <1>4 DEF AsContent
<1> HIDE DEF b
<1>10. AsContent(Newest + 1, b) \in ContentType
  BY <1>1, <1>4, ContentTyped
<1>11. ContentOf(blocks') = Append(ContentOf(LeftOpen), AsContent(Newest + 1, b))
  BY <1>4, <1>5, <1>8, ContentMore
<1>12. Content' = ContentOf(blocks')
  BY ContentIs DEF Content, ContentOf, AsContent, Newest
<1>13. Len(blocks') = Newest + 1 /\ blocks'[Newest + 1] = b
       /\ \A i \in 1 .. Newest : blocks'[i] = LeftOpen[i]
  BY <1>4, <1>5, <1>8, Added
<1>14. Newest' = Newest + 1
  BY <1>13 DEF Newest
<1> QED BY <1>5, <1>7, <1>9, <1>10, <1>11, <1>12, <1>13, <1>14, ContentIs DEF b

\* A part more of the newest block.
LEMMA ContentTakes ==
    ASSUME TypeOK, NEW i \in 1 .. Newest, i = Newest, Len(blocks[i].parts) < 2,
           blocks' = [blocks EXCEPT ![i].parts = Append(@, NextPart(i))]
    PROVE  LET b == AsContent(i, blocks[i])
               d == AsContent(i, blocks'[i])
           IN  /\ b \in ContentType /\ d \in ContentType
               /\ d.type = b.type /\ d.id = b.id /\ d.start = b.start
               /\ b.type = blocks[i].kind /\ b.id = i
               /\ b.parts = blocks[i].parts /\ b.start = blocks[i].start
               /\ d.parts = Append(b.parts, NextPart(i))
               /\ \E f \in Seq(ContentType) : Content = Append(f, b) /\ Content' = Append(f, d)
<1>1. Newest = Len(blocks) /\ Newest \in Nat /\ blocks \in Seq(BlockType)
  BY TypesAre DEF Newest
<1>2. /\ blocks' \in Seq(BlockType) /\ Len(blocks') = Newest
      /\ blocks'[i] = [blocks[i] EXCEPT !.parts = Append(@, NextPart(i))]
      /\ \A j \in 1 .. Newest : j # i => blocks'[j] = blocks[j]
  BY <1>1, GrowTypes
<1>3. blocks[i] \in BlockType /\ blocks'[i] \in BlockType /\ i \in Nat
  BY <1>1, <1>2
<1>4. /\ blocks'[i].kind = blocks[i].kind /\ blocks'[i].start = blocks[i].start
      /\ blocks'[i].parts = Append(blocks[i].parts, NextPart(i))
  BY <1>2, <1>3 DEF BlockType
<1>5. Content' = ContentOf(blocks')
  BY DEF Content, ContentOf, AsContent, Newest
<1>6. i > 0 /\ i = Len(blocks) /\ Len(blocks') = i /\ \A j \in 1 .. i : j # i => blocks'[j] = blocks[j]
  BY <1>1, <1>2
<1> DEFINE ds == blocks'
           b == AsContent(i, blocks[i])
           d == AsContent(i, ds[i])
<1>7. ds \in Seq(BlockType) /\ Len(ds) = i /\ \A j \in 1 .. i : j # i => ds[j] = blocks[j]
  BY <1>2, <1>6
<1>8. b \in ContentType /\ d \in ContentType
      /\ d.type = b.type /\ d.id = b.id /\ d.start = b.start
      /\ b.type = blocks[i].kind /\ b.id = i
      /\ b.parts = blocks[i].parts /\ b.start = blocks[i].start
      /\ d.parts = Append(b.parts, NextPart(i))
  <2>1. /\ b \in ContentType /\ b.type = blocks[i].kind /\ b.id = i
        /\ b.parts = blocks[i].parts /\ b.start = blocks[i].start
    BY <1>3, ContentTyped
  <2>2. ds[i] \in BlockType
    BY <1>3
  <2>3. /\ ds[i].kind = blocks[i].kind /\ ds[i].start = blocks[i].start
        /\ ds[i].parts = Append(blocks[i].parts, NextPart(i))
    BY <1>4
  <2> HIDE DEF ds
  <2>4. /\ d \in ContentType /\ d.type = ds[i].kind /\ d.id = i
        /\ d.parts = ds[i].parts /\ d.start = ds[i].start
    BY <1>3, <2>2, ContentTyped
  <2> QED BY <2>1, <2>3, <2>4
<1>a. Content' = ContentOf(ds)
  BY <1>5
<1> HIDE DEF ds
<1>9. PICK f \in Seq(ContentType) :
         /\ ContentOf(blocks) = Append(f, AsContent(i, blocks[i]))
         /\ ContentOf(ds) = Append(f, AsContent(i, ds[i]))
  BY <1>1, <1>6, <1>7, ContentGrows
<1>10. Content = Append(f, b) /\ Content' = Append(f, d)
  BY <1>9, <1>a, ContentIs
<1> HIDE DEF b, d
<1>11. \E g \in Seq(ContentType) : Content = Append(g, b) /\ Content' = Append(g, d)
  BY <1>10
<1> QED BY <1>8, <1>11 DEF b, d, ds

\* The text of a block the upstream did not start.
LEMMA ContentSlips ==
    ASSUME TypeOK, NEW i, i = Newest + 1, i <= MaxBlocks,
           blocks' = Append(blocks, Block("text", NoArguments, <<NextPart(i)>>))
    PROVE  LET b == AsContent(i, Block("text", NoArguments, <<NextPart(i)>>))
           IN  /\ Content' = Append(Content, b) /\ b \in ContentType
               /\ b = [type |-> "text", id |-> i, parts |-> <<NextPart(i)>>, start |-> NoArguments]
               /\ Newest' = Newest + 1
               /\ blocks'[i] = Block("text", NoArguments, <<NextPart(i)>>)
               /\ \A j \in 1 .. Newest : blocks'[j] = blocks[j]
<1> DEFINE b == Block("text", NoArguments, <<NextPart(i)>>)
<1>1. Newest \in Nat /\ i \in Index /\ i \in Nat /\ Newest = Len(blocks) /\ blocks \in Seq(BlockType)
  BY TypesAre, MaxBlocksAssumption DEF Newest, Index
<1>2. NextPart(i) \in Part
  BY <1>1, NextPartIs
<1>3. b \in BlockType
  BY <1>2 DEF Block, BlockType, Kinds, Objects
<1>4. AsContent(i, b) = [type |-> "text", id |-> i, parts |-> <<NextPart(i)>>, start |-> NoArguments]
  BY DEF AsContent, Block
<1>5. blocks' = Append(blocks, b)
  OBVIOUS
<1> HIDE DEF b
<1>6. ContentOf(blocks') = Append(ContentOf(blocks), AsContent(i, b))
  BY <1>1, <1>3, <1>5, ContentMore
<1>7. Content' = ContentOf(blocks')
  BY DEF Content, ContentOf, AsContent, Newest
<1>8. Len(blocks') = Newest + 1 /\ blocks'[i] = b /\ \A j \in 1 .. Newest : blocks'[j] = blocks[j]
  BY <1>1, <1>3, <1>5, Added
<1>9. Newest' = Newest + 1
  BY <1>8 DEF Newest
<1> QED BY <1>1, <1>3, <1>4, <1>6, <1>7, <1>8, <1>9, ContentIs, ContentTyped DEF b

\* content_block_stop: the content as it was, and nothing open.
LEMMA ContentStops ==
    ASSUME TypeOK, NEW i, StopsBlock(i)
    PROVE  /\ Content' = Content /\ Newest' = Newest /\ ~AnyOpen'
           /\ \A j \in 1 .. Newest : blocks'[j] = [blocks[j] EXCEPT !.open = FALSE] /\ ~blocks'[j].open
<1>1. Newest \in Nat /\ Newest = Len(blocks) /\ blocks \in Seq(BlockType)
  BY TypesAre DEF Newest
<1>2. /\ blocks' \in Seq(BlockType) /\ Len(blocks') = Newest
      /\ \A j \in 1 .. Newest : blocks'[j] = [blocks[j] EXCEPT !.open = FALSE]
  BY LeftOpenIs DEF StopsBlock
<1>3. \A j \in 1 .. Newest : blocks[j] \in BlockType
  BY <1>1
<1>4. \A j \in 1 .. Newest : /\ blocks'[j].kind = blocks[j].kind /\ ~blocks'[j].open
                             /\ blocks'[j].parts = blocks[j].parts
                             /\ blocks'[j].start = blocks[j].start
  BY <1>2, <1>3 DEF BlockType
<1>5. ContentOf(blocks') = ContentOf(blocks)
  BY <1>1, <1>2, <1>4, ContentSame
<1>6. Content' = ContentOf(blocks')
  BY DEF Content, ContentOf, AsContent, Newest
<1>7. Newest' = Newest
  BY <1>2 DEF Newest
<1>8. ~AnyOpen'
  BY <1>1, <1>4, <1>7 DEF AnyOpen
<1> QED BY <1>2, <1>4, <1>5, <1>6, <1>7, <1>8, ContentIs

-----------------------------------------------------------------------------
(* What a Chat Completions client has read *)

\* What a client has read: a text, calls and the reasons to finish.
Answer(text, answered, finish) == [text |-> text, calls |-> answered, finish |-> finish]

\* A text more.
LEMMA ReadsText ==
    ASSUME NEW t, NEW cs, NEW f, NEW i, NEW v
    PROVE  Reads(Answer(t, cs, f), Chat!Chunk("text", i, v)) = Answer(t \o v, cs, f)
BY DEF Reads, Answer, Chat!Chunk, Chat!FinishReasons

\* A call more.
LEMMA ReadsCall ==
    ASSUME NEW t, NEW cs, NEW f, NEW i, NEW v
    PROVE  Reads(Answer(t, cs, f), Chat!Chunk("call", i, v)) =
              Answer(t, Append(cs, Call(v[1][1], <<>>)), f)
BY DEF Reads, Answer, Chat!Chunk, Chat!FinishReasons

\* A reason.
LEMMA ReadsFinish ==
    ASSUME NEW t, NEW cs, NEW f, NEW type \in Chat!FinishReasons
    PROVE  Reads(Answer(t, cs, f), Chat!Plain(type)) = Answer(t, cs, Append(f, type))
BY DEF Reads, Answer, Chat!Plain, Chat!Chunk, Chat!FinishReasons

\* Nothing of the answer.
LEMMA ReadsPlain ==
    ASSUME NEW t, NEW cs, NEW f, NEW type \in {"role", "usage", "done", "error"}
    PROVE  Reads(Answer(t, cs, f), Chat!Plain(type)) = Answer(t, cs, f)
BY DEF Reads, Answer, Chat!Plain, Chat!Chunk, Chat!FinishReasons

\* A part is a text.
LEMMA PartText == ASSUME NEW part \in Part PROVE <<part>> \in Texts
<1>1. <<part>> \in Seq(Part)
  OBVIOUS
<1> QED BY <1>1, TextsAre

\* The calls a client has, when these are the translator's: those closed with
\* their arguments, the others with none.
CallsOf(cs) ==
    [c \in 1 .. Len(cs) |-> Call(cs[c].index, IF cs[c].closed THEN Chat!Arguments(cs[c]) ELSE <<>>)]

\* A call as its client has it.
CallTexts == [id: Nat, arguments: Texts]

\* One call for each the translator knows.
LEMMA CallsOfIs ==
    ASSUME NEW cs \in Seq(CallType)
    PROVE  /\ CallsOf(cs) \in Seq(CallTexts) /\ Len(CallsOf(cs)) = Len(cs)
           /\ \A c \in 1 .. Len(cs) :
                 CallsOf(cs)[c] = Call(cs[c].index,
                                       IF cs[c].closed THEN Chat!Arguments(cs[c]) ELSE <<>>)
<1>1. ASSUME NEW c \in 1 .. Len(cs)
      PROVE  Call(cs[c].index, IF cs[c].closed THEN Chat!Arguments(cs[c]) ELSE <<>>) \in CallTexts
  <2>1. cs[c] \in CallType
    OBVIOUS
  <2>2. Chat!Arguments(cs[c]) \in Objects /\ cs[c].index \in Nat
    BY <2>1, Resolved DEF Chat!Arguments, CallType, Index
  <2> DEFINE v == IF cs[c].closed THEN Chat!Arguments(cs[c]) ELSE <<>>
  <2>3. v \in Texts
    BY <2>2, TextsAre
  <2> HIDE DEF v
  <2>4. Call(cs[c].index, v) \in CallTexts
    BY <2>2, <2>3 DEF Call, CallTexts
  <2> QED BY <2>4 DEF v
<1>2. CallsOf(cs) \in [1 .. Len(cs) -> CallTexts]
  BY <1>1 DEF CallsOf
<1>3. CallsOf(cs) \in Seq(CallTexts) /\ Len(CallsOf(cs)) = Len(cs)
  BY <1>2
<1> QED BY <1>3 DEF CallsOf

\* A call announced has no arguments yet.
LEMMA CallsOfMore ==
    ASSUME NEW cs \in Seq(CallType), NEW d \in CallType, ~d.closed
    PROVE  CallsOf(Append(cs, d)) = Append(CallsOf(cs), Call(d.index, <<>>))
<1> DEFINE ds == Append(cs, d)
           e == Call(d.index, <<>>)
<1>1. ds \in Seq(CallType) /\ Len(ds) = Len(cs) + 1 /\ ds[Len(cs) + 1] = d /\ Len(cs) \in Nat
      /\ \A c \in 1 .. Len(cs) : ds[c] = cs[c]
  OBVIOUS
<1> HIDE DEF ds
<1>2. /\ CallsOf(ds) \in Seq(CallTexts) /\ Len(CallsOf(ds)) = Len(cs) + 1
      /\ \A c \in 1 .. Len(cs) + 1 :
            CallsOf(ds)[c] = Call(ds[c].index, IF ds[c].closed THEN Chat!Arguments(ds[c]) ELSE <<>>)
  BY <1>1, CallsOfIs
<1>3. /\ CallsOf(cs) \in Seq(CallTexts) /\ Len(CallsOf(cs)) = Len(cs)
      /\ \A c \in 1 .. Len(cs) :
            CallsOf(cs)[c] = Call(cs[c].index, IF cs[c].closed THEN Chat!Arguments(cs[c]) ELSE <<>>)
  BY CallsOfIs
<1>4. CallsOf(ds)[Len(cs) + 1] = e
  BY <1>1, <1>2
<1>5. \A c \in 1 .. Len(cs) : CallsOf(ds)[c] = CallsOf(cs)[c]
  BY <1>1, <1>2, <1>3
<1>6. e \in CallTexts
  <2>1. Len(cs) + 1 \in 1 .. Len(CallsOf(ds))
    BY <1>1, <1>2
  <2> QED BY <1>2, <1>4, <2>1
<1> HIDE DEF e
<1>7. CallsOf(ds) = Append(CallsOf(cs), e)
  BY <1>1, <1>2, <1>3, <1>4, <1>5, <1>6, Ended
<1> QED BY <1>7 DEF ds, e

\* The translator's calls are the tool_use blocks, in order.
Announced(content, cs) ==
    /\ Len(cs) = Len(Tools(content))
    /\ \A c \in 1 .. Len(cs) : /\ cs[c].index = Tools(content)[c].id
                               /\ cs[c].accumulated = Tools(content)[c].parts
                               /\ cs[c].start = Tools(content)[c].start

\* One block more.
LEMMA AnnouncedMore ==
    ASSUME NEW content \in Seq(ContentType), NEW b \in ContentType,
           NEW cs \in Seq(CallType), Announced(content, cs)
    PROVE  /\ b.type # "tool_use" => Announced(Append(content, b), cs)
           /\ \A d \in CallType :
                 /\ b.type = "tool_use"
                 /\ d.index = b.id /\ d.accumulated = b.parts /\ d.start = b.start
                 => Announced(Append(content, b), Append(cs, d))
<1>1. Tools(Append(content, b)) = AddTool(Tools(content), b)
  BY ToolsMore
<1>2. CASE b.type # "tool_use"
  <2>1. Tools(Append(content, b)) = Tools(content)
    BY <1>1, <1>2 DEF AddTool
  <2> QED BY <1>2, <2>1 DEF Announced
<1>3. ASSUME b.type = "tool_use", NEW d \in CallType,
             d.index = b.id /\ d.accumulated = b.parts /\ d.start = b.start
      PROVE  Announced(Append(content, b), Append(cs, d))
  <2> DEFINE T == Tools(content)
             U == Append(T, b)
             ds == Append(cs, d)
  <2>1. Tools(Append(content, b)) = U
    BY <1>1, <1>3 DEF AddTool
  <2>2. T \in Seq({a \in ContentType : a.type = "tool_use"})
    BY ToolsMore
  <2>3. b \in {a \in ContentType : a.type = "tool_use"}
    BY <1>3
  <2> HIDE DEF T
  <2>4. Len(U) = Len(T) + 1 /\ U[Len(T) + 1] = b /\ \A k \in 1 .. Len(T) : U[k] = T[k]
    BY <2>2, <2>3
  <2>5. Len(ds) = Len(cs) + 1 /\ ds[Len(cs) + 1] = d /\ Len(cs) \in Nat
        /\ \A k \in 1 .. Len(cs) : ds[k] = cs[k]
    BY <1>3
  <2>6. Len(cs) = Len(T)
        /\ \A c \in 1 .. Len(cs) : /\ cs[c].index = T[c].id /\ cs[c].accumulated = T[c].parts
                                   /\ cs[c].start = T[c].start
    BY DEF Announced, T
  <2> HIDE DEF U, ds
  <2>7. \A c \in 1 .. Len(ds) : /\ ds[c].index = U[c].id /\ ds[c].accumulated = U[c].parts
                                /\ ds[c].start = U[c].start
    BY <1>3, <2>4, <2>5, <2>6
  <2> QED BY <2>1, <2>4, <2>5, <2>6, <2>7 DEF Announced, ds
<1> QED BY <1>2, <1>3

\* A fragment more of the newest block.
LEMMA AnnouncedGrows ==
    ASSUME NEW f \in Seq(ContentType), NEW b \in ContentType, NEW d \in ContentType,
           NEW part \in Part, d.type = b.type, d.id = b.id, d.start = b.start,
           d.parts = Append(b.parts, part), b.type = "tool_use",
           NEW cs \in Seq(CallType), NEW ds \in Seq(CallType), Len(ds) = Len(cs),
           \A j, k \in 1 .. Len(cs) : j < k => cs[j].index < cs[k].index,
           \A c \in 1 .. Len(cs) :
              ds[c] = IF cs[c].index = b.id THEN [cs[c] EXCEPT !.accumulated = Append(@, part)]
                      ELSE cs[c],
           Announced(Append(f, b), cs)
    PROVE  Announced(Append(f, d), ds)
<1> DEFINE T == Tools(f)
           S == {a \in ContentType : a.type = "tool_use"}
           U == Append(T, b)
           V == Append(T, d)
<1>1. Tools(Append(f, b)) = U /\ Tools(Append(f, d)) = V
  <2>1. Tools(Append(f, b)) = AddTool(T, b) /\ Tools(Append(f, d)) = AddTool(T, d)
    BY ToolsMore
  <2> QED BY <2>1 DEF AddTool
<1>2. T \in Seq(S) /\ b \in S /\ d \in S
  BY ToolsMore
<1> HIDE DEF T, S
<1>3. /\ Len(U) = Len(T) + 1 /\ U[Len(T) + 1] = b /\ Len(T) \in Nat
      /\ Len(V) = Len(T) + 1 /\ V[Len(T) + 1] = d
      /\ \A k \in 1 .. Len(T) : U[k] = T[k] /\ V[k] = T[k]
  BY <1>2
<1>4. /\ Len(cs) = Len(U)
      /\ \A c \in 1 .. Len(cs) : /\ cs[c].index = U[c].id /\ cs[c].accumulated = U[c].parts
                                 /\ cs[c].start = U[c].start
  BY <1>1 DEF Announced
<1> HIDE DEF U, V
<1>5. \A c \in 1 .. Len(cs) : cs[c] \in CallType
  OBVIOUS
<1> DEFINE m == Len(T) + 1
<1>6. m \in 1 .. Len(cs) /\ cs[m].index = b.id /\ Len(cs) = m
  BY <1>3, <1>4
<1>7. ASSUME NEW c \in 1 .. Len(cs), c # m
      PROVE  c < m /\ cs[c].index \in Nat /\ cs[c].index < cs[m].index
  <2>1. cs[c].index \in Nat
    BY <1>5 DEF CallType, Index
  <2>2. c < m
    BY <1>3, <1>6, <1>7
  <2> HIDE DEF m
  <2>3. cs[c].index < cs[m].index
    BY <1>6, <2>2
  <2> QED BY <2>1, <2>2, <2>3
<1>8. ds[m] = [cs[m] EXCEPT !.accumulated = Append(@, part)]
  BY <1>6
<1>9. ds[m].index = cs[m].index /\ ds[m].start = cs[m].start
      /\ ds[m].accumulated = Append(cs[m].accumulated, part)
  BY <1>5, <1>6, <1>8 DEF CallType
<1>10. ASSUME NEW c \in 1 .. Len(ds)
       PROVE  ds[c].index = V[c].id /\ ds[c].accumulated = V[c].parts /\ ds[c].start = V[c].start
  <2>1. CASE c = m
    BY <1>3, <1>4, <1>6, <1>9, <2>1
  <2>2. CASE c # m
    <3>1. cs[c].index # b.id
      <4>1. cs[c].index \in Nat /\ cs[c].index < cs[m].index /\ cs[m].index = b.id
            /\ cs[m] \in CallType
        BY <1>5, <1>6, <1>7, <2>2
      <4> QED BY <4>1 DEF CallType, Index
    <3>2. ds[c] = cs[c] /\ c \in 1 .. Len(T)
      BY <1>6, <1>7, <2>2, <3>1, <1>3
    <3> QED BY <1>3, <1>4, <3>2
  <2> QED BY <2>1, <2>2
<1> QED BY <1>1, <1>3, <1>4, <1>10 DEF Announced

\* A chunk, by its fields.
LEMMA ChunkIs ==
    ASSUME NEW e \in ChunkType
    PROVE  e = Chat!Chunk(e.type, e.index, e.value)
BY DEF ChunkType, Chat!Chunk

\* A call when it is closed.
Shut(call, d) == /\ d.closed /\ d.index = call.index
                 /\ d.accumulated = call.accumulated /\ d.start = call.start

\* A closed call stays as it is.
LEMMA ShutSame ==
    ASSUME NEW a \in CallType, NEW b \in CallType, Shut(a, b), a.closed
    PROVE  b = a
BY DEF CallType, Shut

\* A call's arguments arrive.
LEMMA CallCloses ==
    ASSUME NEW cs \in Seq(CallType), NEW ds \in Seq(CallType), Len(ds) = Len(cs),
           NEW c \in 1 .. Len(cs), ~cs[c].closed, Shut(cs[c], ds[c]),
           \A d \in 1 .. Len(cs) : d # c => ds[d] = cs[d]
    PROVE  \A t, f : Reads(Answer(t, CallsOf(cs), f), Chat!Chunk("args", c, Chat!Arguments(cs[c])))
                        = Answer(t, CallsOf(ds), f)
<1> TAKE t, f
<1> DEFINE v == Chat!Arguments(cs[c])
           e == Call(cs[c].index, v)
<1>1. cs[c] \in CallType
  OBVIOUS
<1>2. v \in Texts /\ <<>> \o v = v
  <2>1. v \in Objects
    BY <1>1, Resolved DEF Chat!Arguments, CallType
  <2>2. v \in Texts
    BY <2>1, TextsAre
  <2> HIDE DEF v
  <2> QED BY <2>2 DEF Texts
<1>3. /\ CallsOf(cs) \in Seq(CallTexts) /\ Len(CallsOf(cs)) = Len(cs)
      /\ \A d \in 1 .. Len(cs) :
            CallsOf(cs)[d] = Call(cs[d].index, IF cs[d].closed THEN Chat!Arguments(cs[d]) ELSE <<>>)
  BY CallsOfIs
<1>4. /\ CallsOf(ds) \in Seq(CallTexts) /\ Len(CallsOf(ds)) = Len(cs)
      /\ \A d \in 1 .. Len(cs) :
            CallsOf(ds)[d] = Call(ds[d].index, IF ds[d].closed THEN Chat!Arguments(ds[d]) ELSE <<>>)
  BY CallsOfIs
<1>5. ds[c].closed /\ ds[c].index = cs[c].index /\ Chat!Arguments(ds[c]) = v
  BY <1>1 DEF Shut, Chat!Arguments
<1>6. CallsOf(ds)[c] = e
  BY <1>4, <1>5
<1>7. CallsOf(cs)[c] = Call(cs[c].index, <<>>)
  BY <1>3
<1> HIDE DEF v
<1>8. Call(CallsOf(cs)[c].id, CallsOf(cs)[c].arguments \o v) = e
  BY <1>2, <1>7 DEF Call
<1>9. \A d \in 1 .. Len(cs) : d # c => CallsOf(ds)[d] = CallsOf(cs)[d]
  BY <1>3, <1>4
<1>10. e \in CallTexts
  BY <1>4, <1>6
<1> HIDE DEF e
<1>11. [CallsOf(cs) EXCEPT ![c] = e] = CallsOf(ds)
  <2>1. /\ [CallsOf(cs) EXCEPT ![c] = e] \in Seq(CallTexts)
        /\ Len([CallsOf(cs) EXCEPT ![c] = e]) = Len(cs)
        /\ [CallsOf(cs) EXCEPT ![c] = e][c] = e
        /\ \A d \in 1 .. Len(cs) : d # c => [CallsOf(cs) EXCEPT ![c] = e][d] = CallsOf(cs)[d]
    BY <1>3, <1>10, Changed
  <2> DEFINE x == [CallsOf(cs) EXCEPT ![c] = e]
  <2>2. \A d \in 1 .. Len(cs) : x[d] = CallsOf(ds)[d]
    BY <1>6, <1>9, <2>1
  <2>3. x \in Seq(CallTexts) /\ Len(x) = Len(CallsOf(ds))
    BY <1>4, <2>1
  <2> HIDE DEF x
  <2>4. x = CallsOf(ds)
    BY <1>4, <2>2, <2>3
  <2> QED BY <2>4 DEF x
<1>12. [CallsOf(cs) EXCEPT ![c] = Call(@.id, @.arguments \o v)] = [CallsOf(cs) EXCEPT ![c] = e]
  BY <1>8
<1>13. Reads(Answer(t, CallsOf(cs), f), Chat!Chunk("args", c, v))
          = Answer(t, [CallsOf(cs) EXCEPT ![c] = Call(@.id, @.arguments \o v)], f)
  BY DEF Reads, Answer, Chat!Chunk, Chat!FinishReasons
<1> QED BY <1>11, <1>12, <1>13 DEF v

\* What is sent one element at a time.
LEMMA SentOne ==
    ASSUME NEW S, NEW s \in Seq(S), NEW p \in Seq(S), NEW m \in Nat, m + 1 <= Len(p)
    PROVE  /\ s \o SubSeq(p, 1, m) \in Seq(S) /\ p[m + 1] \in S
           /\ s \o SubSeq(p, 1, m + 1) = Append(s \o SubSeq(p, 1, m), p[m + 1])
<1> DEFINE q == SubSeq(p, 1, m)
           r == SubSeq(p, 1, m + 1)
<1>1. q \in Seq(S) /\ Len(q) = m /\ p[m + 1] \in S
  OBVIOUS
<1>2. r = Append(q, p[m + 1])
  OBVIOUS
<1> HIDE DEF q, r
<1> QED BY <1>1, <1>2 DEF q, r

\* These chunks carry the arguments of every call not closed, once.
Fills(p, cs) ==
    /\ \A k \in 1 .. Len(p) : /\ p[k].type = "args" /\ p[k].index \in 1 .. Len(cs)
                              /\ ~cs[p[k].index].closed
                              /\ p[k].value = Chat!Arguments(cs[p[k].index])
    /\ \A j, k \in 1 .. Len(p) : p[j].index = p[k].index => j = k
    /\ \A c \in 1 .. Len(cs) : ~cs[c].closed => \E k \in 1 .. Len(p) : p[k].index = c

\* The calls ds are the calls cs, all closed.
AllShut(cs, ds) == Len(ds) = Len(cs) /\ \A c \in 1 .. Len(cs) : Shut(cs[c], ds[c])

\* The arguments of every call left arrive.
LEMMA AllClose ==
    ASSUME NEW s \in Seq(ChunkType), NEW p \in Seq(ChunkType),
           NEW cs \in Seq(CallType), NEW ds \in Seq(CallType), AllShut(cs, ds), Fills(p, cs),
           NEW t, NEW f, Read(s) = Answer(t, CallsOf(cs), f)
    PROVE  Read(s \o p) = Answer(t, CallsOf(ds), f)
<1> DEFINE n == Len(p)
           Had(m) == {p[k].index : k \in 1 .. m}
           Mid(m) == [c \in 1 .. Len(cs) |->
                         IF c \in Had(m) THEN ds[c] ELSE cs[c]]
           R == {m \in Nat : m <= n => Read(s \o SubSeq(p, 1, m)) = Answer(t, CallsOf(Mid(m)), f)}
<1>1. n \in Nat /\ Len(cs) \in Nat /\ Len(ds) = Len(cs)
  BY DEF AllShut
<1>2. ASSUME NEW m \in Nat
      PROVE  /\ Mid(m) \in Seq(CallType) /\ Len(Mid(m)) = Len(cs)
             /\ \A c \in 1 .. Len(cs) :
                   Mid(m)[c] = IF c \in Had(m) THEN ds[c] ELSE cs[c]
  <2>1. \A c \in 1 .. Len(cs) : cs[c] \in CallType /\ ds[c] \in CallType
    BY <1>1
  <2>2. Mid(m) \in [1 .. Len(cs) -> CallType]
    BY <2>1
  <2>3. Mid(m) \in Seq(CallType) /\ Len(Mid(m)) = Len(cs)
    BY <1>1, <2>2
  <2> QED BY <2>3
<1>3. 0 \in R
  <2>1. Had(0) = {}
    OBVIOUS
  <2>2. Mid(0) \in Seq(CallType) /\ Len(Mid(0)) = Len(cs)
        /\ \A c \in 1 .. Len(cs) : Mid(0)[c] = cs[c]
    BY <1>2, <2>1
  <2> HIDE DEF Mid
  <2>3. Mid(0) = cs
    BY <2>2, SeqSame
  <2>4. s \o SubSeq(p, 1, 0) = s
    OBVIOUS
  <2> QED BY <2>3, <2>4
<1>4. ASSUME NEW m \in Nat, m \in R PROVE m + 1 \in R
  <2> SUFFICES ASSUME m + 1 <= n
               PROVE  Read(s \o SubSeq(p, 1, m + 1)) = Answer(t, CallsOf(Mid(m + 1)), f)
    OBVIOUS
  <2> DEFINE e == p[m + 1]
             c == e.index
             q == s \o SubSeq(p, 1, m)
  <2>1. Read(q) = Answer(t, CallsOf(Mid(m)), f)
    BY <1>1, <1>4
  <2>2. e \in ChunkType /\ q \in Seq(ChunkType) /\ s \o SubSeq(p, 1, m + 1) = Append(q, e)
    <3>1. m + 1 <= Len(p)
      OBVIOUS
    <3> HIDE DEF n, Mid, Had, R
    <3> QED BY <3>1, SentOne
  <2>3. m + 1 \in 1 .. n /\ 1 .. m \subseteq 1 .. n /\ m + 1 \notin 1 .. m
        /\ 1 .. m + 1 = (1 .. m) \cup {m + 1}
    BY <1>1
  <2>4. c \in 1 .. Len(cs) /\ ~cs[c].closed /\ e.type = "args" /\ e.value = Chat!Arguments(cs[c])
    BY <2>3 DEF Fills
  <2>5. c \notin Had(m)
    BY <2>3 DEF Fills
  <2>6. Had(m + 1) = Had(m) \cup {c}
    BY <2>3
  <2>7. /\ Mid(m) \in Seq(CallType) /\ Len(Mid(m)) = Len(cs)
        /\ \A d \in 1 .. Len(cs) :
              Mid(m)[d] = IF d \in Had(m) THEN ds[d] ELSE cs[d]
    BY <1>2
  <2>8. /\ Mid(m + 1) \in Seq(CallType) /\ Len(Mid(m + 1)) = Len(cs)
        /\ \A d \in 1 .. Len(cs) :
              Mid(m + 1)[d] = IF d \in Had(m + 1) THEN ds[d] ELSE cs[d]
    <3>1. m + 1 \in Nat
      OBVIOUS
    <3> HIDE DEF Mid, Had, R
    <3> QED BY <1>2, <3>1
  <2> DEFINE x == Mid(m)
             y == Mid(m + 1)
  <2> HIDE DEF c, e, q, Had
  <2>9. /\ x[c] = cs[c] /\ y[c] = ds[c]
        /\ \A d \in 1 .. Len(cs) : d # c => y[d] = x[d]
    <3> HIDE DEF Mid
    <3> QED BY <2>4, <2>5, <2>6, <2>7, <2>8
  <2>10. Reads(Answer(t, CallsOf(x), f), Chat!Chunk("args", c, Chat!Arguments(x[c])))
            = Answer(t, CallsOf(y), f)
    <3>1. x \in Seq(CallType) /\ y \in Seq(CallType) /\ Len(x) = Len(cs) /\ Len(y) = Len(cs)
      BY <2>7, <2>8
    <3> HIDE DEF x, y
    <3>2. c \in 1 .. Len(x) /\ ~x[c].closed /\ Shut(x[c], y[c])
      BY <2>4, <2>9, <3>1 DEF AllShut
    <3>3. Len(y) = Len(x) /\ \A d \in 1 .. Len(x) : d # c => y[d] = x[d]
      BY <2>9, <3>1
    <3> QED BY <3>1, <3>2, <3>3, CallCloses
  <2>11. e = Chat!Chunk("args", c, Chat!Arguments(x[c]))
    BY <2>2, <2>4, <2>9, ChunkIs DEF c
  <2>12. Read(Append(q, e)) = Reads(Read(q), e)
    BY <2>2, ReadMore
  <2> QED BY <2>1, <2>2, <2>10, <2>11, <2>12
<1> HIDE DEF R
<1>5. n \in R
  BY <1>1, <1>3, <1>4, NatSet
<1>6. Read(s \o SubSeq(p, 1, n)) = Answer(t, CallsOf(Mid(n)), f)
  BY <1>1, <1>5 DEF R
<1>7. SubSeq(p, 1, n) = p
  OBVIOUS
<1>8. Mid(n) = ds
  <2>1. \A c \in 1 .. Len(cs) : c \notin Had(n) => cs[c].closed
    BY DEF Fills
  <2>2. /\ Mid(n) \in Seq(CallType) /\ Len(Mid(n)) = Len(cs)
        /\ \A c \in 1 .. Len(cs) :
              Mid(n)[c] = IF c \in Had(n) THEN ds[c] ELSE cs[c]
    BY <1>1, <1>2
  <2> HIDE DEF Mid, Had
  <2>3. \A c \in 1 .. Len(cs) : cs[c] \in CallType /\ Shut(cs[c], ds[c])
    BY DEF AllShut
  <2>4. \A c \in 1 .. Len(cs) : cs[c].closed => ds[c] = cs[c]
    <3>1. \A c \in 1 .. Len(cs) : ds[c] \in CallType
      BY <1>1
    <3> QED BY <2>3, <3>1, ShutSame
  <2>5. \A c \in 1 .. Len(cs) : Mid(n)[c] = ds[c]
    BY <2>1, <2>2, <2>4
  <2> QED BY <1>1, <2>2, <2>5, SeqSame
<1> QED BY <1>6, <1>7, <1>8

\* The client has read the content so far, and f of its end.
HasRead(content, cs, s, f) ==
    Announced(content, cs) /\ Read(s) = Answer(TextOf(content), CallsOf(cs), f)

\* A chunk that carries nothing of the answer.
LEMMA HasReadPlain ==
    ASSUME NEW content, NEW cs, NEW s \in Seq(ChunkType), NEW f, HasRead(content, cs, s, f),
           NEW type \in {"role", "usage", "done", "error"}
    PROVE  /\ HasRead(content, cs, Append(s, Chat!Plain(type)), f)
           /\ Append(s, Chat!Plain(type)) \in Seq(ChunkType)
<1> DEFINE e == Chat!Plain(type)
<1>1. e \in ChunkType
  BY PlainTyped DEF ChunkTypes
<1>2. Reads(Answer(TextOf(content), CallsOf(cs), f), e) = Answer(TextOf(content), CallsOf(cs), f)
  BY ReadsPlain
<1> HIDE DEF e
<1>3. Read(Append(s, e)) = Reads(Read(s), e)
  BY <1>1, ReadMore
<1>4. HasRead(content, cs, Append(s, e), f)
  BY <1>2, <1>3 DEF HasRead
<1> QED BY <1>1, <1>4 DEF e

\* The chunk that finishes the answer.
LEMMA HasReadFinish ==
    ASSUME NEW content, NEW cs, NEW s \in Seq(ChunkType), HasRead(content, cs, s, <<>>),
           NEW type \in Chat!FinishReasons
    PROVE  /\ HasRead(content, cs, Append(s, Chat!Plain(type)), <<type>>)
           /\ Append(s, Chat!Plain(type)) \in Seq(ChunkType)
<1> DEFINE e == Chat!Plain(type)
<1>1. e \in ChunkType
  BY PlainTyped DEF ChunkTypes, Chat!FinishReasons
<1>2. Reads(Answer(TextOf(content), CallsOf(cs), <<>>), e)
         = Answer(TextOf(content), CallsOf(cs), Append(<<>>, type))
  BY ReadsFinish
<1>3. Append(<<>>, type) = <<type>>
  OBVIOUS
<1> HIDE DEF e
<1>4. Read(Append(s, e)) = Reads(Read(s), e)
  BY <1>1, ReadMore
<1>5. HasRead(content, cs, Append(s, e), <<type>>)
  BY <1>2, <1>3, <1>4 DEF HasRead
<1> QED BY <1>1, <1>5 DEF e

\* A block starts, which is no call.
LEMMA HasReadBlock ==
    ASSUME NEW content \in Seq(ContentType), NEW cs \in Seq(CallType), NEW s, NEW f,
           HasRead(content, cs, s, f),
           NEW b \in ContentType, b.type # "tool_use", b.parts = <<>>
    PROVE  HasRead(Append(content, b), cs, s, f)
<1>1. Announced(Append(content, b), cs)
  BY AnnouncedMore DEF HasRead
<1>2. TextOf(Append(content, b)) = AddText(TextOf(content), b) /\ TextOf(content) \in Seq(Part)
  BY TextMore
<1>3. AddText(TextOf(content), b) = TextOf(content)
  BY <1>2 DEF AddText
<1> QED BY <1>1, <1>2, <1>3 DEF HasRead

\* A call starts.
LEMMA HasReadCall ==
    ASSUME NEW content \in Seq(ContentType), NEW cs \in Seq(CallType), NEW s \in Seq(ChunkType),
           NEW f, HasRead(content, cs, s, f), NEW b \in ContentType, NEW d \in CallType,
           b.type = "tool_use", d.index = b.id, d.accumulated = b.parts, d.start = b.start,
           ~d.closed, NEW n \in Nat
    PROVE  HasRead(Append(content, b), Append(cs, d),
                   Append(s, Chat!Chunk("call", n, <<<<d.index, 0>>>>)), f)
<1> DEFINE v == <<<<d.index, 0>>>>
           e == Chat!Chunk("call", n, v)
<1>1. Announced(Append(content, b), Append(cs, d))
  BY AnnouncedMore DEF HasRead
<1>2. TextOf(Append(content, b)) = TextOf(content)
  BY TextMore DEF AddText
<1>3. v \in Texts /\ v[1][1] = d.index
  BY DEF Texts, CallType, Index
<1> HIDE DEF v
<1>4. e \in ChunkType
  BY <1>3, ChunkTyped DEF ChunkTypes
<1>5. Reads(Answer(TextOf(content), CallsOf(cs), f), e)
         = Answer(TextOf(content), Append(CallsOf(cs), Call(d.index, <<>>)), f)
  BY <1>3, ReadsCall
<1>6. CallsOf(Append(cs, d)) = Append(CallsOf(cs), Call(d.index, <<>>))
  BY CallsOfMore
<1> HIDE DEF e
<1>7. Read(Append(s, e)) = Reads(Read(s), e)
  BY <1>4, ReadMore
<1>8. HasRead(Append(content, b), Append(cs, d), Append(s, e), f)
  BY <1>1, <1>2, <1>5, <1>6, <1>7 DEF HasRead
<1> QED BY <1>8 DEF e, v

\* A text goes on.
LEMMA HasReadText ==
    ASSUME NEW g \in Seq(ContentType), NEW b \in ContentType, NEW d \in ContentType,
           NEW cs \in Seq(CallType), NEW s \in Seq(ChunkType), NEW f,
           HasRead(Append(g, b), cs, s, f), NEW part \in Part,
           b.type = "text", d.type = "text", d.parts = Append(b.parts, part)
    PROVE  HasRead(Append(g, d), cs, Append(s, Chat!Chunk("text", 0, <<part>>)), f)
<1> DEFINE e == Chat!Chunk("text", 0, <<part>>)
           t == TextOf(Append(g, b))
<1>1. Announced(Append(g, d), cs)
  <2>1. Tools(Append(g, b)) = Tools(g) /\ Tools(Append(g, d)) = Tools(g)
    BY ToolsMore DEF AddTool
  <2> QED BY <2>1 DEF HasRead, Announced
<1>2. t = TextOf(g) \o b.parts /\ TextOf(Append(g, d)) = TextOf(g) \o d.parts
      /\ TextOf(g) \in Seq(Part)
  BY TextMore DEF AddText
<1>3. b.parts \in Seq(Part)
  BY DEF ContentType
<1>4. TextOf(Append(g, d)) = t \o <<part>>
  <2> DEFINE u == TextOf(g)
             w == b.parts
  <2>1. u \in Seq(Part) /\ w \in Seq(Part)
    BY <1>2, <1>3
  <2> HIDE DEF u, w
  <2>2. u \o Append(w, part) = (u \o w) \o <<part>>
    BY <2>1
  <2> QED BY <1>2, <2>2 DEF u, w
<1>5. <<part>> \in Texts
  BY PartText
<1>6. e \in ChunkType
  BY <1>5, ChunkTyped DEF ChunkTypes
<1>7. Reads(Answer(t, CallsOf(cs), f), e) = Answer(t \o <<part>>, CallsOf(cs), f)
  BY ReadsText
<1> HIDE DEF e, t
<1>8. Read(Append(s, e)) = Reads(Read(s), e)
  BY <1>6, ReadMore
<1>9. Read(s) = Answer(t, CallsOf(cs), f)
  BY DEF HasRead, t
<1>10. HasRead(Append(g, d), cs, Append(s, e), f)
  BY <1>1, <1>4, <1>7, <1>8, <1>9 DEF HasRead
<1> QED BY <1>10 DEF e

\* A text comes that no block started.
LEMMA HasReadSlip ==
    ASSUME NEW g \in Seq(ContentType), NEW b \in ContentType,
           NEW cs \in Seq(CallType), NEW s \in Seq(ChunkType), NEW f,
           HasRead(g, cs, s, f), NEW part \in Part, b.type = "text", b.parts = <<part>>
    PROVE  HasRead(Append(g, b), cs, Append(s, Chat!Chunk("text", 0, <<part>>)), f)
<1> DEFINE e == Chat!Chunk("text", 0, <<part>>)
<1>1. Announced(Append(g, b), cs)
  BY AnnouncedMore DEF HasRead
<1>2. TextOf(Append(g, b)) = TextOf(g) \o <<part>>
  BY TextMore DEF AddText
<1>3. <<part>> \in Texts
  BY PartText
<1>4. e \in ChunkType
  BY <1>3, ChunkTyped DEF ChunkTypes
<1>5. Reads(Answer(TextOf(g), CallsOf(cs), f), e) = Answer(TextOf(g) \o <<part>>, CallsOf(cs), f)
  BY ReadsText
<1> HIDE DEF e
<1>6. Read(Append(s, e)) = Reads(Read(s), e)
  BY <1>4, ReadMore
<1>7. HasRead(Append(g, b), cs, Append(s, e), f)
  BY <1>1, <1>2, <1>5, <1>6 DEF HasRead
<1> QED BY <1>7 DEF e

\* A fragment comes, of a call not closed.
LEMMA HasReadFragment ==
    ASSUME NEW g \in Seq(ContentType), NEW b \in ContentType, NEW d \in ContentType,
           NEW part \in Part, d.type = b.type, d.id = b.id, d.start = b.start,
           d.parts = Append(b.parts, part), b.type = "tool_use",
           NEW cs \in Seq(CallType), NEW ds \in Seq(CallType), Len(ds) = Len(cs),
           \A j, k \in 1 .. Len(cs) : j < k => cs[j].index < cs[k].index,
           \A c \in 1 .. Len(cs) :
              ds[c] = IF cs[c].index = b.id THEN [cs[c] EXCEPT !.accumulated = Append(@, part)]
                      ELSE cs[c],
           \A c \in 1 .. Len(cs) : cs[c].index = b.id => ~cs[c].closed /\ ~ds[c].closed,
           NEW s, NEW f, HasRead(Append(g, b), cs, s, f)
    PROVE  HasRead(Append(g, d), ds, s, f)
<1>1. Announced(Append(g, d), ds)
  BY AnnouncedGrows DEF HasRead
<1>2. TextOf(Append(g, d)) = TextOf(Append(g, b))
  BY TextMore DEF AddText
<1>3. CallsOf(ds) = CallsOf(cs)
  <2>1. ASSUME NEW c \in 1 .. Len(cs)
        PROVE  Call(ds[c].index, IF ds[c].closed THEN Chat!Arguments(ds[c]) ELSE <<>>) =
               Call(cs[c].index, IF cs[c].closed THEN Chat!Arguments(cs[c]) ELSE <<>>)
    <3>1. cs[c] \in CallType
      OBVIOUS
    <3>2. CASE cs[c].index = b.id
      <4>1. ds[c] = [cs[c] EXCEPT !.accumulated = Append(@, part)]
        BY <3>2
      <4>2. ds[c].index = cs[c].index
        BY <3>1, <4>1 DEF CallType
      <4> QED BY <3>2, <4>2
    <3>3. CASE cs[c].index # b.id
      BY <3>3
    <3> QED BY <3>2, <3>3
  <2>2. \A c \in 1 .. Len(cs) : CallsOf(ds)[c] = CallsOf(cs)[c]
    BY <2>1 DEF CallsOf
  <2>3. /\ CallsOf(cs) \in Seq(CallTexts) /\ CallsOf(ds) \in Seq(CallTexts)
        /\ Len(CallsOf(cs)) = Len(cs) /\ Len(CallsOf(ds)) = Len(cs)
    BY CallsOfIs
  <2> QED BY <2>2, <2>3, SeqSame
<1> QED BY <1>1, <1>2, <1>3 DEF HasRead

\* Calls announced stay so when they are closed.
LEMMA AnnouncedShut ==
    ASSUME NEW content, NEW cs, NEW ds, Announced(content, cs), Len(ds) = Len(cs),
           \A c \in 1 .. Len(cs) : ds[c] = cs[c] \/ Shut(cs[c], ds[c])
    PROVE  Announced(content, ds)
BY DEF Announced, Shut

\* A call is closed, and its arguments sent.
LEMMA HasReadStop ==
    ASSUME NEW content, NEW cs \in Seq(CallType), NEW ds \in Seq(CallType), Len(ds) = Len(cs),
           NEW c \in 1 .. Len(cs), ~cs[c].closed, Shut(cs[c], ds[c]),
           \A d \in 1 .. Len(cs) : d # c => ds[d] = cs[d],
           NEW s \in Seq(ChunkType), NEW f, HasRead(content, cs, s, f)
    PROVE  HasRead(content, ds, Append(s, Chat!Chunk("args", c, Chat!Arguments(cs[c]))), f)
<1> DEFINE v == Chat!Arguments(cs[c])
           e == Chat!Chunk("args", c, v)
<1>1. Announced(content, ds)
  BY AnnouncedShut DEF HasRead
<1>2. v \in Texts
  <2>1. cs[c] \in CallType
    OBVIOUS
  <2>2. v \in Objects
    BY <2>1, Resolved DEF Chat!Arguments, CallType
  <2> HIDE DEF v
  <2> QED BY <2>2, TextsAre
<1>3. e \in ChunkType
  <2> HIDE DEF v
  <2> QED BY <1>2, ChunkTyped DEF ChunkTypes
<1>4. Reads(Answer(TextOf(content), CallsOf(cs), f), e)
         = Answer(TextOf(content), CallsOf(ds), f)
  BY CallCloses
<1> HIDE DEF e
<1>5. Read(Append(s, e)) = Reads(Read(s), e)
  BY <1>3, ReadMore
<1>6. HasRead(content, ds, Append(s, e), f)
  BY <1>1, <1>4, <1>5 DEF HasRead
<1> QED BY <1>6 DEF e

\* Every call is closed, and the arguments left are sent.
LEMMA HasReadAll ==
    ASSUME NEW content, NEW cs \in Seq(CallType), NEW ds \in Seq(CallType), AllShut(cs, ds),
           NEW p \in Seq(ChunkType), Fills(p, cs),
           NEW s \in Seq(ChunkType), NEW f, HasRead(content, cs, s, f)
    PROVE  HasRead(content, ds, s \o p, f)
<1>1. Announced(content, ds)
  BY AnnouncedShut DEF HasRead, AllShut
<1>2. Read(s \o p) = Answer(TextOf(content), CallsOf(ds), f)
  BY AllClose DEF HasRead
<1> QED BY <1>1, <1>2 DEF HasRead

\* The finish chunk the reason is translated to.
Finished == IF reason = "none" THEN <<>> ELSE <<Chat!FinishReason(reason)>>

\* The client has read what the upstream said, a call's arguments when it is
\* closed; while the answer streams a closed call's block is over.
ReadInv ==
    /\ HasRead(Content, calls, chunks, Finished)
    /\ reason # "none" => AllDone /\ stage \notin {"silent", "streaming"}
    /\ body = "open" /\ stage \in {"silent", "streaming"} =>
          \A c \in 1 .. Len(calls) : calls[c].closed => ~blocks[calls[c].index].open

\* It is so at the start.
LEMMA ReadBegins == Init => ReadInv
<1> SUFFICES ASSUME Init PROVE ReadInv
  OBVIOUS
<1>1. blocks = <<>> /\ calls = <<>> /\ chunks = <<>> /\ reason = "none"
  BY DEF Init, UpstreamInit, Chat!ChatInit
<1>2. Content = <<>>
  BY <1>1 DEF Content, Newest
<1>3. Finished = <<>> /\ 1 .. Len(calls) = {} /\ Len(calls) = 0
  BY <1>1 DEF Finished
<1>4. Tools(Content) = <<>> /\ TextOf(Content) = <<>> /\ Read(chunks) = NoAnswer
  BY <1>1, <1>2, ToolsMore, TextMore, ReadMore
<1>5. Announced(Content, calls)
  BY <1>1, <1>3, <1>4 DEF Announced
<1>6. CallsOf(calls) = <<>>
  <2>1. <<>> \in Seq(CallType)
    OBVIOUS
  <2>2. CallsOf(calls) \in Seq(CallTexts) /\ Len(CallsOf(calls)) = 0
    BY <1>1, <1>3, <2>1, CallsOfIs
  <2> QED BY <2>2
<1>7. HasRead(Content, calls, chunks, Finished)
  BY <1>3, <1>4, <1>5, <1>6 DEF HasRead, NoAnswer, Answer
<1> QED BY <1>1, <1>3, <1>7 DEF ReadInv

\* What the invariants say of the variables.
LEMMA ChatVars ==
    ASSUME ChatInv
    PROVE  /\ calls \in Seq(CallType) /\ chunks \in Seq(ChunkType)
           /\ blocks \in Seq(BlockType) /\ Newest = Len(blocks) /\ Newest \in Nat
           /\ Content \in Seq(ContentType)
           /\ DOMAIN calls = 1 .. Len(calls)
           /\ \A j, k \in 1 .. Len(calls) : j < k => calls[j].index < calls[k].index
<1>1. /\ calls \in Seq(CallType) /\ chunks \in Seq(ChunkType)
      /\ blocks \in Seq(BlockType) /\ Newest = Len(blocks) /\ Newest \in Nat
  BY DEF ChatInv, PlacesInv, UpstreamTypes, Newest
<1>2. Content \in Seq(ContentType)
  BY <1>1, ContentIs, ContentSeq
<1>3. DOMAIN calls = 1 .. Len(calls)
  BY <1>1
<1> QED BY <1>1, <1>2, <1>3 DEF ChatInv, CallsInv

\* The content changes with the blocks.
LEMMA ContentKept == UNCHANGED blocks => Content' = Content /\ Newest' = Newest
BY DEF Content, Newest

\* message_start.
LEMMA ReadStart ==
    ASSUME ChatInv, ReadInv, MessageStart
    PROVE  ReadInv'
<1>1. /\ stage = "silent" /\ stage' = "streaming" /\ body = "open" /\ body' = body
      /\ UNCHANGED <<blocks, reason, calls>>
      /\ chunks' = IF started THEN chunks ELSE Append(chunks, Chat!Plain("role"))
  BY DEF MessageStart, Streams, Begins, Chat!OnMessageStart
<1>2. reason = "none"
  BY <1>1 DEF ReadInv
<1>3. HasRead(Content, calls, chunks', Finished)
  BY <1>1, ChatVars, HasReadPlain DEF ReadInv
<1>4. Content' = Content /\ Finished' = Finished
  BY <1>1, ContentKept DEF Finished
<1> QED BY <1>1, <1>2, <1>3, <1>4 DEF ReadInv

\* content_block_start: a call is announced.
LEMMA ReadBlock ==
    ASSUME TypeOK, ChatInv, ReadInv, ContentBlockStart
    PROVE  ReadInv'
<1>1. PICK kind \in Kinds, start \in {NoArguments, Preset(Newest + 1)} :
         /\ Streams /\ StartsBlock(kind, start)
         /\ Chat!OnContentBlockStart(Newest + 1, kind, start)
  BY DEF ContentBlockStart
<1>2. stage = "streaming" /\ stage' = stage /\ body = "open" /\ body' = body /\ UNCHANGED reason
  BY <1>1 DEF Streams, StartsBlock
<1>3. reason = "none" /\ Finished' = Finished
  BY <1>2 DEF ReadInv, Finished
<1> DEFINE b == AsContent(Newest + 1, Block(kind, start, <<>>))
           d == [index |-> Newest + 1, accumulated |-> <<>>, start |-> start, closed |-> FALSE]
<1>4. /\ Content' = Append(Content, b) /\ b \in ContentType
      /\ b = [type |-> kind, id |-> Newest + 1, parts |-> <<>>, start |-> start]
      /\ \A i \in 1 .. Newest : blocks'[i] = [blocks[i] EXCEPT !.open = FALSE]
  BY <1>1, ContentStarts
<1>5. b.type = kind /\ b.id = Newest + 1 /\ b.parts = <<>> /\ b.start = start
  BY <1>4
<1>6. start \in Objects /\ Newest + 1 \in Index
  BY <1>1, StartTypes
<1>7. d \in CallType /\ d.index = Newest + 1 /\ d.accumulated = <<>> /\ d.start = start /\ ~d.closed
  <2>1. <<>> \in Seq(Part)
    OBVIOUS
  <2> QED BY <1>6, <2>1 DEF CallType
<1>8. \A c \in 1 .. Len(calls) : ~blocks'[calls[c].index].open
  <2> TAKE c \in 1 .. Len(calls)
  <2>1. calls[c].index \in 1 .. Newest
    BY Indexed
  <2>2. blocks[calls[c].index] \in BlockType
    BY <2>1, ChatVars
  <2> QED BY <1>4, <2>1, <2>2 DEF BlockType
<1>9. HasRead(Content, calls, chunks, Finished)
  BY DEF ReadInv
<1>10. CASE kind = "tool_use"
  <2> DEFINE n == Len(calls) + 1
             x == Chat!Chunk("call", n, <<<<Newest + 1, 0>>>>)
  <2>1. calls' = Append(calls, d) /\ chunks' = Append(chunks, x)
    BY <1>1, <1>10 DEF Chat!OnContentBlockStart
  <2>2. n \in Nat
    BY ChatVars
  <2>3. x = Chat!Chunk("call", n, <<<<d.index, 0>>>>)
    BY <1>7
  <2> HIDE DEF b, d, n, x
  <2>4. HasRead(Append(Content, b), Append(calls, d), Append(chunks, x), Finished)
    BY <1>4, <1>5, <1>7, <1>9, <1>10, <2>2, <2>3, ChatVars, HasReadCall
  <2>5. HasRead(Content', calls', chunks', Finished')
    BY <1>3, <1>4, <2>1, <2>4
  <2>6. \A c \in 1 .. Len(calls') : calls'[c].closed => ~blocks'[calls'[c].index].open
    <3>1. /\ Len(calls') = Len(calls) + 1 /\ calls'[Len(calls) + 1] = d
          /\ \A c \in 1 .. Len(calls) : calls'[c] = calls[c]
          /\ \A c \in 1 .. Len(calls') : c \in 1 .. Len(calls) \/ c = Len(calls) + 1
      BY <1>7, <2>1, ChatVars
    <3> QED BY <1>7, <1>8, <3>1
  <2> QED BY <1>2, <1>3, <2>5, <2>6 DEF ReadInv
<1>11. CASE kind # "tool_use"
  <2>1. calls' = calls /\ chunks' = chunks
    BY <1>1, <1>11 DEF Chat!OnContentBlockStart
  <2> HIDE DEF b
  <2>2. HasRead(Append(Content, b), calls, chunks, Finished)
    BY <1>4, <1>5, <1>9, <1>11, ChatVars, HasReadBlock
  <2>3. HasRead(Content', calls', chunks', Finished')
    BY <1>3, <1>4, <2>1, <2>2
  <2> QED BY <1>2, <1>3, <1>8, <2>1, <2>3 DEF ReadInv
<1> QED BY <1>10, <1>11

\* A text delta.
LEMMA ReadTextDelta ==
    ASSUME TypeOK, ChatInv, ReadInv, TextDelta
    PROVE  ReadInv'
<1>1. PICK i \in Index : Streams /\ SendsText(i) /\ Chat!OnTextDelta(NextPart(i))
  BY DEF TextDelta
<1>2. /\ stage = "streaming" /\ stage' = stage /\ body = "open" /\ body' = body
      /\ UNCHANGED <<reason, calls>>
      /\ chunks' = Append(chunks, Chat!Chunk("text", 0, <<NextPart(i)>>))
  BY <1>1 DEF Streams, SendsText, Chat!OnTextDelta
<1>3. reason = "none" /\ Finished' = Finished
  BY <1>2 DEF ReadInv, Finished
<1>4. /\ NextPart(i) \in Part
      /\ \A j \in 1 .. Newest : blocks[j].open = blocks'[j].open
  BY <1>1, TextTypes
<1>5. HasRead(Content, calls, chunks, Finished)
  BY DEF ReadInv
<1>6. \A c \in 1 .. Len(calls) : calls[c].closed => ~blocks'[calls[c].index].open
  BY <1>2, <1>4, Indexed DEF ReadInv
<1> SUFFICES HasRead(Content', calls, chunks', Finished)
  BY <1>2, <1>3, <1>6 DEF ReadInv
<1>7. CASE AnyOpen /\ i = Newest /\ blocks[i].kind = "text" /\ Len(blocks[i].parts) < 2
           /\ blocks' = [blocks EXCEPT ![i].parts = Append(@, NextPart(i))]
  <2>1. i \in 1 .. Newest
    BY <1>7, ChatVars DEF Index
  <2> DEFINE b == AsContent(i, blocks[i])
             d == AsContent(i, blocks'[i])
  <2>2. /\ b \in ContentType /\ d \in ContentType /\ d.type = b.type
        /\ b.type = blocks[i].kind /\ d.parts = Append(b.parts, NextPart(i))
        /\ \E f \in Seq(ContentType) : Content = Append(f, b) /\ Content' = Append(f, d)
    BY <1>7, <2>1, ContentTakes
  <2> HIDE DEF b, d
  <2>3. PICK f \in Seq(ContentType) : Content = Append(f, b) /\ Content' = Append(f, d)
    BY <2>2
  <2>4. HasRead(Append(f, b), calls, chunks, Finished)
    BY <1>5, <2>3
  <2>5. b.type = "text" /\ d.type = "text"
    BY <1>7, <2>2
  <2>6. HasRead(Append(f, d), calls, Append(chunks, Chat!Chunk("text", 0, <<NextPart(i)>>)), Finished)
    BY <1>4, <2>2, <2>4, <2>5, ChatVars, HasReadText
  <2> QED BY <1>2, <2>3, <2>6
<1>8. CASE ~AnyOpen /\ i = Newest + 1 /\ i <= MaxBlocks
           /\ blocks' = Append(blocks, Block("text", NoArguments, <<NextPart(i)>>))
  <2> DEFINE b == AsContent(i, Block("text", NoArguments, <<NextPart(i)>>))
  <2>1. /\ Content' = Append(Content, b) /\ b \in ContentType
        /\ b = [type |-> "text", id |-> i, parts |-> <<NextPart(i)>>, start |-> NoArguments]
    BY <1>8, ContentSlips
  <2>2. b.type = "text" /\ b.parts = <<NextPart(i)>>
    BY <2>1
  <2> HIDE DEF b
  <2>3. HasRead(Append(Content, b), calls,
                Append(chunks, Chat!Chunk("text", 0, <<NextPart(i)>>)), Finished)
    BY <1>4, <1>5, <2>1, <2>2, ChatVars, HasReadSlip
  <2> QED BY <1>2, <2>1, <2>3
<1> QED BY <1>1, <1>7, <1>8 DEF SendsText

\* A fragment of the arguments: its call is not closed.
LEMMA ReadFragment ==
    ASSUME TypeOK, ChatInv, ReadInv, InputJsonDelta
    PROVE  ReadInv'
<1>1. PICK i \in 1 .. Newest :
         Streams /\ SendsFragment(i) /\ Chat!OnInputJsonDelta(i, NextPart(i))
  BY DEF InputJsonDelta
<1>2. stage = "streaming" /\ stage' = stage /\ body = "open" /\ body' = body /\ UNCHANGED reason
  BY <1>1 DEF Streams, SendsFragment
<1>3. reason = "none" /\ Finished' = Finished
  BY <1>2 DEF ReadInv, Finished
<1>4. NextPart(i) \in Part /\ \A j \in 1 .. Newest : blocks'[j].open = blocks[j].open
  BY <1>1, FragmentTypes
<1>5. CallsInv
  BY DEF ChatInv
<1> DEFINE part == NextPart(i)
<1>6. /\ calls' \in Seq(CallType) /\ Len(calls') = Len(calls)
      /\ \A c \in 1 .. Len(calls) : /\ calls'[c].index = calls[c].index
                                    /\ calls'[c].closed = calls[c].closed
      /\ \A c \in 1 .. Len(calls) :
            calls'[c] = IF calls[c].index = i
                        THEN [calls[c] EXCEPT !.accumulated = Append(@, part)]
                        ELSE calls[c]
      /\ UNCHANGED chunks
  BY <1>1, <1>4, <1>5, FragmentTaken
<1>7. i = Newest /\ blocks[i].open /\ blocks[i].kind = "tool_use" /\ Len(blocks[i].parts) < 2
      /\ blocks' = [blocks EXCEPT ![i].parts = Append(@, NextPart(i))]
  BY <1>1 DEF SendsFragment, AnyOpen
<1> DEFINE b == AsContent(i, blocks[i])
           d == AsContent(i, blocks'[i])
<1>8. /\ b \in ContentType /\ d \in ContentType
      /\ d.type = b.type /\ d.id = b.id /\ d.start = b.start
      /\ b.type = blocks[i].kind /\ b.id = i /\ d.parts = Append(b.parts, part)
      /\ \E f \in Seq(ContentType) : Content = Append(f, b) /\ Content' = Append(f, d)
  BY <1>7, ContentTakes
<1> HIDE DEF b, d
<1>9. PICK f \in Seq(ContentType) : Content = Append(f, b) /\ Content' = Append(f, d)
  BY <1>8
<1>10. HasRead(Append(f, b), calls, chunks, Finished)
  BY <1>9 DEF ReadInv
<1>11. \A c \in 1 .. Len(calls) : calls[c].index = b.id => ~calls[c].closed /\ ~calls'[c].closed
  BY <1>2, <1>6, <1>7, <1>8 DEF ReadInv
<1>12. HasRead(Append(f, d), calls', chunks, Finished)
  <2> DEFINE ds == calls'
  <2>1. ds \in Seq(CallType) /\ Len(ds) = Len(calls)
    BY <1>6
  <2>2. \A c \in 1 .. Len(calls) :
           ds[c] = IF calls[c].index = b.id
                   THEN [calls[c] EXCEPT !.accumulated = Append(@, part)]
                   ELSE calls[c]
    BY <1>6, <1>8
  <2>3. \A c \in 1 .. Len(calls) : calls[c].index = b.id => ~calls[c].closed /\ ~ds[c].closed
    BY <1>11
  <2>4. part \in Part /\ b.type = "tool_use"
    BY <1>4, <1>7, <1>8
  <2> HIDE DEF ds, part
  <2>5. HasRead(Append(f, d), ds, chunks, Finished)
    BY <1>8, <1>10, <2>1, <2>2, <2>3, <2>4, ChatVars, HasReadFragment
  <2> QED BY <2>5 DEF ds
<1>13. \A c \in 1 .. Len(calls') : calls'[c].closed => ~blocks'[calls'[c].index].open
  BY <1>2, <1>4, <1>6, Indexed DEF ReadInv
<1> QED BY <1>2, <1>3, <1>6, <1>9, <1>12, <1>13 DEF ReadInv

\* content_block_stop: the call's arguments arrive.
LEMMA ReadStop ==
    ASSUME TypeOK, ChatInv, ReadInv, ContentBlockStop
    PROVE  ReadInv'
<1>1. PICK i \in 1 .. Newest : Streams /\ StopsBlock(i) /\ Chat!OnContentBlockStop(i)
  BY DEF ContentBlockStop
<1>2. stage = "streaming" /\ stage' = stage /\ body = "open" /\ body' = body /\ UNCHANGED reason
  BY <1>1 DEF Streams, StopsBlock
<1>3. reason = "none" /\ Finished' = Finished
  BY <1>2 DEF ReadInv, Finished
<1>4. Content' = Content /\ \A j \in 1 .. Newest : ~blocks'[j].open
  BY <1>1, ContentStops
<1>5. CallsInv
  BY DEF ChatInv
<1>6. HasRead(Content, calls, chunks, Finished)
  BY DEF ReadInv
<1>7. CASE UNCHANGED <<calls, chunks>>
  <2>1. \A c \in 1 .. Len(calls') : ~blocks'[calls'[c].index].open
    BY <1>4, <1>7, Indexed
  <2> QED BY <1>2, <1>3, <1>4, <1>6, <1>7, <2>1 DEF ReadInv
<1>8. ASSUME NEW c \in DOMAIN calls, NEW value \in Objects,
             calls[c].index = i, ~calls[c].closed, value = Chat!Arguments(calls[c]),
             chunks' = Append(chunks, Chat!Chunk("args", c, value)),
             calls'[c] = [calls[c] EXCEPT !.closed = TRUE],
             calls' \in Seq(CallType), Len(calls') = Len(calls),
             \A d \in DOMAIN calls : d # c => calls'[d] = calls[d]
      PROVE  ReadInv'
  <2> DEFINE ds == calls'
             s == Append(chunks, Chat!Chunk("args", c, Chat!Arguments(calls[c])))
  <2>1. chunks' = s
    BY <1>8
  <2>2. c \in 1 .. Len(calls) /\ calls[c] \in CallType
    BY ChatVars
  <2>3. Shut(calls[c], ds[c])
    BY <1>8, <2>2 DEF Shut, CallType
  <2>4. /\ ds \in Seq(CallType) /\ Len(ds) = Len(calls)
        /\ \A d \in 1 .. Len(calls) : d # c => ds[d] = calls[d]
    BY <1>8, ChatVars
  <2>5. \A d \in 1 .. Len(calls) : calls'[d].index = calls[d].index
    BY <2>3, <2>4 DEF Shut
  <2> HIDE DEF ds
  <2>6. HasRead(Content, ds, s, Finished)
    BY <1>6, <1>8, <2>2, <2>3, <2>4, ChatVars, HasReadStop
  <2>7. \A d \in 1 .. Len(calls') : ~blocks'[calls'[d].index].open
    BY <1>4, <1>8, <2>5, Indexed
  <2>8. HasRead(Content', calls', chunks', Finished')
    BY <1>3, <1>4, <2>1, <2>6 DEF ds
  <2> QED BY <1>2, <1>3, <2>7, <2>8 DEF ReadInv
<1>9. \/ UNCHANGED <<calls, chunks>>
      \/ \E c \in DOMAIN calls, value \in Objects :
            /\ calls[c].index = i /\ ~calls[c].closed
            /\ value = Chat!Arguments(calls[c])
            /\ chunks' = Append(chunks, Chat!Chunk("args", c, value))
            /\ calls'[c] = [calls[c] EXCEPT !.closed = TRUE]
            /\ calls' \in Seq(CallType) /\ Len(calls') = Len(calls)
            /\ \A d \in DOMAIN calls : d # c => calls'[d] = calls[d]
  BY <1>1, <1>5, CallStops
<1> QED BY <1>7, <1>8, <1>9

\* What close_pending_tool_calls sends fills the calls.
LEMMA PendingFills ==
    ASSUME TypeOK
    PROVE  /\ Chat!AllClosed \in Seq(CallType) /\ AllShut(calls, Chat!AllClosed)
           /\ Chat!PendingChunks \in Seq(ChunkType) /\ Fills(Chat!PendingChunks, calls)
           /\ \A c \in 1 .. Len(Chat!AllClosed) : Chat!AllClosed[c].closed
<1>1. calls \in Seq(CallType)
  BY TypesAre
<1>2. /\ Chat!AllClosed \in Seq(CallType) /\ Len(Chat!AllClosed) = Len(calls)
      /\ \A c \in 1 .. Len(calls) : /\ Chat!AllClosed[c].closed
                                    /\ Chat!AllClosed[c] = [calls[c] EXCEPT !.closed = TRUE]
  BY AllClosedIs
<1>3. ASSUME NEW c \in 1 .. Len(calls) PROVE Shut(calls[c], Chat!AllClosed[c])
  <2>1. calls[c] \in CallType
    BY <1>1
  <2> QED BY <1>2, <2>1 DEF Shut, CallType
<1>4. AllShut(calls, Chat!AllClosed)
  BY <1>2, <1>3 DEF AllShut
<1>5. Chat!PendingChunks \in Seq(ChunkType) /\ Fills(Chat!PendingChunks, calls)
  BY PendingIs DEF Fills
<1> QED BY <1>2, <1>4, <1>5

\* message_delta: the arguments left, and the reason.
LEMMA ReadDelta ==
    ASSUME TypeOK, ChatInv, ReadInv, MessageDelta
    PROVE  ReadInv'
<1>1. PICK r \in {"end_turn", "tool_use", "max_tokens"} :
         Streams /\ SendsReason(r) /\ Chat!OnMessageDelta(r)
  BY DEF MessageDelta
<1>2. /\ stage = "streaming" /\ stage' = "finishing" /\ reason' = r /\ UNCHANGED blocks
      /\ calls' = Chat!AllClosed
      /\ chunks' = chunks \o Chat!PendingChunks \o Chat!FinishChunks(r)
  BY <1>1 DEF Streams, SendsReason, Chat!OnMessageDelta
<1>3. reason = "none" /\ Finished = <<>>
  BY <1>2 DEF ReadInv, Finished
<1>4. HasRead(Content, calls, chunks, <<>>)
  BY <1>3 DEF ReadInv
<1> DEFINE p == Chat!PendingChunks
           ds == Chat!AllClosed
           s == chunks \o p
           type == Chat!FinishReason(r)
           x == Chat!Plain(type)
           y == Chat!Plain("usage")
<1>5. /\ ds \in Seq(CallType) /\ AllShut(calls, ds) /\ p \in Seq(ChunkType) /\ Fills(p, calls)
      /\ \A c \in 1 .. Len(ds) : ds[c].closed
  BY PendingFills
<1>6. type \in Chat!FinishReasons
  BY DEF Chat!FinishReason, Chat!FinishReasons
<1>7. Chat!FinishChunks(r) = IF IncludeUsage THEN <<x>> \o <<y>> ELSE <<x>> \o <<>>
  BY DEF Chat!FinishChunks
<1>8. chunks' = s \o Chat!FinishChunks(r)
  BY <1>2
<1> HIDE DEF type, ds, p
<1>9. HasRead(Content, ds, s, <<>>) /\ s \in Seq(ChunkType)
  <2>1. HasRead(Content, ds, s, <<>>)
    BY <1>4, <1>5, ChatVars, HasReadAll
  <2>2. s \in Seq(ChunkType)
    BY <1>5, ChatVars
  <2> QED BY <2>1, <2>2
<1> HIDE DEF s
<1>10. HasRead(Content, ds, Append(s, x), <<type>>) /\ Append(s, x) \in Seq(ChunkType)
  BY <1>6, <1>9, HasReadFinish
<1>11. HasRead(Content, ds, Append(Append(s, x), y), <<type>>)
  <2> DEFINE t == Append(s, x)
  <2> HIDE DEF t, x
  <2> QED BY <1>10, HasReadPlain DEF t
<1>12. chunks' = Append(s, x) \/ chunks' = Append(Append(s, x), y)
  <2>1. x \in ChunkType /\ y \in ChunkType
    <3>1. type \in ChunkTypes /\ "usage" \in ChunkTypes
      BY <1>6 DEF ChunkTypes, Chat!FinishReasons
    <3> QED BY <3>1, PlainTyped
  <2> HIDE DEF x, y
  <2>2. s \o (<<x>> \o <<>>) = Append(s, x) /\ s \o (<<x>> \o <<y>>) = Append(Append(s, x), y)
    BY <1>9, <2>1
  <2> QED BY <1>7, <1>8, <2>2
<1>13. HasRead(Content, ds, chunks', <<type>>)
  BY <1>10, <1>11, <1>12
<1>14. Content' = Content /\ Finished' = <<type>> /\ reason' # "none"
  BY <1>2, ContentKept DEF Finished, type
<1>15. HasRead(Content', calls', chunks', Finished')
  BY <1>2, <1>13, <1>14 DEF ds
<1>16. AllDone'
  BY <1>2, <1>5 DEF AllDone, ds
<1> QED BY <1>2, <1>15, <1>16 DEF ReadInv

\* message_stop.
LEMMA ReadOver ==
    ASSUME ChatInv, ReadInv, MessageStop
    PROVE  ReadInv'
<1>1. /\ stage' = "stopped" /\ UNCHANGED <<blocks, reason, calls>>
      /\ chunks' = Append(chunks, Chat!Plain("done"))
  BY DEF MessageStop, SendsStop, Chat!OnMessageStop
<1>2. HasRead(Content, calls, chunks', Finished)
  BY <1>1, ChatVars, HasReadPlain DEF ReadInv
<1>3. Content' = Content /\ Finished' = Finished
  BY <1>1, ContentKept DEF Finished
<1> QED BY <1>1, <1>2, <1>3 DEF ReadInv, AllDone

\* An error.
LEMMA ReadError ==
    ASSUME ChatInv, ReadInv, Error
    PROVE  ReadInv'
<1> DEFINE x == Chat!Plain("error")
           y == Chat!Plain("done")
<1>1. /\ stage' = "failed" /\ UNCHANGED <<blocks, reason, calls>>
      /\ chunks' = chunks \o <<x, y>>
  BY DEF Error, SendsError, Chat!OnError
<1>2. x \in ChunkType /\ y \in ChunkType
  BY PlainTyped DEF ChunkTypes
<1>3. chunks' = Append(Append(chunks, x), y)
  <2> HIDE DEF x, y
  <2> QED BY <1>1, <1>2, ChatVars, TwoMore
<1>4. HasRead(Content, calls, Append(chunks, x), Finished) /\ Append(chunks, x) \in Seq(ChunkType)
  BY ChatVars, HasReadPlain DEF ReadInv
<1>5. HasRead(Content, calls, Append(Append(chunks, x), y), Finished)
  <2> DEFINE t == Append(chunks, x)
  <2> HIDE DEF t, x
  <2> QED BY <1>4, HasReadPlain DEF t
<1>6. Content' = Content /\ Finished' = Finished
  BY <1>1, ContentKept DEF Finished
<1> QED BY <1>1, <1>3, <1>5, <1>6 DEF ReadInv, AllDone

\* The body ends.
LEMMA ReadEnds ==
    ASSUME TypeOK, ChatInv, ReadInv, EndBody
    PROVE  ReadInv'
<1>1. /\ body' = "ended" /\ UNCHANGED <<blocks, stage, reason>>
      /\ IF finished THEN UNCHANGED <<calls, chunks>>
         ELSE /\ calls' = Chat!AllClosed
              /\ chunks' = chunks \o Chat!PendingChunks \o <<Chat!Plain("done")>>
  BY DEF EndBody, Chat!Finish, upstreamVars
<1>2. Content' = Content /\ Finished' = Finished
  BY <1>1, ContentKept DEF Finished
<1>3. HasRead(Content, calls, chunks, Finished)
  BY DEF ReadInv
<1>4. CASE finished
  BY <1>1, <1>2, <1>3, <1>4 DEF ReadInv, AllDone
<1>5. CASE ~finished
  <2> DEFINE p == Chat!PendingChunks
             ds == Chat!AllClosed
             s == chunks \o p
             x == Chat!Plain("done")
  <2>1. /\ ds \in Seq(CallType) /\ AllShut(calls, ds) /\ p \in Seq(ChunkType) /\ Fills(p, calls)
        /\ \A c \in 1 .. Len(ds) : ds[c].closed
    BY PendingFills
  <2>2. calls' = ds /\ chunks' = s \o <<x>>
    BY <1>1, <1>5
  <2> HIDE DEF ds, p
  <2>3. HasRead(Content, ds, s, Finished) /\ s \in Seq(ChunkType)
    <3>1. HasRead(Content, ds, s, Finished)
      BY <1>3, <2>1, ChatVars, HasReadAll
    <3>2. s \in Seq(ChunkType)
      BY <2>1, ChatVars
    <3> QED BY <3>1, <3>2
  <2> HIDE DEF s
  <2>4. HasRead(Content, ds, Append(s, x), Finished)
    BY <2>3, HasReadPlain
  <2>5. s \o <<x>> = Append(s, x)
    <3>1. x \in ChunkType
      BY PlainTyped DEF ChunkTypes
    <3> HIDE DEF x
    <3> QED BY <2>3, <3>1
  <2>6. HasRead(Content', calls', chunks', Finished')
    BY <1>2, <2>2, <2>4, <2>5
  <2>7. AllDone'
    BY <2>1, <2>2 DEF AllDone
  <2> QED BY <1>1, <2>6, <2>7 DEF ReadInv
<1> QED BY <1>4, <1>5

\* In every step.
LEMMA ReadKeeps ==
    ASSUME TypeOK, ChatInv, ReadInv, [Next]_vars
    PROVE  ReadInv'
<1>1. CASE BreakBody
  <2>1. UNCHANGED <<blocks, stage, reason, calls, chunks>> /\ body' = "broken"
    BY <1>1 DEF BreakBody, upstreamVars, chatVars
  <2>2. Content' = Content /\ Finished' = Finished
    BY <2>1, ContentKept DEF Finished
  <2> QED BY <2>1, <2>2 DEF ReadInv, AllDone
<1>2. CASE NextTurn \/ UNCHANGED vars
  <2>1. UNCHANGED <<blocks, stage, reason, calls, chunks, body>>
    BY <1>2 DEF NextTurn, vars, upstreamVars, chatVars
  <2>2. Content' = Content /\ Finished' = Finished
    BY <2>1, ContentKept DEF Finished
  <2> QED BY <2>1, <2>2 DEF ReadInv, AllDone
<1> QED BY <1>1, <1>2, ReadStart, ReadBlock, ReadTextDelta, ReadFragment, ReadStop, ReadDelta,
           ReadOver, ReadError, ReadEnds DEF Next

-----------------------------------------------------------------------------
(* The parts of a block *)

\* A block has the parts of its document, in order; only a call is announced
\* with an input.
Numbered(i, b) ==
    /\ Len(b.parts) <= 2
    /\ \A k \in 1 .. Len(b.parts) : b.parts[k] = <<i, k>>
    /\ b.kind # "tool_use" => b.start = NoArguments

\* Every block is so.
BlocksInv == \A i \in 1 .. Newest : Numbered(i, blocks[i])

\* The first part of a block.
LEMMA FirstPart ==
    ASSUME NEW i, NEW b, b.parts = <<>>, b.start # NoArguments => b.kind = "tool_use"
    PROVE  Numbered(i, b)
BY DEF Numbered

\* A part more.
LEMMA NextNumbered ==
    ASSUME NEW i, NEW b \in BlockType, NEW d \in BlockType, Numbered(i, b), Len(b.parts) < 2,
           d.kind = b.kind, d.start = b.start,
           d.parts = Append(b.parts, <<i, Len(b.parts) + 1>>), <<i, Len(b.parts) + 1>> \in Part
    PROVE  Numbered(i, d)
<1> DEFINE p == b.parts
           q == d.parts
           e == <<i, Len(p) + 1>>
<1>1. p \in Seq(Part) /\ e \in Part
  BY DEF BlockType
<1>2. q = Append(p, e) /\ Len(p) < 2
  OBVIOUS
<1> HIDE DEF p, q
<1>a. Len(p) \in Nat /\ e = <<i, Len(p) + 1>>
  BY <1>1
<1> HIDE DEF e
<1>3. /\ Len(q) = Len(p) + 1 /\ q[Len(p) + 1] = e
      /\ \A k \in 1 .. Len(p) : q[k] = p[k]
  BY <1>1, <1>2, Added
<1>4. Len(q) <= 2
  BY <1>2, <1>3, <1>a
<1>5. ASSUME NEW k \in 1 .. Len(q) PROVE q[k] = <<i, k>>
  <2>1. k \in 1 .. Len(p) \/ k = Len(p) + 1
    BY <1>3, <1>a
  <2>2. \A j \in 1 .. Len(p) : p[j] = <<i, j>>
    BY DEF Numbered, p
  <2> QED BY <1>3, <1>a, <2>1, <2>2
<1> QED BY <1>4, <1>5 DEF Numbered, q

\* There are no blocks at first.
LEMMA BlocksBegin == Init => BlocksInv
<1> SUFFICES ASSUME Init PROVE BlocksInv
  OBVIOUS
<1>1. Newest = 0
  BY DEF Init, UpstreamInit, Newest
<1> QED BY <1>1 DEF BlocksInv

\* The open block takes its next part.
LEMMA PartsTaken ==
    ASSUME TypeOK, BlocksInv, NEW i \in 1 .. Newest, Len(blocks[i].parts) < 2,
           blocks' = [blocks EXCEPT ![i].parts = Append(@, NextPart(i))]
    PROVE  BlocksInv'
<1>1. Newest = Len(blocks) /\ Newest \in Nat /\ blocks \in Seq(BlockType)
  BY TypesAre DEF Newest
<1>2. /\ blocks' \in Seq(BlockType) /\ Len(blocks') = Newest
      /\ NextPart(i) \in Part /\ i \in Index
      /\ blocks'[i] = [blocks[i] EXCEPT !.parts = Append(@, NextPart(i))]
      /\ \A j \in 1 .. Newest : j # i => blocks'[j] = blocks[j]
  BY <1>1, GrowTypes
<1>3. Newest' = Newest
  BY <1>2 DEF Newest
<1> DEFINE b == blocks[i]
           d == blocks'[i]
<1>4. b \in BlockType /\ d \in BlockType
  BY <1>1, <1>2
<1>5. NextPart(i) = <<i, Len(b.parts) + 1>>
  <2>1. ~(i > Newest)
    BY <1>1
  <2> QED BY <2>1 DEF NextPart
<1>6. d.kind = b.kind /\ d.start = b.start /\ d.parts = Append(b.parts, <<i, Len(b.parts) + 1>>)
  BY <1>2, <1>4, <1>5 DEF BlockType
<1>7. Numbered(i, b) /\ <<i, Len(b.parts) + 1>> \in Part /\ Len(b.parts) < 2
  BY <1>2, <1>5 DEF BlocksInv
<1> HIDE DEF b, d
<1>8. Numbered(i, d)
  BY <1>4, <1>6, <1>7, NextNumbered
<1>9. \A j \in 1 .. Newest : Numbered(j, blocks'[j])
  BY <1>2, <1>8 DEF BlocksInv, d
<1> QED BY <1>3, <1>9 DEF BlocksInv

\* A closed block has the parts it had.
LEMMA ShutNumbered ==
    ASSUME NEW i, NEW b \in BlockType, Numbered(i, b), NEW d, d = [b EXCEPT !.open = FALSE]
    PROVE  Numbered(i, d)
<1>1. d.kind = b.kind /\ d.start = b.start /\ d.parts = b.parts
  BY DEF BlockType
<1> QED BY <1>1 DEF Numbered

\* Every step keeps the parts numbered.
LEMMA BlocksKeep ==
    ASSUME TypeOK, BlocksInv, [Next]_vars
    PROVE  BlocksInv'
<1>1. Newest = Len(blocks) /\ Newest \in Nat /\ blocks \in Seq(BlockType)
  BY TypesAre DEF Newest
<1>2. CASE ContentBlockStart
  <2>1. PICK kind \in Kinds, start \in {NoArguments, Preset(Newest + 1)} : StartsBlock(kind, start)
    BY <1>2 DEF ContentBlockStart
  <2> DEFINE b == Block(kind, start, <<>>)
  <2>2. /\ Newest' = Newest + 1 /\ blocks'[Newest'] = b
        /\ \A i \in 1 .. Newest : blocks'[i] = [blocks[i] EXCEPT !.open = FALSE]
    BY <2>1, ContentStarts
  <2>3. b.parts = <<>> /\ (b.start # NoArguments => b.kind = "tool_use")
    BY <2>1 DEF Block, StartsBlock
  <2> HIDE DEF b
  <2>4. Numbered(Newest + 1, b)
    BY <2>3, FirstPart
  <2>5. ASSUME NEW i \in 1 .. Newest PROVE Numbered(i, blocks'[i])
    <3> DEFINE b0 == blocks[i]
               d == blocks'[i]
    <3>1. b0 \in BlockType /\ Numbered(i, b0)
      BY <1>1 DEF BlocksInv
    <3>2. d = [b0 EXCEPT !.open = FALSE]
      BY <2>2
    <3> HIDE DEF b0, d
    <3>3. Numbered(i, d)
      BY <3>1, <3>2, ShutNumbered
    <3> QED BY <3>3 DEF d
  <2>6. \A i \in 1 .. Newest' : i \in 1 .. Newest \/ i = Newest + 1
    BY <1>1, <2>2
  <2> QED BY <2>2, <2>4, <2>5, <2>6 DEF BlocksInv
<1>3. CASE TextDelta
  <2>1. PICK i \in Index : SendsText(i)
    BY <1>3 DEF TextDelta
  <2>2. CASE AnyOpen /\ i = Newest /\ blocks[i].kind = "text" /\ Len(blocks[i].parts) < 2
             /\ blocks' = [blocks EXCEPT ![i].parts = Append(@, NextPart(i))]
    <3>1. i \in 1 .. Newest
      BY <1>1, <2>2 DEF Index
    <3> QED BY <2>2, <3>1, PartsTaken
  <2>3. CASE ~AnyOpen /\ i = Newest + 1 /\ i <= MaxBlocks
             /\ blocks' = Append(blocks, Block("text", NoArguments, <<NextPart(i)>>))
    <3> DEFINE b == Block("text", NoArguments, <<NextPart(i)>>)
    <3>1. Newest' = Newest + 1 /\ blocks'[i] = b /\ \A j \in 1 .. Newest : blocks'[j] = blocks[j]
      BY <2>3, ContentSlips
    <3>2. NextPart(i) = <<i, 1>>
      BY <1>1, <2>3 DEF NextPart
    <3>3. Numbered(i, b)
      BY <3>2 DEF Numbered, Block
    <3> HIDE DEF b
    <3>4. \A j \in 1 .. Newest' : j \in 1 .. Newest \/ j = i
      BY <1>1, <2>3, <3>1
    <3> QED BY <3>1, <3>3, <3>4 DEF BlocksInv
  <2> QED BY <2>1, <2>2, <2>3 DEF SendsText
<1>4. CASE InputJsonDelta
  <2>1. PICK i \in 1 .. Newest : SendsFragment(i)
    BY <1>4 DEF InputJsonDelta
  <2> QED BY <2>1, PartsTaken DEF SendsFragment
<1>5. CASE ContentBlockStop
  <2>1. PICK i \in 1 .. Newest : StopsBlock(i)
    BY <1>5 DEF ContentBlockStop
  <2>2. Newest' = Newest
        /\ \A j \in 1 .. Newest : blocks'[j] = [blocks[j] EXCEPT !.open = FALSE]
    BY <2>1, ContentStops
  <2>3. ASSUME NEW j \in 1 .. Newest PROVE Numbered(j, blocks'[j])
    <3> DEFINE b == blocks[j]
               d == blocks'[j]
    <3>1. b \in BlockType /\ Numbered(j, b)
      BY <1>1 DEF BlocksInv
    <3>2. d = [b EXCEPT !.open = FALSE]
      BY <2>2
    <3> HIDE DEF b, d
    <3>3. Numbered(j, d)
      BY <3>1, <3>2, ShutNumbered
    <3> QED BY <3>3 DEF d
  <2> QED BY <2>2, <2>3 DEF BlocksInv
<1>6. CASE UNCHANGED blocks
  BY <1>6 DEF BlocksInv, Newest
<1> QED BY <1>2, <1>3, <1>4, <1>5, <1>6
     DEF Next, MessageStart, Begins, MessageDelta, SendsReason, MessageStop, SendsStop,
         Error, SendsError, EndBody, BreakBody, NextTurn, vars, upstreamVars

\* Two parts of a block are its document.
LEMMA Whole ==
    ASSUME NEW i \in Index, NEW p \in Seq(Part), Len(p) = 2,
           \A k \in 1 .. Len(p) : p[k] = <<i, k>>
    PROVE  p = Document(i) /\ p \in Objects
<1>1. p[1] = <<i, 1>> /\ p[2] = <<i, 2>>
  OBVIOUS
<1>2. p = <<p[1], p[2]>>
  OBVIOUS
<1> QED BY <1>1, <1>2 DEF Document, Objects

\* Only the empty sequence has no element.
LEMMA EmptySeq == \A S : \A s \in Seq(S) : Len(s) = 0 <=> s = <<>>
OBVIOUS

\* Nothing is no object.
LEMMA NoObject == <<>> \notin Objects
BY DEF Objects, NoArguments, Document, Preset

\* The arguments of a call that was not cut short are the input the upstream
\* reports for it.
LEMMA InputIs ==
    ASSUME NEW i \in Index, NEW b \in BlockType, Numbered(i, b), b.kind = "tool_use", ~CutShort(b)
    PROVE  /\ ResolveArguments(b.parts, b.start) = Input(AsContent(i, b))
           /\ Input(AsContent(i, b)) \in Objects
<1>1. AsContent(i, b).parts = b.parts /\ AsContent(i, b).start = b.start
  BY DEF AsContent
<1>2. b.parts \in Seq(Part) /\ b.start \in Objects /\ Len(b.parts) # 1
  BY DEF BlockType, CutShort
<1>3. CASE b.parts = <<>>
  BY <1>1, <1>2, <1>3, NoObject DEF ResolveArguments, Input
<1>4. CASE b.parts # <<>>
  <2> DEFINE p == b.parts
  <2>1. p \in Seq(Part) /\ p # <<>> /\ Len(p) # 1 /\ Len(p) <= 2
        /\ \A k \in 1 .. Len(p) : p[k] = <<i, k>>
    BY <1>2, <1>4 DEF Numbered
  <2> HIDE DEF p
  <2>a. Len(p) \in Nat /\ Len(p) # 0
    BY <2>1, EmptySeq
  <2>b. Len(p) # 1 /\ Len(p) <= 2
    BY <2>1
  <2>2. Len(p) = 2
    <3> DEFINE n == Len(p)
    <3>1. n \in Nat /\ n # 0 /\ n # 1 /\ n <= 2
      BY <2>a, <2>b
    <3> HIDE DEF n
    <3>2. n = 2
      BY <3>1
    <3> QED BY <3>2 DEF n
  <2>3. p \in Objects
    BY <2>1, <2>2, Whole
  <2> QED BY <1>1, <1>4, <2>3 DEF ResolveArguments, Input, p
<1> QED BY <1>3, <1>4

\* Each translator resolves arguments alike.
LEMMA ResolvesAlike ==
    /\ \A p, s : Chat!ResolveArguments(p, s) = ResolveArguments(p, s)
    /\ \A p, s : Responses!ResolveArguments(p, s) = ResolveArguments(p, s)
BY Same DEF ResolveArguments, Chat!ResolveArguments, Responses!ResolveArguments

-----------------------------------------------------------------------------
(* What a Responses client has heard *)

\* No event of p ends the response.
Quiet(p) == \E S : p \in Seq(S) /\ \A e \in S : e.type \notin Terminal

\* Nothing said.
LEMMA QuietNone == Quiet(<<>>)
<1> DEFINE S == {}
<1>1. <<>> \in Seq(S) /\ \A e \in S : e.type \notin Terminal
  OBVIOUS
<1> HIDE DEF S
<1> QED BY <1>1 DEF Quiet

\* One event, or two.
LEMMA QuietOne == ASSUME NEW e, e.type \notin Terminal PROVE Quiet(<<e>>)
<1> DEFINE S == {e}
           p == <<e>>
<1>1. p \in Seq(S) /\ \A d \in S : d.type \notin Terminal
  OBVIOUS
<1> HIDE DEF S
<1> QED BY <1>1 DEF Quiet

\* Two events.
LEMMA QuietTwo ==
    ASSUME NEW d, NEW e, d.type \notin Terminal, e.type \notin Terminal
    PROVE  Quiet(<<d, e>>)
<1> DEFINE S == {d, e}
           p == <<d, e>>
<1>1. p \in Seq(S) /\ \A f \in S : f.type \notin Terminal
  OBVIOUS
<1> HIDE DEF S
<1> QED BY <1>1 DEF Quiet

\* One after another.
LEMMA QuietJoin == ASSUME NEW p, NEW q, Quiet(p), Quiet(q) PROVE Quiet(p \o q)
<1>1. PICK S : p \in Seq(S) /\ \A e \in S : e.type \notin Terminal
  BY DEF Quiet
<1>2. PICK T : q \in Seq(T) /\ \A e \in T : e.type \notin Terminal
  BY DEF Quiet
<1>3. p \in Seq(S \cup T) /\ q \in Seq(S \cup T)
  BY <1>1, <1>2
<1>4. p \o q \in Seq(S \cup T)
  BY <1>3
<1> QED BY <1>1, <1>2, <1>4 DEF Quiet

\* A client hears nothing in them of the answer.
LEMMA HeardOn ==
    ASSUME NEW s \in Seq(EventType), NEW p, Quiet(p)
    PROVE  Heard(s \o p) = Heard(s)
<1>1. PICK T : p \in Seq(T) /\ \A e \in T : e.type \notin Terminal
  BY DEF Quiet
<1> DEFINE S == EventType \cup T
           R == {m \in Nat : m <= Len(p) => Heard(s \o SubSeq(p, 1, m)) = Heard(s)}
<1>2. s \in Seq(S) /\ p \in Seq(S) /\ Len(p) \in Nat
  BY <1>1
<1>a. \A k \in 1 .. Len(p) : p[k].type \notin Terminal
  BY <1>1
<1> HIDE DEF S
<1>3. 0 \in R
  <2>1. s \o SubSeq(p, 1, 0) = s
    BY <1>2
  <2> QED BY <2>1
<1>4. ASSUME NEW m \in Nat, m \in R PROVE m + 1 \in R
  <2> SUFFICES ASSUME m + 1 <= Len(p) PROVE Heard(s \o SubSeq(p, 1, m + 1)) = Heard(s)
    OBVIOUS
  <2> DEFINE e == p[m + 1]
             q == s \o SubSeq(p, 1, m)
  <2>1. Heard(q) = Heard(s)
    BY <1>2, <1>4
  <2>2. q \in Seq(S) /\ e \in S /\ s \o SubSeq(p, 1, m + 1) = Append(q, e)
    <3> HIDE DEF R
    <3> QED BY <1>2, SentOne
  <2>3. e.type \notin Terminal
    BY <1>2, <1>a
  <2> HIDE DEF q, e, R
  <2>4. Heard(Append(q, e)) = Hears(Heard(q), e)
    BY <2>2, HeardMore
  <2> QED BY <2>1, <2>2, <2>3, <2>4 DEF Hears
<1> HIDE DEF R
<1>5. Len(p) \in R
  BY <1>2, <1>3, <1>4, NatSet
<1>6. Heard(s \o SubSeq(p, 1, Len(p))) = Heard(s)
  BY <1>2, <1>5 DEF R
<1>7. SubSeq(p, 1, Len(p)) = p
  BY <1>1
<1> QED BY <1>6, <1>7

\* The events inside an item end nothing.
LEMMA ClosingQuiet == Quiet(Responses!ClosingEvents)
<1>1. CASE open = <<>>
  BY <1>1, QuietNone DEF Responses!ClosingEvents
<1>2. CASE open # <<>>
  <2> DEFINE item == Responses!Done(open[1], "completed")
             n == Responses!Here
             a == Responses!Event("text_done", n, item.value)
             b == Responses!Event("part_done", n, item.value)
             c == Responses!Event("args_done", n, item.value)
             d == Responses!Event("item_done", n, <<item>>)
             p == IF item.kind = "message" THEN <<a, b>> ELSE <<c>>
  <2>1. Responses!ClosingEvents = p \o <<d>>
    BY <1>2 DEF Responses!ClosingEvents
  <2>2. /\ a.type \notin Terminal /\ b.type \notin Terminal
        /\ c.type \notin Terminal /\ d.type \notin Terminal
    BY DEF Responses!Event, Terminal
  <2> HIDE DEF a, b, c, d
  <2>3. Quiet(<<a, b>>) /\ Quiet(<<c>>) /\ Quiet(<<d>>)
    BY <2>2, QuietOne, QuietTwo
  <2>4. Quiet(p)
    BY <2>3
  <2> HIDE DEF p
  <2> QED BY <2>1, <2>3, <2>4, QuietJoin
<1> QED BY <1>1, <1>2

\* Nor do those that open one.
LEMMA OpeningQuiet == ASSUME NEW kind, NEW i, NEW n PROVE Quiet(Responses!OpeningEvents(kind, i, n))
<1> DEFINE a == Responses!Event("item_added", n, <<Responses!Item(kind, 0, <<>>, "in_progress")>>)
           b == Responses!Event("part_added", n, <<>>)
           c == Responses!Event("item_added", n, <<Responses!Item(kind, i, <<>>, "in_progress")>>)
<1>1. Responses!OpeningEvents(kind, i, n) = IF kind = "message" THEN <<a, b>> ELSE <<c>>
  BY DEF Responses!OpeningEvents
<1>2. a.type \notin Terminal /\ b.type \notin Terminal /\ c.type \notin Terminal
  BY DEF Responses!Event, Terminal
<1> HIDE DEF a, b, c
<1> QED BY <1>1, <1>2, QuietOne, QuietTwo

-----------------------------------------------------------------------------
(* The items of an answer *)

\* A block as the item it was streamed as.
Gave(b) == AsItem(b, ResolveArguments(b.parts, b.start))

\* The items a message is streamed as: all its blocks but the thinking.
ItemsOf(content) ==
    LET shown == Shown(content) IN [n \in 1 .. Len(shown) |-> Gave(shown[n])]

\* The blocks a client is shown.
Visible == {b \in ContentType : b.type # "thinking"}

\* Every block shown is an item done.
LEMMA GaveDone == \A b \in Visible : Gave(b) \in DoneType
<1> SUFFICES ASSUME NEW b \in Visible PROVE Gave(b) \in DoneType
  OBVIOUS
<1> DEFINE v == b.parts
           w == ResolveArguments(b.parts, b.start)
           i == b.id
           z == 0
<1>1. v \in Texts /\ w \in Texts /\ i \in Nat /\ z \in Nat
  BY TextsAre, Resolved DEF Visible, ContentType
<1>2. Gave(b) = IF b.type = "text"
                THEN [kind |-> "message", call |-> z, value |-> v, status |-> "completed"]
                ELSE [kind |-> "function_call", call |-> i, value |-> w, status |-> "completed"]
  BY DEF Gave, AsItem, Responses!Item
<1> HIDE DEF v, w, i, z
<1>3. /\ [kind |-> "message", call |-> z, value |-> v, status |-> "completed"] \in DoneType
      /\ [kind |-> "function_call", call |-> i, value |-> w, status |-> "completed"] \in DoneType
  BY <1>1 DEF DoneType
<1> QED BY <1>2, <1>3

\* What the items are, and how many.
LEMMA ItemsAre ==
    ASSUME NEW content \in Seq(ContentType)
    PROVE  /\ Shown(content) \in Seq(Visible) /\ Len(Shown(content)) \in Nat
           /\ ItemsOf(content) \in Seq(DoneType) /\ Len(ItemsOf(content)) = Len(Shown(content))
           /\ \A n \in 1 .. Len(Shown(content)) : ItemsOf(content)[n] = Gave(Shown(content)[n])
<1> DEFINE S == Shown(content)
<1>1. S \in Seq(Visible) /\ Len(S) \in Nat
  BY ShownMore DEF Visible
<1> HIDE DEF S
<1>2. \A n \in 1 .. Len(S) : S[n] \in Visible
  BY <1>1
<1> DEFINE I == [n \in 1 .. Len(S) |-> Gave(S[n])]
<1>3. I \in [1 .. Len(S) -> DoneType]
  BY <1>2, GaveDone
<1>4. I \in Seq(DoneType) /\ Len(I) = Len(S)
  BY <1>1, <1>3
<1>5. ItemsOf(content) = I
  BY DEF ItemsOf, S
<1> QED BY <1>1, <1>4, <1>5 DEF S

\* The items of one block more.
LEMMA ItemsMore ==
    ASSUME NEW content \in Seq(ContentType), NEW b \in ContentType
    PROVE  /\ b.type = "thinking" => ItemsOf(Append(content, b)) = ItemsOf(content)
           /\ b.type # "thinking" => ItemsOf(Append(content, b)) = Append(ItemsOf(content), Gave(b))
<1> DEFINE S == Shown(content)
           T == Shown(Append(content, b))
           I == ItemsOf(content)
           J == ItemsOf(Append(content, b))
<1>1. T = AddShown(S, b)
  BY ShownMore
<1>2. CASE b.type = "thinking"
  BY <1>1, <1>2 DEF AddShown, ItemsOf
<1>3. CASE b.type # "thinking"
  <2>1. T = Append(S, b)
    BY <1>1, <1>3 DEF AddShown
  <2>2. Append(content, b) \in Seq(ContentType)
    OBVIOUS
  <2>3. /\ S \in Seq(Visible) /\ Len(S) \in Nat /\ I \in Seq(DoneType) /\ Len(I) = Len(S)
        /\ \A n \in 1 .. Len(S) : I[n] = Gave(S[n])
    BY ItemsAre
  <2>4. /\ J \in Seq(DoneType) /\ Len(J) = Len(T)
        /\ \A n \in 1 .. Len(T) : J[n] = Gave(T[n])
    BY <2>2, ItemsAre
  <2>5. b \in Visible
    BY <1>3 DEF Visible
  <2> HIDE DEF S, T, I, J
  <2>6. Len(T) = Len(S) + 1 /\ T[Len(S) + 1] = b /\ \A n \in 1 .. Len(S) : T[n] = S[n]
    BY <2>1, <2>3, <2>5, Added
  <2>7. Gave(b) \in DoneType
    BY <2>5, GaveDone
  <2>8. \A n \in 1 .. Len(I) : J[n] = I[n]
    BY <2>3, <2>4, <2>6
  <2>9. J[Len(I) + 1] = Gave(b) /\ Len(J) = Len(I) + 1
    BY <2>3, <2>4, <2>6
  <2>10. J = Append(I, Gave(b))
    BY <2>3, <2>4, <2>7, <2>8, <2>9, Ended
  <2> QED BY <1>3, <2>10 DEF I, J
<1> QED BY <1>2, <1>3

\* The item a block is streamed as.
OpenAs(b) == [kind  |-> IF b.type = "text" THEN "message" ELSE "function_call",
              index |-> b.id, value |-> b.parts, start |-> b.start]

\* It is done as the block.
LEMMA DoneGives ==
    ASSUME NEW b \in ContentType, b.type # "thinking"
    PROVE  Responses!Done(OpenAs(b), "completed") = Gave(b)
<1>1. b.type \in {"text", "tool_use"}
  BY DEF ContentType, Kinds
<1>2. OpenAs(b).value = b.parts /\ OpenAs(b).start = b.start /\ OpenAs(b).index = b.id
      /\ OpenAs(b).kind = IF b.type = "text" THEN "message" ELSE "function_call"
  BY DEF OpenAs
<1>3. CASE b.type = "text"
  BY <1>2, <1>3 DEF Responses!Done, Gave, AsItem
<1>4. CASE b.type = "tool_use"
  BY <1>2, <1>4, ResolvesAlike DEF Responses!Done, Gave, AsItem
<1> QED BY <1>1, <1>3, <1>4

-----------------------------------------------------------------------------
(* The items and what was streamed *)

\* The item that is open is the block that is, and those done are the blocks
\* before it.
Streamed(content, one, done) ==
    \/ one = <<>> /\ done = ItemsOf(content)
    \/ \E f \in Seq(ContentType), b \in ContentType :
          /\ content = Append(f, b) /\ b.type # "thinking"
          /\ one = <<OpenAs(b)>> /\ done = ItemsOf(f)

\* Then the items done, once it is closed, are all the blocks'.
LEMMA AllStreamed ==
    ASSUME Streamed(Content, open, closed)
    PROVE  Responses!Closed = ItemsOf(Content)
<1>1. CASE open = <<>> /\ closed = ItemsOf(Content)
  BY <1>1 DEF Responses!Closed
<1>2. ASSUME NEW f \in Seq(ContentType), NEW b \in ContentType, Content = Append(f, b),
             b.type # "thinking", open = <<OpenAs(b)>>, closed = ItemsOf(f)
      PROVE  Responses!Closed = ItemsOf(Content)
  <2>1. open # <<>> /\ open[1] = OpenAs(b)
    BY <1>2
  <2>2. Responses!Closed = Append(closed, Responses!Done(OpenAs(b), "completed"))
    BY <2>1 DEF Responses!Closed
  <2> QED BY <1>2, <2>2, DoneGives, ItemsMore
<1> QED BY <1>1, <1>2 DEF Streamed

\* A response of these items that ended for this reason.
Response(items, r) ==
    [output |-> items, status |-> <<IF r = "max_tokens" THEN "incomplete" ELSE "completed">>]

\* The newest block is open and is shown.
Shows == AnyOpen /\ blocks[Newest].kind # "thinking"

\* While the answer streams, its items are its blocks; the client hears
\* nothing of them before the response ends, and all of them when the reason
\* was given.
HearInv ==
    /\ ~ended => Heard(events) = NoResponse
    /\ body = "open" /\ stage \in {"silent", "streaming"} =>
          Streamed(Content, open, closed) /\ (open # <<>> <=> Shows)
    /\ reason # "none" => ended /\ Heard(events) = Response(ItemsOf(Content), reason)

\* Nothing is streamed at first.
LEMMA HearBegins == Init => HearInv
<1> SUFFICES ASSUME Init PROVE HearInv
  OBVIOUS
<1>1. blocks = <<>> /\ open = <<>> /\ closed = <<>> /\ events = <<>> /\ reason = "none"
  BY DEF Init, UpstreamInit, Responses!ResponsesInit
<1>2. Content = <<>> /\ Newest = 0
  BY <1>1 DEF Content, Newest
<1>3. Content \in Seq(ContentType)
  BY <1>2
<1>4. Shown(Content) = <<>>
  BY <1>2, ShownMore
<1>5. ItemsOf(Content) \in Seq(DoneType) /\ Len(ItemsOf(Content)) = 0
  BY <1>3, <1>4, ItemsAre
<1>6. ItemsOf(Content) = <<>>
  BY <1>5, EmptySeq
<1>7. Streamed(Content, open, closed)
  BY <1>1, <1>6 DEF Streamed
<1>8. ~Shows
  BY <1>2 DEF Shows, AnyOpen
<1> QED BY <1>1, <1>7, <1>8, HeardMore DEF HearInv

\* What the invariants say of the Responses translator's variables.
LEMMA HearVars ==
    ASSUME SeamInv
    PROVE  /\ open \in Seq(OpenType) /\ closed \in Seq(DoneType) /\ events \in Seq(EventType)
           /\ ended \in BOOLEAN
           /\ blocks \in Seq(BlockType) /\ Newest = Len(blocks) /\ Newest \in Nat
           /\ Content \in Seq(ContentType) /\ Len(Content) = Newest
           /\ TypeOK /\ ChatInv
<1>1. ChatInv /\ TypeOK
  BY SeamTypes DEF SeamInv
<1>2. blocks \in Seq(BlockType) /\ Newest = Len(blocks) /\ Newest \in Nat
      /\ Content \in Seq(ContentType)
  BY <1>1, ChatVars
<1>3. Len(Content) = Newest
  BY <1>2, ContentIs, ContentSeq
<1> QED BY <1>1, <1>2, <1>3 DEF SeamInv, Told

\* The open item's block is the newest.
LEMMA StreamedNewest ==
    ASSUME SeamInv, NEW f \in Seq(ContentType), NEW b \in ContentType, Content = Append(f, b)
    PROVE  b = AsContent(Newest, blocks[Newest]) /\ b.id = Newest /\ Newest > 0
<1>1. Len(Content) = Len(f) + 1 /\ Content[Len(f) + 1] = b /\ Len(f) \in Nat
  OBVIOUS
<1>2. Newest = Len(f) + 1 /\ Newest \in 1 .. Newest
  BY <1>1, HearVars
<1>3. Content[Newest] = AsContent(Newest, blocks[Newest])
  BY <1>2, HearVars, ContentIs, ContentSeq
<1>4. b = AsContent(Newest, blocks[Newest])
  BY <1>1, <1>2, <1>3
<1>5. AsContent(Newest, blocks[Newest]).id = Newest
  BY DEF AsContent
<1> QED BY <1>2, <1>4, <1>5

\* message_start.
LEMMA HearStart ==
    ASSUME SeamInv, ReadInv, HearInv, MessageStart
    PROVE  HearInv'
<1>1. /\ stage = "silent" /\ body = "open" /\ UNCHANGED <<blocks, reason>>
      /\ Responses!OnMessageStart
  BY DEF MessageStart, Streams, Begins
<1>2. reason = "none" /\ ~ended
  BY <1>1 DEF ReadInv, SeamInv
<1>3. Content' = Content /\ Newest' = Newest /\ Shows' = Shows
  BY <1>1, ContentKept DEF Shows, AnyOpen, Newest
<1>4. UNCHANGED <<open, closed, ended>> /\ Heard(events') = Heard(events)
  <2>1. CASE created
    BY <2>1, <1>1 DEF Responses!OnMessageStart, Responses!Ignored, Responses!responsesVars
  <2>2. CASE ~created
    <3> DEFINE a == Responses!Event("created", 0, <<>>)
               b == Responses!Event("in_progress", 0, <<>>)
    <3>1. UNCHANGED <<open, closed, ended>> /\ events' = events \o <<a, b>>
      BY <1>1, <1>2, <2>2 DEF Responses!OnMessageStart
    <3>2. a.type \notin Terminal /\ b.type \notin Terminal
      BY DEF Responses!Event, Terminal
    <3> HIDE DEF a, b
    <3> QED BY <3>1, <3>2, QuietTwo, HeardOn, HearVars
  <2> QED BY <2>1, <2>2
<1> QED BY <1>1, <1>2, <1>3, <1>4 DEF HearInv

\* content_block_start.
LEMMA HearBlock ==
    ASSUME SeamInv, ReadInv, HearInv, ContentBlockStart
    PROVE  HearInv'
<1>1. PICK kind \in Kinds, start \in {NoArguments, Preset(Newest + 1)} :
         /\ Streams /\ StartsBlock(kind, start)
         /\ Responses!OnContentBlockStart(Newest + 1, kind, start)
  BY DEF ContentBlockStart
<1>2. stage = "streaming" /\ body = "open" /\ UNCHANGED reason
  BY <1>1 DEF Streams, StartsBlock
<1>3. reason = "none" /\ ~ended
  BY <1>2 DEF ReadInv, SeamInv
<1> DEFINE b == AsContent(Newest + 1, Block(kind, start, <<>>))
           item == IF kind = "text" THEN "message" ELSE "function_call"
           m == Responses!ClosingEvents
           n == Len(Responses!Closed)
           p == IF kind = "thinking" THEN <<>> ELSE Responses!OpeningEvents(item, Newest + 1, n)
<1>4. /\ Content' = Append(Content, b) /\ b \in ContentType
      /\ b = [type |-> kind, id |-> Newest + 1, parts |-> <<>>, start |-> start]
      /\ Newest' = Newest + 1 /\ blocks'[Newest'] = Block(kind, start, <<>>)
  BY <1>1, HearVars, ContentStarts
<1>5. Shows' <=> kind # "thinking"
  BY <1>4, HearVars DEF Shows, AnyOpen, Block
<1>6. /\ closed' = Responses!Closed /\ ended' = ended /\ events' = events \o m \o p
      /\ open' = IF kind = "thinking" THEN <<>>
                 ELSE Responses!Opened(item, Newest + 1, <<>>, start)
  BY <1>1, <1>3 DEF Responses!OnContentBlockStart
<1>7. closed' = ItemsOf(Content)
  BY <1>2, <1>6, AllStreamed DEF HearInv
<1>8. Heard(events') = Heard(events)
  <2>1. Quiet(m) /\ Quiet(p)
    BY ClosingQuiet, OpeningQuiet, QuietNone
  <2> HIDE DEF m, p
  <2>2. events \o m \o p = events \o (m \o p)
    <3>1. PICK S : m \in Seq(S)
      BY <2>1 DEF Quiet
    <3>2. PICK T : p \in Seq(T)
      BY <2>1 DEF Quiet
    <3> QED BY <3>1, <3>2, HearVars
  <2> QED BY <1>6, <2>1, <2>2, QuietJoin, HeardOn, HearVars
<1>9. b.type = kind /\ b.id = Newest + 1 /\ b.parts = <<>> /\ b.start = start
  BY <1>4
<1>10. kind # "thinking" => open' = <<OpenAs(b)>>
  BY <1>6, <1>9 DEF Responses!Opened, OpenAs
<1>11. kind = "thinking" => open' = <<>>
  BY <1>6
<1> HIDE DEF b
<1>12. Streamed(Content', open', closed')
  <2>1. CASE kind = "thinking"
    BY <1>4, <1>7, <1>9, <1>11, <2>1, HearVars, ItemsMore DEF Streamed
  <2>2. CASE kind # "thinking"
    BY <1>4, <1>7, <1>9, <1>10, <2>2, HearVars DEF Streamed
  <2> QED BY <2>1, <2>2
<1>13. open' # <<>> <=> Shows'
  BY <1>5, <1>10, <1>11
<1> QED BY <1>2, <1>3, <1>6, <1>8, <1>12, <1>13 DEF HearInv

\* The item, with a part more.
Longer(o, part) == [o EXCEPT ![1].value = Append(@, part)]

\* The item opened with the longer value.
LEMMA ItemPart ==
    ASSUME NEW k, NEW i, NEW v, NEW s, NEW part
    PROVE  Longer(Responses!Opened(k, i, v, s), part) = Responses!Opened(k, i, Append(v, part), s)
<1> DEFINE o == [kind |-> k, index |-> i, value |-> v, start |-> s]
<1>1. [o EXCEPT !.value = Append(@, part)] =
         [kind |-> k, index |-> i, value |-> Append(v, part), start |-> s]
  OBVIOUS
<1>2. [<<o>> EXCEPT ![1].value = Append(@, part)] = <<[o EXCEPT !.value = Append(@, part)]>>
  OBVIOUS
<1> QED BY <1>1, <1>2 DEF Longer, Responses!Opened

\* The open item takes its next part.
LEMMA ItemTakes ==
    ASSUME NEW b, NEW d, NEW part,
           d.type = b.type, d.id = b.id, d.start = b.start, d.parts = Append(b.parts, part)
    PROVE  Longer(<<OpenAs(b)>>, part) = <<OpenAs(d)>>
<1> DEFINE k == IF b.type = "text" THEN "message" ELSE "function_call"
<1>1. <<OpenAs(b)>> = Responses!Opened(k, b.id, b.parts, b.start)
  BY DEF OpenAs, Responses!Opened
<1>2. <<OpenAs(d)>> = Responses!Opened(k, b.id, Append(b.parts, part), b.start)
  BY DEF OpenAs, Responses!Opened
<1> HIDE DEF k
<1> QED BY <1>1, <1>2, ItemPart

\* Two appended sequences are the same in their parts.
LEMMA AppendSame ==
    ASSUME NEW S, NEW f \in Seq(S), NEW g \in Seq(S), NEW b \in S, Append(f, b) = Append(g, b)
    PROVE  f = g
<1> DEFINE s == Append(f, b)
           t == Append(g, b)
<1>1. /\ Len(s) = Len(f) + 1 /\ \A k \in 1 .. Len(f) : s[k] = f[k]
      /\ Len(t) = Len(g) + 1 /\ \A k \in 1 .. Len(g) : t[k] = g[k]
      /\ Len(f) \in Nat /\ Len(g) \in Nat
  OBVIOUS
<1>2. s = t
  OBVIOUS
<1> HIDE DEF s, t
<1>3. Len(f) = Len(g) /\ \A k \in 1 .. Len(f) : g[k] = f[k]
  BY <1>1, <1>2
<1> QED BY <1>3, SeqSame

\* The block that is open has the item that is.
LEMMA ItemOpen ==
    ASSUME SeamInv, HearInv, body = "open", stage = "streaming", Shows
    PROVE  LET b == AsContent(Newest, blocks[Newest])
           IN  /\ open = <<OpenAs(b)>> /\ open # <<>> /\ open[1] = OpenAs(b) /\ b.id = Newest
               /\ \E f \in Seq(ContentType) : Content = Append(f, b) /\ closed = ItemsOf(f)
<1>1. open # <<>> /\ Streamed(Content, open, closed)
  BY DEF HearInv
<1>2. PICK f \in Seq(ContentType), b \in ContentType :
         /\ Content = Append(f, b) /\ open = <<OpenAs(b)>> /\ closed = ItemsOf(f)
  BY <1>1 DEF Streamed
<1>3. b = AsContent(Newest, blocks[Newest]) /\ b.id = Newest
  BY <1>2, StreamedNewest
<1>4. open[1] = OpenAs(b)
  BY <1>2
<1> QED BY <1>1, <1>2, <1>3, <1>4

\* The newest block and its item take a part.
PartTaken(i) ==
    /\ blocks' = [blocks EXCEPT ![i].parts = Append(@, NextPart(i))]
    /\ open' = Longer(open, NextPart(i))
    /\ closed' = closed

\* Then they still agree.
LEMMA BothTake ==
    ASSUME SeamInv, HearInv, body = "open", stage = "streaming", Shows,
           NEW i \in 1 .. Newest, i = Newest, Len(blocks[i].parts) < 2, PartTaken(i)
    PROVE  Streamed(Content', open', closed') /\ open' # <<>> /\ Shows'
<1> DEFINE b == AsContent(i, blocks[i])
           d == AsContent(i, blocks'[i])
           part == NextPart(i)
<1>1. /\ b \in ContentType /\ d \in ContentType
      /\ d.type = b.type /\ d.id = b.id /\ d.start = b.start
      /\ b.type = blocks[i].kind /\ d.parts = Append(b.parts, part)
      /\ \E f \in Seq(ContentType) : Content = Append(f, b) /\ Content' = Append(f, d)
  BY HearVars, ContentTakes DEF PartTaken
<1>2. /\ open = <<OpenAs(b)>>
      /\ \E f \in Seq(ContentType) : Content = Append(f, b) /\ closed = ItemsOf(f)
  BY ItemOpen
<1>3. blocks[i].kind # "thinking" /\ blocks[i].open
  BY DEF Shows, AnyOpen
<1>4. Shows'
  <2>1. blocks[i] \in BlockType /\ Newest' = Newest
        /\ blocks'[i] = [blocks[i] EXCEPT !.parts = Append(@, NextPart(i))]
    <3>1. Newest = Len(blocks) /\ blocks \in Seq(BlockType) /\ TypeOK
      BY HearVars
    <3>2. /\ Len(blocks') = Newest
          /\ blocks'[i] = [blocks[i] EXCEPT !.parts = Append(@, NextPart(i))]
      BY <3>1, GrowTypes DEF PartTaken
    <3>3. blocks[i] \in BlockType
      BY <3>1
    <3> QED BY <3>2, <3>3 DEF Newest
  <2>2. blocks'[i].kind = blocks[i].kind /\ blocks'[i].open = blocks[i].open
    BY <2>1 DEF BlockType
  <2> QED BY <1>3, <2>1, <2>2 DEF Shows, AnyOpen
<1> HIDE DEF b, d, part
<1>5. PICK f \in Seq(ContentType) : Content = Append(f, b) /\ closed = ItemsOf(f)
  BY <1>2
<1>6. PICK g \in Seq(ContentType) : Content = Append(g, b) /\ Content' = Append(g, d)
  BY <1>1
<1>7. f = g
  <2>1. Append(f, b) = Append(g, b) /\ b \in ContentType
    BY <1>1, <1>5, <1>6
  <2> QED BY <2>1, AppendSame
<1>8. open' = <<OpenAs(d)>>
  <2>1. open' = Longer(<<OpenAs(b)>>, part)
    BY <1>2 DEF part, PartTaken
  <2> QED BY <1>1, <2>1, ItemTakes
<1>9. open' # <<>>
  <2>1. \A x : <<x>> # <<>>
    OBVIOUS
  <2> QED BY <1>8, <2>1
<1>10. /\ Content' = Append(f, d) /\ d.type # "thinking" /\ closed' = ItemsOf(f)
       /\ d \in ContentType
  BY <1>1, <1>3, <1>5, <1>6, <1>7 DEF PartTaken
<1>11. Streamed(Content', open', closed')
  BY <1>8, <1>10 DEF Streamed
<1> QED BY <1>4, <1>9, <1>11

\* A text delta.
LEMMA HearText ==
    ASSUME SeamInv, ReadInv, HearInv, TextDelta
    PROVE  HearInv'
<1>1. PICK i \in Index : Streams /\ SendsText(i) /\ Responses!OnTextDelta(i, NextPart(i))
  BY DEF TextDelta
<1>2. stage = "streaming" /\ body = "open" /\ UNCHANGED reason
  BY <1>1 DEF Streams, SendsText
<1>3. reason = "none" /\ ~ended
  BY <1>2 DEF ReadInv, SeamInv
<1> DEFINE part == NextPart(i)
           n == Responses!Here
           x == Responses!Event("text_delta", n, <<part>>)
           p == IF open = <<>> THEN Responses!OpeningEvents("message", i, n) ELSE <<>>
           item == IF open = <<>> THEN Responses!Opened("message", i, <<>>, NoArguments) ELSE open
<1>a. /\ ~(open # <<>> /\ open[1].kind = "function_call")
      /\ Streamed(Content', open', closed') /\ (open' # <<>> <=> Shows')
  <2>1. CASE AnyOpen /\ i = Newest /\ blocks[i].kind = "text" /\ Len(blocks[i].parts) < 2
             /\ blocks' = [blocks EXCEPT ![i].parts = Append(@, NextPart(i))]
    <3>1. i \in 1 .. Newest
      BY <2>1, HearVars DEF Index
    <3>2. Shows
      BY <2>1 DEF Shows
    <3>3. open # <<>> /\ open[1].kind = "message"
      <4> DEFINE b == AsContent(Newest, blocks[Newest])
      <4>1. open # <<>> /\ open[1] = OpenAs(b)
        BY <1>2, <3>2, ItemOpen
      <4>2. b.type = "text"
        BY <2>1 DEF AsContent
      <4> HIDE DEF b
      <4> QED BY <4>1, <4>2 DEF OpenAs
    <3>4. open' = Longer(open, part) /\ closed' = closed
      BY <1>1, <1>3, <3>3 DEF Responses!OnTextDelta, Longer
    <3>5. Streamed(Content', open', closed') /\ open' # <<>> /\ Shows'
      BY <1>2, <2>1, <3>1, <3>2, <3>4, BothTake DEF PartTaken
    <3> QED BY <3>3, <3>5
  <2>2. CASE ~AnyOpen /\ i = Newest + 1 /\ i <= MaxBlocks
             /\ blocks' = Append(blocks, Block("text", NoArguments, <<NextPart(i)>>))
    <3> DEFINE b == AsContent(i, Block("text", NoArguments, <<part>>))
    <3>1. /\ Content' = Append(Content, b) /\ b \in ContentType
          /\ b = [type |-> "text", id |-> i, parts |-> <<part>>, start |-> NoArguments]
          /\ Newest' = Newest + 1 /\ blocks'[i] = Block("text", NoArguments, <<part>>)
      BY <2>2, HearVars, ContentSlips
    <3>2. ~Shows /\ open = <<>>
      BY <1>2, <2>2 DEF Shows, HearInv
    <3>3. closed = ItemsOf(Content)
      <4>1. Streamed(Content, open, closed)
        BY <1>2 DEF HearInv
      <4> QED BY <3>2, <4>1 DEF Streamed
    <3>4. /\ closed' = closed
          /\ open' = Longer(Responses!Opened("message", i, <<>>, NoArguments), part)
      BY <1>1, <1>3, <3>2, Same DEF Responses!OnTextDelta, Longer
    <3>5. open' = Responses!Opened("message", i, <<part>>, NoArguments)
      <4>1. Append(<<>>, part) = <<part>>
        OBVIOUS
      <4>2. Longer(Responses!Opened("message", i, <<>>, NoArguments), part) =
               Responses!Opened("message", i, Append(<<>>, part), NoArguments)
        <5> DEFINE e == <<>>
                   k == "message"
                   z == NoArguments
                   q == part
        <5> HIDE DEF e, k, z, q
        <5>1. Longer(Responses!Opened(k, i, e, z), q) = Responses!Opened(k, i, Append(e, q), z)
          BY ItemPart
        <5> QED BY <5>1 DEF e, k, z, q
      <4> QED BY <3>4, <4>1, <4>2, Zenon
    <3>6. open' = <<OpenAs(b)>>
      <4>1. b.type = "text" /\ b.id = i /\ b.parts = <<part>> /\ b.start = NoArguments
        BY <3>1
      <4> HIDE DEF b
      <4> QED BY <3>5, <4>1 DEF OpenAs, Responses!Opened
    <3>7. Shows'
      BY <2>2, <3>1, HearVars DEF Shows, AnyOpen, Block
    <3>8. b.type = "text"
      BY <3>1
    <3> HIDE DEF b
    <3>9. Streamed(Content', open', closed')
      BY <3>1, <3>3, <3>4, <3>6, <3>8, HearVars DEF Streamed
    <3>10. open' # <<>>
      BY <3>6
    <3> QED BY <3>2, <3>7, <3>9, <3>10
  <2> QED BY <1>1, <2>1, <2>2 DEF SendsText
<1>4. ended' = ended /\ events' = events \o p \o <<x>>
  BY <1>1, <1>3, <1>a DEF Responses!OnTextDelta
<1>5. Heard(events') = Heard(events)
  <2>1. Quiet(p)
    BY OpeningQuiet, QuietNone
  <2>2. x.type \notin Terminal
    BY DEF Responses!Event, Terminal
  <2> HIDE DEF p, x
  <2>3. Quiet(<<x>>)
    BY <2>2, QuietOne
  <2>4. events \o p \o <<x>> = events \o (p \o <<x>>)
    <3>1. PICK S : p \in Seq(S)
      BY <2>1 DEF Quiet
    <3> QED BY <3>1, HearVars
  <2>5. Quiet(p \o <<x>>)
    BY <2>1, <2>3, QuietJoin
  <2> DEFINE q == p \o <<x>>
  <2>6. events' = events \o q
    BY <1>4, <2>4
  <2> HIDE DEF q
  <2> QED BY <2>5, <2>6, HeardOn, HearVars DEF q
<1> QED BY <1>2, <1>3, <1>4, <1>5, <1>a DEF HearInv

\* A fragment of the arguments.
LEMMA HearFragment ==
    ASSUME SeamInv, ReadInv, HearInv, InputJsonDelta
    PROVE  HearInv'
<1>1. PICK i \in 1 .. Newest :
         Streams /\ SendsFragment(i) /\ Responses!OnInputJsonDelta(i, NextPart(i))
  BY DEF InputJsonDelta
<1>2. stage = "streaming" /\ body = "open" /\ UNCHANGED reason
  BY <1>1 DEF Streams, SendsFragment
<1>3. reason = "none" /\ ~ended
  BY <1>2 DEF ReadInv, SeamInv
<1>4. /\ AnyOpen /\ i = Newest /\ blocks[i].kind = "tool_use" /\ Len(blocks[i].parts) < 2
      /\ blocks' = [blocks EXCEPT ![i].parts = Append(@, NextPart(i))]
  BY <1>1 DEF SendsFragment
<1>5. Shows
  BY <1>4 DEF Shows
<1>6. open # <<>> /\ open[1].index = i /\ open[1].kind = "function_call"
  <2> DEFINE b == AsContent(Newest, blocks[Newest])
  <2>1. open # <<>> /\ open[1] = OpenAs(b) /\ b.id = Newest
    BY <1>2, <1>5, ItemOpen
  <2>2. b.type = "tool_use"
    BY <1>4 DEF AsContent
  <2> HIDE DEF b
  <2> QED BY <1>4, <2>1, <2>2 DEF OpenAs
<1> DEFINE x == Responses!Event("args_delta", Responses!Here, <<NextPart(i)>>)
<1>7. /\ open' = Longer(open, NextPart(i)) /\ closed' = closed /\ ended' = ended
      /\ events' = Append(events, x)
  BY <1>1, <1>3, <1>6 DEF Responses!OnInputJsonDelta, Responses!IsOpen, Longer
<1>8. Streamed(Content', open', closed') /\ open' # <<>> /\ Shows'
  BY <1>2, <1>4, <1>5, <1>7, BothTake DEF PartTaken
<1>9. Heard(events') = Heard(events)
  <2>1. x.type \notin Terminal
    BY DEF Responses!Event, Terminal
  <2> HIDE DEF x
  <2>2. Quiet(<<x>>) /\ Append(events, x) = events \o <<x>>
    BY <2>1, QuietOne, HearVars
  <2> QED BY <1>7, <2>2, HeardOn, HearVars
<1> QED BY <1>2, <1>3, <1>7, <1>8, <1>9 DEF HearInv

\* content_block_stop.
LEMMA HearStop ==
    ASSUME SeamInv, ReadInv, HearInv, ContentBlockStop
    PROVE  HearInv'
<1>1. PICK i \in 1 .. Newest : Streams /\ StopsBlock(i) /\ Responses!OnContentBlockStop(i)
  BY DEF ContentBlockStop
<1>2. stage = "streaming" /\ body = "open" /\ UNCHANGED reason /\ i = Newest
  BY <1>1 DEF Streams, StopsBlock
<1>3. reason = "none" /\ ~ended
  BY <1>2 DEF ReadInv, SeamInv
<1>4. Content' = Content /\ ~Shows'
  BY <1>1, HearVars, ContentStops DEF Shows
<1>5. Streamed(Content, open, closed)
  BY <1>2 DEF HearInv
<1>6. /\ open' = <<>> /\ closed' = ItemsOf(Content) /\ ended' = ended
      /\ Heard(events') = Heard(events)
  <2>1. CASE open = <<>>
    <3>1. UNCHANGED <<open, closed, ended, events>>
      BY <1>1, <2>1 DEF Responses!OnContentBlockStop, Responses!IsOpen, Responses!Ignored,
                        Responses!responsesVars
    <3>2. closed = ItemsOf(Content)
      BY <1>5, <2>1 DEF Streamed
    <3> QED BY <2>1, <3>1, <3>2
  <2>2. CASE open # <<>>
    <3>1. PICK f \in Seq(ContentType), b \in ContentType :
             Content = Append(f, b) /\ open = <<OpenAs(b)>>
      BY <1>5, <2>2 DEF Streamed
    <3>2. open[1].index = i
      <4>1. b.id = i
        BY <1>2, <3>1, StreamedNewest
      <4> QED BY <3>1, <4>1 DEF OpenAs
    <3>3. /\ open' = <<>> /\ closed' = Responses!Closed /\ ended' = ended
          /\ events' = events \o Responses!ClosingEvents
      BY <1>1, <1>3, <2>2, <3>2 DEF Responses!OnContentBlockStop, Responses!IsOpen
    <3>4. Responses!Closed = ItemsOf(Content)
      BY <1>5, AllStreamed
    <3> QED BY <3>3, <3>4, ClosingQuiet, HeardOn, HearVars
  <2> QED BY <2>1, <2>2
<1>7. Streamed(Content', open', closed')
  BY <1>4, <1>6 DEF Streamed
<1> QED BY <1>2, <1>3, <1>4, <1>6, <1>7 DEF HearInv

\* message_delta: the client hears all the items.
LEMMA HearDelta ==
    ASSUME SeamInv, ReadInv, HearInv, MessageDelta
    PROVE  HearInv'
<1>1. PICK r \in {"end_turn", "tool_use", "max_tokens"} :
         Streams /\ SendsReason(r) /\ Responses!OnMessageDelta(r)
  BY DEF MessageDelta
<1>2. /\ stage = "streaming" /\ stage' = "finishing" /\ body = "open" /\ UNCHANGED blocks
      /\ reason' = r
  BY <1>1 DEF Streams, SendsReason
<1>3. reason = "none" /\ ~ended
  BY <1>2 DEF ReadInv, SeamInv
<1>4. Content' = Content
  BY <1>2, ContentKept
<1> DEFINE type == IF r = "max_tokens" THEN "incomplete" ELSE "completed"
           items == Responses!Closed
           m == Responses!ClosingEvents
           t == events \o m
           x == Responses!Event(type, 0, items)
<1>5. ended' = TRUE /\ events' = t \o <<x>>
  BY <1>1, <1>3 DEF Responses!OnMessageDelta
<1>6. items = ItemsOf(Content)
  <2>1. Streamed(Content, open, closed)
    BY <1>2 DEF HearInv
  <2> QED BY <2>1, AllStreamed
<1>7. Heard(t) = NoResponse
  BY <1>3, ClosingQuiet, HeardOn, HearVars DEF HearInv
<1>8. x.type = type /\ x.value = items /\ type \in Terminal
  BY DEF Responses!Event, Terminal
<1>9. PICK T : m \in Seq(T)
  BY ClosingQuiet DEF Quiet
<1>10. items \in Seq(DoneType)
  BY <1>6, HearVars, ItemsAre
<1> HIDE DEF type, items, x, m
<1>11. t \in Seq(EventType \cup T \cup {x}) /\ x \in EventType \cup T \cup {x}
  BY <1>9, HearVars
<1>12. t \o <<x>> = Append(t, x)
  BY <1>9, HearVars
<1> HIDE DEF t
<1>13. Heard(Append(t, x)) = Hears(Heard(t), x)
  BY <1>11, HeardMore
<1>14. <<>> \o items = items /\ Append(<<>>, type) = <<type>>
  BY <1>10
<1>15. Hears(NoResponse, x) = [output |-> items, status |-> <<type>>]
  BY <1>8, <1>14 DEF Hears, NoResponse
<1>16. Heard(events') = Response(ItemsOf(Content'), reason')
  <2>1. Heard(events') = [output |-> ItemsOf(Content), status |-> <<type>>]
    BY <1>5, <1>6, <1>7, <1>12, <1>13, <1>15
  <2> QED BY <1>2, <1>4, <2>1 DEF Response, type
<1> QED BY <1>2, <1>5, <1>16 DEF HearInv

\* Nothing more of the answer.
LEMMA HearNoMore ==
    ASSUME SeamInv, HearInv, UNCHANGED <<blocks, reason>>,
           Responses!Ignored \/ Responses!OnError,
           body' # "open" \/ stage' \notin {"silent", "streaming"}
    PROVE  HearInv'
<1>1. Content' = Content
  BY ContentKept
<1>2. CASE Responses!Ignored
  <2>1. UNCHANGED <<open, closed, ended, events>>
    BY <1>2 DEF Responses!Ignored, Responses!responsesVars
  <2> QED BY <1>1, <2>1 DEF HearInv
<1>3. CASE Responses!OnError /\ ~ended
  <2>1. ended' = TRUE
    BY <1>3 DEF Responses!OnError
  <2> QED BY <1>1, <1>3, <2>1 DEF HearInv
<1>4. CASE Responses!OnError /\ ended
  BY <1>2, <1>4 DEF Responses!OnError
<1> QED BY <1>2, <1>3, <1>4

\* In every step.
LEMMA HearKeeps ==
    ASSUME SeamInv, ReadInv, HearInv, [Next]_vars
    PROVE  HearInv'
<1>1. CASE MessageStop
  BY <1>1, HearNoMore DEF MessageStop, Streams, SendsStop, Responses!OnMessageStop
<1>2. CASE Error
  BY <1>2, HearNoMore DEF Error, Streams, SendsError
<1>3. CASE EndBody
  <2>1. Responses!Ignored \/ Responses!OnError
    BY <1>3 DEF EndBody, Responses!Finish
  <2> QED BY <1>3, <2>1, HearNoMore DEF EndBody, upstreamVars
<1>4. CASE BreakBody
  <2>1. Responses!Ignored
    BY <1>4 DEF BreakBody, responsesVars, Responses!Ignored, Responses!responsesVars
  <2> QED BY <1>4, <2>1, HearNoMore DEF BreakBody, upstreamVars
<1>5. CASE NextTurn \/ UNCHANGED vars
  <2>1. UNCHANGED <<blocks, reason, stage, body, open, closed, ended, events>>
    BY <1>5 DEF NextTurn, vars, upstreamVars, responsesVars
  <2>2. Content' = Content /\ Shows' = Shows
    BY <2>1, ContentKept DEF Shows, AnyOpen, Newest
  <2> QED BY <2>1, <2>2 DEF HearInv
<1> QED BY <1>1, <1>2, <1>3, <1>4, <1>5, HearStart, HearBlock, HearText, HearFragment, HearStop,
           HearDelta DEF Next

-----------------------------------------------------------------------------
(* The answer, streamed and whole *)

\* What was streamed is what the clients have, and is the upstream's message.
AnswerInv == SeamInv /\ ReadInv /\ BlocksInv /\ HearInv

\* The invariant holds of every reachable state.
LEMMA AnswerAlways == Spec => []AnswerInv
<1>1. Init => AnswerInv
  BY SeamBegins, ReadBegins, BlocksBegin, HearBegins DEF AnswerInv
<1>2. AnswerInv /\ [Next]_vars => AnswerInv'
  <2> SUFFICES ASSUME AnswerInv, [Next]_vars PROVE AnswerInv'
    OBVIOUS
  <2>1. TypeOK /\ ChatInv
    BY HearVars DEF AnswerInv
  <2> QED BY <2>1, SeamKeeps, ReadKeeps, BlocksKeep, HearKeeps DEF AnswerInv
<1> QED BY <1>1, <1>2, PTL DEF Spec

\* The blocks of a message.
Members == {Content[i] : i \in 1 .. Newest}

\* Content is made of them.
LEMMA MembersAre ==
    ASSUME SeamInv
    PROVE  Content \in Seq(Members) /\ Members \subseteq ContentType
<1>1. Content \in Seq(ContentType) /\ Len(Content) = Newest
  BY HearVars
<1>2. Content \in [1 .. Len(Content) -> Members]
  BY <1>1 DEF Members
<1>3. Len(Content) \in Nat
  BY <1>1
<1>4. Members \subseteq ContentType
  BY <1>1 DEF Members
<1> DEFINE s == Content
<1>5. s \in [1 .. Len(s) -> Members] /\ Len(s) \in Nat
  BY <1>2, <1>3
<1> HIDE DEF s
<1>6. s \in Seq(Members)
  BY <1>5
<1> QED BY <1>4, <1>6 DEF s

\* No call was cut short.
NoneCut == \A i \in 1 .. Len(blocks) : ~CutShort(blocks[i])

\* A call of a message not cut short has the input the upstream reports.
LEMMA MemberInput ==
    ASSUME SeamInv, BlocksInv, NoneCut, NEW b \in Members, b.type = "tool_use"
    PROVE  ResolveArguments(b.parts, b.start) = Input(b) /\ Input(b) \in Objects
<1>1. PICK i \in 1 .. Newest : b = Content[i]
  BY DEF Members
<1>2. blocks[i] \in BlockType /\ b = AsContent(i, blocks[i]) /\ Newest = Len(blocks)
  BY <1>1, HearVars, ContentIs, ContentSeq
<1>3. i \in Index
  BY HearVars, TypesAre, MaxBlocksAssumption DEF Index
<1>4. blocks[i].kind = "tool_use" /\ b.parts = blocks[i].parts /\ b.start = blocks[i].start
  BY <1>2 DEF AsContent
<1>5. Numbered(i, blocks[i]) /\ ~CutShort(blocks[i])
  BY <1>2 DEF BlocksInv, NoneCut
<1> QED BY <1>2, <1>3, <1>4, <1>5, InputIs

\* The calls of the message, as the client should have them.
LEMMA ToolsSeq ==
    ASSUME SeamInv
    PROVE  /\ Tools(Content) \in Seq({b \in Members : b.type = "tool_use"})
           /\ DOMAIN Tools(Content) = 1 .. Len(Tools(Content)) /\ Len(Tools(Content)) \in Nat
           /\ Tools(Content) \in Seq(ContentType)
<1> DEFINE S == {b \in Members : b.type = "tool_use"}
           T == Tools(Content)
<1>1. T \in Seq(S) /\ S \subseteq ContentType
  BY MembersAre, ToolsMore
<1> HIDE DEF S, T
<1>2. T \in Seq(ContentType) /\ DOMAIN T = 1 .. Len(T) /\ Len(T) \in Nat
  BY <1>1
<1> QED BY <1>1, <1>2 DEF S, T

\* A Chat Completions client has the whole message.
LEMMA ChatWhole ==
    ASSUME AnswerInv, reason # "none", NoneCut
    PROVE  ChatAnswer = WholeChat
<1> DEFINE T == Tools(Content)
           whole == [n \in DOMAIN T |-> Call(T[n].id, Input(T[n]))]
<1>1. SeamInv /\ BlocksInv /\ HasRead(Content, calls, chunks, Finished) /\ AllDone
  BY DEF AnswerInv, ReadInv
<1>2. Read(chunks) = Answer(TextOf(Content), CallsOf(calls), Finished) /\ Announced(Content, calls)
  BY <1>1 DEF HasRead
<1>3. Finished = <<Chat!FinishReason(reason)>>
  BY DEF Finished
<1>4. CallsOf(calls) = whole
  <2>1. /\ T \in Seq({b \in Members : b.type = "tool_use"})
        /\ DOMAIN T = 1 .. Len(T) /\ Len(T) \in Nat
    BY <1>1, ToolsSeq
  <2>2. calls \in Seq(CallType)
    BY <1>1, HearVars, ChatVars
  <2>3. /\ CallsOf(calls) \in Seq(CallTexts) /\ Len(CallsOf(calls)) = Len(calls)
        /\ \A c \in 1 .. Len(calls) :
              CallsOf(calls)[c] = Call(calls[c].index, IF calls[c].closed THEN Chat!Arguments(calls[c])
                                                       ELSE <<>>)
    BY <2>2, CallsOfIs
  <2> HIDE DEF T
  <2>4. /\ Len(calls) = Len(T)
        /\ \A c \in 1 .. Len(calls) : /\ calls[c].index = T[c].id /\ calls[c].accumulated = T[c].parts
                                      /\ calls[c].start = T[c].start
    BY <1>2 DEF Announced, T
  <2>5. ASSUME NEW c \in 1 .. Len(calls) PROVE CallsOf(calls)[c] = Call(T[c].id, Input(T[c]))
    <3>1. T[c] \in Members /\ T[c].type = "tool_use"
      BY <2>1, <2>4
    <3>2. ResolveArguments(T[c].parts, T[c].start) = Input(T[c])
      BY <1>1, <3>1, MemberInput
    <3>3. Chat!Arguments(calls[c]) = Input(T[c])
      BY <2>4, <3>2, ResolvesAlike DEF Chat!Arguments
    <3>4. calls[c].closed
      BY <1>1 DEF AllDone
    <3> QED BY <2>3, <2>4, <3>3, <3>4
  <2>6. CallsOf(calls) = [c \in 1 .. Len(T) |-> CallsOf(calls)[c]]
    BY <2>3, <2>4
  <2> QED BY <2>1, <2>4, <2>5, <2>6
<1>5. ChatAnswer = Read(chunks)
  BY DEF ChatAnswer, Read
<1>6. WholeChat = Answer(TextOf(Content), whole, <<Chat!FinishReason(reason)>>)
  BY DEF WholeChat, Answer
<1> QED BY <1>2, <1>3, <1>4, <1>5, <1>6

\* So has a Responses client.
LEMMA ResponsesWhole ==
    ASSUME AnswerInv, reason # "none", NoneCut
    PROVE  ResponsesAnswer = WholeResponses
<1> DEFINE S == Shown(Content)
           I == ItemsOf(Content)
           whole == [n \in DOMAIN S |-> AsItem(S[n], Input(S[n]))]
<1>1. SeamInv /\ BlocksInv /\ Heard(events) = Response(I, reason)
  BY DEF AnswerInv, HearInv
<1>2. I = whole
  <2>1. S \in Seq({b \in Members : b.type # "thinking"}) /\ Members \subseteq ContentType
    BY <1>1, MembersAre, ShownMore
  <2>2. I = [n \in 1 .. Len(S) |-> Gave(S[n])]
    BY DEF ItemsOf
  <2> HIDE DEF S
  <2>3. DOMAIN S = 1 .. Len(S)
    BY <2>1
  <2>4. ASSUME NEW n \in 1 .. Len(S) PROVE Gave(S[n]) = AsItem(S[n], Input(S[n]))
    <3>1. S[n] \in Members /\ S[n].type # "thinking"
      BY <2>1
    <3>2. CASE S[n].type = "text"
      BY <3>2 DEF Gave, AsItem
    <3>3. CASE S[n].type = "tool_use"
      BY <1>1, <3>1, <3>3, MemberInput DEF Gave
    <3>4. S[n].type \in Kinds
      BY <2>1, <3>1 DEF ContentType
    <3> QED BY <3>1, <3>2, <3>3, <3>4 DEF Kinds
  <2> QED BY <2>2, <2>3, <2>4
<1>3. ResponsesAnswer = Heard(events)
  BY DEF ResponsesAnswer, Heard
<1>4. WholeResponses = Response(whole, reason)
  BY DEF WholeResponses, Response
<1> QED BY <1>1, <1>2, <1>3, <1>4

\* An answer streamed to its end is, in either protocol, the one the client
\* would have been given as one JSON body, for answers of any number of blocks
\* and any slips (translate/chat_sse.rs, translate/responses_sse.rs).
THEOREM StreamedWhole == Spec => []StreamedIsWhole
<1>1. AnswerInv => StreamedIsWhole
  BY ChatWhole, ResponsesWhole DEF StreamedIsWhole, NoneCut
<1> QED BY <1>1, AnswerAlways, PTL

-----------------------------------------------------------------------------
(* One sequence more *)

\* The functions that join more and fewer sequences agree.
LEMMA JoinsAgree ==
    ASSUME NEW s, NEW t, NEW m \in Nat, NEW n \in Nat, m <= n, NEW g, NEW h,
           Joins(s, m, g), Joins(t, n, h), \A i \in 1 .. m : t[i] = s[i]
    PROVE  \A i \in 1 .. m : h[i] = g[i]
<1> DEFINE R == {k \in Nat : k \in 1 .. m => h[k] = g[k]}
<1>1. 0 \in R
  OBVIOUS
<1>2. ASSUME NEW k \in Nat, k \in R PROVE k + 1 \in R
  <2> SUFFICES ASSUME k + 1 \in 1 .. m PROVE h[k + 1] = g[k + 1]
    OBVIOUS
  <2> DEFINE i == k + 1
  <2>1. i \in 1 .. m /\ i \in 1 .. n /\ (i # 1 => k \in 1 .. m) /\ i - 1 = k
    OBVIOUS
  <2>2. i # 1 => h[k] = g[k]
    BY <1>2, <2>1
  <2> HIDE DEF i
  <2>3. g[i] = IF i = 1 THEN s[i] ELSE g[k] \o s[i]
    BY <2>1 DEF Joins
  <2>4. h[i] = IF i = 1 THEN t[i] ELSE h[k] \o t[i]
    BY <2>1 DEF Joins
  <2> QED BY <2>1, <2>2, <2>3, <2>4 DEF i
<1> HIDE DEF R
<1>3. \A k \in Nat : k \in R
  BY <1>1, <1>2, NatSet
<1> QED BY <1>3 DEF R

\* What FlattenSeq computes.
LEMMA FlattenIs ==
    ASSUME NEW S, NEW s \in Seq(S), NEW n, n = Len(s), n # 0
    PROVE  \E g : Joins(s, n, g) /\ FlattenSeq(s) = g[n]
<1> DEFINE g == CHOOSE h : Joins(s, n, h)
<1>1. n \in Nat
  OBVIOUS
<1>2. Joins(s, n, g)
  BY <1>1, JoinsExist
<1>3. FlattenSeq(s) = g[n]
  BY DEF FlattenSeq, Joins
<1> QED BY <1>2, <1>3

\* One sequence more is joined to the others.
LEMMA FlattenAppend ==
    ASSUME NEW S, NEW s \in Seq(Seq(S)), NEW e \in Seq(S)
    PROVE  FlattenSeq(Append(s, e)) = FlattenSeq(s) \o e
<1> DEFINE t == Append(s, e)
           n == Len(s)
<1>1. /\ t \in Seq(Seq(S)) /\ Len(t) = n + 1 /\ n \in Nat /\ n + 1 # 0 /\ t[n + 1] = e
      /\ \A i \in 1 .. n : t[i] = s[i]
  OBVIOUS
<1> HIDE DEF t
<1>2. PICK h : Joins(t, n + 1, h) /\ FlattenSeq(t) = h[n + 1]
  BY <1>1, FlattenIs
<1>3. h[n + 1] = IF n + 1 = 1 THEN t[n + 1] ELSE h[n] \o t[n + 1]
  <2> DEFINE i == n + 1
  <2>1. i \in 1 .. n + 1 /\ i - 1 = n
    BY <1>1
  <2>2. h[i] = IF i = 1 THEN t[i] ELSE h[i - 1] \o t[i]
    BY <1>2, <2>1 DEF Joins
  <2> QED BY <2>1, <2>2
<1>4. CASE n = 0
  <2>1. s = <<>>
    BY <1>4
  <2>2. FlattenSeq(s) = <<>>
    BY <2>1 DEF FlattenSeq
  <2> QED BY <1>1, <1>2, <1>3, <1>4, <2>2 DEF t
<1>5. CASE n # 0
  <2>1. PICK g : Joins(s, n, g) /\ FlattenSeq(s) = g[n]
    BY <1>5, FlattenIs
  <2>2. n \in 1 .. n /\ n <= n + 1 /\ n + 1 \in Nat /\ n + 1 # 1
    BY <1>1, <1>5
  <2> HIDE DEF n
  <2>a. \A i \in 1 .. n : h[i] = g[i]
    <3> DEFINE m == n + 1
    <3>1. n \in Nat /\ m \in Nat /\ n <= m /\ Joins(s, n, g) /\ Joins(t, m, h)
          /\ \A i \in 1 .. n : t[i] = s[i]
      BY <1>1, <1>2, <2>1, <2>2
    <3> HIDE DEF m
    <3> QED BY <3>1, JoinsAgree
  <2>3. h[n] = g[n]
    BY <2>2, <2>a
  <2> QED BY <1>1, <1>2, <1>3, <2>1, <2>2, <2>3 DEF t
<1> QED BY <1>4, <1>5

\* In short, with the type of what is joined.
LEMMA FlattenMore ==
    /\ FlattenSeq(<<>>) = <<>>
    /\ \A S : \A s \in Seq(Seq(S)) : FlattenSeq(s) \in Seq(S)
    /\ \A S : \A s \in Seq(Seq(S)), e \in Seq(S) :
          FlattenSeq(Append(s, e)) = FlattenSeq(s) \o e
<1>1. FlattenSeq(<<>>) = <<>>
  BY DEF FlattenSeq
<1>2. ASSUME NEW S PROVE \A s \in Seq(Seq(S)) : FlattenSeq(s) \in Seq(S)
  <2> DEFINE R == {n \in Nat : \A s \in Seq(Seq(S)) : Len(s) = n => FlattenSeq(s) \in Seq(S)}
  <2>1. 0 \in R
    <3> SUFFICES ASSUME NEW s \in Seq(Seq(S)), Len(s) = 0 PROVE FlattenSeq(s) \in Seq(S)
      OBVIOUS
    <3>1. s = <<>> /\ <<>> \in Seq(S)
      OBVIOUS
    <3>2. FlattenSeq(s) = <<>>
      BY <1>1, <3>1
    <3> QED BY <3>1, <3>2
  <2>2. ASSUME NEW n \in Nat, n \in R PROVE n + 1 \in R
    <3> SUFFICES ASSUME NEW s \in Seq(Seq(S)), Len(s) = n + 1 PROVE FlattenSeq(s) \in Seq(S)
      OBVIOUS
    <3> DEFINE f == SubSeq(s, 1, n)
               e == s[n + 1]
    <3>1. f \in Seq(Seq(S)) /\ Len(f) = n /\ e \in Seq(S) /\ s = Append(f, e)
      OBVIOUS
    <3>2. FlattenSeq(f) \in Seq(S)
      BY <2>2, <3>1
    <3> HIDE DEF f, e
    <3>3. FlattenSeq(Append(f, e)) = FlattenSeq(f) \o e
      BY <3>1, FlattenAppend
    <3> QED BY <3>1, <3>2, <3>3
  <2> HIDE DEF R
  <2>3. \A n \in Nat : n \in R
    BY <2>1, <2>2, NatSet
  <2> QED BY <2>3 DEF R
<1> QED BY <1>1, <1>2, FlattenAppend

-----------------------------------------------------------------------------
(* The messages for the upstream *)

BlockTypes == {"text", "tool_use", "tool_result"}
BlockT == [type: BlockTypes, id: Nat, value: Texts]

\* A message of a user says something.
MessageType == {m \in [role: {"user", "assistant"}, content: Seq(BlockT)] :
                   m.role = "user" => m.content # <<>>}

\* A block has its type.
LEMMA BlockTyped ==
    ASSUME NEW type \in BlockTypes, NEW id \in Nat, NEW value \in Texts
    PROVE  /\ ContentBlock(type, id, value) \in BlockT
           /\ ContentBlock(type, id, value).type = type
           /\ ContentBlock(type, id, value).id = id
BY DEF ContentBlock, BlockT

\* So has a message.
LEMMA MessageTyped ==
    ASSUME NEW role \in {"user", "assistant"}, NEW content \in Seq(BlockT),
           role = "user" => content # <<>>
    PROVE  /\ Message(role, content) \in MessageType
           /\ Message(role, content).role = role /\ Message(role, content).content = content
BY DEF Message, MessageType

\* The results of some calls.
ResultBlocks == {ResultBlock(id) : id \in Nat}

\* They are blocks.
LEMMA ResultTyped ==
    /\ ResultBlocks \subseteq BlockT
    /\ \A b \in ResultBlocks : b.type = "tool_result"
    /\ \A id \in Nat : ResultBlock(id) \in ResultBlocks /\ ResultBlock(id).id = id
                       /\ ResultBlock(id).type = "tool_result"
<1>1. ASSUME NEW id \in Nat
      PROVE  ResultBlock(id) \in BlockT /\ ResultBlock(id).id = id
             /\ ResultBlock(id).type = "tool_result"
  BY TextsAre, BlockTyped DEF ResultBlock, BlockTypes
<1> QED BY <1>1 DEF ResultBlocks

\* The calls in one message more.
LEMMA UsesMore ==
    /\ Uses(<<>>) = <<>>
    /\ \A s \in Seq(MessageType) : Uses(s) \in Seq(BlockT)
    /\ \A s \in Seq(MessageType), m \in MessageType :
          Uses(Append(s, m)) = Uses(s) \o Tools(m.content)
<1> DEFINE F(s) == [n \in DOMAIN s |-> Tools(s[n].content)]
<1>1. ASSUME NEW m \in MessageType PROVE Tools(m.content) \in Seq(BlockT)
  <2>1. m.content \in Seq(BlockT)
    BY DEF MessageType
  <2>2. Tools(m.content) \in Seq({b \in BlockT : b.type = "tool_use"})
    BY <2>1, ToolsMore
  <2> DEFINE T == {b \in BlockT : b.type = "tool_use"}
             t == Tools(m.content)
  <2>3. t \in Seq(T) /\ T \subseteq BlockT
    BY <2>2
  <2> HIDE DEF T, t
  <2>4. t \in Seq(BlockT)
    BY <2>3
  <2> QED BY <2>4 DEF t
<1>2. ASSUME NEW s \in Seq(MessageType)
      PROVE  F(s) \in Seq(Seq(BlockT)) /\ Len(F(s)) = Len(s)
             /\ \A n \in 1 .. Len(s) : F(s)[n] = Tools(s[n].content)
  <2>1. DOMAIN s = 1 .. Len(s) /\ Len(s) \in Nat /\ \A n \in 1 .. Len(s) : s[n] \in MessageType
    OBVIOUS
  <2>2. F(s) \in [1 .. Len(s) -> Seq(BlockT)]
    BY <1>1, <2>1
  <2>3. \A n \in 1 .. Len(s) : F(s)[n] = Tools(s[n].content)
    BY <2>1
  <2> HIDE DEF F
  <2> QED BY <2>1, <2>2, <2>3
<1>3. Uses(<<>>) = <<>>
  <2>1. F(<<>>) = <<>>
    OBVIOUS
  <2>2. Uses(<<>>) = FlattenSeq(F(<<>>))
    BY DEF Uses
  <2> QED BY <2>1, <2>2, FlattenMore
<1>4. ASSUME NEW s \in Seq(MessageType) PROVE Uses(s) \in Seq(BlockT)
  <2>1. Uses(s) = FlattenSeq(F(s))
    BY DEF Uses
  <2> HIDE DEF F
  <2> QED BY <1>2, <2>1, FlattenMore
<1>5. ASSUME NEW s \in Seq(MessageType), NEW m \in MessageType
      PROVE  Uses(Append(s, m)) = Uses(s) \o Tools(m.content)
  <2> DEFINE t == Append(s, m)
             c == Tools(m.content)
  <2>1. /\ t \in Seq(MessageType) /\ Len(t) = Len(s) + 1 /\ t[Len(s) + 1] = m
        /\ \A n \in 1 .. Len(s) : t[n] = s[n]
        /\ Len(s) \in Nat
    OBVIOUS
  <2>2. Uses(s) = FlattenSeq(F(s)) /\ Uses(t) = FlattenSeq(F(t))
    BY DEF Uses
  <2> HIDE DEF F, t
  <2>3. F(t) \in Seq(Seq(BlockT)) /\ Len(F(t)) = Len(s) + 1
        /\ \A n \in 1 .. Len(s) + 1 : F(t)[n] = Tools(t[n].content)
    BY <1>2, <2>1
  <2>4. F(s) \in Seq(Seq(BlockT)) /\ Len(F(s)) = Len(s)
        /\ \A n \in 1 .. Len(s) : F(s)[n] = Tools(s[n].content)
    BY <1>2
  <2>5. c \in Seq(BlockT) /\ F(t)[Len(s) + 1] = c
    BY <1>1, <2>1, <2>3
  <2>6. \A n \in 1 .. Len(s) : F(t)[n] = F(s)[n]
    <3> TAKE n \in 1 .. Len(s)
    <3>1. n \in 1 .. Len(s) + 1 /\ t[n] = s[n]
      BY <2>1
    <3>2. F(t)[n] = Tools(t[n].content) /\ F(s)[n] = Tools(s[n].content)
      BY <2>3, <2>4, <3>1
    <3> QED BY <3>1, <3>2
  <2> HIDE DEF c
  <2> DEFINE u == F(s)
             v == F(t)
  <2>7. u \in Seq(Seq(BlockT)) /\ v \in Seq(Seq(BlockT)) /\ Len(v) = Len(u) + 1
        /\ v[Len(u) + 1] = c /\ \A n \in 1 .. Len(u) : v[n] = u[n]
    BY <2>3, <2>4, <2>5, <2>6
  <2> HIDE DEF u, v
  <2>8. v = Append(u, c)
    BY <2>5, <2>7, Ended
  <2>9. FlattenSeq(v) = FlattenSeq(u) \o c
    BY <2>5, <2>7, <2>8, FlattenMore
  <2> QED BY <2>2, <2>9 DEF u, v, c, t
<1> QED BY <1>3, <1>4, <1>5

-----------------------------------------------------------------------------
(* The calls among some blocks *)

\* Where there is none.
LEMMA ToolsNone ==
    ASSUME NEW S, \A b \in S : b.type # "tool_use"
    PROVE  \A s \in Seq(S) : Tools(s) = <<>>
<1> TAKE s \in Seq(S)
<1> DEFINE T == {b \in S : b.type = "tool_use"}
           t == Tools(s)
<1>1. t \in Seq(T)
  BY ToolsMore
<1>2. T = {}
  OBVIOUS
<1> HIDE DEF T, t
<1>3. Len(t) = 0
  BY <1>1, <1>2
<1> QED BY <1>1, <1>3, EmptySeq DEF t

\* Where there is nothing else, after what is none.
LEMMA ToolsAll ==
    ASSUME NEW S, NEW s \in Seq(S), Tools(s) = <<>>,
           NEW t \in Seq(S), \A n \in 1 .. Len(t) : t[n].type = "tool_use"
    PROVE  Tools(s \o t) = t
<1> DEFINE R == {m \in Nat : m <= Len(t) => Tools(s \o SubSeq(t, 1, m)) = SubSeq(t, 1, m)}
<1>1. 0 \in R
  <2>1. s \o SubSeq(t, 1, 0) = s /\ SubSeq(t, 1, 0) = <<>>
    OBVIOUS
  <2> QED BY <2>1
<1>2. ASSUME NEW m \in Nat, m \in R PROVE m + 1 \in R
  <2> SUFFICES ASSUME m + 1 <= Len(t)
               PROVE  Tools(s \o SubSeq(t, 1, m + 1)) = SubSeq(t, 1, m + 1)
    OBVIOUS
  <2> DEFINE q == s \o SubSeq(t, 1, m)
             b == t[m + 1]
  <2>1. Tools(q) = SubSeq(t, 1, m)
    BY <1>2
  <2>2. q \in Seq(S) /\ b \in S /\ s \o SubSeq(t, 1, m + 1) = Append(q, b)
    <3> HIDE DEF R
    <3> QED BY SentOne
  <2>3. b.type = "tool_use" /\ SubSeq(t, 1, m + 1) = Append(SubSeq(t, 1, m), b)
    OBVIOUS
  <2> HIDE DEF q, b, R
  <2>4. Tools(Append(q, b)) = AddTool(Tools(q), b)
    BY <2>2, ToolsMore
  <2> QED BY <2>1, <2>2, <2>3, <2>4 DEF AddTool
<1> HIDE DEF R
<1>3. \A m \in Nat : m \in R
  BY <1>1, <1>2, NatSet
<1>4. Len(t) \in Nat /\ SubSeq(t, 1, Len(t)) = t
  OBVIOUS
<1>5. Len(t) <= Len(t) => Tools(s \o SubSeq(t, 1, Len(t))) = SubSeq(t, 1, Len(t))
  BY <1>3, <1>4 DEF R
<1> DEFINE n == Len(t)
<1>6. n <= n
  BY <1>4
<1>7. Tools(s \o SubSeq(t, 1, n)) = SubSeq(t, 1, n) /\ SubSeq(t, 1, n) = t
  BY <1>4, <1>5, <1>6
<1> HIDE DEF n
<1> QED BY <1>7

\* The calls of an entry, as blocks.
LEMMA UseBlocksAre ==
    ASSUME NEW cs \in Seq(CallTexts)
    PROVE  /\ UseBlocks(cs) \in Seq(BlockT) /\ Len(UseBlocks(cs)) = Len(cs)
           /\ \A n \in 1 .. Len(cs) :
                 /\ UseBlocks(cs)[n].type = "tool_use" /\ UseBlocks(cs)[n].id = cs[n].id
                 /\ UseBlocks(cs)[n] = ContentBlock("tool_use", cs[n].id, InputOf(cs[n].arguments))
<1> DEFINE u == UseBlocks(cs)
           U(n) == ContentBlock("tool_use", cs[n].id, InputOf(cs[n].arguments))
<1>1. DOMAIN cs = 1 .. Len(cs) /\ Len(cs) \in Nat
      /\ \A n \in 1 .. Len(cs) : cs[n] \in CallTexts
  OBVIOUS
<1>2. u = [n \in 1 .. Len(cs) |-> U(n)]
  BY <1>1 DEF UseBlocks
<1>3. ASSUME NEW n \in 1 .. Len(cs)
      PROVE  U(n) \in BlockT /\ U(n).type = "tool_use" /\ U(n).id = cs[n].id
  <2>1. cs[n].id \in Nat
    BY <1>1 DEF CallTexts
  <2>2. InputOf(cs[n].arguments) \in Texts
    BY TextsAre DEF InputOf, Objects
  <2> QED BY <2>1, <2>2, BlockTyped DEF BlockTypes
<1> HIDE DEF u, U
<1>4. u \in [1 .. Len(cs) -> BlockT]
  BY <1>2, <1>3
<1>5. u \in Seq(BlockT) /\ Len(u) = Len(cs)
  BY <1>1, <1>4
<1> QED BY <1>2, <1>3, <1>5 DEF u, U

\* The text of an entry, as blocks.
LEMMA TextBlocksAre ==
    ASSUME NEW text \in Texts
    PROVE  /\ TextBlocks(text) \in Seq(BlockT) /\ Tools(TextBlocks(text)) = <<>>
           /\ \A k \in 1 .. Len(TextBlocks(text)) : TextBlocks(text)[k].type = "text"
           /\ text # <<>> => TextBlocks(text) # <<>>
<1> DEFINE b == ContentBlock("text", 0, text)
           S == {b}
           s == TextBlocks(text)
<1>1. b \in BlockT /\ b.type = "text"
  BY BlockTyped DEF BlockTypes
<1>2. s = IF text = <<>> THEN <<>> ELSE <<b>>
  BY DEF TextBlocks
<1> HIDE DEF b
<1>3. s \in Seq(S) /\ s \in Seq(BlockT)
  <2>1. <<>> \in Seq(S) /\ <<b>> \in Seq(S) /\ <<>> \in Seq(BlockT) /\ <<b>> \in Seq(BlockT)
    BY <1>1
  <2> HIDE DEF s, S
  <2> QED BY <1>2, <2>1
<1>4. \A d \in S : d.type # "tool_use"
  BY <1>1
<1>5. \A k \in 1 .. Len(s) : s[k].type = "text"
  BY <1>1, <1>2
<1>6. text # <<>> => s # <<>>
  BY <1>2
<1> HIDE DEF S, s
<1>7. Tools(s) = <<>>
  BY <1>3, <1>4, ToolsNone
<1> QED BY <1>3, <1>5, <1>6, <1>7 DEF s

\* What an entry of the client says.
LEMMA SaidIs ==
    ASSUME NEW text \in Texts, NEW cs \in Seq(CallTexts)
    PROVE  LET c == TextBlocks(text) \o UseBlocks(cs)
           IN  /\ c \in Seq(BlockT) /\ Tools(c) = UseBlocks(cs)
               /\ \A k \in DOMAIN c : c[k].type = "tool_use" =>
                     \E n \in 1 .. Len(cs) : c[k].id = cs[n].id
               /\ text # <<>> => c # <<>>
<1> DEFINE s == TextBlocks(text)
           t == UseBlocks(cs)
           c == s \o t
<1>1. /\ s \in Seq(BlockT) /\ Tools(s) = <<>> /\ \A k \in 1 .. Len(s) : s[k].type = "text"
      /\ text # <<>> => s # <<>>
  BY TextBlocksAre
<1>2. /\ t \in Seq(BlockT) /\ Len(t) = Len(cs)
      /\ \A n \in 1 .. Len(cs) : t[n].type = "tool_use" /\ t[n].id = cs[n].id
  BY UseBlocksAre
<1> HIDE DEF s, t
<1>3. Tools(s \o t) = t
  BY <1>1, <1>2, ToolsAll
<1>a. s \in Seq(BlockT) /\ t \in Seq(BlockT)
  BY <1>1, <1>2
<1>4. /\ c \in Seq(BlockT) /\ Len(c) = Len(s) + Len(t)
      /\ Len(s) \in Nat /\ Len(t) \in Nat
      /\ \A k \in 1 .. Len(s) : c[k] = s[k]
      /\ \A n \in 1 .. Len(t) : c[Len(s) + n] = t[n]
      /\ \A k \in 1 .. Len(c) :
            k \in 1 .. Len(s) \/ (k - Len(s) \in 1 .. Len(t) /\ k = Len(s) + (k - Len(s)))
  BY <1>a, Joined
<1>b. DOMAIN c = 1 .. Len(c)
  BY <1>4
<1>5. text # <<>> => c # <<>>
  <2> SUFFICES ASSUME text # <<>> PROVE c # <<>>
    OBVIOUS
  <2>1. Len(s) # 0
    BY <1>1, EmptySeq
  <2>2. Len(c) # 0
    BY <1>4, <2>1
  <2> QED BY <1>4, <2>2, EmptySeq
<1> HIDE DEF c
<1>6. ASSUME NEW k \in DOMAIN c, c[k].type = "tool_use"
      PROVE  \E n \in 1 .. Len(cs) : c[k].id = cs[n].id
  <2>1. k \notin 1 .. Len(s)
    BY <1>1, <1>4, <1>6
  <2>2. PICK n \in 1 .. Len(t) : k = Len(s) + n
    BY <1>4, <1>b, <1>6, <2>1
  <2>3. c[k] = t[n] /\ n \in 1 .. Len(cs)
    BY <1>2, <1>4, <2>2
  <2>4. t[n].id = cs[n].id
    BY <1>2, <2>3
  <2> QED BY <2>3, <2>4
<1> QED BY <1>3, <1>4, <1>5, <1>6 DEF c, s, t

-----------------------------------------------------------------------------
(* Calls and their results *)

\* A message holds the same wherever it is.
LEMMA HoldsSame ==
    ASSUME NEW s, NEW t, NEW n, NEW m, s[n] = t[m], NEW type, NEW i
    PROVE  Holds(s, n, type, i) <=> Holds(t, m, type, i)
BY DEF Holds

\* Conversations whose calls are answered, one after the other.
LEMMA AnsweredJoin ==
    ASSUME NEW s \in Seq(MessageType), NEW t \in Seq(MessageType), Answered(s), Answered(t)
    PROVE  Answered(s \o t)
<1> DEFINE u == s \o t
           a == Len(s)
<1>1. /\ u \in Seq(MessageType) /\ Len(u) = a + Len(t)
      /\ a \in Nat /\ Len(t) \in Nat
      /\ \A k \in 1 .. a : u[k] = s[k] /\ k \in 1 .. Len(u)
      /\ \A k \in 1 .. Len(t) : u[a + k] = t[k] /\ a + k \in 1 .. Len(u)
      /\ \A k \in 1 .. Len(u) :
            k \in 1 .. a \/ (k - a \in 1 .. Len(t) /\ k = a + (k - a))
  BY Joined
<1>2. DOMAIN s = 1 .. a /\ DOMAIN t = 1 .. Len(t) /\ DOMAIN u = 1 .. Len(u)
  BY <1>1
<1> HIDE DEF u
<1>3. ASSUME NEW n \in 1 .. a, NEW i \in Index, Holds(u, n, "tool_use", i)
      PROVE  \E m \in DOMAIN u : Reply(u, n, m) /\ Holds(u, m, "tool_result", i)
  <2>1. Holds(s, n, "tool_use", i)
    BY <1>1, <1>3, HoldsSame
  <2>2. PICK m \in 1 .. a : Reply(s, n, m) /\ Holds(s, m, "tool_result", i)
    BY <1>2, <2>1 DEF Answered
  <2>3. m \in DOMAIN u /\ Holds(u, m, "tool_result", i)
    BY <1>1, <1>2, <2>2, HoldsSame
  <2>4. m > n /\ u[m].role = "user" /\ \A k \in n + 1 .. m - 1 : k \in 1 .. a /\ s[k].role # "user"
    BY <1>1, <2>2 DEF Reply
  <2>5. \A k \in n + 1 .. m - 1 : u[k].role # "user"
    BY <1>1, <2>4
  <2> QED BY <2>3, <2>4, <2>5 DEF Reply
<1>4. ASSUME NEW j \in 1 .. Len(t), NEW i \in Index, Holds(u, a + j, "tool_use", i)
      PROVE  \E m \in DOMAIN u : Reply(u, a + j, m) /\ Holds(u, m, "tool_result", i)
  <2>1. Holds(t, j, "tool_use", i)
    BY <1>1, <1>4, HoldsSame
  <2>2. PICK l \in 1 .. Len(t) : Reply(t, j, l) /\ Holds(t, l, "tool_result", i)
    BY <1>2, <2>1 DEF Answered
  <2> DEFINE m == a + l
  <2>3. m \in DOMAIN u /\ Holds(u, m, "tool_result", i)
    BY <1>1, <1>2, <2>2, HoldsSame
  <2>4. l > j /\ t[l].role = "user" /\ \A k \in j + 1 .. l - 1 : t[k].role # "user"
    BY <2>2 DEF Reply
  <2>5. m > a + j /\ u[m].role = "user"
    BY <1>1, <2>4
  <2>6. ASSUME NEW k \in a + j + 1 .. m - 1 PROVE u[k].role # "user"
    <3>1. k - a \in j + 1 .. l - 1 /\ k - a \in 1 .. Len(t) /\ k = a + (k - a)
      BY <1>1
    <3>2. u[k] = t[k - a]
      BY <1>1, <3>1
    <3> QED BY <2>4, <3>1, <3>2
  <2> QED BY <2>3, <2>5, <2>6 DEF Reply
<1>5. ASSUME NEW n \in DOMAIN u, NEW i \in Index, Holds(u, n, "tool_use", i)
      PROVE  \E m \in DOMAIN u : Reply(u, n, m) /\ Holds(u, m, "tool_result", i)
  <2>1. CASE n \in 1 .. a
    BY <1>3, <1>5, <2>1
  <2>2. CASE n - a \in 1 .. Len(t) /\ n = a + (n - a)
    BY <1>4, <1>5, <2>2
  <2> QED BY <1>1, <1>2, <2>1, <2>2
<1>6. Answered(u)
  BY <1>5 DEF Answered
<1> QED BY <1>6 DEF u

\* What the provers need not know the definition of.
Join(s, t) == s \o t
Grown(s, e) == Append(s, e)

\* One more at the end.
LEMMA GrownJoin ==
    ASSUME NEW S, NEW s \in Seq(S), NEW t \in Seq(S), NEW e \in S
    PROVE  Grown(Join(s, t), e) = Join(s, Grown(t, e))
<1> DEFINE q == Join(s, t)
           r == Grown(t, e)
           v == Join(s, r)
<1>1. /\ q \in Seq(S) /\ Len(q) = Len(s) + Len(t) /\ Len(s) \in Nat /\ Len(t) \in Nat
      /\ \A k \in 1 .. Len(s) : q[k] = s[k]
      /\ \A k \in 1 .. Len(t) : q[Len(s) + k] = t[k]
      /\ \A k \in 1 .. Len(q) :
            k \in 1 .. Len(s) \/ (k - Len(s) \in 1 .. Len(t) /\ k = Len(s) + (k - Len(s)))
  BY DEF Join
<1>2. r \in Seq(S) /\ Len(r) = Len(t) + 1 /\ r[Len(t) + 1] = e
      /\ \A k \in 1 .. Len(t) : r[k] = t[k]
  BY DEF Grown
<1> HIDE DEF q, r
<1>3. /\ v \in Seq(S) /\ Len(v) = Len(s) + Len(r)
      /\ \A k \in 1 .. Len(s) : v[k] = s[k]
      /\ \A k \in 1 .. Len(r) : v[Len(s) + k] = r[k]
  BY <1>2 DEF Join
<1> HIDE DEF v
<1>4. Len(v) = Len(q) + 1 /\ v[Len(q) + 1] = e
  <2>1. Len(t) + 1 \in 1 .. Len(r) /\ Len(s) + (Len(t) + 1) = Len(q) + 1
    BY <1>1, <1>2
  <2> QED BY <1>1, <1>2, <1>3, <2>1
<1>5. ASSUME NEW k \in 1 .. Len(q) PROVE v[k] = q[k]
  <2>1. CASE k \in 1 .. Len(s)
    BY <1>1, <1>3, <2>1
  <2>2. CASE k - Len(s) \in 1 .. Len(t) /\ k = Len(s) + (k - Len(s))
    <3>1. k - Len(s) \in 1 .. Len(r)
      BY <1>1, <1>2, <2>2
    <3> QED BY <1>1, <1>2, <1>3, <2>2, <3>1, ZenonT(40)
  <2> QED BY <1>1, <2>1, <2>2
<1>6. v = Append(q, e)
  BY <1>1, <1>3, <1>4, <1>5, Ended
<1> QED BY <1>6 DEF v, q, r, Grown

\* What the assistant says.
Assistants == {m \in MessageType : m.role = "assistant"}

\* The calls in s are owed a result, or have one in p.
Covered(s, p, owed) ==
    \A n \in 1 .. Len(s), i \in Index :
        Holds(s, n, "tool_use", i) =>
            i \in owed \/ \E k \in 1 .. Len(p) : p[k] = ResultBlock(i)

\* Where there are no calls.
LEMMA AnsweredNone ==
    ASSUME NEW s \in Seq(MessageType), Covered(s, <<>>, {})
    PROVE  Answered(s)
<1>1. DOMAIN s = 1 .. Len(s)
  OBVIOUS
<1> QED BY <1>1 DEF Answered, Covered

\* The results of the calls in some messages of the assistant, in the message
\* after them.
LEMMA AnsweredLast ==
    ASSUME NEW s \in Seq(Assistants), NEW p \in Seq(ResultBlocks), p # <<>>, Covered(s, p, {})
    PROVE  /\ Message("user", p) \in MessageType
           /\ Append(s, Message("user", p)) \in Seq(MessageType)
           /\ Answered(Append(s, Message("user", p)))
<1> DEFINE u == Message("user", p)
           t == Append(s, u)
           a == Len(s)
<1>1. p \in Seq(BlockT) /\ \A k \in 1 .. Len(p) : p[k] \in ResultBlocks
  BY ResultTyped
<1>2. u \in MessageType /\ u.role = "user" /\ u.content = p
  BY <1>1, MessageTyped
<1> HIDE DEF u
<1>3. /\ t \in Seq(MessageType) /\ Len(t) = a + 1 /\ t[a + 1] = u /\ a \in Nat
      /\ \A k \in 1 .. a : t[k] = s[k]
      /\ DOMAIN t = 1 .. a + 1
  <2>1. s \in Seq(MessageType)
    BY DEF Assistants
  <2> QED BY <1>2, <2>1
<1>4. \A k \in 1 .. a : s[k].role = "assistant"
  BY DEF Assistants
<1> HIDE DEF t
<1>5. \A i : ~Holds(t, a + 1, "tool_use", i)
  <2>1. \A k \in 1 .. Len(p) : p[k].type = "tool_result"
    BY <1>1, ResultTyped
  <2>2. DOMAIN p = 1 .. Len(p)
    OBVIOUS
  <2> QED BY <1>2, <1>3, <2>1, <2>2 DEF Holds
<1>6. ASSUME NEW n \in 1 .. a, NEW i \in Index, Holds(t, n, "tool_use", i)
      PROVE  Reply(t, n, a + 1) /\ Holds(t, a + 1, "tool_result", i)
  <2>1. Holds(s, n, "tool_use", i)
    BY <1>3, <1>6, HoldsSame
  <2>2. PICK k \in 1 .. Len(p) : p[k] = ResultBlock(i)
    BY <2>1 DEF Covered
  <2>3. p[k].type = "tool_result" /\ p[k].id = i /\ k \in DOMAIN p
    BY <2>2, ResultTyped DEF Index
  <2>4. Holds(t, a + 1, "tool_result", i)
    BY <1>2, <1>3, <2>3 DEF Holds
  <2>5. /\ a + 1 > n /\ t[a + 1].role = "user"
        /\ \A l \in n + 1 .. a + 1 - 1 : l \in 1 .. a
    BY <1>2, <1>3
  <2>6. \A l \in n + 1 .. a + 1 - 1 : t[l].role # "user"
    BY <1>3, <1>4, <2>5
  <2> QED BY <2>4, <2>5, <2>6 DEF Reply
<1>7. ASSUME NEW n \in DOMAIN t, NEW i \in Index, Holds(t, n, "tool_use", i)
      PROVE  \E m \in DOMAIN t : Reply(t, n, m) /\ Holds(t, m, "tool_result", i)
  <2>1. n \in 1 .. a
    BY <1>3, <1>5, <1>7
  <2>2. a + 1 \in DOMAIN t
    BY <1>3
  <2> QED BY <1>6, <1>7, <2>1, <2>2
<1>8. Answered(t)
  BY <1>7 DEF Answered
<1> QED BY <1>2, <1>3, <1>8 DEF t, u

-----------------------------------------------------------------------------
(* What a conversation owes while it is converted *)

\* Every call has its result, but for those of the last messages of the
\* assistant: they are owed, or their results are pending.
Settled(o, p, owed) ==
    \E s \in Seq(MessageType), a \in Seq(Assistants) :
        o = s \o a /\ Answered(s) /\ Covered(a, p, owed)

\* Nothing is owed at first.
LEMMA SettledBegins == Settled(<<>>, <<>>, {})
<1>1. Answered(<<>>)
  BY DEF Answered
<1>2. Covered(<<>>, <<>>, {})
  BY DEF Covered
<1>3. <<>> \in Seq(MessageType) /\ <<>> \in Seq(Assistants) /\ <<>> \o <<>> = <<>>
  OBVIOUS
<1> DEFINE e == <<>>
<1> HIDE DEF e
<1>4. e \in Seq(MessageType) /\ e \in Seq(Assistants) /\ e \o e = e /\ Answered(e)
      /\ Covered(e, <<>>, {})
  BY <1>1, <1>2, <1>3 DEF e
<1>5. Settled(e, <<>>, {})
  BY <1>4 DEF Settled
<1> QED BY <1>5 DEF e

\* The assistant's next message adds its calls.
LEMMA SettledSays ==
    ASSUME NEW o, NEW owed, NEW ids, Settled(o, <<>>, owed), NEW m \in Assistants,
           \A k \in DOMAIN m.content : m.content[k].type = "tool_use" => m.content[k].id \in ids
    PROVE  Settled(Append(o, m), <<>>, owed \cup ids)
<1>1. PICK s \in Seq(MessageType), a \in Seq(Assistants) :
         o = s \o a /\ Answered(s) /\ Covered(a, <<>>, owed)
  BY DEF Settled
<1> DEFINE b == Append(a, m)
<1>2. /\ b \in Seq(Assistants) /\ Len(b) = Len(a) + 1 /\ b[Len(a) + 1] = m
      /\ \A k \in 1 .. Len(a) : b[k] = a[k]
      /\ Len(a) \in Nat
  BY Added
<1>3. Append(o, m) = s \o b
  <2>1. a \in Seq(MessageType) /\ m \in MessageType
    BY DEF Assistants
  <2>2. o = s \o a /\ b = Append(a, m)
    BY <1>1
  <2> HIDE DEF b
  <2>3. Grown(Join(s, a), m) = Join(s, Grown(a, m))
    BY <2>1, GrownJoin
  <2> QED BY <2>2, <2>3 DEF Join, Grown
<1> HIDE DEF b
<1>4. ASSUME NEW n \in 1 .. Len(b), NEW i \in Index, Holds(b, n, "tool_use", i)
      PROVE  i \in owed \cup ids
  <2>1. CASE n \in 1 .. Len(a)
    <3>1. Holds(a, n, "tool_use", i)
      BY <1>2, <1>4, <2>1, HoldsSame
    <3>2. ~\E k \in 1 .. Len(<<>>) : <<>>[k] = ResultBlock(i)
      OBVIOUS
    <3> QED BY <1>1, <2>1, <3>1, <3>2 DEF Covered
  <2>2. CASE n = Len(a) + 1
    BY <1>2, <1>4, <2>2 DEF Holds
  <2> QED BY <1>2, <2>1, <2>2
<1>5. Covered(b, <<>>, owed \cup ids)
  BY <1>4 DEF Covered
<1> QED BY <1>1, <1>2, <1>3, <1>5 DEF Settled

\* A result answers its call.
LEMMA SettledGathers ==
    ASSUME NEW o, NEW p \in Seq(ResultBlocks), NEW owed, Settled(o, p, owed), NEW i \in Nat
    PROVE  Settled(o, Append(p, ResultBlock(i)), owed \ {i})
<1>1. PICK s \in Seq(MessageType), a \in Seq(Assistants) :
         o = s \o a /\ Answered(s) /\ Covered(a, p, owed)
  BY DEF Settled
<1> DEFINE q == Append(p, ResultBlock(i))
<1>2. /\ Len(q) = Len(p) + 1 /\ q[Len(p) + 1] = ResultBlock(i) /\ Len(p) \in Nat
      /\ \A k \in 1 .. Len(p) : q[k] = p[k]
  BY ResultTyped, Added
<1> HIDE DEF q
<1>3. ASSUME NEW n \in 1 .. Len(a), NEW j \in Index, Holds(a, n, "tool_use", j), j \notin owed \ {i}
      PROVE  \E k \in 1 .. Len(q) : q[k] = ResultBlock(j)
  <2>1. CASE j = i
    <3>1. Len(p) + 1 \in 1 .. Len(q)
      BY <1>2
    <3> QED BY <1>2, <2>1, <3>1
  <2>2. CASE j # i
    <3>1. PICK k \in 1 .. Len(p) : p[k] = ResultBlock(j)
      BY <1>1, <1>3, <2>2 DEF Covered
    <3>2. k \in 1 .. Len(q) /\ q[k] = ResultBlock(j)
      BY <1>2, <3>1
    <3> QED BY <3>2
  <2> QED BY <2>1, <2>2
<1>4. Covered(a, q, owed \ {i})
  BY <1>3 DEF Covered
<1> QED BY <1>1, <1>4 DEF Settled, q

\* When nothing is owed the results pending answer the rest.
LEMMA SettledFlushes ==
    ASSUME NEW o, NEW p \in Seq(ResultBlocks), p # <<>>, Settled(o, p, {})
    PROVE  /\ Answered(Append(o, Message("user", p)))
           /\ Settled(Append(o, Message("user", p)), <<>>, {})
<1>1. PICK s \in Seq(MessageType), a \in Seq(Assistants) :
         o = s \o a /\ Answered(s) /\ Covered(a, p, {})
  BY DEF Settled
<1> DEFINE u == Message("user", p)
           b == Append(a, u)
           e == <<>>
<1>2. u \in MessageType /\ b \in Seq(MessageType) /\ Answered(b)
  BY <1>1, AnsweredLast
<1>3. Append(o, u) = s \o b
  <2>1. a \in Seq(MessageType)
    BY DEF Assistants
  <2>2. o = s \o a /\ b = Append(a, u)
    BY <1>1
  <2>3. u \in MessageType
    BY <1>2
  <2> HIDE DEF u, e
  <2>4. Grown(Join(s, a), u) = Join(s, Grown(a, u))
    BY <1>1, <2>1, <2>3, GrownJoin
  <2> QED BY <2>2, <2>4 DEF Join, Grown
<1>4. s \o b \in Seq(MessageType) /\ Answered(s \o b)
  <2> HIDE DEF b
  <2> QED BY <1>1, <1>2, AnsweredJoin
<1> HIDE DEF u, b
<1>5. Covered(e, <<>>, {}) /\ e \in Seq(Assistants)
  BY DEF Covered
<1>6. (s \o b) \o e = s \o b
  BY <1>4
<1> HIDE DEF e
<1>7. Settled(s \o b, <<>>, {})
  BY <1>4, <1>5, <1>6 DEF Settled
<1> QED BY <1>3, <1>4, <1>7 DEF u

\* And when there are none pending.
LEMMA SettledAll ==
    ASSUME NEW o, Settled(o, <<>>, {})
    PROVE  o \in Seq(MessageType) /\ Answered(o)
<1>1. PICK s \in Seq(MessageType), a \in Seq(Assistants) :
         o = s \o a /\ Answered(s) /\ Covered(a, <<>>, {})
  BY DEF Settled
<1>2. a \in Seq(MessageType)
  BY DEF Assistants
<1>3. Answered(a)
  BY <1>1, <1>2, AnsweredNone
<1> QED BY <1>1, <1>2, <1>3, AnsweredJoin

\* Of the calls in o, those owed have no result yet; the results of the others
\* are pending, or came in a later message of the user.
Owing(o, p, owed) ==
    \A n \in 1 .. Len(o), i \in Index :
        Holds(o, n, "tool_use", i) =>
            \/ i \in owed
            \/ \E k \in 1 .. Len(p) : p[k] = ResultBlock(i)
            \/ \E m \in n + 1 .. Len(o) : o[m].role = "user" /\ Holds(o, m, "tool_result", i)

\* What is settled owes no more than it says.
LEMMA SettledOwes ==
    ASSUME NEW o, NEW owed, Settled(o, <<>>, owed)
    PROVE  Owing(o, <<>>, owed)
<1>1. PICK s \in Seq(MessageType), a \in Seq(Assistants) :
         o = s \o a /\ Answered(s) /\ Covered(a, <<>>, owed)
  BY DEF Settled
<1>2. a \in Seq(MessageType)
  BY DEF Assistants
<1>3. /\ Len(o) = Len(s) + Len(a) /\ Len(s) \in Nat /\ Len(a) \in Nat
      /\ \A k \in 1 .. Len(s) : o[k] = s[k]
      /\ \A k \in 1 .. Len(a) : o[Len(s) + k] = a[k]
      /\ \A k \in 1 .. Len(o) :
            k \in 1 .. Len(s) \/ (k - Len(s) \in 1 .. Len(a) /\ k = Len(s) + (k - Len(s)))
  BY <1>1, <1>2, Joined
<1>4. ASSUME NEW n \in 1 .. Len(o), NEW i \in Index, Holds(o, n, "tool_use", i), i \notin owed
      PROVE  \E m \in n + 1 .. Len(o) : o[m].role = "user" /\ Holds(o, m, "tool_result", i)
  <2>1. CASE n \in 1 .. Len(s)
    <3>1. Holds(s, n, "tool_use", i)
      BY <1>3, <1>4, <2>1, HoldsSame
    <3>2. PICK m \in 1 .. Len(s) : Reply(s, n, m) /\ Holds(s, m, "tool_result", i)
      <4>1. DOMAIN s = 1 .. Len(s)
        OBVIOUS
      <4> QED BY <1>1, <2>1, <3>1, <4>1 DEF Answered
    <3>3. m \in n + 1 .. Len(o) /\ o[m].role = "user"
      BY <1>3, <2>1, <3>2 DEF Reply
    <3>4. Holds(o, m, "tool_result", i)
      BY <1>3, <3>2, HoldsSame
    <3> QED BY <3>3, <3>4
  <2>2. CASE n - Len(s) \in 1 .. Len(a) /\ n = Len(s) + (n - Len(s))
    <3>1. Holds(a, n - Len(s), "tool_use", i)
      BY <1>3, <1>4, <2>2, HoldsSame
    <3>2. ~\E k \in 1 .. Len(<<>>) : <<>>[k] = ResultBlock(i)
      OBVIOUS
    <3> QED BY <1>1, <1>4, <2>2, <3>1, <3>2 DEF Covered
  <2> QED BY <1>3, <2>1, <2>2
<1> QED BY <1>4 DEF Owing

\* A result more.
LEMMA OwingGathers ==
    ASSUME NEW o, NEW p \in Seq(ResultBlocks), NEW owed, Owing(o, p, owed), NEW i \in Nat
    PROVE  Owing(o, Append(p, ResultBlock(i)), owed \ {i})
<1> DEFINE q == Append(p, ResultBlock(i))
<1>1. /\ Len(q) = Len(p) + 1 /\ q[Len(p) + 1] = ResultBlock(i) /\ Len(p) \in Nat
      /\ \A k \in 1 .. Len(p) : q[k] = p[k]
  BY ResultTyped, Added
<1> HIDE DEF q
<1>2. \E k \in 1 .. Len(q) : q[k] = ResultBlock(i)
  <2>1. Len(p) + 1 \in 1 .. Len(q)
    BY <1>1
  <2> QED BY <1>1, <2>1
<1>3. ASSUME NEW j, \E k \in 1 .. Len(p) : p[k] = ResultBlock(j)
      PROVE  \E k \in 1 .. Len(q) : q[k] = ResultBlock(j)
  <2>1. PICK k \in 1 .. Len(p) : p[k] = ResultBlock(j)
    BY <1>3
  <2>2. k \in 1 .. Len(q) /\ q[k] = ResultBlock(j)
    BY <1>1, <2>1
  <2> QED BY <2>2
<1> QED BY <1>2, <1>3 DEF Owing, q

\* When nothing is owed or pending every call has its result.
LEMMA OwingNothing ==
    ASSUME NEW o \in Seq(MessageType), Owing(o, <<>>, {})
    PROVE  AnsweredLater(o)
<1>1. DOMAIN o = 1 .. Len(o) /\ Len(o) \in Nat
  OBVIOUS
<1>2. ASSUME NEW n \in 1 .. Len(o), NEW i \in Index, Holds(o, n, "tool_use", i)
      PROVE  \E m \in 1 .. Len(o) :
                m > n /\ o[m].role = "user" /\ Holds(o, m, "tool_result", i)
  <2>1. ~\E k \in 1 .. Len(<<>>) : <<>>[k] = ResultBlock(i)
    OBVIOUS
  <2>2. PICK m \in n + 1 .. Len(o) : o[m].role = "user" /\ Holds(o, m, "tool_result", i)
    BY <1>2, <2>1 DEF Owing
  <2>3. m \in 1 .. Len(o) /\ m > n
    BY <1>1
  <2> QED BY <2>2, <2>3
<1> QED BY <1>1, <1>2 DEF AnsweredLater

\* A message before the others changes nothing of that.
LEMMA LaterLed ==
    ASSUME NEW l \in Seq(MessageType), NEW o \in Seq(MessageType), AnsweredLater(o),
           \A n \in 1 .. Len(l), i \in Index : ~Holds(l, n, "tool_use", i)
    PROVE  AnsweredLater(l \o o)
<1> DEFINE u == l \o o
           a == Len(l)
<1>1. /\ u \in Seq(MessageType) /\ Len(u) = a + Len(o)
      /\ a \in Nat /\ Len(o) \in Nat
      /\ \A k \in 1 .. a : u[k] = l[k]
      /\ \A k \in 1 .. Len(o) : u[a + k] = o[k] /\ a + k \in 1 .. Len(u)
      /\ \A k \in 1 .. Len(u) :
            k \in 1 .. a \/ (k - a \in 1 .. Len(o) /\ k = a + (k - a))
  BY Joined
<1>2. DOMAIN o = 1 .. Len(o) /\ DOMAIN u = 1 .. Len(u)
  BY <1>1
<1> HIDE DEF u
<1>3. ASSUME NEW n \in 1 .. Len(u), NEW i \in Index, Holds(u, n, "tool_use", i)
      PROVE  \E m \in 1 .. Len(u) :
                m > n /\ u[m].role = "user" /\ Holds(u, m, "tool_result", i)
  <2>1. ~(n \in 1 .. a)
    BY <1>1, <1>3, HoldsSame
  <2>2. n - a \in 1 .. Len(o) /\ n = a + (n - a)
    BY <1>1, <2>1
  <2>3. Holds(o, n - a, "tool_use", i)
    BY <1>1, <1>3, <2>2, HoldsSame
  <2>4. PICK m \in 1 .. Len(o) : m > n - a /\ o[m].role = "user" /\ Holds(o, m, "tool_result", i)
    BY <1>2, <2>2, <2>3 DEF AnsweredLater
  <2>5. a + m \in 1 .. Len(u) /\ u[a + m] = o[m] /\ a + m > n
    BY <1>1, <2>4
  <2>6. Holds(u, a + m, "tool_result", i)
    BY <2>4, <2>5, HoldsSame
  <2> QED BY <2>4, <2>5, <2>6
<1>4. AnsweredLater(u)
  BY <1>2, <1>3 DEF AnsweredLater
<1> QED BY <1>4 DEF u

\* The user may then go on.
LEMMA SettledAsks ==
    ASSUME NEW o, Settled(o, <<>>, {}), NEW m \in MessageType,
           \A k \in DOMAIN m.content : m.content[k].type # "tool_use"
    PROVE  Settled(Append(o, m), <<>>, {})
<1> DEFINE t == <<m>>
           e == <<>>
<1>1. o \in Seq(MessageType) /\ Answered(o)
  BY SettledAll
<1>2. t \in Seq(MessageType) /\ Len(t) = 1 /\ t[1] = m /\ Append(o, m) = o \o t
  BY <1>1
<1> HIDE DEF t
<1>3. \A n \in 1 .. Len(t), i \in Index : ~Holds(t, n, "tool_use", i)
  BY <1>2 DEF Holds
<1>4. Answered(t)
  BY <1>2, <1>3, AnsweredNone DEF Covered
<1>5. o \o t \in Seq(MessageType) /\ Answered(o \o t)
  BY <1>1, <1>2, <1>4, AnsweredJoin
<1>6. Covered(e, <<>>, {}) /\ e \in Seq(Assistants)
  BY DEF Covered
<1>7. (o \o t) \o e = o \o t
  BY <1>5
<1> HIDE DEF e
<1>8. Settled(o \o t, <<>>, {})
  BY <1>5, <1>6, <1>7 DEF Settled
<1> QED BY <1>2, <1>8

-----------------------------------------------------------------------------
(* What a conversion has so far *)

\* The messages converted and the results pending.
Acc(o, p) == [out |-> o, pending |-> p]

\* The messages once the results are flushed.
Flushed(o, p) == IF p = <<>> THEN o ELSE Append(o, Message("user", p))

\* They are messages, and u are the calls among them.
Proper(o, p, u) == o \in Seq(MessageType) /\ p \in Seq(ResultBlocks) /\ Uses(o) = u

\* A sequence with one element more is not empty.
LEMMA NotEmpty ==
    ASSUME NEW S, NEW s \in Seq(S), NEW e \in S
    PROVE  Append(s, e) \in Seq(S) /\ Append(s, e) # <<>>
<1> DEFINE t == Append(s, e)
<1>1. t \in Seq(S) /\ Len(t) = Len(s) + 1 /\ Len(s) \in Nat
  BY Added
<1> HIDE DEF t
<1>2. Len(t) # 0
  BY <1>1
<1> QED BY <1>1, <1>2, EmptySeq DEF t

\* What each step of a conversion does.
LEMMA StepsAre ==
    ASSUME NEW o, NEW p
    PROVE  /\ Flush(Acc(o, p)) = Acc(Flushed(o, p), <<>>)
           /\ \A m : Put(Acc(o, p), m) = Acc(Append(Flushed(o, p), m), <<>>)
           /\ \A e : Gather(Acc(o, p), e) = Acc(o, Append(p, ResultBlock(e.answers)))
           /\ Acc(o, p).out = o
<1>1. Acc(o, p).out = o /\ Acc(o, p).pending = p
  BY DEF Acc
<1>2. Flush(Acc(o, p)) = Acc(Flushed(o, p), <<>>)
  BY <1>1 DEF Flush, Acc, Flushed
<1>3. ASSUME NEW m PROVE Put(Acc(o, p), m) = Acc(Append(Flushed(o, p), m), <<>>)
  <2> DEFINE f == Flushed(o, p)
  <2>1. Put(Acc(o, p), m) = [Acc(f, <<>>) EXCEPT !.out = Append(@, m)]
    BY <1>2 DEF Put
  <2> HIDE DEF f
  <2>2. [Acc(f, <<>>) EXCEPT !.out = Append(@, m)] = Acc(Append(f, m), <<>>)
    BY DEF Acc
  <2> QED BY <2>1, <2>2 DEF f
<1>4. ASSUME NEW e PROVE Gather(Acc(o, p), e) = Acc(o, Append(p, ResultBlock(e.answers)))
  <2> DEFINE b == ResultBlock(e.answers)
  <2>1. Gather(Acc(o, p), e) = [Acc(o, p) EXCEPT !.pending = Append(@, b)]
    BY DEF Gather
  <2> HIDE DEF b
  <2>2. [Acc(o, p) EXCEPT !.pending = Append(@, b)] = Acc(o, Append(p, b))
    BY DEF Acc
  <2> QED BY <2>1, <2>2 DEF b
<1> QED BY <1>1, <1>2, <1>3, <1>4

\* A message of the user with the results pending.
LEMMA OwingFlushes ==
    ASSUME NEW o \in Seq(MessageType), NEW p \in Seq(ResultBlocks), NEW owed, Owing(o, p, owed)
    PROVE  Owing(Flushed(o, p), <<>>, owed)
<1>1. CASE p = <<>>
  BY <1>1 DEF Flushed
<1>2. CASE p # <<>>
  <2> DEFINE u == Message("user", p)
             t == Append(o, u)
             a == Len(o)
  <2>1. p \in Seq(BlockT) /\ \A k \in 1 .. Len(p) : p[k] \in ResultBlocks
    BY ResultTyped
  <2>2. u \in MessageType /\ u.role = "user" /\ u.content = p
    BY <1>2, <2>1, MessageTyped
  <2>3. Flushed(o, p) = t
    BY <1>2 DEF Flushed
  <2> HIDE DEF u
  <2>4. /\ Len(t) = a + 1 /\ t[a + 1] = u /\ a \in Nat
        /\ \A k \in 1 .. a : t[k] = o[k]
    BY <2>2, Added
  <2> HIDE DEF t
  <2>5. \A i : ~Holds(t, a + 1, "tool_use", i)
    <3>1. \A k \in 1 .. Len(p) : p[k].type = "tool_result"
      BY <2>1, ResultTyped
    <3>2. DOMAIN p = 1 .. Len(p)
      OBVIOUS
    <3> QED BY <2>2, <2>4, <3>1, <3>2 DEF Holds
  <2>6. ASSUME NEW n \in 1 .. Len(t), NEW i \in Index, Holds(t, n, "tool_use", i), i \notin owed
        PROVE  \E m \in n + 1 .. Len(t) : t[m].role = "user" /\ Holds(t, m, "tool_result", i)
    <3>1. n \in 1 .. a
      BY <2>4, <2>5, <2>6
    <3>2. Holds(o, n, "tool_use", i)
      BY <2>4, <2>6, <3>1, HoldsSame
    <3>3. CASE \E k \in 1 .. Len(p) : p[k] = ResultBlock(i)
      <4>1. PICK k \in 1 .. Len(p) : p[k] = ResultBlock(i)
        BY <3>3
      <4>2. p[k].type = "tool_result" /\ p[k].id = i /\ k \in DOMAIN p
        BY <4>1, ResultTyped DEF Index
      <4>3. Holds(t, a + 1, "tool_result", i)
        BY <2>2, <2>4, <4>2 DEF Holds
      <4>4. a + 1 \in n + 1 .. Len(t) /\ t[a + 1].role = "user"
        BY <2>2, <2>4, <3>1
      <4> QED BY <4>3, <4>4
    <3>4. CASE \E m \in n + 1 .. a : o[m].role = "user" /\ Holds(o, m, "tool_result", i)
      <4>1. PICK m \in n + 1 .. a : o[m].role = "user" /\ Holds(o, m, "tool_result", i)
        BY <3>4
      <4>2. m \in n + 1 .. Len(t) /\ m \in 1 .. a /\ t[m] = o[m]
        BY <2>4, <3>1
      <4>3. Holds(t, m, "tool_result", i)
        BY <4>1, <4>2, HoldsSame
      <4> QED BY <4>1, <4>2, <4>3
    <3> QED BY <2>6, <3>1, <3>2, <3>3, <3>4 DEF Owing
  <2>7. Owing(t, <<>>, owed)
    BY <2>6 DEF Owing
  <2> QED BY <2>3, <2>7
<1> QED BY <1>1, <1>2

\* The results are no calls.
LEMMA FlushKeeps ==
    ASSUME NEW o, NEW p, NEW u, Proper(o, p, u)
    PROVE  /\ Proper(Flushed(o, p), <<>>, u)
           /\ o # <<>> \/ p # <<>> => Flushed(o, p) # <<>>
           /\ Settled(o, p, {}) => Settled(Flushed(o, p), <<>>, {})
<1>1. o \in Seq(MessageType) /\ p \in Seq(ResultBlocks) /\ Uses(o) = u
  BY DEF Proper
<1>2. CASE p = <<>>
  BY <1>1, <1>2 DEF Flushed, Proper
<1>3. CASE p # <<>>
  <2> DEFINE m == Message("user", p)
  <2>1. Flushed(o, p) = Append(o, m)
    BY <1>3 DEF Flushed
  <2>2. p \in Seq(BlockT) /\ \A b \in ResultBlocks : b.type # "tool_use"
    BY <1>1, ResultTyped
  <2>3. m \in MessageType /\ m.content = p
    BY <1>3, <2>2, MessageTyped
  <2>4. Tools(p) = <<>>
    BY <1>1, <2>2, ToolsNone
  <2> HIDE DEF m
  <2>5. Uses(Append(o, m)) = u
    <3>1. Uses(Append(o, m)) = Uses(o) \o <<>>
      BY <1>1, <2>3, <2>4, UsesMore
    <3>2. Uses(o) \in Seq(BlockT)
      BY <1>1, UsesMore
    <3> DEFINE x == Uses(o)
    <3>3. x \o <<>> = x
      <4>1. x \in Seq(BlockT)
        BY <3>2
      <4> HIDE DEF x
      <4> QED BY <4>1
    <3> QED BY <1>1, <3>1, <3>3
  <2>6. Append(o, m) \in Seq(MessageType) /\ Append(o, m) # <<>> /\ <<>> \in Seq(ResultBlocks)
    BY <1>1, <2>3
  <2>7. Settled(o, p, {}) => Settled(Append(o, m), <<>>, {})
    BY <1>1, <1>3, SettledFlushes DEF m
  <2> QED BY <2>1, <2>5, <2>6, <2>7 DEF Proper
<1> QED BY <1>2, <1>3

\* A message brings its calls.
LEMMA PutKeeps ==
    ASSUME NEW o, NEW p, NEW u, Proper(o, p, u), NEW m \in MessageType
    PROVE  /\ Proper(Append(Flushed(o, p), m), <<>>, u \o Tools(m.content))
           /\ Append(Flushed(o, p), m) # <<>>
<1> DEFINE f == Flushed(o, p)
<1>1. f \in Seq(MessageType) /\ Uses(f) = u
  BY FlushKeeps DEF Proper
<1> HIDE DEF f
<1>2. Uses(Append(f, m)) = u \o Tools(m.content)
  BY <1>1, UsesMore
<1>3. Append(f, m) \in Seq(MessageType) /\ Append(f, m) # <<>> /\ <<>> \in Seq(ResultBlocks)
  BY <1>1, NotEmpty
<1> QED BY <1>2, <1>3 DEF Proper, f

\* A result waits.
LEMMA GatherKeeps ==
    ASSUME NEW o, NEW p, NEW u, Proper(o, p, u), NEW i \in Nat
    PROVE  /\ Proper(o, Append(p, ResultBlock(i)), u)
           /\ Append(p, ResultBlock(i)) # <<>>
<1> DEFINE b == ResultBlock(i)
<1>1. p \in Seq(ResultBlocks) /\ b \in ResultBlocks
  BY ResultTyped DEF Proper
<1> HIDE DEF b
<1>2. Append(p, b) \in Seq(ResultBlocks) /\ Append(p, b) # <<>>
  BY <1>1, NotEmpty
<1> QED BY <1>2 DEF Proper, b

-----------------------------------------------------------------------------
(* How a conversion ends *)

\* A leading user turn, which asks for nothing.
LEMMA LeadIs ==
    /\ SyntheticUser \in MessageType /\ SyntheticUser.role = "user"
    /\ Tools(SyntheticUser.content) = <<>>
    /\ \A k \in DOMAIN SyntheticUser.content : SyntheticUser.content[k].type = "text"
    /\ \E k \in DOMAIN SyntheticUser.content : SyntheticUser.content[k].type # "tool_result"
<1> DEFINE b == ContentBlock("text", 0, <<>>)
           S == {b}
           c == <<b>>
<1>1. b \in BlockT /\ b.type = "text"
  BY TextsAre, BlockTyped DEF BlockTypes
<1>2. SyntheticUser = Message("user", c)
  BY DEF SyntheticUser
<1> HIDE DEF b
<1>3. c \in Seq(BlockT) /\ c \in Seq(S) /\ c # <<>> /\ 1 \in DOMAIN c /\ c[1] = b
      /\ \A k \in DOMAIN c : c[k] = b
  BY <1>1
<1>4. \A d \in S : d.type # "tool_use"
  BY <1>1
<1> HIDE DEF c, S
<1>5. Tools(c) = <<>>
  BY <1>3, <1>4, ToolsNone
<1>6. SyntheticUser \in MessageType /\ SyntheticUser.role = "user" /\ SyntheticUser.content = c
  BY <1>2, <1>3, MessageTyped
<1> QED BY <1>1, <1>3, <1>5, <1>6

\* It changes nothing of what follows.
LEMMA Led ==
    ASSUME NEW o \in Seq(MessageType)
    PROVE  LET r == <<SyntheticUser>> \o o
           IN  /\ r[1] = SyntheticUser /\ Uses(r) = Uses(o)
               /\ (Answered(o) => Answered(r)) /\ (AnsweredLater(o) => AnsweredLater(r))
<1> DEFINE lead == SyntheticUser
           l == <<lead>>
           R == {m \in Nat : m <= Len(o) => Uses(l \o SubSeq(o, 1, m)) = Uses(SubSeq(o, 1, m))}
<1>1. lead \in MessageType /\ Tools(lead.content) = <<>>
      /\ \A k \in DOMAIN lead.content : lead.content[k].type = "text"
  BY LeadIs
<1> HIDE DEF lead
<1>2. l \in Seq(MessageType) /\ Len(l) = 1 /\ l[1] = lead /\ l = Append(<<>>, lead)
      /\ <<>> \in Seq(MessageType)
  BY <1>1
<1>3. Uses(l) = <<>>
  <2>1. Uses(Append(<<>>, lead)) = <<>> \o <<>>
    BY <1>1, <1>2, UsesMore
  <2> QED BY <1>2, <2>1
<1> HIDE DEF l
<1>4. 0 \in R
  <2>a. SubSeq(o, 1, 0) = <<>> /\ l \o <<>> = l
    BY <1>2
  <2>1. l \o SubSeq(o, 1, 0) = l /\ SubSeq(o, 1, 0) = <<>>
    BY <2>a
  <2>2. Uses(l \o SubSeq(o, 1, 0)) = Uses(SubSeq(o, 1, 0))
    BY <1>3, <2>1, UsesMore
  <2> QED BY <2>2
<1>5. ASSUME NEW m \in Nat, m \in R PROVE m + 1 \in R
  <2> SUFFICES ASSUME m + 1 <= Len(o)
               PROVE  Uses(l \o SubSeq(o, 1, m + 1)) = Uses(SubSeq(o, 1, m + 1))
    OBVIOUS
  <2> DEFINE p == SubSeq(o, 1, m)
             q == l \o p
             e == o[m + 1]
  <2>1. Uses(q) = Uses(p)
    BY <1>5
  <2>2. q \in Seq(MessageType) /\ e \in MessageType /\ l \o SubSeq(o, 1, m + 1) = Append(q, e)
    <3> HIDE DEF R
    <3> QED BY <1>2, SentOne
  <2>3. p \in Seq(MessageType) /\ SubSeq(o, 1, m + 1) = Append(p, e)
    OBVIOUS
  <2> HIDE DEF p, q, e, R
  <2>4. Uses(Append(q, e)) = Uses(q) \o Tools(e.content)
    BY <2>2, UsesMore
  <2>5. Uses(Append(p, e)) = Uses(p) \o Tools(e.content)
    BY <2>2, <2>3, UsesMore
  <2> QED BY <2>1, <2>2, <2>3, <2>4, <2>5
<1> HIDE DEF R
<1>6. Len(o) \in R
  BY <1>4, <1>5, NatSet
<1>7. Uses(l \o SubSeq(o, 1, Len(o))) = Uses(SubSeq(o, 1, Len(o)))
  BY <1>6 DEF R
<1>8. SubSeq(o, 1, Len(o)) = o
  OBVIOUS
<1>9. Uses(l \o o) = Uses(o)
  BY <1>7, <1>8
<1>10. \A n \in 1 .. Len(l), i \in Index : ~Holds(l, n, "tool_use", i)
  BY <1>1, <1>2 DEF Holds
<1>11. Answered(l)
  BY <1>2, <1>10, AnsweredNone DEF Covered
<1>12. Answered(o) => Answered(l \o o)
  BY <1>2, <1>11, AnsweredJoin
<1>13. (l \o o)[1] = lead
  BY <1>2, Joined
<1>14. AnsweredLater(o) => AnsweredLater(l \o o)
  BY <1>2, <1>10, LaterLed
<1> QED BY <1>9, <1>12, <1>13, <1>14 DEF l, lead

\* What convert_messages makes of a conversation.
LEMMA ChatTail ==
    ASSUME NEW s, NEW o, NEW p, NEW u, Converted(s) = Acc(o, p), Proper(o, p, u),
           o # <<>> \/ p # <<>>
    PROVE  LET r == ConvertMessages(s)
           IN  /\ r[1].role = "user"
               /\ \E k \in DOMAIN r[1].content : r[1].content[k].type # "tool_result"
               /\ Uses(r) = u
               /\ Settled(o, p, {}) => Answered(r)
               /\ Owing(o, p, {}) => AnsweredLater(r)
<1> DEFINE f == Flushed(o, p)
           r == ConvertMessages(s)
           l == <<SyntheticUser>>
           needs == NeedsLeadingUser(f)
<1>1. f \in Seq(MessageType) /\ f # <<>> /\ Uses(f) = u
  BY FlushKeeps DEF Proper
<1>2. Settled(o, p, {}) => Answered(f)
  BY FlushKeeps, SettledAll
<1>7. Owing(o, p, {}) => AnsweredLater(f)
  <2>1. o \in Seq(MessageType) /\ p \in Seq(ResultBlocks)
    BY DEF Proper
  <2> QED BY <1>1, <2>1, OwingFlushes, OwingNothing
<1>3. Flush(Converted(s)).out = f
  <2>1. Flush(Acc(o, p)) = Acc(f, <<>>)
    BY StepsAre
  <2>2. Acc(f, <<>>).out = f
    BY DEF Acc
  <2> QED BY <2>1, <2>2
<1>4. r = (IF needs THEN l ELSE <<>>) \o f
  BY <1>3 DEF ConvertMessages, Converted
<1> HIDE DEF f, r
<1>5. CASE needs
  <2>1. r = l \o f
    BY <1>4, <1>5
  <2>2. r[1] = SyntheticUser /\ Uses(r) = u /\ (Answered(f) => Answered(r))
        /\ (AnsweredLater(f) => AnsweredLater(r))
    BY <1>1, <2>1, Led
  <2> QED BY <1>2, <1>7, <2>2, LeadIs DEF r
<1>6. CASE ~needs
  <2>1. r = f
    BY <1>1, <1>4, <1>6
  <2>2. f[1] \in MessageType
    BY <1>1
  <2>3. f[1].role = "user"
    BY <1>1, <1>6 DEF NeedsLeadingUser
  <2>4. f[1].content # <<>>
    BY <2>2, <2>3 DEF MessageType
  <2>5. ~ \A n \in DOMAIN f[1].content : f[1].content[n].type = "tool_result"
    BY <1>1, <1>6, <2>4 DEF NeedsLeadingUser
  <2> QED BY <1>1, <1>2, <1>7, <2>1, <2>3, <2>5 DEF r
<1> QED BY <1>5, <1>6

\* What convert_input makes of one.
LEMMA InputTail ==
    ASSUME NEW s, NEW o, NEW p, NEW u, Taken(s) = Acc(o, p), Proper(o, p, u),
           o # <<>> \/ p # <<>>
    PROVE  LET r == ConvertInput(s)
           IN  /\ r[1].role = "user"
               /\ Uses(r) = u
               /\ Settled(o, p, {}) => Answered(r)
<1> DEFINE f == Flushed(o, p)
           r == ConvertInput(s)
           l == <<SyntheticUser>>
           needs == f # <<>> /\ f[1].role # "user"
<1>1. f \in Seq(MessageType) /\ f # <<>> /\ Uses(f) = u
  BY FlushKeeps DEF Proper
<1>2. Settled(o, p, {}) => Answered(f)
  BY FlushKeeps, SettledAll
<1>3. Flush(Taken(s)).out = f
  <2>1. Flush(Acc(o, p)) = Acc(f, <<>>)
    BY StepsAre
  <2>2. Acc(f, <<>>).out = f
    BY DEF Acc
  <2> QED BY <2>1, <2>2
<1>4. r = (IF needs THEN l ELSE <<>>) \o f
  BY <1>3 DEF ConvertInput, Taken
<1> HIDE DEF f, r
<1>5. CASE needs
  <2>1. r = l \o f
    BY <1>4, <1>5
  <2>2. r[1] = SyntheticUser /\ Uses(r) = u /\ (Answered(f) => Answered(r))
    BY <1>1, <2>1, Led
  <2> QED BY <1>2, <2>2, LeadIs DEF r
<1>6. CASE ~needs
  <2>1. r = f
    BY <1>1, <1>4, <1>6
  <2> QED BY <1>1, <1>2, <1>6, <2>1 DEF r
<1> QED BY <1>5, <1>6

-----------------------------------------------------------------------------
(* What a client replies *)

EntryType == [role: {"user", "assistant", "system", "tool"}, text: Texts,
              calls: Seq(CallTexts), answers: Nat]

\* The entries of a run of results.
Results == {Result(id) : id \in Nat}
Gathering == Results \cup {Note}

\* An entry has its type.
LEMMA EntryTyped ==
    ASSUME NEW role \in {"user", "assistant", "system", "tool"}, NEW text \in Texts,
           NEW cs \in Seq(CallTexts), NEW answers \in Nat
    PROVE  /\ Entry(role, text, cs, answers) \in EntryType
           /\ Entry(role, text, cs, answers).role = role
           /\ Entry(role, text, cs, answers).text = text
           /\ Entry(role, text, cs, answers).calls = cs
           /\ Entry(role, text, cs, answers).answers = answers
BY DEF Entry, EntryType

\* The entries a client replies with.
LEMMA RepliesTyped ==
    /\ Question \in EntryType /\ Question.role = "user" /\ Question.calls = <<>>
    /\ Question.text \in Texts /\ Question.text # <<>>
    /\ Gathering \subseteq EntryType /\ Results \subseteq Gathering
    /\ Note \in Gathering /\ Note.role = "system" /\ Note.calls = <<>>
    /\ \A i \in Nat : /\ Result(i) \in Results /\ Result(i).role = "tool"
                       /\ Result(i).answers = i /\ Result(i).calls = <<>>
    /\ \A e \in Results : \E i \in Nat : e = Result(i)
<1> DEFINE q == <<<<0, 1>>>>
           z == <<<<0, 2>>>>
           c == <<>>
           e == <<>>
<1>1. q \in Texts /\ z \in Texts /\ q # <<>> /\ e \in Texts /\ c \in Seq(CallTexts)
  <2>1. <<0, 1>> \in Nat \X Nat /\ <<0, 2>> \in Nat \X Nat
    OBVIOUS
  <2> QED BY <2>1, TextsAre DEF Texts
<1>2. Question = Entry("user", q, c, 0) /\ Note = Entry("system", z, c, 0)
      /\ \A i : Result(i) = Entry("tool", e, c, i)
  BY DEF Question, Note, Result
<1>3. c = <<>>
  OBVIOUS
<1> HIDE DEF q, z, c, e
<1> DEFINE a == Entry("user", q, c, 0)
           b == Entry("system", z, c, 0)
<1>4. a \in EntryType /\ a.role = "user" /\ a.calls = c /\ a.text = q
  BY <1>1, EntryTyped
<1>5. b \in EntryType /\ b.role = "system" /\ b.calls = c
  BY <1>1, EntryTyped
<1>6. \A i \in Nat : Result(i) \in EntryType /\ Result(i).role = "tool" /\ Result(i).answers = i
                      /\ Result(i).calls = c
  BY <1>1, <1>2, EntryTyped
<1>7. Question = a /\ Note = b
  BY <1>2
<1> HIDE DEF a, b
<1> QED BY <1>1, <1>3, <1>4, <1>5, <1>6, <1>7 DEF Results, Gathering

\* A message that asks for nothing of the assistant.
LEMMA AskKeeps ==
    ASSUME NEW o, NEW p, NEW u, Proper(o, p, u), NEW m \in MessageType, Tools(m.content) = <<>>,
           \A k \in DOMAIN m.content : m.content[k].type # "tool_use"
    PROVE  /\ Proper(Append(Flushed(o, p), m), <<>>, u)
           /\ Append(Flushed(o, p), m) # <<>>
           /\ Settled(o, p, {}) => Settled(Append(Flushed(o, p), m), <<>>, {})
<1>1. u \in Seq(BlockT)
  BY UsesMore DEF Proper
<1>2. u \o <<>> = u
  BY <1>1
<1>3. /\ Proper(Append(Flushed(o, p), m), <<>>, u)
      /\ Append(Flushed(o, p), m) # <<>>
  BY <1>2, PutKeeps
<1>4. Settled(o, p, {}) => Settled(Append(Flushed(o, p), m), <<>>, {})
  BY FlushKeeps, SettledAsks
<1> QED BY <1>3, <1>4

\* What the assistant said.
LEMMA SayKeeps ==
    ASSUME NEW o, NEW p, NEW u, Proper(o, p, u), NEW m \in Assistants, NEW ids,
           \A k \in DOMAIN m.content : m.content[k].type = "tool_use" => m.content[k].id \in ids
    PROVE  /\ Proper(Append(Flushed(o, p), m), <<>>, u \o Tools(m.content))
           /\ Append(Flushed(o, p), m) # <<>>
           /\ \A owed : Settled(o, p, owed) /\ (p = <<>> \/ owed = {})
                 => Settled(Append(Flushed(o, p), m), <<>>, owed \cup ids)
<1>1. m \in MessageType
  BY DEF Assistants
<1>2. ASSUME NEW owed, Settled(o, p, owed), p = <<>> \/ owed = {}
      PROVE  Settled(Append(Flushed(o, p), m), <<>>, owed \cup ids)
  <2>1. Settled(Flushed(o, p), <<>>, owed)
    <3>1. CASE p = <<>>
      BY <1>2, <3>1 DEF Flushed
    <3>2. CASE owed = {}
      BY <1>2, <3>2, FlushKeeps
    <3> QED BY <1>2, <3>1, <3>2
  <2> QED BY <2>1, SettledSays
<1> QED BY <1>1, <1>2, PutKeeps

\* The user's question, in both protocols.
LEMMA QuestionKeeps ==
    ASSUME NEW o, NEW p, NEW u, Proper(o, p, u)
    PROVE  /\ \E q : /\ ChatStep(Acc(o, p), Question) = Acc(q, <<>>)
                     /\ Proper(q, <<>>, u) /\ q # <<>>
                     /\ Settled(o, p, {}) => Settled(q, <<>>, {})
           /\ \E q : /\ InputStep(Acc(o, p), Question) = Acc(q, <<>>)
                     /\ Proper(q, <<>>, u) /\ q # <<>>
                     /\ Settled(o, p, {}) => Settled(q, <<>>, {})
<1> DEFINE t == Question.text
           c == TextBlocks(t) \o UseBlocks(<<>>)
           d == TextBlocks(t)
           m == Message("user", c)
           n == Message("user", d)
           e == <<>>
<1>1. t \in Texts /\ t # <<>> /\ e \in Seq(CallTexts) /\ Len(e) = 0 /\ Question.calls = e
      /\ Question.role = "user"
  BY RepliesTyped
<1>2. /\ d \in Seq(BlockT) /\ Tools(d) = <<>> /\ d # <<>>
      /\ \A k \in 1 .. Len(d) : d[k].type = "text"
  BY <1>1, TextBlocksAre
<1>3. UseBlocks(e) = <<>>
  <2> HIDE DEF e
  <2>1. UseBlocks(e) \in Seq(BlockT) /\ Len(UseBlocks(e)) = 0
    BY <1>1, UseBlocksAre
  <2> QED BY <2>1, EmptySeq
<1> HIDE DEF t, d
<1>4. c = d
  BY <1>2, <1>3 DEF d
<1> HIDE DEF c
<1>5. n \in MessageType /\ n.content = d /\ m = n
  BY <1>2, <1>4, MessageTyped
<1>6. ChatStep(Acc(o, p), Question) = Put(Acc(o, p), m)
  BY <1>1 DEF ChatStep, c, t
<1>7. InputStep(Acc(o, p), Question) = Put(Acc(o, p), n)
  BY <1>1 DEF InputStep, d, t
<1>8. \A k \in DOMAIN d : d[k].type # "tool_use"
  BY <1>2
<1> HIDE DEF m, n
<1> DEFINE q == Append(Flushed(o, p), n)
<1>9. Put(Acc(o, p), n) = Acc(q, <<>>) /\ Put(Acc(o, p), m) = Acc(q, <<>>)
  BY <1>5, StepsAre
<1>10. Proper(q, <<>>, u) /\ q # <<>> /\ (Settled(o, p, {}) => Settled(q, <<>>, {}))
  BY <1>2, <1>5, <1>8, AskKeeps
<1> HIDE DEF q
<1> QED BY <1>6, <1>7, <1>9, <1>10

\* A result, in both protocols.
LEMMA ResultKeeps ==
    ASSUME NEW o, NEW p, NEW u, Proper(o, p, u), NEW i \in Nat
    PROVE  LET q == Append(p, ResultBlock(i))
           IN  /\ ChatStep(Acc(o, p), Result(i)) = Acc(o, q)
               /\ InputStep(Acc(o, p), Result(i)) = Acc(o, q)
               /\ Proper(o, q, u) /\ q # <<>>
               /\ \A owed : Settled(o, p, owed) => Settled(o, q, owed \ {i})
               /\ \A owed : Owing(o, p, owed) => Owing(o, q, owed \ {i})
<1> DEFINE acc == Acc(o, p)
           e == Result(i)
<1>1. e.role = "tool" /\ e.answers = i /\ e.calls = <<>>
  BY RepliesTyped
<1> HIDE DEF acc, e
<1>a. ChatStep(acc, e) = Gather(acc, e)
  BY <1>1 DEF ChatStep
<1>b. InputStep(acc, e) = Gather(acc, e)
  BY <1>1 DEF InputStep
<1>2. ChatStep(Acc(o, p), e) = Gather(Acc(o, p), e) /\ InputStep(Acc(o, p), e) = Gather(Acc(o, p), e)
  BY <1>a, <1>b DEF acc
<1>c. Gather(Acc(o, p), e) = Acc(o, Append(p, ResultBlock(e.answers)))
  BY StepsAre
<1>3. Gather(Acc(o, p), e) = Acc(o, Append(p, ResultBlock(i)))
  BY <1>1, <1>c
<1>4. p \in Seq(ResultBlocks)
  BY DEF Proper
<1> QED BY <1>2, <1>3, <1>4, GatherKeeps, SettledGathers, OwingGathers DEF e

\* A system message: it ends a run of results, or is passed over.
LEMMA NoteKeeps ==
    ASSUME NEW o, NEW p, NEW u, Proper(o, p, u)
    PROVE  /\ ChatStep(Acc(o, p), Note) = Acc(Flushed(o, p), <<>>)
           /\ InputStep(Acc(o, p), Note) = Acc(o, p)
           /\ Proper(Flushed(o, p), <<>>, u)
           /\ o # <<>> \/ p # <<>> => Flushed(o, p) # <<>>
           /\ \A owed : Owing(o, p, owed) => Owing(Flushed(o, p), <<>>, owed)
<1> DEFINE acc == Acc(o, p)
           e == Note
<1>1. e.role = "system" /\ e.calls = <<>>
  BY RepliesTyped
<1> HIDE DEF acc, e
<1>a. ChatStep(acc, e) = Flush(acc)
  BY <1>1 DEF ChatStep
<1>b. InputStep(acc, e) = acc
  BY <1>1 DEF InputStep
<1>2. ChatStep(Acc(o, p), Note) = Flush(Acc(o, p)) /\ InputStep(Acc(o, p), Note) = Acc(o, p)
  BY <1>a, <1>b DEF acc, e
<1>3. o \in Seq(MessageType) /\ p \in Seq(ResultBlocks)
  BY DEF Proper
<1> QED BY <1>2, <1>3, StepsAre, FlushKeeps, OwingFlushes

-----------------------------------------------------------------------------
(* How the results of the calls are taken *)

\* Of the calls owed, those the first k replies do not answer.
Unanswered(owed, R, k) == {i \in owed : \A j \in 1 .. k : R[j] # Result(i)}

\* One reply more.
LEMMA UnansweredMore ==
    ASSUME NEW owed, NEW R, NEW k \in Nat
    PROVE  /\ Unanswered(owed, R, 0) = owed
           /\ \A i : R[k + 1] = Result(i) =>
                 Unanswered(owed, R, k + 1) = Unanswered(owed, R, k) \ {i}
           /\ R[k + 1] = Note => Unanswered(owed, R, k + 1) = Unanswered(owed, R, k)
<1>1. /\ \A i, j : Result(i) = Result(j) => i = j
      /\ \A i : Note # Result(i)
  <2>1. \A i : Result(i).answers = i /\ Result(i).role = "tool"
    BY DEF Result, Entry
  <2>2. Note.role = "system"
    BY DEF Note, Entry
  <2> QED BY <2>1, <2>2
<1>2. 1 .. 0 = {} /\ 1 .. k + 1 = (1 .. k) \cup {k + 1}
  OBVIOUS
<1>3. Unanswered(owed, R, 0) = owed
  BY <1>2 DEF Unanswered
<1>4. Unanswered(owed, R, k + 1) = {i \in Unanswered(owed, R, k) : R[k + 1] # Result(i)}
  BY <1>2 DEF Unanswered
<1>5. ASSUME NEW i, R[k + 1] = Result(i)
      PROVE  Unanswered(owed, R, k + 1) = Unanswered(owed, R, k) \ {i}
  BY <1>1, <1>4, <1>5
<1>6. R[k + 1] = Note => Unanswered(owed, R, k + 1) = Unanswered(owed, R, k)
  BY <1>1, <1>4
<1> QED BY <1>3, <1>5, <1>6

\* What a conversion has once it has taken k of the replies R: the calls u, and
\* results for what was owed, in one message if no system message splits them.
Replied(acc, o, u, owed, R, k, T) ==
    \E q, p : /\ acc = Acc(q, p) /\ Proper(q, p, u)
              /\ k > 0 => q # <<>> \/ p # <<>>
              /\ R \in Seq(T) /\ Settled(o, <<>>, owed) => Settled(q, p, Unanswered(owed, R, k))
              /\ Owing(o, <<>>, owed) => Owing(q, p, Unanswered(owed, R, k))

\* At first there are the calls.
LEMMA RepliedNone ==
    ASSUME NEW o, NEW u, NEW owed, NEW R, NEW T, Proper(o, <<>>, u)
    PROVE  Replied(Acc(o, <<>>), o, u, owed, R, 0, T)
<1> DEFINE e == <<>>
<1>1. Unanswered(owed, R, 0) = owed
  BY UnansweredMore
<1>2. Proper(o, e, u)
  OBVIOUS
<1>3. /\ R \in Seq(T) /\ Settled(o, e, owed) => Settled(o, e, Unanswered(owed, R, 0))
      /\ Owing(o, e, owed) => Owing(o, e, Unanswered(owed, R, 0))
  BY <1>1
<1> HIDE DEF e
<1>4. Acc(o, e) = Acc(o, e) /\ Proper(o, e, u) /\ (0 > 0 => o # <<>> \/ e # <<>>)
  BY <1>2
<1> QED BY <1>3, <1>4 DEF Replied, e

\* One reply more, in either protocol.
LEMMA RepliedMore ==
    ASSUME NEW acc, NEW o, NEW u, NEW owed, NEW R \in Seq(Gathering), R # <<>>, R[1] \in Results,
           NEW k \in Nat, k + 1 <= Len(R)
    PROVE  /\ Replied(acc, o, u, owed, R, k, Results)
                 => Replied(ChatStep(acc, R[k + 1]), o, u, owed, R, k + 1, Results)
           /\ Replied(acc, o, u, owed, R, k, Gathering)
                 => Replied(InputStep(acc, R[k + 1]), o, u, owed, R, k + 1, Gathering)
<1> DEFINE e == R[k + 1]
           U == Unanswered(owed, R, k)
           V == Unanswered(owed, R, k + 1)
<1>1. e \in Gathering
  OBVIOUS
<1>2. k + 1 > 0 /\ (e \notin Results => k > 0)
  OBVIOUS
<1>3. R \in Seq(Results) => e \in Results
  <2> HIDE DEF Results, Gathering
  <2> QED OBVIOUS
<1>4. e \in Results => \E i \in Nat : e = Result(i)
  BY RepliesTyped
<1>5. e \notin Results => e = Note
  BY <1>1 DEF Gathering
<1>6. /\ \A i : e = Result(i) => V = U \ {i}
      /\ e = Note => V = U
  BY UnansweredMore
<1> HIDE DEF e, U, V, Results, Gathering
<1>7. ASSUME Replied(acc, o, u, owed, R, k, Results)
      PROVE  Replied(ChatStep(acc, e), o, u, owed, R, k + 1, Results)
  <2>1. PICK q, p : /\ acc = Acc(q, p) /\ Proper(q, p, u)
                    /\ k > 0 => q # <<>> \/ p # <<>>
                    /\ R \in Seq(Results) /\ Settled(o, <<>>, owed) => Settled(q, p, U)
                    /\ Owing(o, <<>>, owed) => Owing(q, p, U)
    BY <1>7 DEF Replied, U
  <2>2. CASE e \in Results
    <3>1. PICK i \in Nat : e = Result(i)
      BY <1>4, <2>2
    <3> DEFINE r == Append(p, ResultBlock(i))
    <3>2. /\ ChatStep(acc, e) = Acc(q, r) /\ Proper(q, r, u) /\ r # <<>>
          /\ Settled(q, p, U) => Settled(q, r, U \ {i})
          /\ Owing(q, p, U) => Owing(q, r, U \ {i})
      BY <2>1, <3>1, ResultKeeps
    <3> HIDE DEF r
    <3>3. /\ R \in Seq(Results) /\ Settled(o, <<>>, owed) => Settled(q, r, V)
          /\ Owing(o, <<>>, owed) => Owing(q, r, V)
      BY <1>6, <2>1, <3>1, <3>2
    <3> QED BY <1>2, <3>2, <3>3 DEF Replied, V
  <2>3. CASE e \notin Results
    <3> DEFINE f == Flushed(q, p)
               n == <<>>
    <3>1. /\ ChatStep(acc, e) = Acc(f, n) /\ Proper(f, n, u)
          /\ q # <<>> \/ p # <<>> => f # <<>>
          /\ Owing(q, p, U) => Owing(f, n, U)
      BY <1>5, <2>1, <2>3, NoteKeeps
    <3>2. R \notin Seq(Results)
      BY <1>3, <2>3
    <3>3. f # <<>>
      BY <1>2, <2>1, <2>3, <3>1
    <3>4. Owing(o, <<>>, owed) => Owing(f, n, V)
      BY <1>5, <1>6, <2>1, <2>3, <3>1
    <3> HIDE DEF f, n
    <3> QED BY <3>1, <3>2, <3>3, <3>4 DEF Replied, V
  <2> QED BY <2>2, <2>3
<1>8. ASSUME Replied(acc, o, u, owed, R, k, Gathering)
      PROVE  Replied(InputStep(acc, e), o, u, owed, R, k + 1, Gathering)
  <2>1. PICK q, p : /\ acc = Acc(q, p) /\ Proper(q, p, u)
                    /\ k > 0 => q # <<>> \/ p # <<>>
                    /\ R \in Seq(Gathering) /\ Settled(o, <<>>, owed) => Settled(q, p, U)
                    /\ Owing(o, <<>>, owed) => Owing(q, p, U)
    BY <1>8 DEF Replied, U
  <2>2. CASE e \in Results
    <3>1. PICK i \in Nat : e = Result(i)
      BY <1>4, <2>2
    <3> DEFINE r == Append(p, ResultBlock(i))
    <3>2. /\ InputStep(acc, e) = Acc(q, r) /\ Proper(q, r, u) /\ r # <<>>
          /\ Settled(q, p, U) => Settled(q, r, U \ {i})
          /\ Owing(q, p, U) => Owing(q, r, U \ {i})
      BY <2>1, <3>1, ResultKeeps
    <3> HIDE DEF r
    <3>3. /\ R \in Seq(Gathering) /\ Settled(o, <<>>, owed) => Settled(q, r, V)
          /\ Owing(o, <<>>, owed) => Owing(q, r, V)
      BY <1>6, <2>1, <3>1, <3>2
    <3> QED BY <1>2, <3>2, <3>3 DEF Replied, V
  <2>3. CASE e \notin Results
    <3>1. InputStep(acc, e) = Acc(q, p)
      BY <1>5, <2>1, <2>3, NoteKeeps
    <3>2. k > 0 /\ V = U
      BY <1>2, <1>5, <1>6, <2>3
    <3>3. /\ R \in Seq(Gathering) /\ Settled(o, <<>>, owed) => Settled(q, p, V)
          /\ Owing(o, <<>>, owed) => Owing(q, p, V)
      BY <2>1, <3>2
    <3> QED BY <2>1, <3>1, <3>2, <3>3 DEF Replied, V
  <2> QED BY <2>2, <2>3
<1> QED BY <1>7, <1>8 DEF e

\* All of them.
LEMMA RepliedAll ==
    ASSUME NEW h \in Seq(EntryType), NEW o, NEW u, NEW owed, Proper(o, <<>>, u),
           NEW R \in Seq(Gathering), R # <<>>, R[1] \in Results
    PROVE  /\ Converted(h) = Acc(o, <<>>)
                 => Replied(Converted(h \o R), o, u, owed, R, Len(R), Results)
           /\ Taken(h) = Acc(o, <<>>)
                 => Replied(Taken(h \o R), o, u, owed, R, Len(R), Gathering)
<1> DEFINE C == {m \in Nat : m <= Len(R) =>
                    Replied(Converted(h \o SubSeq(R, 1, m)), o, u, owed, R, m, Results)}
           I == {m \in Nat : m <= Len(R) =>
                    Replied(Taken(h \o SubSeq(R, 1, m)), o, u, owed, R, m, Gathering)}
<1>1. R \in Seq(EntryType) /\ Len(R) \in Nat
  <2>1. Gathering \subseteq EntryType
    BY RepliesTyped
  <2> HIDE DEF Gathering, EntryType
  <2> QED BY <2>1
<1>2. h \o SubSeq(R, 1, 0) = h
  <2> HIDE DEF Gathering, EntryType
  <2>1. SubSeq(R, 1, 0) = <<>> /\ h \o <<>> = h
    OBVIOUS
  <2> QED BY <2>1
<1>3. h \o SubSeq(R, 1, Len(R)) = h \o R
  <2> HIDE DEF Gathering, EntryType
  <2>1. SubSeq(R, 1, Len(R)) = R
    OBVIOUS
  <2> QED BY <2>1
<1>4. ASSUME NEW m \in Nat, m + 1 <= Len(R)
      PROVE  /\ Converted(h \o SubSeq(R, 1, m + 1)) = ChatStep(Converted(h \o SubSeq(R, 1, m)), R[m + 1])
             /\ Taken(h \o SubSeq(R, 1, m + 1)) = InputStep(Taken(h \o SubSeq(R, 1, m)), R[m + 1])
  <2> DEFINE q == h \o SubSeq(R, 1, m)
             e == R[m + 1]
             r == h \o SubSeq(R, 1, m + 1)
  <2> HIDE DEF Gathering, EntryType
  <2>1. q \in Seq(EntryType) /\ e \in EntryType /\ r = Append(q, e)
    BY <1>1, <1>4, SentOne
  <2> HIDE DEF q, e, r
  <2>2. Converted(r) = ChatStep(Converted(q), e) /\ Taken(r) = InputStep(Taken(q), e)
    BY <2>1, ConvertedMore, TakenMore
  <2> QED BY <2>2 DEF q, e, r
<1>5. ASSUME Converted(h) = Acc(o, <<>>)
      PROVE  Replied(Converted(h \o R), o, u, owed, R, Len(R), Results)
  <2>1. 0 \in C
    BY <1>2, <1>5, RepliedNone
  <2>2. ASSUME NEW m \in Nat, m \in C PROVE m + 1 \in C
    <3> SUFFICES ASSUME m + 1 <= Len(R)
                 PROVE  Replied(Converted(h \o SubSeq(R, 1, m + 1)), o, u, owed, R, m + 1, Results)
      OBVIOUS
    <3>1. Replied(Converted(h \o SubSeq(R, 1, m)), o, u, owed, R, m, Results)
      BY <1>1, <2>2
    <3> HIDE DEF C, Gathering, Results
    <3> QED BY <1>4, <3>1, RepliedMore
  <2> HIDE DEF C
  <2>3. Len(R) \in C
    BY <1>1, <2>1, <2>2, NatSet
  <2>4. Replied(Converted(h \o SubSeq(R, 1, Len(R))), o, u, owed, R, Len(R), Results)
    BY <1>1, <2>3 DEF C
  <2> QED BY <1>3, <2>4
<1>6. ASSUME Taken(h) = Acc(o, <<>>)
      PROVE  Replied(Taken(h \o R), o, u, owed, R, Len(R), Gathering)
  <2>1. 0 \in I
    BY <1>2, <1>6, RepliedNone
  <2>2. ASSUME NEW m \in Nat, m \in I PROVE m + 1 \in I
    <3> SUFFICES ASSUME m + 1 <= Len(R)
                 PROVE  Replied(Taken(h \o SubSeq(R, 1, m + 1)), o, u, owed, R, m + 1, Gathering)
      OBVIOUS
    <3>1. Replied(Taken(h \o SubSeq(R, 1, m)), o, u, owed, R, m, Gathering)
      BY <1>1, <2>2
    <3> HIDE DEF I, Gathering, Results
    <3> QED BY <1>4, <3>1, RepliedMore
  <2> HIDE DEF I
  <2>3. Len(R) \in I
    BY <1>1, <2>1, <2>2, NatSet
  <2>4. Replied(Taken(h \o SubSeq(R, 1, Len(R))), o, u, owed, R, Len(R), Gathering)
    BY <1>1, <2>3 DEF I
  <2> QED BY <1>3, <2>4
<1> QED BY <1>5, <1>6

-----------------------------------------------------------------------------
(* The next turn after a conversation *)

\* The results of these calls, and the client's replies made of them.
ResultsOf(ids) == [n \in DOMAIN ids |-> Result(ids[n])]
ReplyList(ids, note, order) == Noted(Ordered(ResultsOf(ids), order), note)

\* The calls asked.
Named(ids) == {ids[n] : n \in 1 .. Len(ids)}

\* One result for each call.
LEMMA ResultsAre ==
    ASSUME NEW ids \in Seq(Nat)
    PROVE  /\ ResultsOf(ids) \in Seq(Results) /\ Len(ResultsOf(ids)) = Len(ids) /\ Len(ids) \in Nat
           /\ \A n \in 1 .. Len(ids) : ResultsOf(ids)[n] = Result(ids[n])
<1> DEFINE n == Len(ids)
           r == [k \in 1 .. n |-> Result(ids[k])]
<1>1. n \in Nat /\ DOMAIN ids = 1 .. n /\ \A k \in 1 .. n : ids[k] \in Nat
  OBVIOUS
<1>2. \A k \in 1 .. n : Result(ids[k]) \in Results
  BY <1>1, RepliesTyped
<1>3. ResultsOf(ids) = r
  BY <1>1 DEF ResultsOf
<1> HIDE DEF n, Results
<1>4. r \in Seq(Results) /\ Len(r) = n /\ \A k \in 1 .. n : r[k] = Result(ids[k])
  BY <1>1, <1>2
<1> QED BY <1>1, <1>3, <1>4 DEF n

\* In either order they are the same results.
LEMMA OrderedAre ==
    ASSUME NEW ids \in Seq(Nat), NEW order
    PROVE  LET s == Ordered(ResultsOf(ids), order)
           IN  /\ s \in Seq(Results) /\ Len(s) = Len(ids)
               /\ \A i \in Named(ids) : \E n \in 1 .. Len(s) : s[n] = Result(i)
<1> DEFINE r == ResultsOf(ids)
           l == Len(ids)
           v == [i \in 1 .. l |-> r[(l - i) + 1]]
<1>1. /\ r \in Seq(Results) /\ Len(r) = l /\ l \in Nat
      /\ \A n \in 1 .. l : r[n] = Result(ids[n])
  BY ResultsAre
<1>2. Ordered(r, order) = IF order = "reversed" THEN v ELSE r
  BY <1>1 DEF Ordered, Reverse
<1> HIDE DEF r, l, Results
<1>3. \A n \in 1 .. l : (l - n) + 1 \in 1 .. l /\ (l - ((l - n) + 1)) + 1 = n
  BY <1>1
<1>4. \A n \in 1 .. l : r[n] \in Results
  BY <1>1
<1>5. v \in Seq(Results) /\ Len(v) = l
  BY <1>1, <1>3, <1>4
<1>6. ASSUME NEW i \in Named(ids)
      PROVE  /\ \E n \in 1 .. l : r[n] = Result(i)
             /\ \E n \in 1 .. l : v[n] = Result(i)
  <2>1. PICK n \in 1 .. l : i = ids[n]
    BY DEF Named, l
  <2>2. v[(l - n) + 1] = r[n]
    BY <1>3
  <2> QED BY <1>1, <1>3, <2>1, <2>2
<1> HIDE DEF v
<1> QED BY <1>1, <1>2, <1>5, <1>6 DEF r, l

\* A sequence that joins two.
LEMMA JoinedAs ==
    ASSUME NEW S, NEW s \in Seq(S), NEW t \in Seq(S), NEW q, q = s \o t
    PROVE  /\ q \in Seq(S) /\ Len(q) = Len(s) + Len(t)
           /\ \A k \in 1 .. Len(s) : q[k] = s[k]
           /\ \A k \in 1 .. Len(t) : q[Len(s) + k] = t[k]
BY Joined

\* With a note after the first, or without.
LEMMA NotedAre ==
    ASSUME NEW s \in Seq(Results), s # <<>>, NEW note \in BOOLEAN
    PROVE  LET t == Noted(s, note)
           IN  /\ t \in Seq(Gathering) /\ t # <<>> /\ t[1] \in Results
               /\ ~note => t = s
               /\ \A n \in 1 .. Len(s) : \E k \in 1 .. Len(t) : t[k] = s[n]
<1> DEFINE a == SubSeq(s, 1, 1)
           b == <<Note>>
           c == SubSeq(s, 2, Len(s))
           t == a \o b \o c
<1>1. Results \subseteq Gathering /\ Note \in Gathering
  BY RepliesTyped
<1> HIDE DEF Results, Gathering
<1>2. s \in Seq(Gathering) /\ Len(s) \in Nat /\ Len(s) >= 1 /\ s[1] \in Results
  BY <1>1
<1>3. CASE ~note
  BY <1>2, <1>3 DEF Noted
<1>4. CASE note
  <2>1. InsertAt(s, 2, Note) = SubSeq(s, 1, 2 - 1) \o <<Note>> \o SubSeq(s, 2, Len(s)) /\ 2 - 1 = 1
    BY DEF InsertAt
  <2>2. Noted(s, note) = t
    BY <1>4, <2>1 DEF Noted
  <2>3. /\ a \in Seq(Gathering) /\ Len(a) = 1 /\ a[1] = s[1]
        /\ b \in Seq(Gathering) /\ Len(b) = 1
        /\ c \in Seq(Gathering) /\ Len(c) = Len(s) - 1
        /\ \A k \in 1 .. Len(s) - 1 : c[k] = s[k + 1]
    <3>1. a \in Seq(Gathering) /\ Len(a) = 1 /\ a[1] = s[1]
      BY <1>2
    <3>2. b \in Seq(Gathering) /\ Len(b) = 1
      BY <1>1
    <3>3. c \in Seq(Gathering) /\ Len(c) = Len(s) - 1
      <4>1. 2 - 1 <= Len(s) /\ 2 >= 1 /\ Len(s) <= Len(s)
        BY <1>2
      <4>2. c \in Seq(Gathering)
        BY <1>2, <4>1
      <4> DEFINE n == Len(s)
      <4>3. Len(c) = Len(s) - 1
        <5>1. CASE n = 1
          <6>1. c = <<>>
            BY <1>2, <5>1
          <6>2. Len(c) = 0
            <7> HIDE DEF c
            <7> QED BY <6>1
          <6> QED BY <5>1, <6>2
        <5>2. CASE n >= 2
          <6>1. n \in Nat /\ c = SubSeq(s, 2, n) /\ 2 <= n
            BY <1>2, <5>2
          <6> HIDE DEF n, c
          <6>2. Len(c) = (n - 2) + 1
            BY <1>2, <6>1
          <6> QED BY <6>1, <6>2 DEF n
        <5>3. n \in Nat /\ n >= 1
          BY <1>2
        <5> HIDE DEF n, c
        <5>4. n = 1 \/ n >= 2
          BY <5>3
        <5> QED BY <5>1, <5>2, <5>4 DEF n
      <4> QED BY <1>2, <4>2, <4>3
    <3>4. \A k \in 1 .. Len(s) - 1 : c[k] = s[k + 1]
      BY <1>2
    <3> QED BY <3>1, <3>2, <3>3, <3>4
  <2> DEFINE d == a \o b
  <2> HIDE DEF a, b, c
  <2>4. /\ d \in Seq(Gathering) /\ Len(d) = 2 /\ d[1] = s[1]
    <3>1. 1 \in 1 .. Len(a)
      BY <2>3
    <3>2. d = a \o b
      OBVIOUS
    <3> HIDE DEF d
    <3>3. a \in Seq(Gathering) /\ b \in Seq(Gathering)
      BY <2>3
    <3>4. /\ d \in Seq(Gathering) /\ Len(d) = Len(a) + Len(b)
          /\ \A k \in 1 .. Len(a) : d[k] = a[k]
      BY <3>2, <3>3, JoinedAs
    <3> QED BY <2>3, <3>1, <3>4
  <2>5. t = d \o c
    OBVIOUS
  <2> HIDE DEF d, t
  <2>6. /\ t \in Seq(Gathering) /\ Len(t) = Len(s) + 1 /\ t[1] = s[1]
        /\ \A k \in 1 .. Len(c) : t[2 + k] = c[k]
    <3>1. 1 \in 1 .. Len(d)
      BY <2>4
    <3>2. t \in Seq(Gathering) /\ Len(t) = Len(d) + Len(c) /\ t[1] = d[1]
          /\ \A k \in 1 .. Len(c) : t[Len(d) + k] = c[k]
      <4>1. d \in Seq(Gathering) /\ c \in Seq(Gathering)
        BY <2>3, <2>4
      <4>2. /\ t \in Seq(Gathering) /\ Len(t) = Len(d) + Len(c)
            /\ \A k \in 1 .. Len(d) : t[k] = d[k]
            /\ \A k \in 1 .. Len(c) : t[Len(d) + k] = c[k]
        BY <2>5, <4>1, JoinedAs
      <4> QED BY <3>1, <4>2
    <3> QED BY <1>2, <2>3, <2>4, <3>2
  <2>7. t # <<>>
    <3>1. Len(t) # 0
      BY <1>2, <2>6
    <3> QED BY <2>6, <3>1, EmptySeq
  <2>8. ASSUME NEW n \in 1 .. Len(s) PROVE \E k \in 1 .. Len(t) : t[k] = s[n]
    <3>1. CASE n = 1
      <4>1. 1 \in 1 .. Len(t)
        BY <1>2, <2>6
      <4> QED BY <2>6, <3>1, <4>1
    <3>2. CASE n # 1
      <4>1. n - 1 \in 1 .. Len(c) /\ n - 1 \in 1 .. Len(s) - 1 /\ (n - 1) + 1 = n
            /\ 2 + (n - 1) \in 1 .. Len(t)
        BY <1>2, <2>3, <2>6, <3>2
      <4>2. t[2 + (n - 1)] = s[n]
        BY <2>3, <2>6, <4>1
      <4> QED BY <4>1, <4>2
    <3> QED BY <3>1, <3>2
  <2> QED BY <1>2, <1>4, <2>2, <2>6, <2>7, <2>8 DEF t
<1> QED BY <1>3, <1>4

\* What a client replies to these calls.
LEMMA ReplyListIs ==
    ASSUME NEW ids \in Seq(Nat), NEW note \in BOOLEAN, NEW order
    PROVE  LET R == ReplyList(ids, note, order)
           IN  /\ ids = <<>> => Replies(R) = <<Question>>
               /\ ids # <<>> => /\ Replies(R) = R
                                /\ R \in Seq(Gathering) /\ R # <<>> /\ R[1] \in Results
                                /\ ~note => R \in Seq(Results)
                                /\ Unanswered(Named(ids), R, Len(R)) = {}
<1> DEFINE s == Ordered(ResultsOf(ids), order)
           R == ReplyList(ids, note, order)
<1>1. /\ s \in Seq(Results) /\ Len(s) = Len(ids)
      /\ \A i \in Named(ids) : \E n \in 1 .. Len(s) : s[n] = Result(i)
  BY OrderedAre
<1>2. R = Noted(s, note)
  BY DEF ReplyList
<1> HIDE DEF s, R
<1>3. s = <<>> <=> ids = <<>>
  BY <1>1, EmptySeq
<1>4. CASE ids = <<>>
  BY <1>2, <1>3, <1>4 DEF Noted, Replies, R
<1>5. CASE ids # <<>>
  <2>1. /\ R \in Seq(Gathering) /\ R # <<>> /\ R[1] \in Results
        /\ ~note => R = s
        /\ \A n \in 1 .. Len(s) : \E k \in 1 .. Len(R) : R[k] = s[n]
    BY <1>1, <1>2, <1>3, <1>5, NotedAre
  <2>2. Replies(R) = R
    BY <2>1 DEF Replies
  <2>3. Unanswered(Named(ids), R, Len(R)) = {}
    BY <1>1, <2>1 DEF Unanswered
  <2> QED BY <1>1, <1>5, <2>1, <2>2, <2>3 DEF R
<1> QED BY <1>4, <1>5

\* One entry after a conversation.
LEMMA AfterOne ==
    ASSUME NEW h \in Seq(EntryType), NEW e \in EntryType
    PROVE  /\ h \o <<e>> \in Seq(EntryType)
           /\ Converted(h \o <<e>>) = ChatStep(Converted(h), e)
           /\ Taken(h \o <<e>>) = InputStep(Taken(h), e)
<1> DEFINE t == h \o <<e>>
<1> HIDE DEF EntryType
<1>1. t = Append(h, e) /\ t \in Seq(EntryType)
  OBVIOUS
<1> HIDE DEF t
<1> QED BY <1>1, ConvertedMore, TakenMore DEF t

\* The turn in Chat Completions: the calls given back are u, and those named are
\* answered, in one message unless a note splits their results.
LEMMA ChatTurn ==
    ASSUME NEW h \in Seq(EntryType), NEW o, NEW u, Converted(h) = Acc(o, <<>>), Proper(o, <<>>, u),
           NEW ids \in Seq(Nat), NEW note \in BOOLEAN, NEW order
    PROVE  LET r == ConvertMessages(h \o Replies(ReplyList(ids, note, order)))
           IN  /\ r[1].role = "user"
               /\ \E k \in DOMAIN r[1].content : r[1].content[k].type # "tool_result"
               /\ Uses(r) = u
               /\ ~note /\ Settled(o, <<>>, Named(ids)) => Answered(r)
               /\ Settled(o, <<>>, Named(ids)) => AnsweredLater(r)
<1> DEFINE R == ReplyList(ids, note, order)
           H == h \o Replies(R)
<1>1. \E q, p : /\ Converted(H) = Acc(q, p) /\ Proper(q, p, u) /\ (q # <<>> \/ p # <<>>)
                /\ ~note /\ Settled(o, <<>>, Named(ids)) => Settled(q, p, {})
                /\ Settled(o, <<>>, Named(ids)) => Owing(q, p, {})
  <2>1. CASE ids = <<>>
    <3> DEFINE e == <<>>
    <3>1. Replies(R) = <<Question>> /\ Named(ids) = {}
      <4>1. Len(ids) = 0
        BY <2>1
      <4>2. Named(ids) = {}
        BY <4>1 DEF Named
      <4> QED BY <2>1, <4>2, ReplyListIs
    <3>2. Converted(H) = ChatStep(Acc(o, e), Question)
      BY <3>1, AfterOne, RepliesTyped
    <3>3. PICK q : /\ ChatStep(Acc(o, e), Question) = Acc(q, e)
                   /\ Proper(q, e, u) /\ q # <<>>
                   /\ Settled(o, e, {}) => Settled(q, e, {})
      BY QuestionKeeps
    <3>4. Settled(o, e, {}) => Owing(q, e, {})
      BY <3>3, SettledOwes
    <3> HIDE DEF R, H, e
    <3> QED BY <3>1, <3>2, <3>3, <3>4 DEF e
  <2>2. CASE ids # <<>>
    <3>1. /\ Replies(R) = R
          /\ R \in Seq(Gathering) /\ R # <<>> /\ R[1] \in Results
          /\ ~note => R \in Seq(Results)
          /\ Unanswered(Named(ids), R, Len(R)) = {}
      BY <2>2, ReplyListIs
    <3> HIDE DEF R, Results, Gathering
    <3>2. Replied(Converted(h \o R), o, u, Named(ids), R, Len(R), Results)
      BY <3>1, RepliedAll
    <3>3. Len(R) > 0 /\ H = h \o R
      BY <3>1
    <3> HIDE DEF H
    <3>4. PICK q, p : /\ Converted(h \o R) = Acc(q, p) /\ Proper(q, p, u)
                      /\ Len(R) > 0 => q # <<>> \/ p # <<>>
                      /\ R \in Seq(Results) /\ Settled(o, <<>>, Named(ids))
                            => Settled(q, p, Unanswered(Named(ids), R, Len(R)))
                      /\ Owing(o, <<>>, Named(ids))
                            => Owing(q, p, Unanswered(Named(ids), R, Len(R)))
      BY <3>2 DEF Replied
    <3>5. Settled(o, <<>>, Named(ids)) => Owing(o, <<>>, Named(ids))
      BY SettledOwes
    <3> QED BY <3>1, <3>3, <3>4, <3>5
  <2> QED BY <2>1, <2>2
<1> HIDE DEF H
<1>2. PICK q, p : /\ Converted(H) = Acc(q, p) /\ Proper(q, p, u) /\ (q # <<>> \/ p # <<>>)
                  /\ ~note /\ Settled(o, <<>>, Named(ids)) => Settled(q, p, {})
                  /\ Settled(o, <<>>, Named(ids)) => Owing(q, p, {})
  BY <1>1
<1> QED BY <1>2, ChatTail DEF H

\* The turn in Responses, where a note splits nothing.
LEMMA InputTurn ==
    ASSUME NEW h \in Seq(EntryType), NEW o, NEW u, Taken(h) = Acc(o, <<>>), Proper(o, <<>>, u),
           NEW ids \in Seq(Nat), NEW note \in BOOLEAN, NEW order
    PROVE  LET r == ConvertInput(h \o Replies(ReplyList(ids, note, order)))
           IN  /\ r[1].role = "user"
               /\ Uses(r) = u
               /\ Settled(o, <<>>, Named(ids)) => Answered(r)
<1> DEFINE R == ReplyList(ids, note, order)
           H == h \o Replies(R)
<1>1. \E q, p : /\ Taken(H) = Acc(q, p) /\ Proper(q, p, u) /\ (q # <<>> \/ p # <<>>)
                /\ Settled(o, <<>>, Named(ids)) => Settled(q, p, {})
  <2>1. CASE ids = <<>>
    <3> DEFINE e == <<>>
    <3>1. Replies(R) = <<Question>> /\ Named(ids) = {}
      <4>1. Len(ids) = 0
        BY <2>1
      <4>2. Named(ids) = {}
        BY <4>1 DEF Named
      <4> QED BY <2>1, <4>2, ReplyListIs
    <3>2. Taken(H) = InputStep(Acc(o, e), Question)
      BY <3>1, AfterOne, RepliesTyped
    <3>3. PICK q : /\ InputStep(Acc(o, e), Question) = Acc(q, e)
                   /\ Proper(q, e, u) /\ q # <<>>
                   /\ Settled(o, e, {}) => Settled(q, e, {})
      BY QuestionKeeps
    <3> HIDE DEF R, H, e
    <3> QED BY <3>1, <3>2, <3>3 DEF e
  <2>2. CASE ids # <<>>
    <3>1. /\ Replies(R) = R
          /\ R \in Seq(Gathering) /\ R # <<>> /\ R[1] \in Results
          /\ Unanswered(Named(ids), R, Len(R)) = {}
      BY <2>2, ReplyListIs
    <3> HIDE DEF R, Results, Gathering
    <3>2. Replied(Taken(h \o R), o, u, Named(ids), R, Len(R), Gathering)
      BY <3>1, RepliedAll
    <3>3. Len(R) > 0 /\ H = h \o R
      BY <3>1
    <3> HIDE DEF H
    <3>4. PICK q, p : /\ Taken(h \o R) = Acc(q, p) /\ Proper(q, p, u)
                      /\ Len(R) > 0 => q # <<>> \/ p # <<>>
                      /\ R \in Seq(Gathering) /\ Settled(o, <<>>, Named(ids))
                            => Settled(q, p, Unanswered(Named(ids), R, Len(R)))
      BY <3>2 DEF Replied
    <3> QED BY <3>1, <3>3, <3>4
  <2> QED BY <2>1, <2>2
<1> HIDE DEF H
<1>2. PICK q, p : /\ Taken(H) = Acc(q, p) /\ Proper(q, p, u) /\ (q # <<>> \/ p # <<>>)
                  /\ Settled(o, <<>>, Named(ids)) => Settled(q, p, {})
  BY <1>1
<1> QED BY <1>2, InputTail DEF H

-----------------------------------------------------------------------------
(* The items of a Responses client, sent back *)

\* The items as entries, alone or each call with its result.
SaidOf(items) == [n \in DOMAIN items |-> ItemEntry(items[n])]
Pair(item) == IF ItemEntry(item).calls = <<>> THEN <<ItemEntry(item)>>
              ELSE <<ItemEntry(item), Result(item.call)>>
PairedOf(items) == FlattenSeq([n \in DOMAIN items |-> Pair(items[n])])

\* The calls of the upstream's message, as blocks.
AskedBlock(b) == ContentBlock("tool_use", b.id, ResolveArguments(b.parts, b.start))
AskedOf(content) == LET tools == Tools(content) IN [n \in 1 .. Len(tools) |-> AskedBlock(tools[n])]

\* The entry of an item.
LEMMA ItemEntryIs ==
    ASSUME NEW g \in DoneType
    PROVE  LET e == ItemEntry(g)
           IN  /\ e \in EntryType /\ e.role = "assistant"
               /\ g.kind = "message" => e.calls = <<>> /\ e.text = g.value
               /\ g.kind # "message" => e.calls = <<Call(g.call, g.value)>> /\ e.calls # <<>>
<1> DEFINE c == Call(g.call, g.value)
           k == <<c>>
           n == <<>>
           t == <<>>
<1>1. g.value \in Texts /\ g.call \in Nat
  BY DEF DoneType
<1>2. c \in CallTexts
  BY <1>1 DEF CallTexts, Call
<1> HIDE DEF c
<1>3. k \in Seq(CallTexts) /\ k # <<>> /\ n \in Seq(CallTexts) /\ n = <<>> /\ t \in Texts
  BY <1>2, TextsAre
<1>4. ItemEntry(g) = IF g.kind = "message" THEN Entry("assistant", g.value, n, 0)
                     ELSE Entry("assistant", t, k, 0)
  BY DEF ItemEntry, c
<1> HIDE DEF k, n, t
<1>5. CASE g.kind = "message"
  <2> DEFINE e == Entry("assistant", g.value, n, 0)
  <2>1. e \in EntryType /\ e.role = "assistant" /\ e.calls = n /\ e.text = g.value
    <3> DEFINE v == g.value
    <3>1. n \in Seq(CallTexts) /\ v \in Texts /\ 0 \in Nat
      BY <1>1, <1>3
    <3> HIDE DEF v
    <3> QED BY <3>1, EntryTyped DEF v
  <2>2. ItemEntry(g) = e
    BY <1>4, <1>5
  <2> HIDE DEF e
  <2> QED BY <1>3, <1>5, <2>1, <2>2
<1>6. CASE g.kind # "message"
  <2> DEFINE e == Entry("assistant", t, k, 0)
  <2>1. e \in EntryType /\ e.role = "assistant" /\ e.calls = k
    BY <1>3, EntryTyped
  <2>2. ItemEntry(g) = e
    BY <1>4, <1>6
  <2>3. k = <<Call(g.call, g.value)>>
    BY DEF k, c
  <2> HIDE DEF e
  <2> QED BY <1>3, <1>6, <2>1, <2>2, <2>3
<1> QED BY <1>5, <1>6

\* The text of an item is a message of the assistant.
LEMMA TextItemKeeps ==
    ASSUME NEW o, NEW p, NEW u, Proper(o, p, u), NEW g \in DoneType, g.kind = "message"
    PROVE  \E q : /\ InputStep(Acc(o, p), ItemEntry(g)) = Acc(q, <<>>)
                  /\ Proper(q, <<>>, u) /\ q # <<>>
                  /\ \A owed : Settled(o, p, owed) /\ (p = <<>> \/ owed = {})
                        => Settled(q, <<>>, owed)
<1> DEFINE e == ItemEntry(g)
           c == TextBlocks(g.value)
           m == Message("assistant", c)
           q == Append(Flushed(o, p), m)
           n == <<>>
<1>1. g.value \in Texts
  BY DEF DoneType
<1>2. e.role = "assistant" /\ e.calls = <<>> /\ e.text = g.value
  BY ItemEntryIs
<1>3. c \in Seq(BlockT) /\ Tools(c) = <<>> /\ \A k \in 1 .. Len(c) : c[k].type = "text"
  BY <1>1, TextBlocksAre
<1> HIDE DEF e
<1>4. ASSUME NEW acc PROVE InputStep(acc, e) = Put(acc, m)
  BY <1>2 DEF InputStep
<1> HIDE DEF c
<1>5. m \in MessageType /\ m.role = "assistant" /\ m.content = c
  BY <1>3, MessageTyped
<1>6. m \in Assistants
  BY <1>5 DEF Assistants
<1> HIDE DEF m
<1>7. InputStep(Acc(o, p), e) = Acc(q, n)
  BY <1>4, StepsAre
<1>8. \A k \in DOMAIN m.content : m.content[k].type = "tool_use" => m.content[k].id \in {}
  BY <1>3, <1>5
<1>9. /\ Proper(q, n, u \o Tools(m.content)) /\ q # <<>>
      /\ \A owed : Settled(o, p, owed) /\ (p = <<>> \/ owed = {}) => Settled(q, n, owed \cup {})
  BY <1>6, <1>8, SayKeeps
<1>10. u \o Tools(m.content) = u
  <2>1. u \in Seq(BlockT)
    BY UsesMore DEF Proper
  <2> QED BY <1>3, <1>5, <2>1
<1>11. \A owed : owed \cup {} = owed
  OBVIOUS
<1> HIDE DEF q, n
<1>12. Proper(q, n, u) /\ q # <<>>
  BY <1>9, <1>10
<1>13. \A owed : Settled(o, p, owed) /\ (p = <<>> \/ owed = {}) => Settled(q, n, owed)
  BY <1>9, <1>11
<1> QED BY <1>7, <1>12, <1>13 DEF n, e

\* A call, in an item, is one of the assistant's too.
LEMMA CallItemKeeps ==
    ASSUME NEW o, NEW p, NEW u, Proper(o, p, u),
           NEW g \in DoneType, g.kind # "message", g.value \in Objects
    PROVE  \E q : /\ InputStep(Acc(o, p), ItemEntry(g)) = Acc(q, <<>>)
                  /\ Proper(q, <<>>, Append(u, ContentBlock("tool_use", g.call, g.value))) /\ q # <<>>
                  /\ \A owed : Settled(o, p, owed) /\ (p = <<>> \/ owed = {})
                        => Settled(q, <<>>, owed \cup {g.call})
<1> DEFINE e == ItemEntry(g)
           k == Call(g.call, g.value)
           cs == <<k>>
           c == UseBlocks(cs)
           m == Message("assistant", c)
           q == Append(Flushed(o, p), m)
           n == <<>>
           b == ContentBlock("tool_use", g.call, g.value)
<1>1. g.value \in Texts /\ g.call \in Nat
  BY DEF DoneType
<1>2. e.role = "assistant" /\ e.calls = cs /\ e.calls # <<>>
  BY ItemEntryIs
<1>3. k \in CallTexts /\ k.id = g.call /\ k.arguments = g.value
  BY <1>1 DEF CallTexts, Call
<1> HIDE DEF k, e
<1>4. cs \in Seq(CallTexts) /\ Len(cs) = 1 /\ cs[1] = k
  BY <1>3
<1>5. ASSUME NEW acc PROVE InputStep(acc, e) = Put(acc, m)
  BY <1>2 DEF InputStep
<1> HIDE DEF cs
<1>6. /\ c \in Seq(BlockT) /\ Len(c) = 1 /\ c[1].type = "tool_use"
      /\ c[1] = ContentBlock("tool_use", k.id, InputOf(k.arguments))
  BY <1>4, UseBlocksAre
<1>7. c[1] = b
  BY <1>3, <1>6 DEF InputOf
<1>8. b.id = g.call /\ b \in BlockT
  BY <1>1, BlockTyped DEF BlockTypes
<1> HIDE DEF c, b
<1>9. Tools(c) = c
  <2>1. n \in Seq(BlockT) /\ Tools(n) = n
    BY ToolsMore
  <2> HIDE DEF n
  <2>2. \A j \in 1 .. Len(c) : c[j].type = "tool_use"
    BY <1>6
  <2>3. Tools(n \o c) = c
    BY <1>6, <2>1, <2>2, ToolsAll DEF n
  <2>4. n \o c = c
    BY <1>6 DEF n
  <2> QED BY <2>3, <2>4
<1>10. m \in MessageType /\ m.role = "assistant" /\ m.content = c
  BY <1>6, MessageTyped
<1>11. m \in Assistants
  BY <1>10 DEF Assistants
<1> HIDE DEF m
<1>12. InputStep(Acc(o, p), e) = Acc(q, n)
  BY <1>5, StepsAre
<1>13. \A j \in DOMAIN m.content : m.content[j].type = "tool_use" => m.content[j].id \in {g.call}
  BY <1>6, <1>7, <1>8, <1>10
<1>14. /\ Proper(q, n, u \o Tools(m.content)) /\ q # <<>>
       /\ \A owed : Settled(o, p, owed) /\ (p = <<>> \/ owed = {}) => Settled(q, n, owed \cup {g.call})
  BY <1>11, <1>13, SayKeeps
<1>15. u \o Tools(m.content) = Append(u, b)
  <2>1. u \in Seq(BlockT)
    BY UsesMore DEF Proper
  <2>2. c = <<b>>
    BY <1>6, <1>7, <1>8
  <2>3. u \o <<b>> = Append(u, b)
    BY <1>8, <2>1
  <2> QED BY <1>9, <1>10, <2>2, <2>3
<1> HIDE DEF q, n
<1> QED BY <1>12, <1>14, <1>15 DEF n, e, b

\* The entries of one item more.
LEMMA SaidMore ==
    /\ SaidOf(<<>>) = <<>> /\ PairedOf(<<>>) = <<>>
    /\ \A s \in Seq(DoneType) : SaidOf(s) \in Seq(EntryType) /\ PairedOf(s) \in Seq(EntryType)
    /\ \A s \in Seq(DoneType), g \in DoneType :
          /\ SaidOf(Append(s, g)) = Append(SaidOf(s), ItemEntry(g))
          /\ PairedOf(Append(s, g)) = PairedOf(s) \o Pair(g)
<1>1. \A g \in DoneType : ItemEntry(g) \in EntryType /\ Pair(g) \in Seq(EntryType)
  <2> TAKE g \in DoneType
  <2> DEFINE e == ItemEntry(g)
             r == Result(g.call)
  <2>1. e \in EntryType
    BY ItemEntryIs
  <2>2. r \in EntryType
    BY RepliesTyped DEF DoneType
  <2>3. Pair(g) = IF e.calls = <<>> THEN <<e>> ELSE <<e, r>>
    BY DEF Pair
  <2> HIDE DEF e, r
  <2>4. <<e>> \in Seq(EntryType) /\ <<e, r>> \in Seq(EntryType)
    BY <2>1, <2>2
  <2>5. Pair(g) \in Seq(EntryType)
    BY <2>3, <2>4
  <2> QED BY <2>1, <2>5 DEF e
<1> DEFINE P(s) == [n \in DOMAIN s |-> Pair(s[n])]
<1>2. ASSUME NEW s \in Seq(DoneType)
      PROVE  /\ SaidOf(s) \in Seq(EntryType) /\ Len(SaidOf(s)) = Len(s)
             /\ P(s) \in Seq(Seq(EntryType)) /\ Len(P(s)) = Len(s)
             /\ \A n \in 1 .. Len(s) : SaidOf(s)[n] = ItemEntry(s[n]) /\ P(s)[n] = Pair(s[n])
  <2> DEFINE l == Len(s)
             a == [n \in 1 .. l |-> ItemEntry(s[n])]
             b == [n \in 1 .. l |-> Pair(s[n])]
  <2>1. l \in Nat /\ DOMAIN s = 1 .. l /\ \A n \in 1 .. l : s[n] \in DoneType
    OBVIOUS
  <2>2. \A n \in 1 .. l : ItemEntry(s[n]) \in EntryType /\ Pair(s[n]) \in Seq(EntryType)
    BY <1>1, <2>1
  <2>3. SaidOf(s) = a /\ P(s) = b
    BY <2>1 DEF SaidOf
  <2> HIDE DEF l, P
  <2>4. a \in Seq(EntryType) /\ Len(a) = l /\ \A n \in 1 .. l : a[n] = ItemEntry(s[n])
    BY <2>1, <2>2
  <2>5. b \in Seq(Seq(EntryType)) /\ Len(b) = l /\ \A n \in 1 .. l : b[n] = Pair(s[n])
    BY <2>1, <2>2
  <2> HIDE DEF a, b
  <2> QED BY <2>3, <2>4, <2>5 DEF l
<1>3. SaidOf(<<>>) = <<>> /\ PairedOf(<<>>) = <<>>
  <2> DEFINE e == <<>>
  <2>1. e \in Seq(DoneType) /\ Len(e) = 0
    OBVIOUS
  <2> HIDE DEF e, P
  <2>2. SaidOf(e) \in Seq(EntryType) /\ P(e) \in Seq(Seq(EntryType)) /\ Len(SaidOf(e)) = 0 /\ Len(P(e)) = 0
    BY <1>2, <2>1
  <2>3. SaidOf(e) = <<>> /\ P(e) = <<>>
    BY <2>2, EmptySeq
  <2>4. PairedOf(e) = FlattenSeq(P(e))
    BY DEF PairedOf, P
  <2> QED BY <2>3, <2>4, FlattenMore DEF e
<1>4. ASSUME NEW s \in Seq(DoneType) PROVE PairedOf(s) \in Seq(EntryType) /\ PairedOf(s) = FlattenSeq(P(s))
  <2>1. PairedOf(s) = FlattenSeq(P(s))
    BY DEF PairedOf
  <2> HIDE DEF P
  <2> QED BY <1>2, <2>1, FlattenMore
<1>5. ASSUME NEW s \in Seq(DoneType), NEW g \in DoneType
      PROVE  /\ SaidOf(Append(s, g)) = Append(SaidOf(s), ItemEntry(g))
             /\ PairedOf(Append(s, g)) = PairedOf(s) \o Pair(g)
  <2> DEFINE t == Append(s, g)
             l == Len(s)
  <2>1. /\ t \in Seq(DoneType) /\ Len(t) = l + 1 /\ t[l + 1] = g
        /\ \A n \in 1 .. l : t[n] = s[n]
        /\ l \in Nat
    BY Added
  <2> HIDE DEF t, P, l
  <2>2. l + 1 \in 1 .. Len(t) /\ \A n \in 1 .. l : n \in 1 .. Len(t)
    BY <2>1
  <2>3. SaidOf(t) = Append(SaidOf(s), ItemEntry(g))
    <3>1. /\ SaidOf(s) \in Seq(EntryType) /\ Len(SaidOf(s)) = l
          /\ SaidOf(t) \in Seq(EntryType) /\ Len(SaidOf(t)) = l + 1
          /\ SaidOf(t)[l + 1] = ItemEntry(g)
          /\ \A n \in 1 .. l : SaidOf(t)[n] = SaidOf(s)[n]
      BY <1>2, <2>1, <2>2 DEF l
    <3> QED BY <1>1, <3>1, Ended
  <2>4. P(t) = Append(P(s), Pair(g))
    <3>1. /\ P(s) \in Seq(Seq(EntryType)) /\ Len(P(s)) = l
          /\ P(t) \in Seq(Seq(EntryType)) /\ Len(P(t)) = l + 1
          /\ P(t)[l + 1] = Pair(g)
          /\ \A n \in 1 .. l : P(t)[n] = P(s)[n]
      BY <1>2, <2>1, <2>2 DEF l
    <3> QED BY <1>1, <3>1, Ended
  <2>5. FlattenSeq(P(t)) = FlattenSeq(P(s)) \o Pair(g)
    BY <1>1, <1>2, <2>4, FlattenMore
  <2> QED BY <1>4, <2>1, <2>3, <2>5 DEF t
<1> QED BY <1>3, <1>2, <1>4, <1>5

\* The calls of one block more.
LEMMA AskedMore ==
    /\ AskedOf(<<>>) = <<>>
    /\ \A c \in Seq(ContentType), b \in ContentType :
          AskedOf(Append(c, b)) = IF b.type = "tool_use" THEN Append(AskedOf(c), AskedBlock(b))
                                  ELSE AskedOf(c)
<1> DEFINE A(t) == [n \in 1 .. Len(t) |-> AskedBlock(t[n])]
<1>1. \A c : AskedOf(c) = A(Tools(c))
  BY DEF AskedOf
<1>2. \A b \in ContentType : AskedBlock(b) \in BlockT
  <2> TAKE b \in ContentType
  <2>1. b.start \in Objects /\ b.id \in Nat
    BY DEF ContentType
  <2>2. ResolveArguments(b.parts, b.start) \in Texts
    BY <2>1, Resolved, TextsAre
  <2> QED BY <2>1, <2>2, BlockTyped DEF AskedBlock, BlockTypes
<1>3. ASSUME NEW t \in Seq(ContentType)
      PROVE  /\ A(t) \in Seq(BlockT) /\ Len(A(t)) = Len(t)
             /\ \A n \in 1 .. Len(t) : A(t)[n] = AskedBlock(t[n])
  <2> DEFINE l == Len(t)
             a == [n \in 1 .. l |-> AskedBlock(t[n])]
  <2>1. l \in Nat /\ \A n \in 1 .. l : t[n] \in ContentType
    OBVIOUS
  <2>2. \A n \in 1 .. l : AskedBlock(t[n]) \in BlockT
    BY <1>2, <2>1
  <2>3. A(t) = a
    OBVIOUS
  <2> HIDE DEF l, A
  <2>4. a \in Seq(BlockT) /\ Len(a) = l /\ \A n \in 1 .. l : a[n] = AskedBlock(t[n])
    BY <2>1, <2>2
  <2> QED BY <2>3, <2>4 DEF l
<1>4. ASSUME NEW t \in Seq(ContentType), NEW b \in ContentType
      PROVE  A(Append(t, b)) = Append(A(t), AskedBlock(b))
  <2> DEFINE s == Append(t, b)
             l == Len(t)
  <2>1. /\ s \in Seq(ContentType) /\ Len(s) = l + 1 /\ s[l + 1] = b
        /\ \A n \in 1 .. l : s[n] = t[n]
        /\ l \in Nat
    BY Added
  <2> HIDE DEF s, A, l
  <2>2. l + 1 \in 1 .. Len(s) /\ \A n \in 1 .. l : n \in 1 .. Len(s)
    BY <2>1
  <2>3. /\ A(t) \in Seq(BlockT) /\ Len(A(t)) = l
        /\ A(s) \in Seq(BlockT) /\ Len(A(s)) = l + 1
        /\ A(s)[l + 1] = AskedBlock(b)
        /\ \A n \in 1 .. l : A(s)[n] = A(t)[n]
    BY <1>3, <2>1, <2>2 DEF l
  <2>4. A(s) = Append(A(t), AskedBlock(b))
    BY <1>2, <2>3, Ended
  <2> QED BY <2>4 DEF s
<1>5. AskedOf(<<>>) = <<>>
  <2> DEFINE e == <<>>
  <2>1. e \in Seq(ContentType) /\ Len(e) = 0 /\ Tools(e) = e
    BY ToolsMore
  <2> HIDE DEF e, A
  <2>2. A(e) \in Seq(BlockT) /\ Len(A(e)) = 0
    BY <1>3, <2>1
  <2>3. A(e) = <<>>
    BY <2>2, EmptySeq
  <2>4. AskedOf(e) = <<>>
    BY <1>1, <2>1, <2>3
  <2> QED BY <2>4 DEF e
<1>6. ASSUME NEW c \in Seq(ContentType), NEW b \in ContentType
      PROVE  AskedOf(Append(c, b)) = IF b.type = "tool_use" THEN Append(AskedOf(c), AskedBlock(b))
                                     ELSE AskedOf(c)
  <2>1. Tools(Append(c, b)) = AddTool(Tools(c), b)
    BY ToolsMore
  <2>2. Tools(c) \in Seq(ContentType)
    <3> DEFINE T == {d \in ContentType : d.type = "tool_use"}
    <3>1. Tools(c) \in Seq(T) /\ T \subseteq ContentType
      BY ToolsMore
    <3> HIDE DEF T
    <3> QED BY <3>1
  <2> HIDE DEF A
  <2> QED BY <1>1, <1>4, <2>1, <2>2 DEF AddTool
<1> QED BY <1>5, <1>6

-----------------------------------------------------------------------------
(* A Responses client's answer, taken back *)

\* The items taken after pre: the calls u, which are owed their results.
SaidRun(pre, items, u) ==
    \E o : /\ Taken(pre \o SaidOf(items)) = Acc(o, <<>>) /\ Proper(o, <<>>, u)
           /\ Settled(o, <<>>, Named(CalledIn(items)))

\* Where each call comes with its result, nothing is owed.
PairedRun(pre, items, u) ==
    \E o, p : /\ Taken(pre \o PairedOf(items)) = Acc(o, p) /\ Proper(o, p, u)
              /\ Settled(o, p, {})
              /\ items # <<>> => o # <<>>

\* The calls named by one item more.
LEMMA NamedMore ==
    ASSUME NEW I \in Seq(DoneType), NEW g \in DoneType
    PROVE  /\ CalledIn(I) \in Seq(Nat)
           /\ Named(CalledIn(Append(I, g))) =
                 IF g.kind = "function_call" THEN Named(CalledIn(I)) \cup {g.call}
                 ELSE Named(CalledIn(I))
<1> DEFINE ids == CalledIn(I)
<1>1. DoneType \subseteq ItemType
  BY DEF DoneType, ItemType
<1>2. I \in Seq(ItemType) /\ g \in ItemType
  <2> HIDE DEF DoneType, ItemType
  <2> QED BY <1>1
<1>3. ids \in Seq(Nat) /\ CalledIn(Append(I, g)) = AddCalled(ids, g)
  BY <1>2, CalledMore
<1>4. g.call \in Nat
  BY DEF DoneType
<1> HIDE DEF ids
<1>5. Named(Append(ids, g.call)) = Named(ids) \cup {g.call}
  <2> DEFINE i == g.call
             t == Append(ids, i)
             l == Len(ids)
  <2>1. /\ Len(t) = l + 1 /\ t[l + 1] = i /\ l \in Nat
        /\ \A j \in 1 .. l : t[j] = ids[j]
    BY <1>3, <1>4, Added
  <2> HIDE DEF t, i
  <2>2. 1 .. Len(t) = (1 .. l) \cup {l + 1}
    BY <2>1
  <2>3. Named(t) = {t[n] : n \in 1 .. l} \cup {t[l + 1]}
    BY <2>2 DEF Named
  <2>4. {t[n] : n \in 1 .. l} = {ids[n] : n \in 1 .. l}
    BY <2>1
  <2> QED BY <2>1, <2>3, <2>4 DEF Named, t, i
<1> QED BY <1>3, <1>5 DEF AddCalled, ids

\* The entries before, and one more.
LEMMA TakenAfter ==
    ASSUME NEW pre \in Seq(EntryType), NEW s \in Seq(EntryType), NEW e \in EntryType
    PROVE  Taken(pre \o Append(s, e)) = InputStep(Taken(pre \o s), e)
<1> DEFINE q == pre \o s
           r == Append(s, e)
<1> HIDE DEF EntryType
<1>1. q \in Seq(EntryType)
  BY Joined
<1>2. pre \in Seq(EntryType) /\ s \in Seq(EntryType) /\ e \in EntryType
      /\ q = pre \o s /\ r = Append(s, e)
  OBVIOUS
<1> HIDE DEF q, r
<1>3. Append(q, e) = pre \o r
  <2>1. Grown(Join(pre, s), e) = Join(pre, Grown(s, e))
    BY <1>2, GrownJoin
  <2> QED BY <1>2, <2>1 DEF Join, Grown
<1>4. Taken(Append(q, e)) = InputStep(Taken(q), e)
  BY <1>1, TakenMore
<1> QED BY <1>3, <1>4 DEF q, r

\* A text is added.
LEMMA RunText ==
    ASSUME NEW pre \in Seq(EntryType), NEW I \in Seq(DoneType), NEW g \in DoneType,
           g.kind = "message", NEW u
    PROVE  /\ SaidRun(pre, I, u) => SaidRun(pre, Append(I, g), u)
           /\ PairedRun(pre, I, u) => PairedRun(pre, Append(I, g), u)
<1> DEFINE e == ItemEntry(g)
           J == Append(I, g)
<1>1. e \in EntryType /\ e.calls = <<>>
  BY ItemEntryIs
<1>2. /\ SaidOf(I) \in Seq(EntryType) /\ PairedOf(I) \in Seq(EntryType)
      /\ SaidOf(J) = Append(SaidOf(I), e)
      /\ PairedOf(J) = PairedOf(I) \o Pair(g)
  BY SaidMore
<1>3. Pair(g) = <<e>>
  BY <1>1 DEF Pair
<1>4. PairedOf(J) = Append(PairedOf(I), e)
  <2> DEFINE s == PairedOf(I)
  <2> HIDE DEF e, s, EntryType
  <2>1. s \in Seq(EntryType) /\ s \o <<e>> = Append(s, e)
    BY <1>1, <1>2 DEF s
  <2> QED BY <1>2, <1>3, <2>1 DEF s
<1>5. Named(CalledIn(J)) = Named(CalledIn(I))
  BY NamedMore
<1>6. ASSUME NEW s \in Seq(EntryType), NEW o, NEW p, Taken(pre \o s) = Acc(o, p), Proper(o, p, u)
      PROVE  \E q : /\ Taken(pre \o Append(s, e)) = Acc(q, <<>>)
                    /\ Proper(q, <<>>, u) /\ q # <<>>
                    /\ \A owed : Settled(o, p, owed) /\ (p = <<>> \/ owed = {})
                          => Settled(q, <<>>, owed)
  <2>1. Taken(pre \o Append(s, e)) = InputStep(Acc(o, p), e)
    BY <1>1, <1>6, TakenAfter
  <2> QED BY <1>6, <2>1, TextItemKeeps
<1> HIDE DEF e, J
<1>7. ASSUME SaidRun(pre, I, u) PROVE SaidRun(pre, J, u)
  <2> DEFINE n == <<>>
             owed == Named(CalledIn(I))
  <2>1. PICK o : /\ Taken(pre \o SaidOf(I)) = Acc(o, n) /\ Proper(o, n, u)
                 /\ Settled(o, n, owed)
    BY <1>7 DEF SaidRun
  <2> HIDE DEF owed
  <2>2. PICK q : /\ Taken(pre \o Append(SaidOf(I), e)) = Acc(q, n) /\ Proper(q, n, u)
                 /\ Settled(q, n, owed)
    BY <1>2, <1>6, <2>1
  <2> HIDE DEF n
  <2> QED BY <1>2, <1>5, <2>2 DEF SaidRun, n, owed
<1>8. ASSUME PairedRun(pre, I, u) PROVE PairedRun(pre, J, u)
  <2> DEFINE n == <<>>
  <2>1. PICK o, p : /\ Taken(pre \o PairedOf(I)) = Acc(o, p) /\ Proper(o, p, u)
                    /\ Settled(o, p, {})
    BY <1>8 DEF PairedRun
  <2>2. PICK q : /\ Taken(pre \o Append(PairedOf(I), e)) = Acc(q, n) /\ Proper(q, n, u)
                 /\ Settled(q, n, {}) /\ q # <<>>
    BY <1>2, <1>6, <2>1
  <2> HIDE DEF n
  <2> QED BY <1>4, <2>2 DEF PairedRun
<1> QED BY <1>7, <1>8 DEF J

\* A call is added.
LEMMA RunCall ==
    ASSUME NEW pre \in Seq(EntryType), NEW I \in Seq(DoneType), NEW g \in DoneType,
           g.kind = "function_call", g.value \in Objects, NEW u
    PROVE  LET v == Append(u, ContentBlock("tool_use", g.call, g.value))
           IN  /\ SaidRun(pre, I, u) => SaidRun(pre, Append(I, g), v)
               /\ PairedRun(pre, I, u) => PairedRun(pre, Append(I, g), v)
<1> DEFINE e == ItemEntry(g)
           r == Result(g.call)
           i == g.call
           J == Append(I, g)
           v == Append(u, ContentBlock("tool_use", g.call, g.value))
<1>1. e \in EntryType /\ e.calls # <<>> /\ r \in EntryType /\ i \in Nat
  BY ItemEntryIs, RepliesTyped DEF DoneType
<1>2. /\ SaidOf(I) \in Seq(EntryType) /\ PairedOf(I) \in Seq(EntryType)
      /\ SaidOf(J) = Append(SaidOf(I), e)
      /\ PairedOf(J) = PairedOf(I) \o Pair(g)
  BY SaidMore
<1>3. Pair(g) = <<e, r>>
  BY <1>1 DEF Pair
<1>4. PairedOf(J) = Append(Append(PairedOf(I), e), r) /\ Append(PairedOf(I), e) \in Seq(EntryType)
  <2> DEFINE s == PairedOf(I)
  <2> HIDE DEF e, s, r, EntryType
  <2>1. s \in Seq(EntryType) /\ s \o <<e, r>> = Append(Append(s, e), r) /\ Append(s, e) \in Seq(EntryType)
    BY <1>1, <1>2, TwoMore DEF s
  <2> QED BY <1>2, <1>3, <2>1 DEF s
<1>5. Named(CalledIn(J)) = Named(CalledIn(I)) \cup {i}
  BY NamedMore
<1>6. ASSUME NEW s \in Seq(EntryType), NEW o, NEW p, Taken(pre \o s) = Acc(o, p), Proper(o, p, u)
      PROVE  \E q : /\ Taken(pre \o Append(s, e)) = Acc(q, <<>>)
                    /\ Proper(q, <<>>, v) /\ q # <<>>
                    /\ \A owed : Settled(o, p, owed) /\ (p = <<>> \/ owed = {})
                          => Settled(q, <<>>, owed \cup {i})
  <2>1. Taken(pre \o Append(s, e)) = InputStep(Acc(o, p), e)
    BY <1>1, <1>6, TakenAfter
  <2> QED BY <1>6, <2>1, CallItemKeeps
<1> HIDE DEF e, J, v
<1>7. ASSUME SaidRun(pre, I, u) PROVE SaidRun(pre, J, v)
  <2> DEFINE n == <<>>
             owed == Named(CalledIn(I))
  <2>1. PICK o : /\ Taken(pre \o SaidOf(I)) = Acc(o, n) /\ Proper(o, n, u)
                 /\ Settled(o, n, owed)
    BY <1>7 DEF SaidRun
  <2> HIDE DEF owed
  <2>2. PICK q : /\ Taken(pre \o Append(SaidOf(I), e)) = Acc(q, n) /\ Proper(q, n, v)
                 /\ Settled(q, n, owed \cup {i})
    BY <1>2, <1>6, <2>1
  <2> HIDE DEF n
  <2> QED BY <1>2, <1>5, <2>2 DEF SaidRun, n, owed
<1>8. ASSUME PairedRun(pre, I, u) PROVE PairedRun(pre, J, v)
  <2> DEFINE n == <<>>
             s == Append(PairedOf(I), e)
             w == Append(n, ResultBlock(i))
  <2>1. PICK o, p : /\ Taken(pre \o PairedOf(I)) = Acc(o, p) /\ Proper(o, p, u)
                    /\ Settled(o, p, {})
    BY <1>8 DEF PairedRun
  <2>2. PICK q : /\ Taken(pre \o s) = Acc(q, n) /\ Proper(q, n, v)
                 /\ Settled(q, n, {} \cup {i}) /\ q # <<>>
    BY <1>2, <1>6, <2>1
  <2>3. Taken(pre \o PairedOf(J)) = InputStep(Acc(q, n), r)
    BY <1>1, <1>4, <2>2, TakenAfter
  <2>4. /\ InputStep(Acc(q, n), r) = Acc(q, w) /\ Proper(q, w, v)
        /\ Settled(q, n, {} \cup {i}) => Settled(q, w, ({} \cup {i}) \ {i})
    BY <1>1, <2>2, ResultKeeps
  <2>5. ({} \cup {i}) \ {i} = {}
    OBVIOUS
  <2> HIDE DEF n, w, s
  <2>6. Settled(q, w, {})
    BY <2>2, <2>4, <2>5
  <2> QED BY <2>2, <2>3, <2>4, <2>6 DEF PairedRun
<1> QED BY <1>7, <1>8 DEF J, v

\* Before any item there is only the history.
LEMMA RunNone ==
    ASSUME NEW pre \in Seq(EntryType), NEW o, Taken(pre) = Acc(o, <<>>),
           Proper(o, <<>>, <<>>), Settled(o, <<>>, {})
    PROVE  SaidRun(pre, <<>>, <<>>) /\ PairedRun(pre, <<>>, <<>>)
<1> DEFINE n == <<>>
<1>1. SaidOf(n) = n /\ PairedOf(n) = n /\ CalledIn(n) = n /\ pre \o n = pre
  <2>1. pre \o n = pre
    <3> HIDE DEF EntryType
    <3> QED OBVIOUS
  <2> QED BY <2>1, SaidMore, CalledMore
<1>2. Named(n) = {}
  <2>1. Len(n) = 0
    OBVIOUS
  <2> HIDE DEF n
  <2> QED BY <2>1 DEF Named
<1>3. Taken(pre) = Acc(o, n) /\ Proper(o, n, n) /\ Settled(o, n, {})
  OBVIOUS
<1>4. ~(n # <<>>)
  OBVIOUS
<1> HIDE DEF n
<1>5. SaidRun(pre, n, n)
  BY <1>1, <1>2, <1>3 DEF SaidRun, n
<1>6. PairedRun(pre, n, n)
  BY <1>1, <1>3, <1>4 DEF PairedRun
<1> QED BY <1>5, <1>6 DEF n

\* A block more of the answer.
LEMMA RunMore ==
    ASSUME NEW pre \in Seq(EntryType), NEW c \in Seq(ContentType), NEW b \in ContentType,
           SaidRun(pre, ItemsOf(c), AskedOf(c)), PairedRun(pre, ItemsOf(c), AskedOf(c))
    PROVE  /\ SaidRun(pre, ItemsOf(Append(c, b)), AskedOf(Append(c, b)))
           /\ PairedRun(pre, ItemsOf(Append(c, b)), AskedOf(Append(c, b)))
<1> DEFINE I == ItemsOf(c)
           u == AskedOf(c)
           d == Append(c, b)
           g == Gave(b)
<1>1. /\ I \in Seq(DoneType)
      /\ b.type = "thinking" => ItemsOf(d) = I
      /\ b.type # "thinking" => ItemsOf(d) = Append(I, g) /\ g \in DoneType
  BY ItemsAre, ItemsMore, GaveDone DEF Visible
<1>2. AskedOf(d) = IF b.type = "tool_use" THEN Append(u, AskedBlock(b)) ELSE u
  BY AskedMore
<1>3. b.type \in {"text", "tool_use", "thinking"} /\ b.start \in Objects
  BY DEF ContentType, Kinds
<1>4. b.type = "text" => g.kind = "message"
  BY DEF Gave, AsItem, Responses!Item
<1>5. b.type = "tool_use" =>
         g.kind = "function_call" /\ g.value \in Objects
         /\ AskedBlock(b) = ContentBlock("tool_use", g.call, g.value)
  <2> SUFFICES ASSUME b.type = "tool_use"
               PROVE  g.kind = "function_call" /\ g.value \in Objects
                      /\ AskedBlock(b) = ContentBlock("tool_use", g.call, g.value)
    OBVIOUS
  <2> DEFINE a == ResolveArguments(b.parts, b.start)
  <2>1. a \in Objects
    BY <1>3, Resolved
  <2>2. AskedBlock(b) = ContentBlock("tool_use", b.id, a)
    BY DEF AskedBlock
  <2>3. g = Responses!Item("function_call", b.id, a, "completed")
    BY DEF Gave, AsItem
  <2> HIDE DEF a
  <2>4. g.kind = "function_call" /\ g.call = b.id /\ g.value = a
    BY <2>3 DEF Responses!Item
  <2> QED BY <2>1, <2>2, <2>4
<1>6. SaidRun(pre, I, u) /\ PairedRun(pre, I, u)
  OBVIOUS
<1> HIDE DEF I, u, d, g
<1>7. CASE b.type = "text"
  BY <1>1, <1>2, <1>4, <1>6, <1>7, RunText DEF d
<1>8. CASE b.type = "tool_use"
  <2> DEFINE v == Append(u, ContentBlock("tool_use", g.call, g.value))
  <2>1. SaidRun(pre, Append(I, g), v) /\ PairedRun(pre, Append(I, g), v)
    BY <1>1, <1>5, <1>6, <1>8, RunCall
  <2>2. ItemsOf(d) = Append(I, g) /\ AskedOf(d) = v
    BY <1>1, <1>2, <1>5, <1>8
  <2> HIDE DEF v
  <2> QED BY <2>1, <2>2 DEF d
<1>9. CASE b.type = "thinking"
  BY <1>1, <1>2, <1>6, <1>9 DEF d
<1> QED BY <1>3, <1>7, <1>8, <1>9

\* All of the answer.
LEMMA RunAll ==
    ASSUME NEW pre \in Seq(EntryType), NEW o, Taken(pre) = Acc(o, <<>>),
           Proper(o, <<>>, <<>>), Settled(o, <<>>, {}), NEW c \in Seq(ContentType)
    PROVE  SaidRun(pre, ItemsOf(c), AskedOf(c)) /\ PairedRun(pre, ItemsOf(c), AskedOf(c))
<1> DEFINE C(m) == SubSeq(c, 1, m)
           R == {m \in Nat : m <= Len(c) => /\ SaidRun(pre, ItemsOf(C(m)), AskedOf(C(m)))
                                            /\ PairedRun(pre, ItemsOf(C(m)), AskedOf(C(m)))}
<1>1. 0 \in R
  <2> DEFINE n == <<>>
  <2>1. C(0) = n /\ n \in Seq(ContentType)
    OBVIOUS
  <2>2. AskedOf(n) = n /\ Shown(n) = n /\ Len(n) = 0
    BY AskedMore, ShownMore
  <2>3. SaidRun(pre, n, n) /\ PairedRun(pre, n, n)
    BY RunNone
  <2>4. n = <<>>
    OBVIOUS
  <2> HIDE DEF n
  <2>5. ItemsOf(n) \in Seq(DoneType) /\ Len(ItemsOf(n)) = 0
    BY <2>1, <2>2, ItemsAre
  <2>6. ItemsOf(n) = n
    BY <2>4, <2>5, EmptySeq
  <2>7. ItemsOf(C(0)) = n /\ AskedOf(C(0)) = n
    BY <2>1, <2>2, <2>6
  <2> HIDE DEF C
  <2> QED BY <2>3, <2>7
<1>2. ASSUME NEW m \in Nat, m \in R PROVE m + 1 \in R
  <2> SUFFICES ASSUME m + 1 <= Len(c)
               PROVE  /\ SaidRun(pre, ItemsOf(C(m + 1)), AskedOf(C(m + 1)))
                      /\ PairedRun(pre, ItemsOf(C(m + 1)), AskedOf(C(m + 1)))
    OBVIOUS
  <2> DEFINE b == c[m + 1]
             d == C(m)
  <2>1. d \in Seq(ContentType) /\ b \in ContentType /\ C(m + 1) = Append(d, b)
    <3> HIDE DEF ContentType
    <3> QED OBVIOUS
  <2>2. m <= Len(c)
    OBVIOUS
  <2>3. SaidRun(pre, ItemsOf(d), AskedOf(d)) /\ PairedRun(pre, ItemsOf(d), AskedOf(d))
    BY <1>2, <2>2
  <2> HIDE DEF b, d, C, R
  <2>4. /\ SaidRun(pre, ItemsOf(Append(d, b)), AskedOf(Append(d, b)))
        /\ PairedRun(pre, ItemsOf(Append(d, b)), AskedOf(Append(d, b)))
    BY <2>1, <2>3, RunMore
  <2> QED BY <2>1, <2>4
<1>3. Len(c) \in Nat /\ C(Len(c)) = c
  OBVIOUS
<1> HIDE DEF R
<1>4. Len(c) \in R
  BY <1>1, <1>2, <1>3, NatSet
<1> HIDE DEF C
<1>5. /\ SaidRun(pre, ItemsOf(C(Len(c))), AskedOf(C(Len(c))))
      /\ PairedRun(pre, ItemsOf(C(Len(c))), AskedOf(C(Len(c))))
  BY <1>3, <1>4 DEF R
<1> QED BY <1>3, <1>5

-----------------------------------------------------------------------------
(* The history a client sends *)

\* What comes before the answer: the user's question, or nothing.
LEMMA HeadIs ==
    ASSUME NEW pre \in {<<>>, <<Question>>}
    PROVE  /\ pre \in Seq(EntryType)
           /\ \E o : Converted(pre) = Acc(o, <<>>) /\ Proper(o, <<>>, <<>>) /\ Settled(o, <<>>, {})
           /\ \E o : Taken(pre) = Acc(o, <<>>) /\ Proper(o, <<>>, <<>>) /\ Settled(o, <<>>, {})
<1> DEFINE n == <<>>
           q == <<Question>>
<1>1. n \in Seq(EntryType) /\ q = n \o <<Question>> /\ Question \in EntryType
  <2>1. Question \in EntryType
    BY RepliesTyped
  <2> HIDE DEF EntryType
  <2> QED BY <2>1
<1>2. n \in Seq(MessageType) /\ n \in Seq(ResultBlocks)
  OBVIOUS
<1>3. Uses(n) = n /\ Settled(n, n, {}) /\ NoMessages = Acc(n, n)
  BY UsesMore, SettledBegins DEF Acc, NoMessages
<1>4. Converted(n) = NoMessages /\ Taken(n) = NoMessages
  BY ConvertedMore, TakenMore
<1>5. n = <<>> /\ pre \in {n, q}
  OBVIOUS
<1> HIDE DEF n, q
<1>6. Proper(n, n, n)
  BY <1>2, <1>3 DEF Proper
<1>7. CASE pre = n
  BY <1>1, <1>3, <1>4, <1>5, <1>6, <1>7
<1>8. CASE pre = q
  <2>1. /\ q \in Seq(EntryType)
        /\ Converted(q) = ChatStep(Acc(n, n), Question)
        /\ Taken(q) = InputStep(Acc(n, n), Question)
    BY <1>1, <1>3, <1>4, AfterOne
  <2>2. \E o : Converted(q) = Acc(o, n) /\ Proper(o, n, n) /\ Settled(o, n, {})
    BY <1>3, <1>5, <1>6, <2>1, QuestionKeeps
  <2>3. \E o : Taken(q) = Acc(o, n) /\ Proper(o, n, n) /\ Settled(o, n, {})
    BY <1>3, <1>5, <1>6, <2>1, QuestionKeeps
  <2> QED BY <1>5, <1>8, <2>1, <2>2, <2>3
<1> QED BY <1>5, <1>7, <1>8

\* The history, in its parts.
LEMMA FromIs ==
    ASSUME NEW head \in Heads, NEW a \in Seq(EntryType), NEW R \in Seq(EntryType)
    PROVE  \E pre \in {<<>>, <<Question>>} :
              /\ head # "results" => From(head, a, R) = (pre \o a) \o R
              /\ head # "results" /\ R = <<>> => From(head, a, R) = pre \o a
              /\ head = "results" => From(head, a, R) = <<>> \o R
<1> DEFINE n == <<>>
           q == <<Question>>
<1>1. n \o a = a /\ n \o R = R
  <2> HIDE DEF EntryType
  <2> QED OBVIOUS
<1>2. Question \in EntryType
  BY RepliesTyped
<1>3. q \o a \in Seq(EntryType)
  <2> HIDE DEF EntryType
  <2>1. q \in Seq(EntryType)
    BY <1>2
  <2> HIDE DEF q
  <2> QED BY <2>1
<1>4. \A s \in Seq(EntryType) : R = <<>> => s \o R = s
  <2> HIDE DEF EntryType
  <2> QED OBVIOUS
<1>5. /\ head = "user" => From(head, a, R) = (q \o a) \o R
      /\ head = "answer" => From(head, a, R) = a \o R
      /\ head = "results" => From(head, a, R) = R
  BY DEF From
<1> HIDE DEF q, n
<1>6. CASE head = "user"
  BY <1>3, <1>4, <1>5, <1>6 DEF q, n
<1>7. CASE head # "user"
  <2>1. head = "answer" \/ head = "results"
    BY <1>7 DEF Heads
  <2>2. /\ head # "results" => From(head, a, R) = (n \o a) \o R
        /\ head # "results" /\ R = <<>> => From(head, a, R) = n \o a
        /\ head = "results" => From(head, a, R) = n \o R
    BY <1>1, <1>4, <1>5, <2>1
  <2>3. n \in {<<>>, <<Question>>} /\ n = <<>>
    BY DEF n
  <2> QED BY <2>2, <2>3
<1> QED BY <1>6, <1>7

\* The replies are entries.
LEMMA RepliesSeq ==
    ASSUME NEW ids \in Seq(Nat), NEW note \in BOOLEAN, NEW order
    PROVE  Replies(ReplyList(ids, note, order)) \in Seq(EntryType)
<1> DEFINE R == Replies(ReplyList(ids, note, order))
<1>1. R = <<Question>> \/ R \in Seq(Gathering)
  BY ReplyListIs
<1>2. Question \in EntryType /\ Gathering \subseteq EntryType
  BY RepliesTyped
<1> HIDE DEF R, EntryType, Gathering
<1>3. <<Question>> \in Seq(EntryType) /\ Seq(Gathering) \subseteq Seq(EntryType)
  BY <1>2
<1> QED BY <1>1, <1>3 DEF R

\* The history of a Responses client.
LEMMA InputHistory ==
    ASSUME NEW c \in Seq(ContentType), ResponsesAnswer.output = ItemsOf(c),
           NEW head \in Heads, NEW note \in BOOLEAN, NEW order
    PROVE  LET I == ItemsOf(c)
               ids == CalledIn(I)
           IN  ResponsesHistory(head, note, order) =
                  IF order = "paired" /\ head # "results" /\ ResultsOf(ids) # <<>>
                  THEN From(head, PairedOf(I), <<>>)
                  ELSE From(head, SaidOf(I), Replies(ReplyList(ids, note, order)))
<1> DEFINE I == ItemsOf(c)
           ids == CalledIn(I)
           said == [n \in DOMAIN I |-> ItemEntry(I[n])]
           pairs == [n \in DOMAIN said |-> IF said[n].calls = <<>> THEN <<said[n]>>
                                           ELSE <<said[n], Result(I[n].call)>>]
<1>1. said = SaidOf(I)
  BY DEF SaidOf
<1>2. pairs = [n \in DOMAIN I |-> Pair(I[n])]
  <2>1. \A n \in DOMAIN I : (IF said[n].calls = <<>> THEN <<said[n]>>
                             ELSE <<said[n], Result(I[n].call)>>) = Pair(I[n])
    BY DEF Pair
  <2> QED BY <2>1
<1>3. FlattenSeq(pairs) = PairedOf(I)
  BY <1>2 DEF PairedOf
<1>4. ReplyList(ids, note, order) = Noted(Ordered([n \in DOMAIN ids |-> Result(ids[n])], order), note)
      /\ ResultsOf(ids) = [n \in DOMAIN ids |-> Result(ids[n])]
  BY DEF ReplyList, ResultsOf
<1>5. ResponsesHistory(head, note, order) =
         IF order = "paired" /\ head # "results" /\ ResultsOf(ids) # <<>>
         THEN From(head, FlattenSeq(pairs), <<>>)
         ELSE From(head, said, Replies(ReplyList(ids, note, order)))
  BY <1>4 DEF ResponsesHistory
<1> HIDE DEF pairs, said, I
<1> QED BY <1>1, <1>3, <1>5 DEF I

\* The next turn of a Responses client: the calls of the message, all answered.
LEMMA InputNext ==
    ASSUME NEW c \in Seq(ContentType), ResponsesAnswer.output = ItemsOf(c),
           NEW head \in Heads, NEW note \in BOOLEAN, NEW order
    PROVE  LET r == ConvertInput(ResponsesHistory(head, note, order))
           IN  /\ r[1].role = "user"
               /\ head # "results" => Uses(r) = AskedOf(c) /\ Answered(r)
<1> DEFINE I == ItemsOf(c)
           ids == CalledIn(I)
           R == Replies(ReplyList(ids, note, order))
           n == <<>>
           H == ResponsesHistory(head, note, order)
<1>1. I \in Seq(DoneType) /\ ids \in Seq(Nat)
  <2>1. DoneType \subseteq ItemType
    BY DEF DoneType, ItemType
  <2>2. I \in Seq(DoneType)
    BY ItemsAre
  <2> HIDE DEF I, DoneType, ItemType
  <2>3. I \in Seq(ItemType)
    BY <2>1, <2>2
  <2> QED BY <2>2, <2>3, CalledMore
<1>2. SaidOf(I) \in Seq(EntryType) /\ PairedOf(I) \in Seq(EntryType) /\ R \in Seq(EntryType)
      /\ n \in Seq(EntryType)
  <2>1. n \in Seq(EntryType)
    OBVIOUS
  <2> QED BY <1>1, <2>1, SaidMore, RepliesSeq
<1>3. H = IF order = "paired" /\ head # "results" /\ ResultsOf(ids) # n
          THEN From(head, PairedOf(I), n)
          ELSE From(head, SaidOf(I), R)
  BY InputHistory
<1>4. \A pre \in {<<>>, <<Question>>} :
         /\ pre \in Seq(EntryType)
         /\ SaidRun(pre, I, AskedOf(c)) /\ PairedRun(pre, I, AskedOf(c))
  <2> TAKE pre \in {<<>>, <<Question>>}
  <2>1. pre \in Seq(EntryType)
    BY HeadIs
  <2>2. PICK o : Taken(pre) = Acc(o, n) /\ Proper(o, n, n) /\ Settled(o, n, {})
    BY HeadIs
  <2> HIDE DEF I
  <2> QED BY <2>1, <2>2, RunAll DEF I
<1>5. ResultsOf(ids) # n => I # n
  <2> SUFFICES ASSUME I = n PROVE ResultsOf(ids) = n
    OBVIOUS
  <2>1. ids = n
    BY CalledMore
  <2>2. ResultsOf(ids) \in Seq(Results) /\ Len(ResultsOf(ids)) = Len(ids)
    BY <1>1, ResultsAre
  <2> HIDE DEF ids
  <2>3. Len(ids) = 0
    BY <2>1
  <2> HIDE DEF n
  <2>4. ResultsOf(ids) = <<>>
    BY <2>2, <2>3, EmptySeq
  <2> QED BY <2>4 DEF n
<1> HIDE DEF I, ids, R, n, H
<1>6. CASE order = "paired" /\ head # "results" /\ ResultsOf(ids) # n
  <2>1. H = From(head, PairedOf(I), n) /\ n = <<>>
    BY <1>3, <1>6 DEF n
  <2>2. PICK pre \in {<<>>, <<Question>>} : H = pre \o PairedOf(I)
    BY <1>2, <1>6, <2>1, FromIs
  <2>3. PICK o, p : /\ Taken(pre \o PairedOf(I)) = Acc(o, p) /\ Proper(o, p, AskedOf(c))
                    /\ Settled(o, p, {}) /\ (I # <<>> => o # <<>>)
    BY <1>4 DEF PairedRun
  <2>4. o # <<>>
    BY <1>5, <1>6, <2>1, <2>3
  <2>5. Taken(H) = Acc(o, p)
    BY <2>2, <2>3
  <2> QED BY <2>3, <2>4, <2>5, InputTail DEF H
<1>7. CASE ~(order = "paired" /\ head # "results" /\ ResultsOf(ids) # n) /\ head # "results"
  <2>1. H = From(head, SaidOf(I), R)
    BY <1>3, <1>7
  <2>2. PICK pre \in {<<>>, <<Question>>} : H = (pre \o SaidOf(I)) \o R
    BY <1>2, <1>7, <2>1, FromIs
  <2> DEFINE h == pre \o SaidOf(I)
  <2>3. h \in Seq(EntryType)
    <3>1. pre \in Seq(EntryType) /\ SaidOf(I) \in Seq(EntryType)
      BY <1>2, <1>4
    <3> HIDE DEF EntryType
    <3> QED BY <3>1, Joined
  <2>4. PICK o : /\ Taken(h) = Acc(o, <<>>) /\ Proper(o, <<>>, AskedOf(c))
                 /\ Settled(o, <<>>, Named(ids))
    BY <1>4 DEF SaidRun, ids
  <2>5. H = h \o R
    BY <2>2
  <2> HIDE DEF h
  <2>6. LET r == ConvertInput(h \o R)
        IN  r[1].role = "user" /\ Uses(r) = AskedOf(c) /\ Answered(r)
    BY <1>1, <2>3, <2>4, InputTurn DEF R
  <2> QED BY <2>5, <2>6 DEF H
<1>8. CASE head = "results"
  <2>1. H = From(head, SaidOf(I), R)
    BY <1>3, <1>8
  <2>2. H = <<>> \o R
    BY <1>2, <1>8, <2>1, FromIs
  <2>3. <<>> \in {<<>>, <<Question>>}
    OBVIOUS
  <2>4. <<>> \in Seq(EntryType) /\ \E o : Taken(<<>>) = Acc(o, <<>>) /\ Proper(o, <<>>, <<>>)
    BY <2>3, HeadIs
  <2>5. ConvertInput(<<>> \o R)[1].role = "user"
    BY <1>1, <2>4, InputTurn DEF R
  <2> QED BY <1>8, <2>2, <2>5 DEF H
<1> QED BY <1>6, <1>7, <1>8 DEF H

\* The assistant's turn, in the history of a Chat Completions client.
LEMMA ChatRun ==
    ASSUME NEW pre \in {<<>>, <<Question>>}, NEW t \in Texts, NEW cs \in Seq(CallTexts)
    PROVE  LET h == pre \o <<Entry("assistant", t, cs, 0)>>
               ids == [n \in 1 .. Len(cs) |-> cs[n].id]
           IN  /\ h \in Seq(EntryType)
               /\ \E o : /\ Converted(h) = Acc(o, <<>>) /\ Proper(o, <<>>, UseBlocks(cs))
                         /\ Settled(o, <<>>, Named(ids))
<1> DEFINE e == Entry("assistant", t, cs, 0)
           h == pre \o <<e>>
           l == Len(cs)
           ids == [n \in 1 .. l |-> cs[n].id]
           n == <<>>
           c == TextBlocks(t) \o UseBlocks(cs)
           m == Message("assistant", c)
<1>1. e \in EntryType /\ e.role = "assistant" /\ e.text = t /\ e.calls = cs
  BY EntryTyped
<1>2. l \in Nat
  OBVIOUS
<1>3. PICK o : Converted(pre) = Acc(o, n) /\ Proper(o, n, n) /\ Settled(o, n, {})
  BY HeadIs
<1>4. pre \in Seq(EntryType)
  BY HeadIs
<1> HIDE DEF e
<1>5. h \in Seq(EntryType) /\ Converted(h) = ChatStep(Acc(o, n), e)
  BY <1>1, <1>3, <1>4, AfterOne
<1>6. ASSUME NEW acc PROVE ChatStep(acc, e) = Put(acc, m)
  BY <1>1 DEF ChatStep
<1>7. /\ c \in Seq(BlockT) /\ Tools(c) = UseBlocks(cs)
      /\ \A k \in DOMAIN c : c[k].type = "tool_use" => \E j \in 1 .. l : c[k].id = cs[j].id
  BY SaidIs
<1> HIDE DEF c, l
<1>8. m \in MessageType /\ m.role = "assistant" /\ m.content = c
  BY <1>7, MessageTyped
<1>9. m \in Assistants
  BY <1>8 DEF Assistants
<1> HIDE DEF m
<1>10. Len(ids) = l /\ \A j \in 1 .. l : ids[j] = cs[j].id
  BY <1>2
<1> HIDE DEF ids
<1>11. \A k \in DOMAIN m.content : m.content[k].type = "tool_use" => m.content[k].id \in Named(ids)
  BY <1>7, <1>8, <1>10 DEF Named
<1> DEFINE q == Append(Flushed(o, n), m)
<1>12. Converted(h) = Acc(q, n)
  BY <1>5, <1>6, StepsAre
<1>13. /\ Proper(q, n, n \o Tools(m.content))
       /\ \A owed : Settled(o, n, owed) /\ (n = <<>> \/ owed = {}) => Settled(q, n, owed \cup Named(ids))
  BY <1>3, <1>9, <1>11, SayKeeps
<1>14. n \o Tools(m.content) = UseBlocks(cs)
  <2>1. UseBlocks(cs) \in Seq(BlockT)
    BY UseBlocksAre
  <2>2. n \o UseBlocks(cs) = UseBlocks(cs)
    BY <2>1
  <2> QED BY <1>7, <1>8, <2>2
<1> HIDE DEF q
<1>15. Settled(q, n, {} \cup Named(ids))
  BY <1>3, <1>13
<1>16. {} \cup Named(ids) = Named(ids)
  OBVIOUS
<1> HIDE DEF n, h
<1>17. Proper(q, n, UseBlocks(cs)) /\ Settled(q, n, Named(ids))
  BY <1>13, <1>14, <1>15, <1>16
<1> QED BY <1>5, <1>12, <1>17 DEF n, h, ids, e, l

\* The history of a Chat Completions client.
LEMMA ChatHistoryIs ==
    ASSUME NEW t, NEW cs \in Seq(CallTexts), NEW f, ChatAnswer = Answer(t, cs, f),
           NEW head \in Heads, NEW note \in BOOLEAN, NEW order
    PROVE  LET ids == [n \in 1 .. Len(cs) |-> cs[n].id]
           IN  /\ ids \in Seq(Nat)
               /\ ChatHistory(head, note, order) =
                     From(head, <<Entry("assistant", t, cs, 0)>>, Replies(ReplyList(ids, note, order)))
<1> DEFINE l == Len(cs)
           ids == [n \in 1 .. l |-> cs[n].id]
           results == [n \in 1 .. l |-> Result(cs[n].id)]
<1>1. l \in Nat /\ DOMAIN cs = 1 .. l /\ \A n \in 1 .. l : cs[n].id \in Nat
  <2>1. l \in Nat /\ DOMAIN cs = 1 .. l /\ \A n \in 1 .. l : cs[n] \in CallTexts
    OBVIOUS
  <2> QED BY <2>1 DEF CallTexts
<1>2. ChatAnswer.text = t /\ ChatAnswer.calls = cs
  BY DEF Answer
<1>3. ChatHistory(head, note, order) =
         From(head, <<Entry("assistant", t, cs, 0)>>, Replies(Noted(Ordered(results, order), note)))
  BY <1>1, <1>2 DEF ChatHistory
<1> HIDE DEF l
<1>4. ids \in Seq(Nat)
  BY <1>1
<1>5. results = ResultsOf(ids)
  <2>1. DOMAIN ids = 1 .. l /\ \A n \in 1 .. l : ids[n] = cs[n].id
    OBVIOUS
  <2> HIDE DEF ids
  <2> QED BY <2>1 DEF ResultsOf
<1>6. Noted(Ordered(results, order), note) = ReplyList(ids, note, order)
  BY <1>5 DEF ReplyList
<1> HIDE DEF ids, results
<1> QED BY <1>3, <1>4, <1>6 DEF ids, l

\* The next turn of a Chat Completions client: the calls, answered, in one
\* message if no note splits their results.
LEMMA ChatNext ==
    ASSUME NEW t \in Texts, NEW cs \in Seq(CallTexts), NEW f, ChatAnswer = Answer(t, cs, f),
           NEW head \in Heads, NEW note \in BOOLEAN, NEW order
    PROVE  LET r == ConvertMessages(ChatHistory(head, note, order))
           IN  /\ r[1].role = "user"
               /\ \E k \in DOMAIN r[1].content : r[1].content[k].type # "tool_result"
               /\ head # "results" => /\ Uses(r) = UseBlocks(cs) /\ AnsweredLater(r)
                                      /\ ~note => Answered(r)
<1> DEFINE ids == [n \in 1 .. Len(cs) |-> cs[n].id]
           a == <<Entry("assistant", t, cs, 0)>>
           R == Replies(ReplyList(ids, note, order))
           H == ChatHistory(head, note, order)
<1>1. ids \in Seq(Nat) /\ H = From(head, a, R)
  BY ChatHistoryIs
<1>2. a \in Seq(EntryType)
  <2> DEFINE e == Entry("assistant", t, cs, 0)
  <2>1. e \in EntryType
    BY EntryTyped
  <2> HIDE DEF e, EntryType
  <2>2. <<e>> \in Seq(EntryType)
    BY <2>1
  <2> QED BY <2>2 DEF e
<1>3. R \in Seq(EntryType)
  BY <1>1, RepliesSeq
<1>4. \A pre \in {<<>>, <<Question>>} :
         /\ pre \o a \in Seq(EntryType)
         /\ \E o : /\ Converted(pre \o a) = Acc(o, <<>>) /\ Proper(o, <<>>, UseBlocks(cs))
                   /\ Settled(o, <<>>, Named(ids))
  BY ChatRun
<1> HIDE DEF ids, a, R, H
<1>5. CASE head # "results"
  <2>1. PICK pre \in {<<>>, <<Question>>} : H = (pre \o a) \o R
    BY <1>1, <1>2, <1>3, <1>5, FromIs
  <2> DEFINE h == pre \o a
  <2>2. h \in Seq(EntryType)
    BY <1>4
  <2>3. PICK o : /\ Converted(h) = Acc(o, <<>>) /\ Proper(o, <<>>, UseBlocks(cs))
                 /\ Settled(o, <<>>, Named(ids))
    BY <1>4
  <2>4. H = h \o R
    BY <2>1
  <2> HIDE DEF h
  <2>5. LET r == ConvertMessages(h \o R)
        IN  /\ r[1].role = "user"
            /\ \E k \in DOMAIN r[1].content : r[1].content[k].type # "tool_result"
            /\ Uses(r) = UseBlocks(cs) /\ AnsweredLater(r) /\ (~note => Answered(r))
    BY <1>1, <2>2, <2>3, ChatTurn DEF R
  <2> QED BY <2>4, <2>5 DEF H
<1>6. CASE head = "results"
  <2>1. H = <<>> \o R
    BY <1>1, <1>2, <1>3, <1>6, FromIs
  <2>2. <<>> \in {<<>>, <<Question>>}
    OBVIOUS
  <2>3. <<>> \in Seq(EntryType) /\ \E o : Converted(<<>>) = Acc(o, <<>>) /\ Proper(o, <<>>, <<>>)
    BY <2>2, HeadIs
  <2> DEFINE h == <<>>
  <2>4. PICK o : h \in Seq(EntryType) /\ Converted(h) = Acc(o, <<>>) /\ Proper(o, <<>>, <<>>)
    BY <2>3
  <2>5. H = h \o R
    BY <2>1
  <2> HIDE DEF h
  <2>6. LET r == ConvertMessages(h \o R)
        IN  /\ r[1].role = "user"
            /\ \E k \in DOMAIN r[1].content : r[1].content[k].type # "tool_result"
            /\ Uses(r) = <<>>
    BY <1>1, <2>4, ChatTurn DEF R
  <2> QED BY <1>6, <2>5, <2>6 DEF H
<1> QED BY <1>5, <1>6

-----------------------------------------------------------------------------
(* The calls of the answer, on the next turn *)

\* The calls a Chat Completions client has are the calls the upstream made.
LEMMA CallsAsked ==
    ASSUME SeamInv, Announced(Content, calls), AllDone
    PROVE  UseBlocks(CallsOf(calls)) = AskedOf(Content) /\ CallsOf(calls) \in Seq(CallTexts)
<1> DEFINE T == Tools(Content)
           cs == CallsOf(calls)
           l == Len(calls)
           u == UseBlocks(cs)
           v == [n \in 1 .. l |-> AskedBlock(T[n])]
<1>1. T \in Seq(ContentType)
  BY ToolsSeq
<1>2. calls \in Seq(CallType) /\ l \in Nat
  BY HearVars, ChatVars
<1>3. cs \in Seq(CallTexts) /\ Len(cs) = l
      /\ \A n \in 1 .. l : cs[n] = Call(calls[n].index,
                                        IF calls[n].closed THEN Chat!Arguments(calls[n]) ELSE <<>>)
  BY <1>2, CallsOfIs
<1>4. AskedOf(Content) = v
  BY DEF AskedOf, Announced
<1> HIDE DEF cs
<1>5. u \in Seq(BlockT) /\ Len(u) = l
      /\ \A n \in 1 .. l : u[n] = ContentBlock("tool_use", cs[n].id, InputOf(cs[n].arguments))
  BY <1>3, UseBlocksAre
<1>6. ASSUME NEW n \in 1 .. l PROVE u[n] = AskedBlock(T[n])
  <2> DEFINE a == ResolveArguments(T[n].parts, T[n].start)
  <2>1. Len(T) = l /\ calls[n].index = T[n].id /\ calls[n].accumulated = T[n].parts
        /\ calls[n].start = T[n].start
    BY DEF Announced
  <2>2. T[n] \in ContentType
    BY <1>1, <2>1
  <2>3. T[n].start \in Objects
    BY <2>2 DEF ContentType
  <2>4. a \in Objects
    BY <2>3, Resolved
  <2>5. Chat!Arguments(calls[n]) = a
    BY <2>1, ResolvesAlike DEF Chat!Arguments
  <2>6. calls[n].closed
    BY DEF AllDone
  <2> HIDE DEF T, a
  <2>7. cs[n] = Call(T[n].id, a)
    BY <1>3, <2>1, <2>5, <2>6
  <2>8. cs[n].id = T[n].id /\ InputOf(cs[n].arguments) = a
    BY <2>4, <2>7 DEF Call, InputOf
  <2>9. u[n] = ContentBlock("tool_use", T[n].id, a)
    BY <1>5, <2>8
  <2> QED BY <2>9 DEF AskedBlock, a
<1>7. u = [n \in 1 .. l |-> u[n]]
  <2> HIDE DEF u
  <2> QED BY <1>5
<1>8. u = v
  <2> HIDE DEF u
  <2> QED BY <1>6, <1>7
<1> QED BY <1>3, <1>4, <1>8 DEF cs

\* What both requests of the next turn are.
LEMMA TurnIs ==
    ASSUME AnswerInv, reason # "none", NEW head \in Heads, NEW note \in BOOLEAN, NEW order
    PROVE  LET c == ConvertMessages(ChatHistory(head, note, order))
               r == ConvertInput(ResponsesHistory(head, note, order))
           IN  /\ c[1].role = "user" /\ r[1].role = "user"
               /\ \E k \in DOMAIN c[1].content : c[1].content[k].type # "tool_result"
               /\ head # "results" => /\ Uses(c) = AskedOf(Content) /\ Uses(r) = AskedOf(Content)
                                      /\ Answered(r)
                                      /\ AnsweredLater(c) /\ (note \/ Answered(c))
<1>1. SeamInv /\ HasRead(Content, calls, chunks, Finished) /\ AllDone
      /\ Heard(events) = Response(ItemsOf(Content), reason)
  BY DEF AnswerInv, ReadInv, HearInv
<1>2. Announced(Content, calls)
      /\ Read(chunks) = Answer(TextOf(Content), CallsOf(calls), Finished)
  BY <1>1 DEF HasRead
<1>3. Content \in Seq(ContentType)
  BY <1>1, HearVars
<1>4. TextOf(Content) \in Texts
  BY <1>3, TextMore, TextsAre
<1>5. CallsOf(calls) \in Seq(CallTexts) /\ UseBlocks(CallsOf(calls)) = AskedOf(Content)
  BY <1>1, <1>2, CallsAsked
<1>6. ChatAnswer = Answer(TextOf(Content), CallsOf(calls), Finished)
  BY <1>2 DEF ChatAnswer, Read
<1>7. ResponsesAnswer.output = ItemsOf(Content)
  <2>1. ResponsesAnswer = Response(ItemsOf(Content), reason)
    BY <1>1 DEF ResponsesAnswer, Heard
  <2> QED BY <2>1 DEF Response
<1>8. LET c == ConvertMessages(ChatHistory(head, note, order))
      IN  /\ c[1].role = "user"
          /\ \E k \in DOMAIN c[1].content : c[1].content[k].type # "tool_result"
          /\ head # "results" => /\ Uses(c) = AskedOf(Content) /\ AnsweredLater(c)
                                 /\ ~note => Answered(c)
  BY <1>4, <1>5, <1>6, ChatNext
<1>9. LET r == ConvertInput(ResponsesHistory(head, note, order))
      IN  /\ r[1].role = "user"
          /\ head # "results" => Uses(r) = AskedOf(Content) /\ Answered(r)
  BY <1>3, <1>7, InputNext
<1> QED BY <1>8, <1>9

\* The calls asked are the message's.
LEMMA AskedIs ==
    ASSUME NEW c \in Seq(ContentType)
    PROVE  AskedOf(c) = [n \in DOMAIN Tools(c) |->
                            ContentBlock("tool_use", Tools(c)[n].id,
                                         ResolveArguments(Tools(c)[n].parts, Tools(c)[n].start))]
<1> DEFINE T == Tools(c)
           S == {b \in ContentType : b.type = "tool_use"}
<1>1. T \in Seq(S)
  BY ToolsMore
<1> HIDE DEF T, S
<1>2. DOMAIN T = 1 .. Len(T)
  BY <1>1
<1> QED BY <1>2 DEF AskedOf, AskedBlock, T

\* A turn is made once the body has ended, of an answer that no longer changes.
TurnInv == (turn # NoTurn => body = "ended") /\ CallsAnswered

\* The next turn gives every call back, answered.
LEMMA TurnMade ==
    ASSUME AnswerInv, NextTurn
    PROVE  TurnInv'
<1>1. PICK head \in Heads, note \in BOOLEAN, order \in Orders :
         /\ body = "ended" /\ reason # "none"
         /\ turn' = [head |-> head, note |-> note, order |-> order,
                     chat |-> ConvertMessages(ChatHistory(head, note, order)),
                     responses |-> ConvertInput(ResponsesHistory(head, note, order))]
         /\ UNCHANGED <<upstreamVars, chatVars, responsesVars, body>>
  BY DEF NextTurn
<1> DEFINE c == ConvertMessages(ChatHistory(head, note, order))
           r == ConvertInput(ResponsesHistory(head, note, order))
<1>2. /\ c[1].role = "user" /\ r[1].role = "user"
      /\ \E k \in DOMAIN c[1].content : c[1].content[k].type # "tool_result"
      /\ head # "results" => /\ Uses(c) = AskedOf(Content) /\ Uses(r) = AskedOf(Content)
                             /\ Answered(r)
                             /\ AnsweredLater(c) /\ (note \/ Answered(c))
  BY <1>1, TurnIs
<1> HIDE DEF c, r
<1>3. turn'.head = head /\ turn'.note = note /\ turn'.chat = c /\ turn'.responses = r
  BY <1>1 DEF c, r
<1>4. Content' = Content
  BY <1>1, ContentKept DEF upstreamVars
<1>5. Content \in Seq(ContentType)
  BY HearVars DEF AnswerInv
<1>6. \A m : Uses(m) = AskedOf(Content) =>
         Uses(m) = [n \in DOMAIN Tools(Content) |->
                       ContentBlock("tool_use", Tools(Content)[n].id,
                                    ResolveArguments(Tools(Content)[n].parts, Tools(Content)[n].start))]
  BY <1>5, AskedIs
<1>7. head # "results" => Asked(turn.chat)' /\ Asked(turn.responses)'
  BY <1>2, <1>3, <1>4, <1>6 DEF Asked
<1>8. head # "results" => /\ Answered(turn.responses)' /\ AnsweredLater(turn.chat)'
                          /\ note \/ Answered(turn.chat)'
  BY <1>2, <1>3 DEF Answered, AnsweredLater
<1>9. CallsAnswered'
  BY <1>2, <1>3, <1>7, <1>8 DEF CallsAnswered
<1>10. body' = "ended"
  BY <1>1
<1> QED BY <1>9, <1>10 DEF TurnInv

\* A turn made stays as it is.
LEMMA TurnKept ==
    ASSUME TurnInv, UNCHANGED vars
    PROVE  TurnInv'
<1>1. UNCHANGED <<turn, body>> /\ Content' = Content
  BY ContentKept DEF vars, upstreamVars
<1> QED BY <1>1 DEF TurnInv, CallsAnswered, Asked, Answered, AnsweredLater, NoTurn

\* Every step keeps it.
LEMMA TurnKeeps ==
    ASSUME AnswerInv, TurnInv, [Next]_vars
    PROVE  TurnInv'
<1>1. CASE UNCHANGED vars
  BY <1>1, TurnKept
<1>2. CASE NextTurn
  BY <1>2, TurnMade
<1>3. CASE Next /\ ~NextTurn
  <2>1. body = "open" /\ turn' = turn
    BY <1>3 DEF Next, MessageStart, ContentBlockStart, TextDelta, InputJsonDelta, ContentBlockStop,
                MessageDelta, MessageStop, Error, EndBody, BreakBody, Streams
  <2>2. turn = NoTurn
    BY <2>1 DEF TurnInv
  <2>3. turn' = NoTurn'
    BY <2>1, <2>2 DEF NoTurn
  <2> QED BY <2>3 DEF TurnInv, CallsAnswered
<1> QED BY <1>1, <1>2, <1>3

\* On the next turn the upstream is given back the calls it made, in order and
\* with the arguments it gave, each with its result in the first user message
\* after it, for answers of any number of blocks, any slips, and any order in
\* which the client replies; the conversation begins with the user, and in Chat
\* Completions not with results alone.  Where a Chat Completions client puts a
\* system message between results, it splits them, and each result comes in some
\* user message after its call (convert_messages, convert_input_items).
THEOREM CallsAreAnswered == Spec => []CallsAnswered
<1>1. Init => TurnInv
  BY DEF Init, TurnInv, CallsAnswered
<1>2. AnswerInv /\ TurnInv /\ [Next]_vars => TurnInv'
  BY TurnKeeps
<1>3. TurnInv => CallsAnswered
  BY DEF TurnInv
<1> QED BY <1>1, <1>2, <1>3, AnswerAlways, PTL DEF Spec
=============================================================================
