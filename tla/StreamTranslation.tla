------------------------- MODULE StreamTranslation -------------------------
(***************************************************************************)
(* The answer to a streamed messages request (anthropic/                   *)
(* stream_translation.go, and handleAnthropicStream in instance/           *)
(* handler.go): chunks of an OpenAI stream are read one by one, each is    *)
(* translated to Anthropic events, and the events are written one by one.  *)
(* Texts, arguments, names and token counts are left out.                  *)
(***************************************************************************)
EXTENDS Naturals, SequencesExt

CONSTANTS
    Tool,      \* the tool calls of the answer, and their indices
    First,     \* the one with index 0
    MaxChunks  \* bound: chunks with content

Text   == "text"
Unused == [kind |-> "none", writes |-> 0]

ASSUME FirstAssumption == First \in Tool /\ IsFiniteSet(Tool)
ASSUME ToolAssumption == {Text, Unused.kind} \cap Tool = {}
ASSUME ChunksAssumption == MaxChunks \in Nat

\* A chunk starts a block for text, a tool call one of its own.
Indices == 0 .. MaxChunks + Cardinality(Tool)
NoBlock == MaxChunks + Cardinality(Tool) + 1

VARIABLES
    state,        \* the AnthropicStreamState
    pending,      \* events of the current chunk that are not yet written
    status,       \* "reading", or how the handler has ended
    \* The upstream.
    chunks,       \* chunks read
    announced,    \* tool calls whose ID and name were sent
    current,      \* the tool call last written, since the last text; or {}
    finished,     \* whether a finish_reason was sent
    indexed,      \* whether it numbers tool calls: a missing index reads as 0
    \* The client, and ghosts.
    phase, blocks, open, received, failed,
    interleaved,  \* whether the upstream interleaves tool calls
    content,      \* content[k]: pieces of kind k in the chunks that could be parsed
    nameless,     \* tool calls whose ID and name were in a chunk that could not be parsed
    lost          \* whether a chunk could not be parsed

upstream == <<chunks, announced, current, finished>>
client   == <<phase, blocks, open, received, failed>>
ghosts   == <<content, nameless, lost>>
vars     == <<state, pending, status, upstream, indexed, client, interleaved, ghosts>>

Slot(t) == IF indexed THEN t ELSE First

NewStreamState ==
    [started |-> FALSE, index |-> 0, open |-> FALSE, tools |-> [t \in Tool |-> NoBlock]]

Init ==
    /\ state = NewStreamState
    /\ pending = <<>> /\ status = "reading"
    /\ chunks = 0 /\ announced = {} /\ current = {} /\ finished = FALSE
    /\ indexed \in BOOLEAN /\ interleaved \in BOOLEAN /\ (interleaved => indexed)
    /\ phase = "before" /\ blocks = [i \in Indices |-> Unused]
    /\ open = {} /\ received = 0 /\ failed = FALSE
    /\ content = [k \in Tool \cup {Text} |-> 0]
    /\ nameless = {} /\ lost = FALSE

-----------------------------------------------------------------------------
(* The upstream's chunks.  A tool call comes with its ID and name first,   *)
(* and then with arguments; unless calls are interleaved, only the last    *)
(* one gets arguments, and no text comes between.                          *)

Call == [tool : Tool, named : BOOLEAN, args : BOOLEAN]
Calls == {<<>>} \cup {<<x>> : x \in Call} \cup {<<x, y>> : x, y \in Call}
Chunk == [text : BOOLEAN, calls : Calls, finish : BOOLEAN]

\* Call x may follow the calls of these tools, the last of which is cur.
Follows(x, tools, cur) ==
    /\ x.named <=> x.tool \notin tools
    /\ x.named \/ x.args
    /\ ~x.named => interleaved \/ cur = {x.tool}

Sendable(chunk) ==
    LET tools(i) == announced \cup {chunk.calls[j].tool : j \in 1 .. i - 1}
        cur(i)   == IF i > 1 THEN {chunk.calls[i - 1].tool}
                    ELSE IF chunk.text THEN {} ELSE current
    IN  /\ ~finished
        /\ \A i \in 1 .. Len(chunk.calls) : Follows(chunk.calls[i], tools(i), cur(i))

Send(chunk) ==
    /\ chunks < MaxChunks /\ chunks' = chunks + 1
    /\ Sendable(chunk)
    /\ announced' = announced \cup {chunk.calls[i].tool : i \in 1 .. Len(chunk.calls)}
    /\ current' = IF chunk.calls # <<>> THEN {chunk.calls[Len(chunk.calls)].tool}
                  ELSE IF chunk.text THEN {} ELSE current
    /\ finished' = chunk.finish
    /\ UNCHANGED <<indexed, interleaved>>

\* How many pieces of a kind a chunk carries.
Carried(chunk, kind) ==
    IF kind = Text
    THEN IF chunk.text THEN 1 ELSE 0
    ELSE Cardinality({i \in DOMAIN chunk.calls :
                        chunk.calls[i].tool = kind /\ chunk.calls[i].args})

NamedIn(chunk) ==
    {t \in Tool : \E i \in DOMAIN chunk.calls : chunk.calls[i].tool = t /\ chunk.calls[i].named}

-----------------------------------------------------------------------------
(* TranslateChunkToAnthropicEvents.  A result r is the state after the     *)
(* events r.events.                                                        *)

Ev(type, i, kind) == [type |-> type, index |-> i, kind |-> kind]
Message(type) == Ev(type, NoBlock, Text)

Emit(r, e) == [r EXCEPT !.events = Append(@, e)]

MessageStarted(r) ==
    IF r.state.started THEN r
    ELSE [Emit(r, Message("message_start")) EXCEPT !.state.started = TRUE]

\* Mutant form: the index is left where it is.
StoppedInPlace(r, increment) ==
    IF ~r.state.open THEN r
    ELSE [Emit(r, Ev("block_stop", r.state.index, Text)) EXCEPT !.state.open = FALSE]

\* stopContentBlock.
Stopped(r, increment) ==
    IF ~r.state.open THEN r
    ELSE [Emit(r, Ev("block_stop", r.state.index, Text)) EXCEPT
             !.state.open = FALSE,
             !.state.index = IF increment THEN @ + 1 ELSE @]

\* Mutant form: no block is taken for a tool call's.
IsToolBlockOpenNever(s) == FALSE

\* isToolBlockOpen: the current index is a tool call's, open or not.
IsToolBlockOpen(s) == \E t \in Tool : s.tools[t] = s.index

Started(r, kind) ==
    [Emit(r, Ev("block_start", r.state.index, kind)) EXCEPT !.state.open = TRUE]

Written(r, i, kind) == Emit(r, Ev("block_delta", i, kind))

TextTranslated(r) ==
    LET closed == IF IsToolBlockOpen(r.state) THEN Stopped(r, TRUE) ELSE r
        opened == IF closed.state.open THEN closed ELSE Started(closed, Text)
    IN  Written(opened, opened.state.index, Text)

CallOpened(r, x) ==
    LET closed == Stopped(r, TRUE)
    IN  [Started(closed, x.tool) EXCEPT !.state.tools[Slot(x.tool)] = closed.state.index]

\* Mutant form: the call is taken to be in the map.
CallTranslatedUnchecked(r, x) ==
    LET named == IF x.named THEN CallOpened(r, x) ELSE r
    IN  IF x.args THEN Written(named, named.state.tools[Slot(x.tool)], x.tool) ELSE named

\* Arguments of a call that was never named are dropped.
CallTranslated(r, x) ==
    LET named == IF x.named THEN CallOpened(r, x) ELSE r
        i     == named.state.tools[Slot(x.tool)]
    IN  IF x.args /\ i # NoBlock THEN Written(named, i, x.tool) ELSE named

Finished(r) ==
    Emit(Emit(Stopped(r, FALSE), Message("message_delta")), Message("message_stop"))

Translated(chunk) ==
    LET r0 == MessageStarted([state |-> state, events |-> <<>>])
        r1 == IF chunk.text THEN TextTranslated(r0) ELSE r0
        r2 == FoldLeft(CallTranslated, r1, chunk.calls)
    IN  IF chunk.finish THEN Finished(r2) ELSE r2

-----------------------------------------------------------------------------
(* The loop of handleAnthropicStream. *)

ReadChunk(chunk) ==
    /\ status = "reading" /\ pending = <<>>
    /\ Send(chunk)
    /\ LET r == Translated(chunk)
       IN  state' = r.state /\ pending' = r.events
    /\ content' = [kind \in DOMAIN content |-> content[kind] + Carried(chunk, kind)]
    /\ UNCHANGED <<status, client, nameless, lost>>

\* A chunk that cannot be parsed is logged and skipped.
SkipChunk(chunk) ==
    /\ status = "reading" /\ pending = <<>>
    /\ Send(chunk)
    /\ nameless' = nameless \cup NamedIn(chunk) /\ lost' = TRUE
    /\ UNCHANGED <<state, pending, status, client, content>>

\* What the client makes of an event.
Receive(e) ==
    /\ received' = received + 1
    /\ phase' = CASE e.type = "message_start" -> "content"
                  [] e.type = "message_delta" -> "reason"
                  [] e.type = "message_stop"  -> "stopped"
                  [] OTHER -> phase
    /\ blocks' = CASE e.type = "block_start" -> [blocks EXCEPT ![e.index] = [kind |-> e.kind, writes |-> 0]]
                   [] e.type = "block_delta" -> [blocks EXCEPT ![e.index].writes = @ + 1]
                   [] OTHER -> blocks
    /\ open' = CASE e.type = "block_start" -> open \cup {e.index}
                 [] e.type = "block_stop"  -> open \ {e.index}
                 [] OTHER -> open
    /\ UNCHANGED failed

\* writeSSE.
WriteEvent ==
    /\ status = "reading" /\ pending # <<>>
    /\ Receive(Head(pending))
    /\ pending' = Tail(pending)
    /\ UNCHANGED <<state, status, upstream, indexed, interleaved, ghosts>>

End(how) ==
    /\ status = "reading"
    /\ status' = how
    /\ UNCHANGED <<state, pending, upstream, indexed, client, interleaved, ghosts>>

\* The client has gone, before a chunk is read or while its events are written.
ClientGone == End("gone")

\* [DONE], or the end of the body.
StreamDone == pending = <<>> /\ End("done")

\* The body breaks off: an error event, which may fail to be written.
StreamBroken ==
    /\ status = "reading" /\ pending = <<>>
    /\ status' = "broken"
    /\ failed' = TRUE /\ received' = received + 1
    /\ UNCHANGED <<state, pending, upstream, indexed, phase, blocks, open, interleaved, ghosts>>

Next ==
    \/ \E chunk \in Chunk : ReadChunk(chunk) \/ SkipChunk(chunk)
    \/ WriteEvent
    \/ ClientGone \/ StreamDone \/ StreamBroken

Spec == Init /\ [][Next]_vars

-----------------------------------------------------------------------------
(* Properties. *)

Event ==
    [type : {"message_start", "message_delta", "message_stop"}, index : {NoBlock}, kind : {Text}]
    \cup [type : {"block_start", "block_delta", "block_stop"}, index : Indices, kind : Tool \cup {Text}]

\* Types.  Block indices stay within those the chunks can use.
TypeOK ==
    /\ state \in [started : BOOLEAN, index : Indices, open : BOOLEAN,
                   tools : [Tool -> Indices \cup {NoBlock}]]
    /\ pending \in Seq(Event)
    /\ status \in {"reading", "gone", "done", "broken"}
    /\ chunks \in 0 .. MaxChunks
    /\ announced \subseteq Tool /\ current \subseteq announced
    /\ {finished, indexed, failed, interleaved, lost} \subseteq BOOLEAN
    /\ phase \in {"before", "content", "reason", "stopped"}
    /\ blocks \in [Indices -> {Unused} \cup [kind : Tool \cup {Text}, writes : Nat]]
    /\ open \subseteq Indices
    /\ received \in Nat
    /\ content \in [Tool \cup {Text} -> Nat] /\ nameless \subseteq announced

\* What the client receives is an Anthropic stream, event by event, whatever
\* chunks of text, tool calls and their arguments the upstream makes of the
\* answer and even if some cannot be parsed (stream_translation.go:9, 85, 123).  A
\* chunk lost of an answer whose tool calls are not numbered makes later arguments
\* go to the call before, whose block may have been stopped.
Stream == INSTANCE AnthropicStream WITH late <- interleaved \/ (lost /\ ~indexed)
StreamIsAnthropic == Stream!Spec

Writes(kind) ==
    MapThenSumSet(LAMBDA i : blocks[i].writes, {i \in Indices : blocks[i].kind = kind})

\* Once the events of a chunk are written, the client has every piece of text that
\* the parsed chunks so far have carried, and every piece of the arguments of each
\* tool call, in blocks of its own kind and tool call: closing a block for another
\* loses nothing (stream_translation.go:74-83, 105, 128).  Two exceptions: of a call
\* whose ID and name were in a chunk that could not be parsed, nothing arrives (117);
\* and when any chunk was lost of an answer that does not number its calls, which
\* call gets what is not said.
ContentArrives ==
    (status = "reading" /\ pending = <<>>) =>
        /\ Writes(Text) = content[Text]
        /\ indexed \/ ~lost =>
             \A t \in Tool : Writes(t) = IF t \in nameless THEN 0 ELSE content[t]
=============================================================================
