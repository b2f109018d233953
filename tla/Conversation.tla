----------------------------- MODULE Conversation -----------------------------
(***************************************************************************)
(* A client of the Anthropic API converses with a model through the proxy  *)
(* (instance/handler.go, DoMessagesProxy and handleAnthropicNonStream): it *)
(* picks a model from the list it is shown, asks, runs the tools the       *)
(* answer calls for, and sends everything said so far again with their     *)
(* results.  The administrator edits the map of model names between        *)
(* conversations.                                                          *)
(*                                                                         *)
(* The client and the upstream are external: the client keeps to the       *)
(* Anthropic API (it answers every call of an answer that stopped for      *)
(* tools, and nothing else), the upstream to the OpenAI API (a choice with *)
(* calls finishes with tool_calls).  An image may come without its data, a *)
(* call with arguments that are no JSON, a choice without a message.       *)
(***************************************************************************)
EXTENDS ModelMap, MessageTranslation, FiniteSets

CONSTANTS ModelList,    \* Copilot's models, in the order of its list
          Names,        \* names models are displayed under
          MaxMappings,  \* bound: pairs in the map
          MaxTurns,     \* bound: questions in a conversation, the last unanswered
          MaxCalls,     \* bound: tool calls in an answer
          SystemLength, \* pieces in the client's system prompt
          Nothing       \* nothing picked, nothing asked

Models == ToSet(ModelList)
Pairs == [copilot : Models, display : Names]

ASSUME ConstantsAssumption ==
    /\ ModelList \in Seq(Names)
    /\ \A c \in Models : Undated(c) = c
    /\ {MaxMappings, MaxTurns, MaxCalls, SystemLength} \subseteq Nat

SystemPrompt == [i \in 1 .. SystemLength |-> <<"system", i>>]

VARIABLES
    map,      \* model_map.json
    picked,   \* the model the client picked and the name it was listed under
    history,  \* the messages the client keeps
    told,     \* what has to be sent of all that either side said so far
    pending,  \* the tool calls the client has to answer
    turn,     \* questions asked so far
    asked     \* the last request upstream: model, default limit, messages

conversationVars == <<map, picked, history, told, pending, turn, asked>>

ConversationInit ==
    /\ map = <<>>
    /\ picked = Nothing
    /\ history = <<>>
    /\ told = ToSet(SystemPrompt)
    /\ pending = <<>>
    /\ turn = 0
    /\ asked = Nothing
-----------------------------------------------------------------------------
(* The map, edited by the console *)

Between == picked = Nothing

SetModelMappings ==
    /\ Between
    /\ map' \in BoundedSeq(Pairs, MaxMappings)
    /\ UNCHANGED <<picked, history, told, pending, turn, asked>>

AddModelMapping ==
    /\ Between
    /\ \E pair \in Pairs :
         /\ Len(WithMapping(map, pair)) <= MaxMappings
         /\ map' = WithMapping(map, pair)
    /\ UNCHANGED <<picked, history, told, pending, turn, asked>>

DeleteModelMapping ==
    /\ Between
    /\ \E c \in Models : map' = WithoutModel(map, c)
    /\ UNCHANGED <<picked, history, told, pending, turn, asked>>
-----------------------------------------------------------------------------
(* The client *)

\* ModelsHandler lists each model under its display name; the client picks one.
PickModel ==
    /\ Between
    /\ \E c \in Models : picked' = [model |-> c, name |-> ToDisplayID(map, c)]
    /\ UNCHANGED <<map, history, told, pending, turn, asked>>

\* The two sides take turns: the upstream's is after a message of the client.
UpstreamsTurn == Len(history) % 2 = 1
ClientsTurn == picked # Nothing /\ turn < MaxTurns /\ ~UpstreamsTurn

Block(type, piece) == [type |-> type, piece |-> piece]
ImageBlock(piece, source) == [type |-> "image", piece |-> piece, source |-> source]

\* What the client may say in the turn n besides its results: a text, an image from
\* any source, both, or nothing.
Extras(n) ==
    LET text == Block("text", <<"text", n>>)
        images == { ImageBlock(<<"image", n>>, source) : source \in {"base64", "url", "none"} }
    IN { <<>>, <<text>> } \cup { <<image>> : image \in images }
                          \cup { <<text, image>> : image \in images }

\* Results of the pending calls, in any order, with or without content.
Results(n) ==
    { [i \in DOMAIN order |->
         [type |-> "tool_result", call |-> order[i],
          content |-> IF full THEN << <<"result", n, i>> >> ELSE <<>>]] :
      order \in SetToSeqs(ToSet(pending)), full \in BOOLEAN }

\* What of a block of the client, and of a call of the upstream, has to be sent:
\* the proxy has only the base64 data of an image and the arguments it can parse.
PiecesToSend(block) ==
    CASE block.type = "tool_result" -> ToSet(block.content)
      [] block.type = "image" ->
           CASE block.source = "base64" -> {block.piece}
             [] block.source = "url" -> {Emptied(block.piece)}
             [] OTHER -> {}
      [] OTHER -> {block.piece}

CallToSend(call) == IF call.valid THEN call.piece ELSE Emptied(call.piece)

PiecesOfContent(content) == UNION {PiecesToSend(content[i]) : i \in DOMAIN content}

\* DoMessagesProxy: the conversation is translated and sent.
Ask ==
    /\ ClientsTurn
    /\ \E extras \in Extras(turn), results \in Results(turn) :
         \E content \in {extras \o results, results \o extras} :
           /\ history' = Append(history, [role |-> "user", content |-> content])
           /\ told' = told \cup PiecesOfContent(content)
    /\ asked' = [model |-> MessagesModel(map, picked.name), limit |-> Nothing,
                 messages |-> TranslatedMessages(SystemPrompt, history')]
    /\ turn' = turn + 1
    /\ UNCHANGED <<map, picked, pending>>

\* DoCompletionsProxy: the same model asked by a client of the OpenAI API that
\* gives no limit, whose messages are passed on.
AskCompletions ==
    /\ ClientsTurn
    /\ turn = 0
    /\ asked' = [model |-> CompletionsModel(map, picked.name),
                 limit |-> LimitModel(map, ModelList, picked.name, Nothing), messages |-> <<>>]
    /\ turn' = MaxTurns
    /\ UNCHANGED <<map, picked, history, told, pending>>

\* DoEmbeddingsProxy: or is asked for embeddings.
AskEmbeddings ==
    /\ ClientsTurn
    /\ turn = 0
    /\ asked' = [model |-> CompletionsModel(map, picked.name), limit |-> Nothing,
                 messages |-> <<>>]
    /\ turn' = MaxTurns
    /\ UNCHANGED <<map, picked, history, told, pending>>

\* The answers the upstream may give in the turn n: a text or none, calls or none,
\* in one choice, or the calls in one of their own before or after; calls with
\* arguments that parse or not, a choice with nothing in it with a message or not.
AnswersOf(n) ==
    LET Calls(k, bad) == [i \in 1 .. k |-> [piece |-> <<"call", n, i>>, valid |-> i \notin bad]]
        Choice(message, text, calls, finish) ==
          [message |-> message, text |-> text, calls |-> calls, finish |-> finish]
        said == { <<TRUE, << <<"answer", n>> >> >>, <<TRUE, <<>> >>, <<FALSE, <<>> >> }
    IN { << Choice(s[1], s[2], <<>>, finish) >> : s \in said, finish \in {"stop", "length", "none"} }
       \cup UNION { UNION {
           { << Choice(TRUE, s[2], Calls(k, bad), "tool_calls") >>,
             << Choice(s[1], s[2], <<>>, finish), Choice(TRUE, <<>>, Calls(k, bad), "tool_calls") >>,
             << Choice(TRUE, <<>>, Calls(k, bad), "tool_calls"), Choice(s[1], s[2], <<>>, finish) >> } :
           s \in said, bad \in SUBSET (1 .. k), finish \in {"stop", "length", "tool_calls", "none"} } :
         k \in 1 .. MaxCalls }

\* handleAnthropicNonStream: the client gets the answer, keeps it, and has to run
\* the tools it calls if it stopped for that.
Answer ==
    /\ UpstreamsTurn
    /\ turn < MaxTurns
    /\ \E choices \in AnswersOf(turn) :
         LET answer == AnthropicAnswer(choices)
         IN /\ history' = Append(history, [role |-> "assistant", content |-> answer.content])
            /\ told' = told \cup UNION {
                   ToSet(choices[i].text)
                     \cup {CallToSend(choices[i].calls[j]) : j \in DOMAIN choices[i].calls} :
                   i \in DOMAIN choices}
            /\ pending' = IF answer.stop = "tool_use"
                          THEN PiecesOf(answer.content, {"tool_use"}) ELSE <<>>
    /\ UNCHANGED <<map, picked, turn, asked>>

ConversationNext ==
    \/ SetModelMappings \/ AddModelMapping \/ DeleteModelMapping
    \/ PickModel \/ Ask \/ AskCompletions \/ AskEmbeddings \/ Answer

ConversationSpec == ConversationInit /\ [][ConversationNext]_conversationVars
-----------------------------------------------------------------------------
(* Properties *)

\* What has just been sent upstream, if it was translated.
Sent == IF UpstreamsTurn THEN asked.messages ELSE <<>>

\* All that was said so far is sent again, once: every text, result, image with
\* base64 data and call with arguments that parse, an earlier answer's included, is
\* whole in exactly one place of one message.  Three things are not sent as they were
\* said: an image by URL is sent empty, an image without a source is not sent, and a
\* call with other arguments is kept and sent with none.
ResentOnce ==
    Sent # <<>> =>
        LET pieces == FlattenSeq([i \in DOMAIN Sent |-> Sent[i].parts \o Sent[i].calls])
        IN ToSet(pieces) = told /\ Len(pieces) = Cardinality(told)

\* The messages keep to the OpenAI API's rule for tools: the messages right after
\* one with tool calls answer these calls, each once, and no other message answers
\* a call; however the client orders results and text, and whichever of several
\* choices calls the tools.
ToolsAnswered ==
    \A i \in DOMAIN Sent :
        LET calls == ToSet(Sent[i].calls)
            n == Cardinality(calls)
        IN /\ i + n <= Len(Sent)
           /\ {Sent[j].answers : j \in i + 1 .. i + n} = calls
           /\ Sent[i].answers # NoCall =>
                \E j \in 1 .. i - 1 :
                    Sent[i].answers \in ToSet(Sent[j].calls) /\ i - j <= Len(Sent[j].calls)

\* The map leads back from a display name to one model: no two pairs share a model
\* or a name, no name is another model's own, and a dated name is its own model's.
MapIsSound ==
    \A i \in 1 .. Len(map) :
        /\ map[i].display \notin Models \ {map[i].copilot}
        /\ Undated(map[i].display) \in {map[i].display, map[i].copilot}
        /\ \A j \in (1 .. Len(map)) \ {i} :
             map[i].copilot # map[j].copilot /\ map[i].display # map[j].display

\* With such a map, a client that asks for a model by the name it was listed under
\* is served by that model, through either API, and is given that model's output
\* limit.
ServedAsListed ==
    (asked # Nothing /\ MapIsSound) =>
        asked.model = picked.model /\ asked.limit \in {picked.model, Nothing}

\* The same with any map the console accepts, "bidirectional" (README.md:23).
\* Refuted: nothing makes a map sound.
AlwaysServedAsListed ==
    asked # Nothing => asked.model = picked.model /\ asked.limit \in {picked.model, Nothing}
=============================================================================
