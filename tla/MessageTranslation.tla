-------------------------- MODULE MessageTranslation --------------------------
(***************************************************************************)
(* Anthropic messages as OpenAI messages (anthropic/translate_request.go), *)
(* and an OpenAI answer as an Anthropic one (translate_response.go,        *)
(* utils.go).                                                              *)
(*                                                                         *)
(* A piece stands for a text, an image, or a tool call with its ID and     *)
(* arguments; Emptied(p) stands for the same image or call without its     *)
(* contents.  A block is [type, piece], an image [type, piece, source], a  *)
(* tool result [type, call, content] with the texts it contains, an        *)
(* Anthropic message [role, content] with a sequence of blocks, a string   *)
(* being a single text block.  An OpenAI message has the pieces of its     *)
(* content, its tool calls, and the call that it answers, if it does.      *)
(***************************************************************************)
EXTENDS SequencesExt

CONSTANT NoCall  \* the call that a message which answers none answers

OpenAIMessage(role, parts, calls, answers) ==
    [role |-> role, parts |-> parts, calls |-> calls, answers |-> answers]

Emptied(piece) == <<"emptied", piece>>

\* The pieces of the blocks of the types given, in order.
PiecesOf(blocks, types) ==
    FlattenSeq([i \in DOMAIN blocks |->
        IF blocks[i].type \in types THEN << blocks[i].piece >> ELSE <<>>])

\* mapContentBlocks: texts, thinking and images are kept, any other block is dropped.
\* An image becomes a data URL of its source's base64 data: an empty one if the
\* source is a URL, none at all if it has no source.
ContentOf(block) ==
    IF block.type = "image"
    THEN IF block.source = "none" THEN <<>>
         ELSE << IF block.source = "base64" THEN block.piece ELSE Emptied(block.piece) >>
    ELSE IF block.type \in {"text", "thinking"} THEN << block.piece >> ELSE <<>>

ContentPieces(blocks) == FlattenSeq([i \in DOMAIN blocks |-> ContentOf(blocks[i])])

\* convertAssistantMessage: one message, the texts before the thinking.
AssistantMessage(message) ==
    LET blocks == message.content
    IN << OpenAIMessage("assistant",
                        PiecesOf(blocks, {"text"}) \o PiecesOf(blocks, {"thinking"}),
                        PiecesOf(blocks, {"tool_use"}), NoCall) >>

\* A message for each tool result.
ToolMessages(blocks) ==
    FlattenSeq([i \in DOMAIN blocks |->
        IF blocks[i].type = "tool_result"
        THEN << OpenAIMessage("tool", blocks[i].content, <<>>, blocks[i].call) >> ELSE <<>>])

\* Mutant form: a message with tool results is taken to have nothing else.
UserResultsOnly(message) ==
    LET blocks == message.content
    IN IF ToolMessages(blocks) # <<>> THEN ToolMessages(blocks)
       ELSE << OpenAIMessage("user", ContentPieces(blocks), <<>>, NoCall) >>

\* handleUserMessage: the messages of the tool results, then one with whatever else
\* there is; an empty one if there is nothing.
UserMessages(message) ==
    LET blocks == message.content
        hasOthers == \E i \in DOMAIN blocks : blocks[i].type # "tool_result"
    IN ToolMessages(blocks)
       \o IF hasOthers \/ blocks = <<>>
          THEN << OpenAIMessage("user", ContentPieces(blocks), <<>>, NoCall) >>
          ELSE <<>>

\* handleSystemPrompt: an empty prompt makes no message.
SystemMessages(system) ==
    IF system = <<>> THEN <<>> ELSE << OpenAIMessage("system", system, <<>>, NoCall) >>

\* convertMessage of another role: one message with its texts.
OtherMessage(message) ==
    << OpenAIMessage(message.role, PiecesOf(message.content, {"text"}), <<>>, NoCall) >>

\* translateAnthropicMessagesToOpenAI.
MessagesOf(message) ==
    IF message.role = "user" THEN UserMessages(message)
    ELSE IF message.role = "assistant" THEN AssistantMessage(message)
    ELSE OtherMessage(message)

TranslatedMessages(system, messages) ==
    SystemMessages(system) \o FlattenSeq([i \in DOMAIN messages |-> MessagesOf(messages[i])])
-----------------------------------------------------------------------------
(* An answer: a sequence of choices [message, text, calls, finish]: whether it *)
(* has a message; the pieces of its text and the calls [piece, valid] in it,   *)
(* with arguments that parse as JSON or not, none without a message; and why   *)
(* it finished, "none" if it does not say.                                     *)

\* parseJSONSafe: arguments that do not parse become {}.
ParseJSONSafe(call) == IF call.valid THEN call.piece ELSE Emptied(call.piece)

Blocks(type, pieces) == [i \in DOMAIN pieces |-> [type |-> type, piece |-> pieces[i]]]

ToolUseBlocks(calls) == Blocks("tool_use", [i \in DOMAIN calls |-> ParseJSONSafe(calls[i])])

\* mapOpenAIStopReasonToAnthropicPtr.
StopReason(finish) ==
    CASE finish = "none" -> "none"
      [] finish = "length" -> "max_tokens"
      [] finish = "tool_calls" -> "tool_use"
      [] OTHER -> "end_turn"

\* Mutant form: the reason is the first choice's.
FirstFinishReason(choices) == choices[1].finish

\* The reason of the first choice, or a later one's that says tool_calls, or that
\* follows a stop or no reason at all; not that of a choice without a message.
FinishReason(choices) ==
    LET Later(reason, choice) ==
          IF /\ choice.message /\ choice.finish # "none"
             /\ choice.finish = "tool_calls" \/ reason \in {"none", "stop"}
          THEN choice.finish ELSE reason
    IN FoldLeft(Later, choices[1].finish, choices)

\* TranslateToAnthropic: the texts of all choices, then their tool calls.
AnthropicAnswer(choices) ==
    [content |-> FlattenSeq([i \in DOMAIN choices |-> Blocks("text", choices[i].text)])
                 \o FlattenSeq([i \in DOMAIN choices |-> ToolUseBlocks(choices[i].calls)]),
     stop |-> StopReason(FinishReason(choices))]
=============================================================================
