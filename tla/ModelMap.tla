------------------------------- MODULE ModelMap -------------------------------
(***************************************************************************)
(* The names under which Copilot's models are shown and asked for          *)
(* (store/model_map.go), and what a request makes of a name                *)
(* (translate_request.go, request_prep.go).  A map is a sequence of        *)
(* [copilot, display] pairs; a lookup takes the first that fits.           *)
(***************************************************************************)
EXTENDS Naturals, Sequences, SequencesExt

CONSTANTS Undated(_)  \* NormalizeAnthropicModelName: a Claude name without its date

\* The first pair of the map with the value v in the field f, or the pair d.
FirstPair(map, f, v, d) ==
    LET Fits(m) == m[f] = v
        i == SelectInSeq(map, Fits)
    IN IF i = 0 THEN d ELSE map[i]

ToDisplayID(map, c) == FirstPair(map, "copilot", c, [copilot |-> c, display |-> c]).display

\* Mutant form: the name is looked for among the models.
ToModelOfSameID(map, d) == FirstPair(map, "copilot", d, [copilot |-> d, display |-> d]).copilot

ToCopilotID(map, d) == FirstPair(map, "display", d, [copilot |-> d, display |-> d]).copilot

\* AddModelMapping replaces the first pair of the same model, or is appended.
WithMapping(map, pair) ==
    LET Same(m) == m.copilot = pair.copilot
        i == SelectInSeq(map, Same)
    IN IF i = 0 THEN Append(map, pair) ELSE [map EXCEPT ![i] = pair]

\* DeleteModelMapping.
WithoutModel(map, c) ==
    FlattenSeq([i \in DOMAIN map |-> IF map[i].copilot # c THEN <<map[i]>> ELSE <<>>])

\* DoMessagesProxy: the model asked for a name; the date goes first.
MessagesModel(map, name) == ToCopilotID(map, Undated(name))

\* rewriteCompletionsPayload: the model, and the model whose output limit is the
\* default: the first listed that has the name for its own or is mapped, or none.
CompletionsModel(map, name) == ToCopilotID(map, name)
LimitModel(map, models, name, none) ==
    LET Fits(c) == c \in {name, ToCopilotID(map, name)}
        i == SelectInSeq(models, Fits)
    IN IF i = 0 THEN none ELSE models[i]
=============================================================================
