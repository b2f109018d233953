-------------------------- MODULE AnthropicStream --------------------------
(***************************************************************************)
(* What the client of a streamed messages request is promised: the block   *)
(* protocol of an Anthropic stream.  The message starts once; its content  *)
(* blocks are numbered 0, 1, ... and started, written and stopped one      *)
(* after another, each with one kind of content; the message is then       *)
(* stopped once.  If the upstream interleaves tool calls, or it has become  *)
(* unclear which of them a piece belongs to, a tool's block may be written *)
(* after it was stopped, but never a text's.                               *)
(***************************************************************************)
EXTENDS Naturals, FiniteSets

CONSTANTS
    Tool,     \* tool calls
    Indices   \* indices of blocks, 0 first

Text   == "text"
Unused == [kind |-> "none", writes |-> 0]  \* a block that was not started

VARIABLES
    phase,       \* "before", "content", "reason" or "stopped"
    blocks,      \* blocks[i]: the kind of block i and how often it was written
    open,        \* blocks started and not stopped
    received,    \* how many events the client has received
    failed,      \* whether an error event was among them
    late         \* whether a tool's block may be written after it was stopped

vars == <<phase, blocks, open, received, failed, late>>

Init ==
    /\ phase = "before"
    /\ blocks = [i \in Indices |-> Unused]
    /\ open = {} /\ received = 0 /\ failed = FALSE
    /\ late \in BOOLEAN

Event ==
    /\ ~failed
    /\ received' = received + 1
    /\ UNCHANGED late

MessageStart ==
    /\ Event /\ phase = "before"
    /\ phase' = "content"
    /\ UNCHANGED <<blocks, open, failed>>

BlockStart(i, kind) ==
    /\ Event /\ phase = "content"
    /\ open = {}
    /\ \A j \in Indices : j < i <=> blocks[j] # Unused
    /\ kind # Text => \A j \in Indices : blocks[j] # Unused => blocks[j].kind # kind
    /\ blocks' = [blocks EXCEPT ![i] = [kind |-> kind, writes |-> 0]]
    /\ open' = {i}
    /\ UNCHANGED <<phase, failed>>

BlockDelta(i, kind) ==
    /\ Event /\ phase = "content"
    /\ blocks[i] # Unused /\ blocks[i].kind = kind
    /\ ~late \/ kind = Text => i \in open
    /\ blocks' = [blocks EXCEPT ![i].writes = @ + 1]
    /\ UNCHANGED <<phase, open, failed>>

BlockStop(i) ==
    /\ Event /\ phase = "content"
    /\ open = {i}
    /\ open' = {}
    /\ UNCHANGED <<phase, blocks, failed>>

MessageDelta ==
    /\ Event /\ phase = "content"
    /\ open = {}
    /\ phase' = "reason"
    /\ UNCHANGED <<blocks, open, failed>>

MessageStop ==
    /\ Event /\ phase = "reason"
    /\ phase' = "stopped"
    /\ UNCHANGED <<blocks, open, failed>>

Error ==
    /\ Event /\ failed' = TRUE
    /\ UNCHANGED <<phase, blocks, open>>

\* It becomes unclear which tool call a piece belongs to.
Confuse ==
    /\ late' = TRUE
    /\ UNCHANGED <<phase, blocks, open, received, failed>>

Next ==
    \/ Confuse \/ MessageStart \/ MessageDelta \/ MessageStop \/ Error
    \/ \E i \in Indices :
          \/ BlockStop(i)
          \/ \E kind \in Tool \cup {Text} : BlockStart(i, kind) \/ BlockDelta(i, kind)

Spec == Init /\ [][Next]_vars
=============================================================================
