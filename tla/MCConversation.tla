---------------------------- MODULE MCConversation ----------------------------
(* Conversation for TLC: one model has a dated name. *)
EXTENDS Conversation

MCUndated(n) == IF n = "sonnet-20250514" THEN "sonnet" ELSE n
MCModelList == <<"sonnet", "gpt">>
=============================================================================
