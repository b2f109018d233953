------------------------ MODULE MCStreamTranslation ------------------------
(* An answer with text and two tool calls, in up to four chunks. *)
EXTENDS StreamTranslation
CONSTANTS t1, t2
TwoTools == {t1, t2}
=============================================================================
