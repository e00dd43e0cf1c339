--------------------------- MODULE MCPromptSession ---------------------------
(* Small instances of PromptSession for TLC. *)
EXTENDS PromptSession, TLC

CONSTANTS c1, c2

\* one call or two, then a second turn whose call takes up a known identifier
MCBatches == <<{{c1}, {c1, c2}}, {{c1}}>>
=============================================================================
