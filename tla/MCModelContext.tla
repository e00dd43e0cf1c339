--------------------------- MODULE MCModelContext ---------------------------
(* Small instances of ModelContext for TLC. *)
EXTENDS ModelContext

CONSTANTS c1, c2
=============================================================================
