---------------------------- MODULE MCSessionFile ----------------------------
(* Small instances of SessionFile for TLC. *)
EXTENDS SessionFile

CONSTANTS m1, m2, m3

\* A message shorter than a chunk, one that fills a chunk, one that needs two.
MCMessages == {m1, m2, m3}
MCSize == [m \in MCMessages |-> CASE m = m1 -> 1 [] m = m2 -> 3 [] OTHER -> 4]
MCTokens == [m \in MCMessages |-> IF m = m3 THEN 2 ELSE 1]
MCBudgets == {0, 2, 3}
=============================================================================
