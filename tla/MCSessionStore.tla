--------------------------- MODULE MCSessionStore ---------------------------
(* A small instance of SessionStore for TLC. *)
EXTENDS SessionStore, TLC

CONSTANTS p1, p2, p3, g1, g2

Symmetry == Permutations({p2, p3}) \cup Permutations({g1, g2})
=============================================================================
