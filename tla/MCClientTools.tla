---------------------------- MODULE MCClientTools ----------------------------
(* A small instance of ClientTools for TLC. *)
EXTENDS ClientTools
=============================================================================
