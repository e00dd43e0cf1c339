-------------------------------- MODULE Queues --------------------------------
(* Counting what waits in a channel. *)
EXTENDS Integers, Sequences, FiniteSets

\* The places of x in the sequence q.
Places(q, x) == {i \in 1 .. Len(q) : q[i] = x}

HowMany(q, x) == Cardinality(Places(q, x))
===============================================================================
