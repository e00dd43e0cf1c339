----------------------------- MODULE RunContract -----------------------------
(***************************************************************************)
(* What one agent run promises about tool calls, without channels, events  *)
(* or storage: the model's calls are settled as a whole before any of them *)
(* runs, only allowed calls run and each runs once, and the model is asked *)
(* again only when every call it made was allowed and has run.             *)
(***************************************************************************)
EXTENDS Naturals

CONSTANT CallIDs

VARIABLES
    status,     \* "thinking" | "asking" | "acting" | "over"
    asked,      \* the calls of the current response
    allowed,    \* those of them that were approved
    ran,        \* those of them that have run
    executions  \* how often each call ID has run, over the whole run

vars == <<status, asked, allowed, ran, executions>>

Init ==
    /\ status = "thinking"
    /\ asked = {} /\ allowed = {} /\ ran = {}
    /\ executions = [c \in CallIDs |-> 0]

Ask(S) ==
    /\ status = "thinking"
    /\ S # {}
    /\ status' = "asking"
    /\ asked' = S
    /\ UNCHANGED <<allowed, ran, executions>>

Settle(A) ==
    /\ status = "asking"
    /\ A \subseteq asked
    /\ status' = "acting"
    /\ allowed' = A
    /\ UNCHANGED <<asked, ran, executions>>

Run(c) ==
    /\ status = "acting"
    /\ c \in allowed \ ran
    /\ ran' = ran \cup {c}
    /\ executions' = [executions EXCEPT ![c] = @ + 1]
    /\ UNCHANGED <<status, asked, allowed>>

Forget == asked' = {} /\ allowed' = {} /\ ran' = {} /\ UNCHANGED executions

Resume ==
    /\ status = "acting"
    /\ ran = asked
    /\ status' = "thinking"
    /\ Forget

\* A run may end at any time: an answer, a cancel, a failure, a denied call.
End ==
    /\ status # "over"
    /\ status' = "over"
    /\ Forget

Next ==
    \/ \E S \in SUBSET CallIDs : Ask(S) \/ Settle(S)
    \/ \E c \in CallIDs : Run(c)
    \/ Resume
    \/ End

Spec == Init /\ [][Next]_vars
=============================================================================
