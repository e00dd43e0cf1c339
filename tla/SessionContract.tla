--------------------------- MODULE SessionContract ---------------------------
(***************************************************************************)
(* What a session promises the client that prompts it: a tool call runs on *)
(* a permission the client gave for it, once for each, and only until the  *)
(* run is over; a prompt is answered when its run is over, with the way it *)
(* ended; and a run is cancelled only when somebody asked for it.          *)
(*                                                                         *)
(* The permissions and cancels of other prompts, the channels, the         *)
(* sessionState and its replacement by session/load do not show.           *)
(***************************************************************************)
EXTENDS Integers

CONSTANTS Prompts, Calls

VARIABLES
    status,   \* of each prompt: "none", "open" or the response to it
    granted,  \* permissions for each call that are not used up
    outcome,  \* how the run of the prompt ended, "none" before
    told,     \* prompts whose run has been told to stop
    lost      \* the connection is closed

contract == <<status, granted, outcome, told, lost>>

Responses == {"end_turn", "cancelled", "error"}

Init ==
    /\ status = [p \in Prompts |-> "none"]
    /\ granted = [p \in Prompts |-> [c \in Calls |-> 0]]
    /\ outcome = [p \in Prompts |-> "none"]
    /\ told = {} /\ lost = FALSE

\* session/prompt.
Prompt(p) ==
    /\ status[p] = "none" /\ ~lost
    /\ status' = [status EXCEPT ![p] = "open"]
    /\ UNCHANGED <<granted, outcome, told, lost>>

\* The run cannot be started.
Refuse(p) ==
    /\ status[p] = "open" /\ outcome[p] = "none"
    /\ granted[p] = [c \in Calls |-> 0]
    /\ status' = [status EXCEPT ![p] = "error"]
    /\ UNCHANGED <<granted, outcome, told, lost>>

\* The client allows a call of an open prompt.
Grant(p, c) ==
    /\ status[p] = "open" /\ ~lost
    /\ granted' = [granted EXCEPT ![p][c] = @ + 1]
    /\ UNCHANGED <<status, outcome, told, lost>>

\* An execution uses up a permission.
Execute(p, c) ==
    /\ outcome[p] = "none"
    /\ granted[p][c] > 0
    /\ granted' = [granted EXCEPT ![p][c] = @ - 1]
    /\ UNCHANGED <<status, outcome, told, lost>>

\* session/cancel reaches the run.
Tell(p) ==
    /\ status[p] # "none"
    /\ told' = told \cup {p}
    /\ UNCHANGED <<status, granted, outcome, lost>>

\* The run is over; it is cancelled only if it was told to stop or the client is gone.
RunOver(p, end) ==
    /\ status[p] # "none" /\ outcome[p] = "none"
    /\ end = "cancelled" => p \in told \/ lost
    /\ outcome' = [outcome EXCEPT ![p] = end]
    /\ UNCHANGED <<status, granted, told, lost>>

\* The response says how the run ended. A client that is gone waits for nothing.
Answer(p) ==
    /\ status[p] = "open"
    /\ \/ /\ outcome[p] # "none"
          /\ status' = [status EXCEPT ![p] = outcome[p]]
       \/ /\ lost
          /\ status' = [status EXCEPT ![p] = "cancelled"]
    /\ UNCHANGED <<granted, outcome, told, lost>>

Lose ==
    /\ ~lost
    /\ lost' = TRUE
    /\ UNCHANGED <<status, granted, outcome, told>>

Next ==
    \/ \E p \in Prompts :
         \/ Prompt(p) \/ Refuse(p) \/ Tell(p) \/ Answer(p)
         \/ \E c \in Calls : Grant(p, c) \/ Execute(p, c)
         \/ \E end \in Responses : RunOver(p, end)
    \/ Lose

Spec == Init /\ [][Next]_contract
=============================================================================
