----------------------------- MODULE ClientTools -----------------------------
(***************************************************************************)
(* The tools that run on the client's side: ToolExecutor                   *)
(* (internal/protocol/executor.go), which a run uses instead of the        *)
(* built-in tools when the client has files or terminals.  A call is a     *)
(* chain of requests to the client, each of which may end with an error:   *)
(* refused, garbled, never sent, or not answered within the two minutes of *)
(* the call (internal/agent/tools.go).                                     *)
(*                                                                         *)
(* The client is external.  It handles each request in a goroutine of its  *)
(* own, so a request of a call that was given up may be handled at any     *)
(* later time.  There is one file; a write is known by its call's number.  *)
(***************************************************************************)
EXTENDS Naturals, Sequences

CONSTANTS
    MayFail,   \* requests may be refused, answered with garbage, or time out
    MaxCalls   \* bound: tool calls of a run

ASSUME MayFailAssumption == MayFail \in BOOLEAN
ASSUME MaxCallsAssumption == MaxCalls \in Nat

Calls == 1 .. MaxCalls
Methods == {"read", "write", "create", "wait", "output", "release"}

VARIABLES
    n,        \* number of the call, and of the terminal it creates
    step,     \* the method of the request that is awaited, "idle" between calls
    got,      \* "none", "part" or "whole": the output of the terminal, once it was received
    results,  \* what each call returned: a read has content, a command has output
    sent,     \* requests the client has not handled
    replies,  \* answers on their way
    term,     \* terminals of the client
    file,     \* the write that made the content of the file, 0 at first
    undone    \* history: requests that were refused or never sent

execVars == <<n, step, got, results>>
wireVars == <<sent, replies, undone>>
clientVars == <<term, file>>
vars == <<execVars, wireVars, clientVars>>

Req(method) == [method |-> method, call |-> n]

Init ==
    /\ n = 0 /\ step = "idle" /\ got = "none" /\ results = <<>>
    /\ sent = {} /\ replies = {} /\ undone = {}
    /\ term = [c \in Calls |-> "none"]
    /\ file = 0

\* The operators named ...Fault are faults a change of the code could bring in;
\* no specification uses them.

-----------------------------------------------------------------------------
(* The executor. *)

First(tool) == IF tool = "command" THEN "create" ELSE tool
ToolOf(method) == IF method \in {"read", "write"} THEN method ELSE "command"

\* Execute sends the first request of a tool.
Execute(tool) ==
    /\ step = "idle" /\ n < MaxCalls
    /\ n' = n + 1
    /\ step' = First(tool)
    /\ sent' = sent \cup {[method |-> First(tool), call |-> n + 1]}
    /\ UNCHANGED <<got, results, replies, undone, clientVars>>

Return(tool, ok, content, output) ==
    /\ results' = Append(results, [tool |-> tool, ok |-> ok, content |-> content,
                                   output |-> output])
    /\ step' = "idle" /\ got' = "none"

\* An unknown tool, or an argument that is missing: no request is sent.
Rejects ==
    /\ step = "idle" /\ n < MaxCalls
    /\ n' = n + 1
    /\ Return("unknown", FALSE, 0, "none")
    /\ UNCHANGED <<wireVars, clientVars>>

Fails == Return(ToolOf(step), FALSE, 0, "none")

\* The command is not waited for.
NextStepFault(method) ==
    CASE method = "create" -> "output"
      [] method = "wait" -> "output"
      [] method = "output" -> "release"

NextStep(method) ==
    CASE method = "create" -> "wait"
      [] method = "wait" -> "output"
      [] method = "output" -> "release"

\* The output is returned without a release.
ProceedFault(r) ==
    CASE step = "read" -> Return("read", TRUE, r.content, "none") /\ UNCHANGED sent
      [] step = "write" -> Return("write", TRUE, 0, "none") /\ UNCHANGED sent
      [] step = "output" -> Return("command", TRUE, 0, r.output) /\ UNCHANGED sent
      [] OTHER -> /\ step' = NextStep(step)
                  /\ sent' = sent \cup {Req(NextStep(step))}
                  /\ UNCHANGED <<got, results>>

\* The answer to the request is good.
Proceed(r) ==
    CASE step = "read" -> Return("read", TRUE, r.content, "none") /\ UNCHANGED sent
      [] step = "write" -> Return("write", TRUE, 0, "none") /\ UNCHANGED sent
      [] step = "release" -> Return("command", TRUE, 0, got) /\ UNCHANGED sent
      [] OTHER -> /\ step' = NextStep(step)
                  /\ sent' = sent \cup {Req(NextStep(step))}
                  /\ got' = IF step = "output" THEN r.output ELSE got
                  /\ UNCHANGED results

\* The answer to the awaited request, an error of it, or an answer that is not
\* JSON of the expected shape.  What becomes of a release is not looked at.
Receive(r) ==
    /\ step # "idle" /\ r.req = Req(step)
    /\ replies' = replies \ {r}
    /\ \/ r.ok /\ Proceed(r)
       \/ ~r.ok /\ step = "release" /\ Proceed(r)
       \/ ~r.ok /\ step # "release" /\ Fails /\ UNCHANGED sent
    /\ UNCHANGED <<n, undone, clientVars>>

LoseOrLeave ==
    \/ UNCHANGED <<sent, undone>>
    \/ sent' = sent \ {Req(step)} /\ undone' = undone \cup (sent \cap {Req(step)})

\* A write or a release that is not answered is taken to have happened.
GiveUpFault ==
    /\ MayFail /\ step # "idle"
    /\ LoseOrLeave
    /\ IF step \in {"write", "release"}
         THEN Return(ToolOf(step), TRUE, 0, got)
         ELSE Fails
    /\ UNCHANGED <<n, replies, clientVars>>

\* A release that is not answered is sent again.
RetryFault ==
    /\ MayFail /\ step # "idle"
    /\ IF step = "release"
         THEN sent' = sent \cup {Req(step)} /\ UNCHANGED <<undone, results, step, got>>
         ELSE LoseOrLeave /\ Fails
    /\ UNCHANGED <<n, replies, clientVars>>

\* Request returns an error: the message was not sent, or there is no answer in time.
GiveUp ==
    /\ MayFail /\ step # "idle"
    /\ LoseOrLeave
    /\ IF step = "release" THEN Return("command", TRUE, 0, got) ELSE Fails
    /\ UNCHANGED <<n, replies, clientVars>>

-----------------------------------------------------------------------------
(* The client. *)

Answer(q, ok, content, output) ==
    [req |-> q, ok |-> ok, content |-> content, output |-> output]

\* The request is carried out; the client waits for a command to exit before it
\* answers a wait, and kills the command of a terminal that is released.
Handle(q) ==
    /\ q \in sent
    /\ q.method = "wait" => term[q.call] = "exited"
    /\ sent' = sent \ {q}
    /\ file' = IF q.method = "write" THEN q.call ELSE file
    /\ term' = CASE q.method = "create" -> [term EXCEPT ![q.call] = "running"]
                 [] q.method = "release" -> [term EXCEPT ![q.call] = "released"]
                 [] OTHER -> term
    /\ \E ok \in IF MayFail /\ q.method # "write" THEN BOOLEAN ELSE {TRUE} :
         replies' = replies \cup
             {Answer(q, ok, IF q.method = "read" THEN file ELSE 0,
                     CASE q.method # "output" -> "none"
                       [] term[q.call] = "exited" -> "whole"
                       [] OTHER -> "part")}
    /\ UNCHANGED <<execVars, undone>>

Refuse(q) ==
    /\ MayFail
    /\ q \in sent
    /\ sent' = sent \ {q}
    /\ undone' = undone \cup {q}
    /\ replies' = replies \cup {Answer(q, FALSE, 0, "none")}
    /\ UNCHANGED <<execVars, clientVars>>

CommandExits(t) ==
    /\ term[t] = "running"
    /\ term' = [term EXCEPT ![t] = "exited"]
    /\ UNCHANGED <<execVars, wireVars, file>>

Next ==
    \/ \E tool \in {"read", "write", "command"} : Execute(tool)
    \/ Rejects \/ GiveUp
    \/ \E r \in replies : Receive(r)
    \/ \E q \in sent : Handle(q) \/ Refuse(q)
    \/ \E t \in Calls : CommandExits(t)

Spec == Init /\ [][Next]_vars

-----------------------------------------------------------------------------
(* Properties. *)

Succeeded(c, tool) == c \in DOMAIN results /\ results[c].tool = tool /\ results[c].ok

\* A read returns what the last successful write before it wrote, or the content of
\* a write whose call returned an error: such a write may be carried out late, and
\* then it may undo a later one that succeeded.
ReadsLastWrite ==
    \A c \in DOMAIN results :
        Succeeded(c, "read") =>
            LET w == results[c].content IN
            /\ w < c
            /\ w = 0 \/ results[w].tool = "write"
            /\ \/ w > 0 /\ ~results[w].ok
               \/ \A x \in 1 .. c - 1 : Succeeded(x, "write") => x <= w

\* The output of a command that succeeds was read after the command had exited.
OutputIsWhole ==
    \A c \in DOMAIN results : Succeeded(c, "command") => results[c].output = "whole"

\* No request is made of a terminal after the executor has released it.
NoUseAfterRelease ==
    \A q \in sent : q.method \in {"wait", "output", "release"} =>
        term[q.call] \in {"running", "exited"}

\* A terminal stays open behind a call only if the call returned an error, or the
\* release itself is on its way, was not sent or was undone.
OpenOnlyAfterError ==
    \A t \in Calls :
        t <= n /\ (t = n => step = "idle") /\ term[t] \in {"running", "exited"} =>
            \/ ~results[t].ok
            \/ [method |-> "release", call |-> t] \in sent \cup undone
=============================================================================
