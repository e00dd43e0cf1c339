------------------------------ MODULE AgentRun ------------------------------
(***************************************************************************)
(* One run of the agent: the loop goroutine of internal/agent/agent.go,    *)
(* with collectApprovals (approvals.go) and executeTools (tools.go), and   *)
(* the forwarder goroutine that DefaultRunner.StartRun puts between the    *)
(* loop and the caller (runner.go).  The three Go channels are bounded     *)
(* sequences: a send waits while its channel is full.                      *)
(*                                                                         *)
(*            cmdCh                  evtCh              outCh              *)
(*   client --------> agent loop ----------> forwarder -------> client     *)
(*                                                                         *)
(* The client is any program that sends commands and receives events in    *)
(* any order.  The model and the tools it may call are nondeterministic:   *)
(* GenerateChat, Execute and Append may fail at every call.                *)
(***************************************************************************)
EXTENDS Queues

CONSTANTS
    CallIDs,    \* identifiers of tool calls
    NoCall,     \* the call of a command or an event that names none
    Responses,  \* the sequences of call IDs a model response may ask for
    CmdCap,     \* capacity of the command channel, 16 in the code
    EvtCap,     \* capacity of the loop's event channel, 32 in the code
    OutCap,     \* capacity of the forwarder's channel, 32 in the code
    MaxTurns,   \* bound: responses with tool calls in one run
    MaxCmds     \* bound: commands the client sends in one run

ASSUME NoCallAssumption == NoCall \notin CallIDs
ASSUME ResponsesAssumption == Responses \subseteq Seq(CallIDs)
ASSUME BoundsAssumption == {CmdCap, EvtCap, OutCap, MaxTurns, MaxCmds} \subseteq Nat

VARIABLES
    pc,       \* control point of loop
    batch,    \* pendingBatch: the approval of every call of the current response
    todo,     \* decided calls that executeTools has not reached
    cur,      \* the call being executed
    outcome,  \* what the call being executed returned
    log,      \* messages of this run in the session file, oldest first
    cmdCh,    \* commandChannel
    evtCh,    \* eventChannel
    held,     \* the event the forwarder has received and not sent, if any
    outCh,    \* outputChannel
    closed,   \* the forwarder has closed outputChannel
    turn,     \* responses with tool calls so far
    lastEvt,  \* the last event the client received, if any
    cmds,     \* number of commands the client has sent
    approvals,  \* history: approve commands sent for each call ID
    executions  \* history: executions of each call ID

agentVars == <<pc, batch, todo, cur, outcome, log, turn, executions>>
pipeVars  == <<held, outCh, closed>>
clientVars == <<lastEvt, cmds, approvals>>
otherVars == <<pipeVars, clientVars>>  \* what the loop never touches
vars == <<agentVars, cmdCh, evtCh, otherVars>>

Approvals == {"pending", "granted", "denied"}

EventTypes ==
    {"RunStarted", "TurnCompleted", "ToolsProposed", "ToolStarted", "ToolCompleted",
     "ToolFailed", "ToolsCompleted", "RunCompleted", "RunCancelled", "RunFailed"}

TerminalTypes == {"RunCompleted", "RunCancelled", "RunFailed"}

\* An event names the calls it is about: the whole batch for ToolsProposed,
\* one call for the Tool events, none for the others.
Event == [type : EventTypes, calls : SUBSET CallIDs]

Ev(type, calls) == [type |-> type, calls |-> calls]

Command ==
    [type : {"approve", "deny"}, call : CallIDs] \cup [type : {"cancel"}, call : {NoCall}]

\* Messages the run appends to the session file.  An assistant message names
\* the calls it makes, a tool message the call it answers.
Message == [role : {"user", "assistant", "skill", "tool"}, calls : SUBSET CallIDs]

Msg(role, calls) == [role |-> role, calls |-> calls]

PCs == {"begin", "start", "generate", "answered", "complete", "turn", "propose",
        "collect", "execute", "run", "report", "record", "cancel", "fail", "return", "done"}

RangeOf(s) == {s[i] : i \in 1..Len(s)}

Init ==
    /\ pc = "begin"
    /\ batch = [c \in {} |-> "pending"]
    /\ todo = {}
    /\ cur = NoCall
    /\ outcome = "none"
    /\ log = <<>>
    /\ cmdCh = <<>>
    /\ evtCh = <<>>
    /\ held = <<>>
    /\ outCh = <<>>
    /\ closed = FALSE
    /\ turn = 0
    /\ lastEvt = <<>>
    /\ cmds = 0
    /\ approvals = [c \in CallIDs |-> 0]
    /\ executions = [c \in CallIDs |-> 0]

-----------------------------------------------------------------------------
(* The agent loop. *)

\* The operators named ...Fault are faults a change of the code could bring in,
\* one for each property; no specification uses them.

\* A send that does not wait for room.
EmitFault(e) == evtCh' = Append(evtCh, e)

\* eventChannel <- e: waits for room.
Emit(e) ==
    /\ Len(evtCh) < EvtCap
    /\ evtCh' = Append(evtCh, e)

\* AddMessage appends to the file first and may fail; then nothing is kept.
Stored(m) == log' = Append(log, m)

Begin ==
    /\ pc = "begin"
    /\ Emit(Ev("RunStarted", {}))
    /\ pc' = "start"
    /\ UNCHANGED <<batch, todo, cur, outcome, log, turn, executions, cmdCh, otherVars>>

\* The context run starts, the prompt is stored; a failure of either, and an
\* empty prompt, leave the log as it was and the run goes on.
StartContext ==
    /\ pc = "start"
    /\ \/ Stored(Msg("user", {}))
       \/ log' = log
    /\ pc' = "generate"
    /\ UNCHANGED <<batch, todo, cur, outcome, turn, executions, cmdCh, evtCh, otherVars>>

\* BuildContext or GenerateChat returns an error.
GenerateFails ==
    /\ pc = "generate"
    /\ pc' = "fail"
    /\ UNCHANGED <<batch, todo, cur, outcome, log, turn, executions, cmdCh, evtCh, otherVars>>

\* A response without tool calls ends the run.
GenerateAnswer ==
    /\ pc = "generate"
    /\ \/ Stored(Msg("assistant", {}))
       \/ log' = log
    /\ pc' = "answered"
    /\ UNCHANGED <<batch, todo, cur, outcome, turn, executions, cmdCh, evtCh, otherVars>>

\* buildPending: one pending entry for each distinct call ID of the response.
BuildPending(resp) == [c \in RangeOf(resp) |-> "pending"]

GenerateToolCalls ==
    /\ pc = "generate"
    /\ turn < MaxTurns
    /\ \E resp \in Responses :
         /\ resp # <<>>
         /\ batch' = BuildPending(resp)
         /\ \/ Stored(Msg("assistant", RangeOf(resp)))
            \/ log' = log
    /\ turn' = turn + 1
    /\ pc' = "turn"
    /\ UNCHANGED <<todo, cur, outcome, executions, cmdCh, evtCh, otherVars>>

\* An event between two control points of the loop.
EmitStep(from, e, to) ==
    /\ pc = from
    /\ Emit(e)
    /\ pc' = to
    /\ UNCHANGED <<batch, todo, cur, outcome, log, turn, executions, cmdCh, otherVars>>

TurnAnswered == EmitStep("answered", Ev("TurnCompleted", {}), "complete")
TurnWithCalls == EmitStep("turn", Ev("TurnCompleted", {}), "propose")
Propose == EmitStep("propose", Ev("ToolsProposed", DOMAIN batch), "collect")
Complete == EmitStep("complete", Ev("RunCompleted", {}), "return")
Cancelled == EmitStep("cancel", Ev("RunCancelled", {}), "return")
Failed == EmitStep("fail", Ev("RunFailed", {}), "return")

AllDecided == \A c \in DOMAIN batch : batch[c] # "pending"
AnyDenied == \E c \in DOMAIN batch : batch[c] = "denied"

\* A command decides a call of the batch that is still pending; any other
\* approval or denial is dropped.
Decide(cmd) ==
    IF cmd.call \in DOMAIN batch /\ batch[cmd.call] = "pending"
      THEN [batch EXCEPT ![cmd.call] = IF cmd.type = "approve" THEN "granted" ELSE "denied"]
      ELSE batch

\* A cancel is dropped like an approval of an unknown call.
ReceiveCommandFault ==
    /\ pc = "collect"
    /\ ~AllDecided
    /\ cmdCh # <<>>
    /\ cmdCh' = Tail(cmdCh)
    /\ batch' = Decide(Head(cmdCh))
    /\ UNCHANGED <<pc, todo, cur, outcome, log, turn, executions, evtCh, otherVars>>

\* collectApprovals receives one command.
ReceiveCommand ==
    /\ pc = "collect"
    /\ ~AllDecided
    /\ cmdCh # <<>>
    /\ cmdCh' = Tail(cmdCh)
    /\ IF Head(cmdCh).type = "cancel"
         THEN pc' = "cancel" /\ batch' = batch
         ELSE pc' = pc /\ batch' = Decide(Head(cmdCh))
    /\ UNCHANGED <<todo, cur, outcome, log, turn, executions, evtCh, otherVars>>

\* collectApprovals returns once every call is decided.
ApprovalsCollected ==
    /\ pc = "collect"
    /\ AllDecided
    /\ todo' = DOMAIN batch
    /\ pc' = "execute"
    /\ UNCHANGED <<batch, cur, outcome, log, turn, executions, cmdCh, evtCh, otherVars>>

\* executeTools takes the calls in the order of a Go map: any of them is next.
\* A denied call has an error for its result and no event.
SkipDenied(c) ==
    /\ pc = "execute"
    /\ c \in todo
    /\ batch[c] = "denied"
    /\ cur' = c
    /\ outcome' = "denied"
    /\ todo' = todo \ {c}
    /\ pc' = "record"
    /\ UNCHANGED <<batch, log, turn, executions, cmdCh, evtCh, otherVars>>

\* A call is executed whatever was decided about it.
StartToolFault(c) ==
    /\ pc = "execute"
    /\ c \in todo
    /\ Emit(Ev("ToolStarted", {c}))
    /\ cur' = c
    /\ todo' = todo \ {c}
    /\ pc' = "run"
    /\ UNCHANGED <<batch, outcome, log, turn, executions, cmdCh, otherVars>>

StartTool(c) ==
    /\ pc = "execute"
    /\ c \in todo
    /\ batch[c] = "granted"
    /\ Emit(Ev("ToolStarted", {c}))
    /\ cur' = c
    /\ todo' = todo \ {c}
    /\ pc' = "run"
    /\ UNCHANGED <<batch, outcome, log, turn, executions, cmdCh, otherVars>>

\* tools.Execute: the skill tool also puts a user message into the context,
\* before its own result; every other tool leaves the context alone.
RunTool ==
    /\ pc = "run"
    /\ executions' = [executions EXCEPT ![cur] = @ + 1]
    /\ \/ outcome' \in {"ok", "error"} /\ log' = log
       \/ outcome' = "ok" /\ Stored(Msg("skill", {}))
    /\ pc' = "report"
    /\ UNCHANGED <<batch, todo, cur, turn, cmdCh, evtCh, otherVars>>

ReportTool ==
    /\ pc = "report"
    /\ Emit(Ev(IF outcome = "ok" THEN "ToolCompleted" ELSE "ToolFailed", {cur}))
    /\ pc' = "record"
    /\ UNCHANGED <<batch, todo, cur, outcome, log, turn, executions, cmdCh, otherVars>>

\* A result that cannot be stored is only logged, like the other messages.
RecordResultFault ==
    /\ pc = "record"
    /\ \/ Stored(Msg("tool", {cur}))
       \/ log' = log
    /\ pc' = "execute"
    /\ cur' = NoCall
    /\ outcome' = "none"
    /\ UNCHANGED <<batch, todo, turn, executions, cmdCh, evtCh, otherVars>>

\* The result goes into the context; if that fails executeTools returns the
\* error and the calls left in the batch are not executed.
RecordResult ==
    /\ pc = "record"
    /\ \/ Stored(Msg("tool", {cur})) /\ pc' = "execute"
       \/ log' = log /\ pc' = "fail"
    /\ cur' = NoCall
    /\ outcome' = "none"
    /\ UNCHANGED <<batch, todo, turn, executions, cmdCh, evtCh, otherVars>>

\* Every call is done: a denied one ends the run, else the model is asked again.
ToolsDone ==
    /\ pc = "execute"
    /\ todo = {}
    /\ Emit(Ev("ToolsCompleted", {}))
    /\ pc' = IF AnyDenied THEN "complete" ELSE "generate"
    /\ UNCHANGED <<batch, todo, cur, outcome, log, turn, executions, cmdCh, otherVars>>

\* The deferred CompleteRun drops the run's messages from memory.
CompleteContext ==
    /\ pc = "return"
    /\ pc' = "done"
    /\ UNCHANGED <<batch, todo, cur, outcome, log, turn, executions, cmdCh, evtCh, otherVars>>

Agent ==
    \/ Begin \/ StartContext
    \/ GenerateFails \/ GenerateAnswer \/ GenerateToolCalls
    \/ TurnAnswered \/ TurnWithCalls \/ Propose
    \/ ReceiveCommand \/ ApprovalsCollected
    \/ \E c \in CallIDs : SkipDenied(c) \/ StartTool(c)
    \/ RunTool \/ ReportTool \/ RecordResult \/ ToolsDone
    \/ Complete \/ Cancelled \/ Failed \/ CompleteContext

-----------------------------------------------------------------------------
(* The forwarder of DefaultRunner.StartRun. *)

ForwarderReceives ==
    /\ ~closed
    /\ held = <<>>
    /\ evtCh # <<>>
    /\ held' = <<Head(evtCh)>>
    /\ evtCh' = Tail(evtCh)
    /\ UNCHANGED <<agentVars, cmdCh, outCh, closed, clientVars>>

\* A failed tool is taken for a failed run.
ForwarderSendsFault ==
    /\ held # <<>>
    /\ Len(outCh) < OutCap
    /\ outCh' = Append(outCh, Head(held))
    /\ held' = <<>>
    /\ closed' = (Head(held).type \in TerminalTypes \cup {"ToolFailed"})
    /\ UNCHANGED <<agentVars, cmdCh, evtCh, clientVars>>

\* The forwarder sends an event only when another has come: the order changes.
SwapFault ==
    /\ held # <<>>
    /\ Len(outCh) < OutCap
    /\ outCh' = IF evtCh = <<>> THEN Append(outCh, Head(held)) ELSE Append(outCh, Head(evtCh))
    /\ held' = IF evtCh = <<>> THEN <<>> ELSE held
    /\ evtCh' = IF evtCh = <<>> THEN evtCh ELSE Tail(evtCh)
    /\ closed' = (held' = <<>> /\ Head(held).type \in TerminalTypes)
    /\ UNCHANGED <<agentVars, cmdCh, clientVars>>

\* The terminal event closes outputChannel and ends the forwarder.
ForwarderSends ==
    /\ held # <<>>
    /\ Len(outCh) < OutCap
    /\ outCh' = Append(outCh, Head(held))
    /\ held' = <<>>
    /\ closed' = (Head(held).type \in TerminalTypes)
    /\ UNCHANGED <<agentVars, cmdCh, evtCh, clientVars>>

Forwarder == ForwarderReceives \/ ForwarderSends

-----------------------------------------------------------------------------
(* The client. *)

ClientReceives ==
    /\ outCh # <<>>
    /\ lastEvt' = <<Head(outCh)>>
    /\ outCh' = Tail(outCh)
    /\ UNCHANGED <<agentVars, cmdCh, evtCh, held, closed, cmds, approvals>>

ClientSends(cmd) ==
    /\ cmds < MaxCmds
    /\ Len(cmdCh) < CmdCap
    /\ cmdCh' = Append(cmdCh, cmd)
    /\ cmds' = cmds + 1
    /\ approvals' = [c \in CallIDs |->
                       IF cmd = [type |-> "approve", call |-> c]
                         THEN approvals[c] + 1 ELSE approvals[c]]
    /\ UNCHANGED <<agentVars, evtCh, pipeVars, lastEvt>>

Client == ClientReceives \/ \E cmd \in Command : ClientSends(cmd)

Next == Agent \/ Forwarder \/ Client

Spec == Init /\ [][Next]_vars

\* The goroutines run and the client goes on reading; it may stop sending.
Fairness == WF_vars(Agent) /\ WF_vars(Forwarder) /\ WF_vars(ClientReceives)

LiveSpec == Spec /\ Fairness

-----------------------------------------------------------------------------
(* Properties. *)

TypeOK ==
    /\ pc \in PCs
    /\ batch \in UNION {[S -> Approvals] : S \in SUBSET CallIDs}
    /\ todo \in SUBSET CallIDs
    /\ cur \in CallIDs \cup {NoCall}
    /\ outcome \in {"none", "ok", "error", "denied"}
    /\ log \in Seq(Message)
    /\ cmdCh \in Seq(Command) /\ Len(cmdCh) <= CmdCap
    /\ evtCh \in Seq(Event) /\ Len(evtCh) <= EvtCap
    /\ held \in Seq(Event) /\ Len(held) <= 1
    /\ outCh \in Seq(Event) /\ Len(outCh) <= OutCap
    /\ closed \in BOOLEAN
    /\ turn \in 0..MaxTurns
    /\ lastEvt \in Seq(Event) /\ Len(lastEvt) <= 1
    /\ cmds \in 0..MaxCmds
    /\ approvals \in [CallIDs -> Nat]
    /\ executions \in [CallIDs -> Nat]

\* The events the client has yet to see, after the one it saw last.
Stream == lastEvt \o outCh \o held \o evtCh

\* What the consumer of a run may see after the event e: processEvent in
\* internal/protocol/server.go is written for this order.
Follows(e, f) ==
    CASE e.type = "RunStarted" -> f.type \in {"TurnCompleted", "RunFailed"}
      [] e.type = "TurnCompleted" -> f.type \in {"ToolsProposed", "RunCompleted"}
      [] e.type = "ToolsProposed" ->
           \/ f.type \in {"RunCancelled", "ToolsCompleted", "RunFailed"}
           \/ f.type = "ToolStarted" /\ f.calls \subseteq e.calls
      [] e.type = "ToolStarted" ->
           f.type \in {"ToolCompleted", "ToolFailed"} /\ f.calls = e.calls
      [] e.type \in {"ToolCompleted", "ToolFailed"} ->
           \/ f.type \in {"ToolsCompleted", "RunFailed"}
           \/ f.type = "ToolStarted" /\ f.calls # e.calls
      [] e.type = "ToolsCompleted" -> f.type \in {"TurnCompleted", "RunCompleted", "RunFailed"}
      [] OTHER -> FALSE

\* Through both channels and the forwarder the client sees the events of a run
\* in an order the run can produce: a tool result only after its start, nothing
\* after a cancel, a failure or the completion, and no start of a call that was
\* not in the proposal before it.
StreamOrder ==
    /\ \A i \in 1 .. Len(Stream) - 1 : Follows(Stream[i], Stream[i + 1])
    /\ Stream # <<>> /\ lastEvt = <<>> => Stream[1].type = "RunStarted"

\* The forwarder ends at the terminal event and at no other: when outputChannel
\* is closed the loop has nothing more to say and no event was left behind.
NothingLost ==
    closed => /\ pc \in {"return", "done"}
              /\ held = <<>> /\ evtCh = <<>>
              /\ (lastEvt \o outCh)[Len(lastEvt \o outCh)].type \in TerminalTypes

\* Every execution of a call is paid for by an approval of its own that the
\* client sent for that call ID, in every turn: a call ID that comes back in a
\* later turn is not executed on the strength of an approval already used.
OneApprovalPerExecution == \A c \in CallIDs : executions[c] <= approvals[c]

\* A tool message answers a call of the last assistant message before it.
AnswersIn(i, c) ==
    {j \in i + 1 .. Len(log) :
        /\ log[j] = Msg("tool", {c})
        /\ \A k \in i + 1 .. j : log[k].role # "assistant"}

\* Turns whose assistant message is in the log; storing it may have failed.
StoredTurns == {i \in 1 .. Len(log) : log[i].role = "assistant" /\ log[i].calls # {}}

\* The model is never asked again while a call it made, and that is in the
\* context, has no result: a chat provider refuses such a conversation.  It has
\* one result only, and every result answers a call, as long as no assistant
\* message failed to be stored: that failure is logged and the run goes on, so
\* the results of the lost message stand alone in the context.
ContextAnswered ==
    pc = "generate" =>
        /\ \A i \in StoredTurns : \A c \in log[i].calls : AnswersIn(i, c) # {}
        /\ Cardinality(StoredTurns) = turn =>
             /\ \A i \in StoredTurns : \A c \in log[i].calls : Cardinality(AnswersIn(i, c)) = 1
             /\ \A j \in 1 .. Len(log) :
                   log[j].role = "tool" =>
                     \E i \in StoredTurns : \E c \in log[i].calls : j \in AnswersIn(i, c)

\* A cancel in the command channel ends the run: the loop reads it at the latest
\* when it next waits for approvals.
CancelEndsRun ==
    (\E i \in 1 .. Len(cmdCh) : cmdCh[i].type = "cancel") ~> (pc = "done")

-----------------------------------------------------------------------------
(* The run implements RunContract. *)

Thinking == {"begin", "start", "generate", "turn", "propose"}
Acting == {"execute", "run", "report", "record"}

Status ==
    CASE pc \in Thinking -> "thinking"
      [] pc = "collect" -> "asking"
      [] pc \in Acting -> "acting"
      [] OTHER -> "over"

Granted == {c \in DOMAIN batch : batch[c] = "granted"}

\* A started call has run once Execute has returned.
Ran == {c \in Granted \ todo : ~(pc = "run" /\ c = cur)}

Contract == INSTANCE RunContract WITH
    status <- Status,
    asked <- IF pc = "collect" \/ pc \in Acting THEN DOMAIN batch ELSE {},
    allowed <- IF pc \in Acting THEN Granted ELSE {},
    ran <- IF pc \in Acting THEN Ran ELSE {}

\* Batches are settled as a whole before anything runs, a call runs at most once
\* and only if granted, and the model is asked again only after all of them ran.
ImplementsContract == Contract!Spec

-----------------------------------------------------------------------------
(* Inductive strengthenings: what the theorems of AgentRunProofs rest on. *)

Approve(c) == [type |-> "approve", call |-> c]

\* Approvals of c the loop has not read.
Queued(c) == HowMany(cmdCh, Approve(c))

\* A granted call that will run, or is about to return from Execute.
Unused(c) ==
    IF c \in Granted /\ \/ pc = "collect"
                        \/ pc \in Acting /\ c \in todo
                        \/ pc = "run" /\ c = cur
      THEN 1 ELSE 0

\* Every approval is still queued, or allows one call that has not run, or paid
\* for one execution, or was dropped.
Balance == \A c \in CallIDs : executions[c] + Queued(c) + Unused(c) <= approvals[c]

\* A proposed batch is undecided, a batch being executed is decided, and the call
\* in hand has left todo.
BatchInv ==
    /\ pc \in {"turn", "propose"} => DOMAIN batch # {} /\ \A c \in DOMAIN batch : batch[c] = "pending"
    /\ pc = "collect" => DOMAIN batch # {}
    /\ pc \in Acting => todo \subseteq DOMAIN batch /\ AllDecided
    /\ pc \in Acting \ {"execute"} => cur \in DOMAIN batch \ todo
    /\ pc \in {"run", "report"} => batch[cur] = "granted"

ApprovalInv == BatchInv /\ Balance
=============================================================================
