---------------------------- MODULE PromptSession ----------------------------
(***************************************************************************)
(* The server side of one session (internal/protocol/server.go): the       *)
(* sessionState that session/prompt, session/cancel and session/load       *)
(* share, one handler goroutine for each prompt (handlePrompt,             *)
(* forwardEvents, processEvent, requestPermission, sendCommand), the read  *)
(* loop that runs handleCancel inline (jsonrpc.go), and one agent run for  *)
(* each prompt, of which AgentRun is the detailed model.                   *)
(*                                                                         *)
(* The client answers permission requests, cancels, reloads the session    *)
(* and disconnects when it likes.                                          *)
(***************************************************************************)
EXTENDS Integers, Sequences, FiniteSets

CONSTANTS
    Prompts,     \* session/prompt requests
    Calls,       \* tool call IDs; runs of the same model may use the same ones
    None,        \* no prompt, no call, no command
    CmdCap,      \* capacity of a command channel, 16 in the code
    EvtCap,      \* capacity of a run's event channels together, 32 + 1 + 32
    Concurrent,  \* the client sends a prompt while another is outstanding
    MayClose,    \* the connection may be lost
    MaxLoads,    \* bound: session/load requests
    MaxCancels,  \* bound: session/cancel notifications that find a run
    Batches      \* bound: what the model may ask for in each tool turn of a run

ASSUME NoneAssumption == None \notin Prompts /\ None \notin Calls
ASSUME BoundsAssumption == {CmdCap, EvtCap, MaxLoads, MaxCancels, Len(Batches)} \subseteq Nat
ASSUME BatchesAssumption == Batches \in Seq(SUBSET SUBSET Calls)
ASSUME SwitchAssumption == {Concurrent, MayClose} \subseteq BOOLEAN

VARIABLES
    current,   \* the sessionState in h.sessions: the number of loads so far
    active,    \* prompt whose commandCh, cancelFn and doneCh a sessionState holds
    doneCh,    \* prompts whose doneCh is closed
    ctxDone,   \* prompts whose runCtx is cancelled
    down,      \* the connection is closed
    hpc,       \* control point of each prompt's handler goroutine
    hobj,      \* the sessionState it loaded
    hcalls,    \* calls of the proposal it has not asked about
    hcall,     \* the call it is asking about
    hcmd,      \* the command it sends
    hch,       \* the prompt whose channels it copied to send it
    reply,     \* the response to the prompt
    rpc,       \* the read loop: "idle", or "sending" a cancel
    rch,       \* the prompt whose channels handleCancel copied
    apc,       \* control point of each run
    batch,     \* its calls and their approvals
    todo,      \* decided calls it has not reached
    turn,      \* its tool turns
    cmdCh,     \* its command channel
    evtCh,     \* its event channels, up to the handler
    cancels,   \* number of cancel notifications that found a run
    permits,   \* history: permissions the client gave for each call, less its executions
    deliveredCancel  \* history: turn in which a cancel entered the run's channel

sessVars   == <<current, active, doneCh, ctxDone>>
handVars   == <<hpc, hobj, hcalls, hcall, hcmd, hch, reply>>
readVars   == <<rpc, rch, cancels>>
runVars    == <<apc, batch, todo, turn>>
vars == <<sessVars, down, handVars, readVars, runVars, cmdCh, evtCh, permits, deliveredCancel>>

Objects == 0..MaxLoads
MaxTurns == Len(Batches)
Never == MaxTurns + 1

Command == [type : {"approve", "deny", "cancel"}, call : Calls \cup {None}]
Event == [type : {"proposed", "ran", "completed", "cancelled", "failed"}, calls : SUBSET Calls]
Cmd(type, call) == [type |-> type, call |-> call]
CancelCmd == Cmd("cancel", None)
Ev(type, calls) == [type |-> type, calls |-> calls]

NoBatch == [c \in {} |-> "pending"]  \* the batch is local to a turn

Init ==
    /\ current = 0
    /\ active = [o \in Objects |-> None]
    /\ doneCh = {} /\ ctxDone = {} /\ down = FALSE
    /\ hpc = [p \in Prompts |-> "idle"]
    /\ hobj = [p \in Prompts |-> 0]
    /\ hcalls = [p \in Prompts |-> {}]
    /\ hcall = [p \in Prompts |-> None]
    /\ hcmd = [p \in Prompts |-> CancelCmd]
    /\ hch = [p \in Prompts |-> None]
    /\ reply = [p \in Prompts |-> "none"]
    /\ rpc = "idle" /\ rch = None /\ cancels = 0
    /\ apc = [p \in Prompts |-> "idle"]
    /\ batch = [p \in Prompts |-> NoBatch]
    /\ todo = [p \in Prompts |-> {}]
    /\ turn = [p \in Prompts |-> 0]
    /\ cmdCh = [p \in Prompts |-> <<>>]
    /\ evtCh = [p \in Prompts |-> <<>>]
    /\ permits = [p \in Prompts |-> [c \in Calls |-> 0]]
    /\ deliveredCancel = [p \in Prompts |-> Never]

Least(a, b) == IF a <= b THEN a ELSE b

Outstanding(p) == hpc[p] \notin {"idle", "done"}

\* The operators named ...Fault are faults a change of the code could bring in,
\* one for each property; no specification uses them.

-----------------------------------------------------------------------------
(* session/prompt: the handler goroutine. *)

\* The read loop hands the request to a goroutine, which loads the session.
PromptArrives(p) ==
    /\ ~down /\ rpc = "idle"
    /\ hpc[p] = "idle"
    /\ Concurrent \/ \A q \in Prompts : ~Outstanding(q)
    /\ hpc' = [hpc EXCEPT ![p] = "loaded"]
    /\ hobj' = [hobj EXCEPT ![p] = current]
    /\ UNCHANGED <<sessVars, down, hcalls, hcall, hcmd, hch, reply, readVars, runVars,
                   cmdCh, evtCh, permits, deliveredCancel>>

\* Agent configuration and StartRun: an error is the response, else the run goes.
StartRun(p) ==
    /\ hpc[p] = "loaded"
    /\ \/ /\ hpc' = [hpc EXCEPT ![p] = "done"]
          /\ reply' = [reply EXCEPT ![p] = "error"]
          /\ UNCHANGED apc
       \/ /\ hpc' = [hpc EXCEPT ![p] = "started"]
          /\ apc' = [apc EXCEPT ![p] = "think"]
          /\ UNCHANGED reply
    /\ UNCHANGED <<sessVars, down, hobj, hcalls, hcall, hcmd, hch, readVars, batch, todo,
                   turn, cmdCh, evtCh, permits, deliveredCancel>>

\* The session is told of the run, under its lock; whatever it held is dropped.
Register(p) ==
    /\ hpc[p] = "started"
    /\ active' = [active EXCEPT ![hobj[p]] = p]
    /\ hpc' = [hpc EXCEPT ![p] = "forward"]
    /\ UNCHANGED <<current, doneCh, ctxDone, down, hobj, hcalls, hcall, hcmd, hch, reply,
                   readVars, runVars, cmdCh, evtCh, permits, deliveredCancel>>

\* forwardEvents receives an event: a proposal is asked about call by call, a
\* terminal event is the response, the others are updates for the client.
Response(type) ==
    CASE type = "completed" -> "end_turn"
      [] type = "cancelled" -> "cancelled"
      [] type = "failed" -> "error"
      [] OTHER -> "none"

ReceiveEvent(p) ==
    /\ hpc[p] = "forward"
    /\ evtCh[p] # <<>>
    /\ evtCh' = [evtCh EXCEPT ![p] = Tail(@)]
    /\ LET e == Head(evtCh[p]) IN
         /\ hcalls' = [hcalls EXCEPT ![p] = IF e.type = "proposed" THEN e.calls ELSE {}]
         /\ reply' = [reply EXCEPT ![p] = Response(e.type)]
         /\ hpc' = [hpc EXCEPT ![p] = CASE e.type = "proposed" -> "ask"
                                        [] e.type = "ran" -> "forward"
                                        [] OTHER -> "defer"]
    /\ UNCHANGED <<sessVars, down, hobj, hcall, hcmd, hch, readVars, runVars, cmdCh,
                   permits, deliveredCancel>>

\* forwardEvents has a default case: it leaves when no event is there.
StopForwardingFault(p) ==
    /\ hpc[p] = "forward" /\ evtCh[p] = <<>>
    /\ reply' = [reply EXCEPT ![p] = "cancelled"]
    /\ hcmd' = [hcmd EXCEPT ![p] = CancelCmd]
    /\ hch' = [hch EXCEPT ![p] = active[hobj[p]]]
    /\ hpc' = [hpc EXCEPT ![p] = "sending"]
    /\ UNCHANGED <<sessVars, down, hobj, hcalls, hcall, readVars, runVars, cmdCh, evtCh,
                   permits, deliveredCancel>>

\* forwardEvents leaves without sending the run a cancel.
StopQuietlyFault(p) ==
    /\ hpc[p] = "forward"
    /\ down \/ p \in ctxDone
    /\ reply' = [reply EXCEPT ![p] = "cancelled"]
    /\ hpc' = [hpc EXCEPT ![p] = "defer"]
    /\ UNCHANGED <<sessVars, down, hobj, hcalls, hcall, hcmd, hch, readVars, runVars, cmdCh,
                   evtCh, permits, deliveredCancel>>

\* forwardEvents sees the connection closed or its context cancelled first.
StopForwarding(p) ==
    /\ hpc[p] = "forward"
    /\ down \/ p \in ctxDone
    /\ reply' = [reply EXCEPT ![p] = "cancelled"]
    /\ hcmd' = [hcmd EXCEPT ![p] = CancelCmd]
    /\ hch' = [hch EXCEPT ![p] = active[hobj[p]]]
    /\ hpc' = [hpc EXCEPT ![p] = "sending"]
    /\ UNCHANGED <<sessVars, down, hobj, hcalls, hcall, readVars, runVars, cmdCh, evtCh,
                   permits, deliveredCancel>>

\* The next call of the proposal, in any order: session/request_permission.
AskPermission(p, c) ==
    /\ hpc[p] = "ask"
    /\ c \in hcalls[p]
    /\ hcall' = [hcall EXCEPT ![p] = c]
    /\ hcalls' = [hcalls EXCEPT ![p] = @ \ {c}]
    /\ hpc' = [hpc EXCEPT ![p] = "waiting"]
    /\ UNCHANGED <<sessVars, down, hobj, hcmd, hch, reply, readVars, runVars, cmdCh, evtCh,
                   permits, deliveredCancel>>

\* sendCommand copies the channels that the session holds now.
Prepare(p, type) ==
    /\ hcmd' = [hcmd EXCEPT ![p] = Cmd(type, hcall[p])]
    /\ hch' = [hch EXCEPT ![p] = active[hobj[p]]]
    /\ hpc' = [hpc EXCEPT ![p] = "sending"]

\* The client allows or rejects the call; the read loop delivers its answer.
ClientAnswers(p) ==
    /\ hpc[p] = "waiting" /\ ~down /\ rpc = "idle"
    /\ \/ /\ Prepare(p, "approve")
          /\ permits' = [permits EXCEPT ![p][hcall[p]] = @ + 1]
       \/ /\ Prepare(p, "deny")
          /\ UNCHANGED permits
    /\ UNCHANGED <<sessVars, down, hobj, hcalls, hcall, reply, readVars, runVars, cmdCh,
                   evtCh, deliveredCancel>>

\* The request ends with an error, which counts as a denial.
RequestFails(p) ==
    /\ hpc[p] = "waiting"
    /\ down \/ p \in ctxDone
    /\ Prepare(p, "deny")
    /\ UNCHANGED <<sessVars, down, hobj, hcalls, hcall, reply, readVars, runVars, cmdCh,
                   evtCh, permits, deliveredCancel>>

\* What a handler does after sendCommand has returned.
AfterSend(p) ==
    IF hcmd[p].type = "cancel" THEN "defer"
    ELSE IF hcalls[p] = {} THEN "forward" ELSE "ask"

Deliver(q, cmd) ==
    /\ Len(cmdCh[q]) < CmdCap
    /\ cmdCh' = [cmdCh EXCEPT ![q] = Append(@, cmd)]

\* sendCommand: the command enters the channel, or doneCh is closed, or there was
\* no channel.
HandlerSends(p) ==
    /\ hpc[p] = "sending"
    /\ LET q == hch[p] IN
         \/ q = None /\ cmdCh' = cmdCh
         \/ q # None /\ q \in doneCh /\ cmdCh' = cmdCh
         \/ q # None /\ Deliver(q, hcmd[p])
    /\ hpc' = [hpc EXCEPT ![p] = AfterSend(p)]
    /\ hcall' = [hcall EXCEPT ![p] = None]
    /\ hcmd' = [hcmd EXCEPT ![p] = CancelCmd]
    /\ hch' = [hch EXCEPT ![p] = None]
    /\ UNCHANGED <<sessVars, down, hobj, hcalls, reply, readVars, runVars, evtCh, permits,
                   deliveredCancel>>

\* The handler clears what the session holds and does not close doneCh.
FinishPromptFault(p) ==
    /\ hpc[p] = "defer"
    /\ ctxDone' = ctxDone \cup ({active[hobj[p]]} \ {None})
    /\ active' = [active EXCEPT ![hobj[p]] = None]
    /\ hpc' = [hpc EXCEPT ![p] = "done"]
    /\ UNCHANGED <<current, doneCh, down, hobj, hcalls, hcall, hcmd, hch, reply, readVars,
                   runVars, cmdCh, evtCh, permits, deliveredCancel>>

\* The deferred part of forwardEvents closes doneCh, cancels and clears whatever
\* run the session holds; then the response goes out.
FinishPrompt(p) ==
    /\ hpc[p] = "defer"
    /\ LET q == active[hobj[p]] IN
         /\ doneCh' = doneCh \cup ({q} \ {None})
         /\ ctxDone' = ctxDone \cup ({q} \ {None})
    /\ active' = [active EXCEPT ![hobj[p]] = None]
    /\ hpc' = [hpc EXCEPT ![p] = "done"]
    /\ UNCHANGED <<current, down, hobj, hcalls, hcall, hcmd, hch, reply, readVars, runVars,
                   cmdCh, evtCh, permits, deliveredCancel>>

Handler(p) ==
    \/ StartRun(p) \/ Register(p) \/ ReceiveEvent(p) \/ StopForwarding(p)
    \/ \E c \in Calls : AskPermission(p, c)
    \/ RequestFails(p) \/ HandlerSends(p) \/ FinishPrompt(p)

-----------------------------------------------------------------------------
(* session/cancel, session/load and the connection. *)

\* handleCancel runs in the read loop: it copies the channels the session holds.
\* When there are none the notification is dropped, and nothing changes.
CancelArrives ==
    /\ ~down /\ rpc = "idle"
    /\ active[current] # None
    /\ cancels < MaxCancels
    /\ cancels' = cancels + 1
    /\ rch' = active[current]
    /\ rpc' = "sending"
    /\ UNCHANGED <<sessVars, down, handVars, runVars, cmdCh, evtCh, permits, deliveredCancel>>

\* The cancel is offered to the channel and dropped when it is full.
CancelSentFault ==
    /\ rpc = "sending"
    /\ cmdCh' = cmdCh
    /\ deliveredCancel' = [deliveredCancel EXCEPT ![rch] = Least(@, turn[rch])]
    /\ rpc' = "idle" /\ rch' = None
    /\ UNCHANGED <<sessVars, down, handVars, cancels, runVars, evtCh, permits>>

\* The read loop waits for the run to be over before it reads on.
CancelWaitsFault ==
    /\ rpc = "sending" /\ rch \in doneCh
    /\ rpc' = "idle" /\ rch' = None
    /\ UNCHANGED <<sessVars, down, handVars, cancels, runVars, cmdCh, evtCh, permits,
                   deliveredCancel>>

CancelSent ==
    /\ rpc = "sending"
    /\ \/ /\ rch \in doneCh
          /\ UNCHANGED <<cmdCh, deliveredCancel>>
       \/ /\ Deliver(rch, CancelCmd)
          /\ deliveredCancel' = [deliveredCancel EXCEPT ![rch] = Least(@, turn[rch])]
    /\ rpc' = "idle" /\ rch' = None
    /\ UNCHANGED <<sessVars, down, handVars, cancels, runVars, evtCh, permits>>

\* session/load puts a new sessionState in the place of the old one.
LoadSession ==
    /\ ~down /\ rpc = "idle"
    /\ current < MaxLoads
    /\ current' = current + 1
    /\ UNCHANGED <<active, doneCh, ctxDone, down, handVars, readVars, runVars, cmdCh, evtCh,
                   permits, deliveredCancel>>

\* The read loop ends: contexts are cancelled, Done is closed.
ConnectionCloses ==
    /\ MayClose /\ ~down /\ rpc = "idle"
    /\ down' = TRUE
    /\ UNCHANGED <<sessVars, handVars, readVars, runVars, cmdCh, evtCh, permits, deliveredCancel>>

-----------------------------------------------------------------------------
(* The agent run of a prompt; AgentRun has the steps between these. *)

Emit(p, e) ==
    /\ Len(evtCh[p]) < EvtCap
    /\ evtCh' = [evtCh EXCEPT ![p] = Append(@, e)]

\* The model asks for calls, or the turn limit of the model is reached.
RunProposes(p) ==
    /\ apc[p] = "think"
    /\ turn[p] < MaxTurns
    /\ \E S \in Batches[turn[p] + 1] :
         /\ batch' = [batch EXCEPT ![p] = [c \in S |-> "pending"]]
         /\ Emit(p, Ev("proposed", S))
    /\ turn' = [turn EXCEPT ![p] = @ + 1]
    /\ apc' = [apc EXCEPT ![p] = "collect"]
    /\ UNCHANGED <<sessVars, down, handVars, readVars, todo, cmdCh, permits, deliveredCancel>>

Decide(b, cmd) ==
    IF cmd.call \in DOMAIN b /\ b[cmd.call] = "pending"
      THEN [b EXCEPT ![cmd.call] = IF cmd.type = "approve" THEN "granted" ELSE "denied"]
      ELSE b

Decided(b) == \A c \in DOMAIN b : b[c] # "pending"

\* A cancel ends the loop without a terminal event.
RunReceivesFault(p) ==
    /\ apc[p] = "collect"
    /\ cmdCh[p] # <<>>
    /\ cmdCh' = [cmdCh EXCEPT ![p] = Tail(@)]
    /\ LET cmd == Head(cmdCh[p])
           b == Decide(batch[p], cmd)
       IN /\ batch' = [batch EXCEPT ![p] = IF cmd.type = "cancel" THEN NoBatch ELSE b]
          /\ apc' = [apc EXCEPT ![p] = CASE cmd.type = "cancel" -> "over"
                                         [] cmd.type # "cancel" /\ Decided(b) -> "act"
                                         [] OTHER -> "collect"]
          /\ todo' = [todo EXCEPT ![p] =
                         IF cmd.type # "cancel" /\ Decided(b) THEN DOMAIN b ELSE {}]
    /\ UNCHANGED <<sessVars, down, handVars, readVars, turn, evtCh, permits, deliveredCancel>>

\* collectApprovals: a command, and the batch once it is decided.
RunReceives(p) ==
    /\ apc[p] = "collect"
    /\ cmdCh[p] # <<>>
    /\ cmdCh' = [cmdCh EXCEPT ![p] = Tail(@)]
    /\ LET cmd == Head(cmdCh[p])
           b == Decide(batch[p], cmd)
       IN IF cmd.type = "cancel"
            THEN /\ apc' = [apc EXCEPT ![p] = "cancelled"]
                 /\ batch' = [batch EXCEPT ![p] = NoBatch]
                 /\ UNCHANGED todo
            ELSE /\ batch' = [batch EXCEPT ![p] = b]
                 /\ apc' = [apc EXCEPT ![p] = IF Decided(b) THEN "act" ELSE "collect"]
                 /\ todo' = [todo EXCEPT ![p] = IF Decided(b) THEN DOMAIN b ELSE {}]
    /\ UNCHANGED <<sessVars, down, handVars, readVars, turn, evtCh, permits, deliveredCancel>>

\* executeTools: a granted call runs, a denied one does not; storing the result
\* may fail, and with it the run.
RunExecutes(p, c) ==
    /\ apc[p] = "act"
    /\ c \in todo[p]
    /\ IF batch[p][c] = "granted"
         THEN /\ Emit(p, Ev("ran", {c}))
              /\ permits' = [permits EXCEPT ![p][c] = @ - 1]
         ELSE UNCHANGED <<evtCh, permits>>
    /\ \/ /\ todo' = [todo EXCEPT ![p] = @ \ {c}]
          /\ UNCHANGED <<apc, batch>>
       \/ /\ todo' = [todo EXCEPT ![p] = {}]
          /\ apc' = [apc EXCEPT ![p] = "failed"]
          /\ batch' = [batch EXCEPT ![p] = NoBatch]
    /\ UNCHANGED <<sessVars, down, handVars, readVars, turn, cmdCh, deliveredCancel>>

RunResumes(p) ==
    /\ apc[p] = "act"
    /\ todo[p] = {}
    /\ apc' = [apc EXCEPT ![p] = IF \E c \in DOMAIN batch[p] : batch[p][c] = "denied"
                                   THEN "completed" ELSE "think"]
    /\ batch' = [batch EXCEPT ![p] = NoBatch]
    /\ UNCHANGED <<sessVars, down, handVars, readVars, todo, turn, cmdCh, evtCh,
                   permits, deliveredCancel>>

\* The terminal event: an answer, an error of the model, or what was decided above.
RunEnds(p) ==
    /\ \E type \in {"completed", "cancelled", "failed"} :
         /\ apc[p] = type \/ (apc[p] = "think" /\ type # "cancelled")
         /\ Emit(p, Ev(type, {}))
    /\ apc' = [apc EXCEPT ![p] = "over"]
    /\ UNCHANGED <<sessVars, down, handVars, readVars, batch, todo, turn, cmdCh, permits,
                   deliveredCancel>>

Run(p) ==
    \/ RunProposes(p) \/ RunReceives(p) \/ \E c \in Calls : RunExecutes(p, c)
    \/ RunResumes(p) \/ RunEnds(p)

-----------------------------------------------------------------------------
Next ==
    \/ \E p \in Prompts : PromptArrives(p) \/ Handler(p) \/ ClientAnswers(p) \/ Run(p)
    \/ CancelArrives \/ CancelSent \/ LoadSession \/ ConnectionCloses

Spec == Init /\ [][Next]_vars

\* Goroutines run, the model ends, and the client answers every permission request.
Fairness ==
    /\ \A p \in Prompts : WF_vars(Handler(p)) /\ WF_vars(Run(p)) /\ WF_vars(ClientAnswers(p))
    /\ WF_vars(CancelSent)

LiveSpec == Spec /\ Fairness

-----------------------------------------------------------------------------
(* Properties. *)

TypeOK ==
    /\ current \in Objects
    /\ active \in [Objects -> Prompts \cup {None}]
    /\ doneCh \subseteq Prompts /\ ctxDone \subseteq Prompts /\ down \in BOOLEAN
    /\ hpc \in [Prompts -> {"idle", "loaded", "started", "forward", "ask", "waiting",
                            "sending", "defer", "done"}]
    /\ hobj \in [Prompts -> Objects]
    /\ hcalls \in [Prompts -> SUBSET Calls]
    /\ hcall \in [Prompts -> Calls \cup {None}]
    /\ hcmd \in [Prompts -> Command]
    /\ hch \in [Prompts -> Prompts \cup {None}]
    /\ reply \in [Prompts -> {"none", "end_turn", "cancelled", "error"}]
    /\ rpc \in {"idle", "sending"} /\ rch \in Prompts \cup {None} /\ cancels \in 0..MaxCancels
    /\ apc \in [Prompts -> {"idle", "think", "collect", "act", "completed", "cancelled",
                            "failed", "over"}]
    /\ batch \in [Prompts -> UNION {[S -> {"pending", "granted", "denied"}] : S \in SUBSET Calls}]
    /\ todo \in [Prompts -> SUBSET Calls]
    /\ turn \in [Prompts -> 0..MaxTurns]
    /\ cmdCh \in [Prompts -> Seq(Command)] /\ \A p \in Prompts : Len(cmdCh[p]) <= CmdCap
    /\ evtCh \in [Prompts -> Seq(Event)] /\ \A p \in Prompts : Len(evtCh[p]) <= EvtCap
    /\ permits \in [Prompts -> [Calls -> Int]]
    /\ deliveredCancel \in [Prompts -> 0..Never]

\* A tool runs only on a permission the client gave for that call of that prompt,
\* once for each permission.
OnlyAllowedRun == \A p \in Prompts : \A c \in Calls : permits[p][c] >= 0

\* What the client knows of each prompt.
Status == [p \in Prompts |-> CASE hpc[p] = "idle" -> "none"
                               [] hpc[p] = "done" -> reply[p]
                               [] OTHER -> "open"]

\* How the run of each prompt ended: its terminal event is the last one in the
\* channels until the handler has made it the response.
Outcome ==
    [p \in Prompts |->
        CASE apc[p] # "over" -> "none"
          [] apc[p] = "over" /\ evtCh[p] # <<>> -> Response(evtCh[p][Len(evtCh[p])].type)
          [] OTHER -> reply[p]]

ToldToStop == {p \in Prompts : deliveredCancel[p] # Never}

Contract == INSTANCE SessionContract WITH
    status <- Status, granted <- permits, outcome <- Outcome, told <- ToldToStop, lost <- down

\* A session whose prompts come one after the other keeps SessionContract: with
\* what handler, read loop and run exchange left out, a tool runs on a permission
\* of its prompt, nothing runs after the response, which says how the run ended,
\* and no run is cancelled unasked.
ImplementsSession == Contract!Spec

\* Once a cancel is in the channel of a run, the run settles no later batch: of
\* the calls it proposes from then on none is executed.
DeliveredCancelStops ==
    \A p \in Prompts : apc[p] = "act" => turn[p] <= deliveredCancel[p]

\* A session whose prompts are all answered holds no run, and if they came one after the
\* other the doneCh of every run that was registered is closed, so that nobody who copied
\* its channels waits for it.
NoStaleRun ==
    /\ \A o \in Objects : active[o] # None => Outstanding(active[o])
    /\ Concurrent \/ \A p \in Prompts : hpc[p] = "done" /\ apc[p] # "idle" => p \in doneCh

\* The cancels sent and the calls of any batch find room in a channel that has lost, or
\* that leaves waiting, n commands.
FitsBut(n) == \A i \in DOMAIN Batches : \A S \in Batches[i] : cancels + Cardinality(S) <= CmdCap + n

\* Every prompt is answered: none is outstanding for ever, unless the client sent so many
\* cancels that the channel fills.  A run that was cancelled has taken one command, and on a
\* lost connection the handler sends a cancel of its own.
PromptAnswered ==
    []<>((\A p \in Prompts : ~Outstanding(p)) \/ ~FitsBut(IF down THEN 0 ELSE 1))

\* Every run ends, also when its handler has left.
RunEndsEventually == []<>(\A p \in Prompts : apc[p] \in {"idle", "over"})

\* The read loop that finds the channel full does not wait for ever to hand over a cancel,
\* unless so many were sent that one waits and the others fill the channel of a run that
\* has taken its cancel and takes no more, while the handler needs the read loop for the
\* answer to a permission request.
ReadLoopFree == []<>(rpc = "idle" \/ ~FitsBut(2))
=============================================================================
