--------------------------------- MODULE Rpc ---------------------------------
(***************************************************************************)
(* The JSON-RPC connection of internal/protocol/jsonrpc.go, at both of its *)
(* ends: concurrent Request and Notify calls, the read loop, a goroutine   *)
(* for each incoming request, and the end of the connection.  One mutex of *)
(* each end guards its pending map and is held during every write; a write *)
(* waits while the wire is full.                                           *)
(***************************************************************************)
EXTENDS Integers, Sequences, FiniteSets

CONSTANTS
    Sides,      \* the two ends
    Callers,    \* goroutines, each calls Request or Notify once
    SideOf,     \* the end each caller is at
    MaxID,      \* bound: requests of one end
    WireCap,    \* messages a wire holds
    Strayers,   \* ends that answer twice, or answer what was not asked
    MaxStray,   \* bound: such answers
    MayClose    \* the transport may be closed

Other(s) == CHOOSE t \in Sides : t # s
Ids == 1 .. MaxID

ASSUME SidesAssumption == \E s, t \in Sides : s # t /\ Sides = {s, t}
ASSUME CallersAssumption == SideOf \in [Callers -> Sides]
ASSUME StrayersAssumption == Strayers \subseteq Sides
ASSUME BoundsAssumption == MaxID \in Nat /\ WireCap \in Nat /\ MaxStray \in Nat /\ MayClose \in BOOLEAN

VARIABLES
    mu,       \* holder of each end's mutex during a write, <<>> when free
    nextID,   \* last ID given to a request
    pending,  \* IDs in the pending map
    box,      \* the response channel of each ID, of capacity 1
    wire,     \* messages on their way to each end
    open,     \* the transport is open
    loop,     \* control point of each read loop
    inHand,   \* the ID whose response deliverResponse hands over
    serving,  \* requests whose handler is done and whose response is unwritten
    ctx,      \* "live" or "cancelled": the context of each caller
    cpc,      \* control point of each caller
    cid,      \* ID of its request, 0 before it has one
    result,   \* what the call returned
    stray     \* number of unasked responses so far

vars == <<mu, nextID, pending, box, wire, open, loop, inHand, serving, ctx, cpc, cid,
          result, stray>>

Message ==
    [kind : {"request", "response"}, id : Ids] \cup [kind : {"notification"}, id : {0}]
M(kind, id) == [kind |-> kind, id |-> id]

Free(s) == mu[s] = <<>>

Init ==
    /\ mu = [s \in Sides |-> <<>>]
    /\ nextID = [s \in Sides |-> 0]
    /\ pending = [s \in Sides |-> {}]
    /\ box = [s \in Sides |-> [i \in Ids |-> "empty"]]
    /\ wire = [s \in Sides |-> <<>>]
    /\ open = TRUE
    /\ loop = [s \in Sides |-> "read"]
    /\ inHand = [s \in Sides |-> 0]
    /\ serving = [s \in Sides |-> {}]
    /\ ctx = [r \in Callers |-> "live"]
    /\ cpc = [r \in Callers |-> "idle"]
    /\ cid = [r \in Callers |-> 0]
    /\ result = [r \in Callers |-> "none"]
    /\ stray = 0

\* The operators named ...Fault are faults a change of the code could bring in,
\* one for each property; no specification uses them.

-----------------------------------------------------------------------------
(* Writing: the lock is taken, the message written, the lock released. *)

Lock(s, who) == Free(s) /\ mu' = [mu EXCEPT ![s] = who]
Unlock(s) == mu' = [mu EXCEPT ![s] = <<>>]

\* A write that the wire has no room for is kept somewhere else.
WriteFault(s, m) == open /\ wire' = [wire EXCEPT ![Other(s)] = Append(@, m)]

Write(s, m) ==
    /\ open
    /\ Len(wire[Other(s)]) < WireCap
    /\ wire' = [wire EXCEPT ![Other(s)] = Append(@, m)]

-----------------------------------------------------------------------------
(* Request and Notify. *)

\* The ID is read before the lock and stored after it.
RegisterFault(r) ==
    LET s == SideOf[r] IN
    /\ cpc[r] = "idle" /\ Free(s) /\ nextID[s] < MaxID
    /\ cid' = [cid EXCEPT ![r] = nextID[s] + 1]
    /\ pending' = [pending EXCEPT ![s] = @ \cup {nextID[s] + 1}]
    /\ cpc' = [cpc EXCEPT ![r] = "registered"]
    /\ UNCHANGED <<mu, nextID, box, wire, open, loop, inHand, serving, ctx, result, stray>>

\* Request takes the next ID and registers its channel.
Register(r) ==
    LET s == SideOf[r] IN
    /\ cpc[r] = "idle" /\ Free(s) /\ nextID[s] < MaxID
    /\ nextID' = [nextID EXCEPT ![s] = @ + 1]
    /\ cid' = [cid EXCEPT ![r] = nextID[s] + 1]
    /\ pending' = [pending EXCEPT ![s] = @ \cup {nextID[s] + 1}]
    /\ cpc' = [cpc EXCEPT ![r] = "registered"]
    /\ UNCHANGED <<mu, box, wire, open, loop, inHand, serving, ctx, result, stray>>

\* Both marshal their parameters first; on an error nothing is written.
MarshalFails(r) ==
    /\ cpc[r] \in {"registered", "idle"}
    /\ cpc' = [cpc EXCEPT ![r] = IF cpc[r] = "idle" THEN "returned" ELSE "unregister"]
    /\ result' = [result EXCEPT ![r] = "error"]
    /\ UNCHANGED <<mu, nextID, pending, box, wire, open, loop, inHand, serving, ctx, cid, stray>>

\* A caller that goes to write without an ID is in Notify.
LockToWrite(r) ==
    /\ cpc[r] \in {"registered", "idle"}
    /\ Lock(SideOf[r], <<"caller", r>>)
    /\ cpc' = [cpc EXCEPT ![r] = "writing"]
    /\ UNCHANGED <<nextID, pending, box, wire, open, loop, inHand, serving, ctx, cid, result,
                   stray>>

WriteMessage(r) ==
    LET s == SideOf[r] IN
    /\ cpc[r] = "writing"
    /\ Write(s, M(IF cid[r] = 0 THEN "notification" ELSE "request", cid[r]))
    /\ Unlock(s)
    /\ cpc' = [cpc EXCEPT ![r] = IF cid[r] = 0 THEN "returned" ELSE "waiting"]
    /\ result' = [result EXCEPT ![r] = IF cid[r] = 0 THEN "written" ELSE "none"]
    /\ UNCHANGED <<nextID, pending, box, open, loop, inHand, serving, ctx, cid, stray>>

WriteFails(r) ==
    /\ cpc[r] = "writing" /\ ~open
    /\ Unlock(SideOf[r])
    /\ cpc' = [cpc EXCEPT ![r] = IF cid[r] = 0 THEN "returned" ELSE "unregister"]
    /\ result' = [result EXCEPT ![r] = "error"]
    /\ UNCHANGED <<nextID, pending, box, wire, open, loop, inHand, serving, ctx, cid, stray>>

\* The three ways out of the select in Request.
ReceiveResponse(r) ==
    LET s == SideOf[r] IN
    /\ cpc[r] = "waiting" /\ box[s][cid[r]] # "empty"
    /\ result' = [result EXCEPT ![r] = box[s][cid[r]]]
    /\ box' = [box EXCEPT ![s][cid[r]] = "empty"]
    /\ cpc' = [cpc EXCEPT ![r] = "returned"]
    /\ UNCHANGED <<mu, nextID, pending, wire, open, loop, inHand, serving, ctx, cid, stray>>

ContextDone(r) ==
    /\ cpc[r] = "waiting" /\ ctx[r] = "cancelled"
    /\ cpc' = [cpc EXCEPT ![r] = "unregister"]
    /\ result' = [result EXCEPT ![r] = "cancelled"]
    /\ UNCHANGED <<mu, nextID, pending, box, wire, open, loop, inHand, serving, ctx, cid, stray>>

ConnectionDone(r) ==
    /\ cpc[r] = "waiting" /\ loop[SideOf[r]] = "ended"
    /\ cpc' = [cpc EXCEPT ![r] = "returned"]
    /\ result' = [result EXCEPT ![r] = "closed"]
    /\ UNCHANGED <<mu, nextID, pending, box, wire, open, loop, inHand, serving, ctx, cid, stray>>

\* The error paths delete the ID, which needs the mutex.
Unregister(r) ==
    LET s == SideOf[r] IN
    /\ cpc[r] = "unregister" /\ Free(s)
    /\ pending' = [pending EXCEPT ![s] = @ \ {cid[r]}]
    /\ cpc' = [cpc EXCEPT ![r] = "returned"]
    /\ UNCHANGED <<mu, nextID, box, wire, open, loop, inHand, serving, ctx, cid, result, stray>>

\* Only the select that waits for the response looks at the context.
CancelContext(r) ==
    /\ ctx[r] = "live" /\ cpc[r] = "waiting"
    /\ ctx' = [ctx EXCEPT ![r] = "cancelled"]
    /\ UNCHANGED <<mu, nextID, pending, box, wire, open, loop, inHand, serving, cpc, cid,
                   result, stray>>

Caller(r) ==
    \/ LockToWrite(r) \/ WriteMessage(r) \/ WriteFails(r)
    \/ ReceiveResponse(r) \/ ContextDone(r) \/ ConnectionDone(r) \/ Unregister(r)

-----------------------------------------------------------------------------
(* The read loop and the goroutines it starts. *)

\* A message leaves the wire; a response then needs the mutex, a request and a
\* notification do not.
ReadResponse(s) ==
    /\ loop[s] = "read" /\ wire[s] # <<>>
    /\ Head(wire[s]).kind = "response"
    /\ wire' = [wire EXCEPT ![s] = Tail(@)]
    /\ inHand' = [inHand EXCEPT ![s] = Head(wire[s]).id]
    /\ loop' = [loop EXCEPT ![s] = "lookup"]
    /\ UNCHANGED <<mu, nextID, pending, box, open, serving, ctx, cpc, cid, result, stray>>

\* The ID stays.
LookUpFault(s) ==
    /\ loop[s] = "lookup" /\ Free(s)
    /\ IF inHand[s] \in pending[s]
         THEN /\ loop' = [loop EXCEPT ![s] = "deliver"]
              /\ UNCHANGED inHand
         ELSE /\ loop' = [loop EXCEPT ![s] = "read"]
              /\ inHand' = [inHand EXCEPT ![s] = 0]
    /\ UNCHANGED <<mu, nextID, pending, box, wire, open, serving, ctx, cpc, cid, result, stray>>

\* deliverResponse, the locked part: an unknown ID is dropped, a known one is
\* taken out of the map.
LookUp(s) ==
    /\ loop[s] = "lookup" /\ Free(s)
    /\ pending' = [pending EXCEPT ![s] = @ \ {inHand[s]}]
    /\ IF inHand[s] \in pending[s]
         THEN /\ loop' = [loop EXCEPT ![s] = "deliver"]
              /\ UNCHANGED inHand
         ELSE /\ loop' = [loop EXCEPT ![s] = "read"]
              /\ inHand' = [inHand EXCEPT ![s] = 0]
    /\ UNCHANGED <<mu, nextID, box, wire, open, serving, ctx, cpc, cid, result, stray>>

\* deliverResponse, the send after the unlock: waits if the channel is full.
Deliver(s) ==
    /\ loop[s] = "deliver"
    /\ box[s][inHand[s]] = "empty"
    /\ box' = [box EXCEPT ![s][inHand[s]] = "answered"]
    /\ inHand' = [inHand EXCEPT ![s] = 0]
    /\ loop' = [loop EXCEPT ![s] = "read"]
    /\ UNCHANGED <<mu, nextID, pending, wire, open, serving, ctx, cpc, cid, result, stray>>

\* A request gets a goroutine; a notification is handled at once.
ReadRequest(s) ==
    /\ loop[s] = "read" /\ wire[s] # <<>>
    /\ Head(wire[s]).kind # "response"
    /\ wire' = [wire EXCEPT ![s] = Tail(@)]
    /\ serving' = [serving EXCEPT ![s] = IF Head(wire[s]).kind = "request"
                                           THEN @ \cup {Head(wire[s]).id} ELSE @]
    /\ UNCHANGED <<mu, nextID, pending, box, open, loop, inHand, ctx, cpc, cid, result, stray>>

ServeLocks(s, i) ==
    /\ i \in serving[s]
    /\ Lock(s, <<"handler", i>>)
    /\ UNCHANGED <<nextID, pending, box, wire, open, loop, inHand, serving, ctx, cpc, cid,
                   result, stray>>

\* The response of the goroutine; its write error is dropped.
ServeWrites(s, i) ==
    /\ mu[s] = <<"handler", i>>
    /\ Write(s, M("response", i)) \/ (~open /\ UNCHANGED wire)
    /\ Unlock(s)
    /\ serving' = [serving EXCEPT ![s] = @ \ {i}]
    /\ UNCHANGED <<nextID, pending, box, open, loop, inHand, ctx, cpc, cid, result, stray>>

\* Scan returns false: the transport is closed, and lines that were not read yet
\* may be lost with it.
StopScanning(s) ==
    /\ loop[s] = "read" /\ ~open
    /\ loop' = [loop EXCEPT ![s] = "stopped"]
    /\ UNCHANGED <<mu, nextID, pending, box, wire, open, inHand, serving, ctx, cpc, cid, result,
                   stray>>

\* Scan returns false while the transport is open: a line is longer than the
\* scanner's buffer.
ScanFails(s) ==
    /\ MayClose
    /\ loop[s] = "read" /\ open
    /\ loop' = [loop EXCEPT ![s] = "stopped"]
    /\ UNCHANGED <<mu, nextID, pending, box, wire, open, inHand, serving, ctx, cpc, cid, result,
                   stray>>

\* Every pending request gets an error.  The sends are made with the mutex held
\* and wait for room in each channel.
Drain(s) ==
    /\ loop[s] = "stopped" /\ Free(s)
    /\ \A i \in pending[s] : box[s][i] = "empty"
    /\ box' = [box EXCEPT ![s] = [i \in Ids |-> IF i \in pending[s] THEN "closed" ELSE @[i]]]
    /\ pending' = [pending EXCEPT ![s] = {}]
    /\ loop' = [loop EXCEPT ![s] = "drained"]
    /\ UNCHANGED <<mu, nextID, wire, open, inHand, serving, ctx, cpc, cid, result, stray>>

\* The deferred calls do not close done.
EndLoopFault(s) == loop[s] = "drained" /\ UNCHANGED vars

\* The deferred calls: the connection's context is cancelled, done is closed.
EndLoop(s) ==
    /\ loop[s] = "drained"
    /\ loop' = [loop EXCEPT ![s] = "ended"]
    /\ UNCHANGED <<mu, nextID, pending, box, wire, open, inHand, serving, ctx, cpc, cid, result,
                   stray>>

ReadLoop(s) ==
    \/ ReadResponse(s) \/ LookUp(s) \/ Deliver(s) \/ ReadRequest(s)
    \/ StopScanning(s) \/ Drain(s) \/ EndLoop(s)

Serve(s) == \E i \in Ids : ServeLocks(s, i) \/ ServeWrites(s, i)

-----------------------------------------------------------------------------
(* The world outside. *)

Close ==
    /\ MayClose /\ open
    /\ open' = FALSE
    /\ UNCHANGED <<mu, nextID, pending, box, wire, loop, inHand, serving, ctx, cpc, cid, result,
                   stray>>

\* Who waits for Done closes the transport: handleConnection at the server, a
\* goroutine of Dial at the client.
CloseAfterDone(s) ==
    /\ loop[s] = "ended" /\ open
    /\ open' = FALSE
    /\ UNCHANGED <<mu, nextID, pending, box, wire, loop, inHand, serving, ctx, cpc, cid, result,
                   stray>>

\* A peer answers twice, or answers what was not asked.
StrayResponse(s, i) ==
    /\ stray < MaxStray
    /\ Write(s, M("response", i))
    /\ stray' = stray + 1
    /\ UNCHANGED <<mu, nextID, pending, box, open, loop, inHand, serving, ctx, cpc, cid, result>>

Next ==
    \/ \E r \in Callers : Register(r) \/ MarshalFails(r) \/ Caller(r) \/ CancelContext(r)
    \/ \E s \in Sides : ReadLoop(s) \/ ScanFails(s) \/ Serve(s) \/ CloseAfterDone(s)
    \/ \E s \in Strayers : \E i \in Ids : StrayResponse(s, i)
    \/ Close

Spec == Init /\ [][Next]_vars

\* Both ends run.
LiveSpec ==
    /\ Spec
    /\ \A r \in Callers : WF_vars(Caller(r))
    /\ \A s \in Sides : WF_vars(Serve(s)) /\ WF_vars(ReadLoop(s)) /\ WF_vars(CloseAfterDone(s))

-----------------------------------------------------------------------------
(* Properties. *)

Holders == {<<>>} \cup {<<"caller", r>> : r \in Callers} \cup {<<"handler", i>> : i \in Ids}

TypeOK ==
    /\ mu \in [Sides -> Holders]
    /\ nextID \in [Sides -> Nat]
    /\ pending \in [Sides -> SUBSET Ids]
    /\ box \in [Sides -> [Ids -> {"empty", "answered", "closed"}]]
    /\ \A s \in Sides : wire[s] \in Seq(Message) /\ Len(wire[s]) <= WireCap
    /\ open \in BOOLEAN
    /\ loop \in [Sides -> {"read", "lookup", "deliver", "stopped", "drained", "ended"}]
    /\ inHand \in [Sides -> Ids \cup {0}]
    /\ serving \in [Sides -> SUBSET Ids]
    /\ ctx \in [Callers -> {"live", "cancelled"}]
    /\ cpc \in [Callers -> {"idle", "registered", "writing", "waiting", "unregister", "returned"}]
    /\ cid \in [Callers -> Ids \cup {0}]
    /\ result \in [Callers -> {"none", "written", "error", "cancelled", "closed", "answered"}]
    /\ stray \in 0..MaxStray

\* No two requests of one end share an ID, so that no caller can receive the
\* response to another's request.
OwnID ==
    \A q, r \in Callers :
        q # r /\ SideOf[q] = SideOf[r] /\ cid[q] # 0 => cid[q] # cid[r]

\* A response channel has room for whoever takes its ID out of the map: the read
\* loop waits on no caller, whatever responses the peer sends, how often and when.
NeverBlocked ==
    \A s \in Sides :
        /\ loop[s] = "deliver" => box[s][inHand[s]] = "empty"
        /\ \A i \in pending[s] : box[s][i] = "empty"

\* Every call returns while both ends run, whatever the peer answers, when contexts are
\* cancelled and when the transport closes in the middle of it; the requests are one end's.
CallReturns == \A r \in Callers : cpc[r] \in {"registered", "writing"} ~> cpc[r] = "returned"

-----------------------------------------------------------------------------
(* Inductive strengthening of OwnID and NeverBlocked. *)

\* IDs are given out in order.
IdInv ==
    /\ \A r \in Callers : cid[r] <= nextID[SideOf[r]]
    /\ \A s \in Sides : \A i \in pending[s] : i <= nextID[s]
    /\ OwnID

\* A channel is empty until its ID has left the map for good: the map, the loop's
\* hand and the channels never hold the same ID, nor one not given out yet.
BoxInv ==
    \A s \in Sides :
        /\ \A i \in Ids : i \in pending[s] \/ i > nextID[s] => box[s][i] = "empty"
        /\ loop[s] = "deliver" => /\ inHand[s] \in Ids \ pending[s]
                                  /\ inHand[s] <= nextID[s]
                                  /\ box[s][inHand[s]] = "empty"

RpcInv == IdInv /\ BoxInv
=============================================================================
