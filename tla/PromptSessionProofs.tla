------------------------ MODULE PromptSessionProofs ------------------------
(***************************************************************************)
(* Theorems about PromptSession for any number of prompts, calls, loads    *)
(* and cancels, any channel capacities and any batches of the model.       *)
(***************************************************************************)
EXTENDS PromptSession, Queues, FiniteSetTheorems, SequenceTheorems, FunctionTheorems, TLAPS

-----------------------------------------------------------------------------
(* How the number of places of a value in a channel changes when something *)
(* is appended to it or taken from its head.  The proofs that balance what *)
(* was sent against what was done rest on these.                           *)

\* What is left of a channel when its head is taken.
LEMMA TailOf ==
  ASSUME NEW S, NEW q \in Seq(S), q # <<>>
  PROVE  /\ Head(q) \in S /\ Head(q) = q[1]
         /\ Tail(q) \in Seq(S) /\ Len(q) \in Nat \ {0} /\ Len(Tail(q)) = Len(q) - 1
         /\ \A i \in 1 .. Len(Tail(q)) : Tail(q)[i] = q[i + 1]
         /\ Len(q) = 1 <=> Tail(q) = <<>>
         /\ Len(q) # 1 => Tail(q)[Len(Tail(q))] = q[Len(q)]
<1>1. /\ Head(q) \in S /\ Head(q) = q[1]
      /\ Tail(q) \in Seq(S) /\ Len(q) \in Nat \ {0} /\ Len(Tail(q)) = Len(q) - 1
      /\ \A i \in 1 .. Len(Tail(q)) : Tail(q)[i] = q[i + 1]
  BY HeadTailProperties, LenProperties, EmptySeq
<1>2. Len(Tail(q)) = 0 <=> Tail(q) = <<>>
  BY <1>1, EmptySeq
<1>3. Len(q) # 1 => Len(Tail(q)) \in 1 .. Len(Tail(q))
  BY <1>1
<1>4. QED
  BY <1>1, <1>2, <1>3

LEMMA PlacesFinite ==
  ASSUME NEW S, NEW q \in Seq(S), NEW x
  PROVE  /\ IsFiniteSet(Places(q, x))
         /\ Cardinality(Places(q, x)) \in Nat
<1>1. IsFiniteSet(1 .. Len(q))
  BY FS_Interval, LenProperties
<1>2. Places(q, x) \in SUBSET (1 .. Len(q))
  BY DEF Places
<1>3. QED
  BY <1>1, <1>2, FS_Subset, FS_CardinalityType

LEMMA PlacesAppend ==
  ASSUME NEW S, NEW q \in Seq(S), NEW e \in S, NEW x
  PROVE  Cardinality(Places(Append(q, e), x)) =
           IF e = x THEN Cardinality(Places(q, x)) + 1 ELSE Cardinality(Places(q, x))
<1>1. /\ Len(Append(q, e)) = Len(q) + 1 /\ Len(q) \in Nat
      /\ \A i \in 1 .. Len(q) : Append(q, e)[i] = q[i]
      /\ Append(q, e)[Len(q) + 1] = e
  BY AppendProperties, LenProperties
<1>2. Places(Append(q, e), x) = Places(q, x) \cup (IF e = x THEN {Len(q) + 1} ELSE {})
  BY <1>1 DEF Places
<1>3. Len(q) + 1 \notin Places(q, x)
  BY <1>1 DEF Places
<1>4. QED
  BY <1>2, <1>3, PlacesFinite, FS_AddElement

LEMMA PlacesTail ==
  ASSUME NEW S, NEW q \in Seq(S), NEW x, q # <<>>
  PROVE  Cardinality(Places(q, x)) =
           IF Head(q) = x THEN Cardinality(Places(Tail(q), x)) + 1
                          ELSE Cardinality(Places(Tail(q), x))
<1> DEFINE T == Places(Tail(q), x)
           R == Places(q, x) \ {1}
           f == [i \in T |-> i + 1]
<1>1. /\ Tail(q) \in Seq(S) /\ Len(q) \in Nat \ {0} /\ Len(Tail(q)) = Len(q) - 1
      /\ Head(q) = q[1]
      /\ \A i \in 1 .. Len(Tail(q)) : Tail(q)[i] = q[i + 1]
  BY TailOf
<1>2. f \in Bijection(T, R)
  <2>1. \A i \in T : i \in Nat /\ i + 1 \in R
    BY <1>1 DEF Places
  <2>2. \A j \in R : j \in Nat /\ j - 1 \in T /\ f[j - 1] = j
    BY <1>1 DEF Places
  <2>3. f \in [T -> R] /\ \A a, b \in T : f[a] = f[b] => a = b
    BY <2>1
  <2>4. \A j \in R : \E i \in T : f[i] = j
    BY <2>2
  <2>5. QED
    BY <2>3, <2>4 DEF Bijection, Injection, Surjection, IsInjective
<1>3. IsFiniteSet(T) /\ IsFiniteSet(Places(q, x)) /\ Cardinality(T) \in Nat
      /\ Cardinality(Places(q, x)) \in Nat
  BY <1>1, PlacesFinite
<1>4. Cardinality(R) = Cardinality(T)
  BY <1>2, <1>3, FS_Bijection DEF ExistsBijection
<1>5. Cardinality(R) = IF 1 \in Places(q, x) THEN Cardinality(Places(q, x)) - 1
                                             ELSE Cardinality(Places(q, x))
  BY <1>3, FS_RemoveElement
<1>6. 1 \in Places(q, x) <=> Head(q) = x
  BY <1>1 DEF Places
<1>7. QED
  BY <1>3, <1>4, <1>5, <1>6

\* The same for the number of them.
LEMMA HowManyType ==
  ASSUME NEW S, NEW q \in Seq(S), NEW x
  PROVE  HowMany(q, x) \in Nat
BY PlacesFinite DEF HowMany

LEMMA HowManyEmpty ==
  ASSUME NEW x
  PROVE  HowMany(<<>>, x) = 0
<1>1. Places(<<>>, x) = {}
  BY EmptySeq DEF Places
<1>2. QED
  BY <1>1, FS_EmptySet DEF HowMany

LEMMA HowManyAppend ==
  ASSUME NEW S, NEW q \in Seq(S), NEW e \in S, NEW x
  PROVE  HowMany(Append(q, e), x) = HowMany(q, x) + (IF e = x THEN 1 ELSE 0)
<1>1. Cardinality(Places(q, x)) \in Nat
  BY PlacesFinite
<1>2. QED
  BY <1>1, PlacesAppend DEF HowMany

LEMMA HowManyTail ==
  ASSUME NEW S, NEW q \in Seq(S), NEW x, q # <<>>
  PROVE  HowMany(q, x) = HowMany(Tail(q), x) + (IF Head(q) = x THEN 1 ELSE 0)
<1>1. Tail(q) \in Seq(S)
  BY HeadTailProperties
<1>2. Cardinality(Places(Tail(q), x)) \in Nat
  BY <1>1, PlacesFinite
<1>3. QED
  BY <1>2, PlacesTail DEF HowMany

-----------------------------------------------------------------------------
(* The invariants the theorems rest on. *)

\* A handler that waits has asked about a call, and the read loop sends a cancel to a prompt.
Asked == \A p \in Prompts : hpc[p] = "waiting" => hcall[p] \in Calls
CancelInHand == rpc = "sending" => rch \in Prompts

TypeInv == TypeOK /\ Asked /\ CancelInHand

\* A sessionState holds a prompt only while that prompt's handler, which has loaded this
\* very sessionState, is between its registration and its deferred part.
Registered == {"forward", "ask", "waiting", "sending", "defer"}
RegInv ==
    \A o \in Objects : active[o] # None =>
        hobj[active[o]] = o /\ hpc[active[o]] \in Registered

\* Prompts one after the other: one handler at a time, it sends to its own run or to none,
\* and only runs whose handler is done have been cancelled.
Alone == \A p, q \in Prompts : Outstanding(p) /\ Outstanding(q) => p = q
OwnChannel == \A p \in Prompts : hpc[p] = "sending" => hch[p] \in {p, None}
CtxInv == \A p \in ctxDone : hpc[p] = "done"

AloneInv == Alone /\ OwnChannel /\ CtxInv

\* Then the session also holds the run of a handler between its registration and its
\* deferred part, and the doneCh of a run whose handler is done is closed.
CloseInv ==
    \A p \in Prompts :
        /\ hpc[p] \in {"idle", "loaded"} => apc[p] = "idle"
        /\ hpc[p] \in Registered => active[hobj[p]] = p
        /\ hpc[p] = "done" /\ apc[p] # "idle" => p \in doneCh

\* A permission is in the hand of the handler, or queued, or in a call that is granted
\* and has not run, or was used, or was dropped.
Approval(c) == Cmd("approve", c)
Sent(p, c) == IF hpc[p] = "sending" /\ hcmd[p] = Approval(c) THEN 1 ELSE 0
Queued(p, c) == HowMany(cmdCh[p], Approval(c))
IsDue(p, c) ==
    /\ c \in DOMAIN batch[p] /\ batch[p][c] = "granted"
    /\ apc[p] = "collect" \/ (apc[p] = "act" /\ c \in todo[p])
Due(p, c) == IF IsDue(p, c) THEN 1 ELSE 0

Balance == \A p \in Prompts, c \in Calls : Sent(p, c) + Queued(p, c) + Due(p, c) <= permits[p][c]
BatchInv == \A p \in Prompts : apc[p] = "act" => todo[p] \subseteq DOMAIN batch[p]

\* A run starts with its handler, without permissions, and is cancelled after that.
StageInv ==
    /\ \A p \in Prompts : hpc[p] \in {"idle", "loaded"} =>
           apc[p] = "idle" /\ permits[p] = [c \in Calls |-> 0]
    /\ rpc = "sending" => hpc[rch] # "idle"

\* A terminal event is the last one, said by a run that is over.  It is in the channel
\* until the handler takes it and leaves.
Terminal == {"completed", "cancelled", "failed"}
Leaving(p) == hpc[p] = "defer" \/ (hpc[p] = "sending" /\ hcmd[p].type = "cancel")
EventInv ==
    \A p \in Prompts :
        /\ \A i \in 1 .. Len(evtCh[p]) :
              evtCh[p][i].type \in Terminal => apc[p] = "over" /\ i = Len(evtCh[p])
        /\ apc[p] = "over" /\ ~Leaving(p) /\ hpc[p] # "done" =>
              evtCh[p] # <<>> /\ evtCh[p][Len(evtCh[p])].type \in Terminal

\* A handler leaves with the outcome of the run, or because the client is gone.
LeaveInv ==
    \A p \in Prompts : Leaving(p) =>
        \/ down /\ reply[p] = "cancelled"
        \/ hpc[p] = "defer" /\ apc[p] = "over" /\ evtCh[p] = <<>> /\ reply[p] # "none"

\* A cancel of a run was sent by the client, or the client is gone.
Told(p) == deliveredCancel[p] # Never \/ down
StopInv ==
    \A p \in Prompts :
        /\ apc[p] = "cancelled" => Told(p)
        /\ \A i \in 1 .. Len(cmdCh[p]) : cmdCh[p][i].type = "cancel" => Told(p)

EndInv == StageInv /\ EventInv /\ LeaveInv /\ StopInv

-----------------------------------------------------------------------------
(* Type correctness. *)

\* An update of one of these functions is an update at one prompt.
LEMMA Domains ==
  ASSUME TypeOK
  PROVE  /\ DOMAIN hpc = Prompts /\ DOMAIN hcalls = Prompts /\ DOMAIN hcall = Prompts
         /\ DOMAIN hcmd = Prompts /\ DOMAIN hch = Prompts /\ DOMAIN reply = Prompts
         /\ DOMAIN apc = Prompts /\ DOMAIN batch = Prompts /\ DOMAIN todo = Prompts
         /\ DOMAIN cmdCh = Prompts /\ DOMAIN evtCh = Prompts /\ DOMAIN permits = Prompts
BY DEF TypeOK

LEMMA CmdType ==
  ASSUME NEW t \in {"approve", "deny", "cancel"}, NEW c \in Calls \cup {None}
  PROVE  Cmd(t, c) \in Command
BY DEF Cmd, Command

LEMMA EvType ==
  ASSUME NEW t \in {"proposed", "ran", "completed", "cancelled", "failed"}, NEW S \in SUBSET Calls
  PROVE  Ev(t, S) \in Event
BY DEF Ev, Event

Batch == UNION {[S -> {"pending", "granted", "denied"}] : S \in SUBSET Calls}

LEMMA DecideType ==
  ASSUME NEW b \in Batch, NEW cmd \in Command
  PROVE  /\ Decide(b, cmd) \in Batch
         /\ DOMAIN Decide(b, cmd) = DOMAIN b
         /\ DOMAIN b \in SUBSET Calls
<1>1. PICK S \in SUBSET Calls : b \in [S -> {"pending", "granted", "denied"}]
  BY DEF Batch
<1>2. Decide(b, cmd) \in [S -> {"pending", "granted", "denied"}]
  BY <1>1 DEF Decide
<1>3. QED
  BY <1>1, <1>2 DEF Batch

LEMMA NoBatchType == NoBatch \in Batch /\ DOMAIN NoBatch = {}
<1>1. NoBatch \in [{} -> {"pending", "granted", "denied"}]
  BY DEF NoBatch
<1>2. QED
  BY <1>1 DEF Batch, NoBatch

\* What the model asks for are calls.
LEMMA BatchesType ==
  ASSUME NEW n \in 0..MaxTurns, n < MaxTurns, NEW S \in Batches[n + 1]
  PROVE  S \in SUBSET Calls
<1>1. MaxTurns \in Nat /\ n + 1 \in 1 .. Len(Batches)
  BY BoundsAssumption DEF MaxTurns
<1>2. Batches[n + 1] \in SUBSET SUBSET Calls
  BY <1>1, BatchesAssumption, ElementOfSeq
<1>3. QED
  BY <1>2

\* A command that finds room leaves the channels well typed.
LEMMA DeliverType ==
  ASSUME TypeOK, NEW q \in Prompts, NEW cmd \in Command, Deliver(q, cmd)
  PROVE  /\ cmdCh' \in [Prompts -> Seq(Command)]
         /\ \A p \in Prompts : Len(cmdCh'[p]) <= CmdCap
<1>1. /\ cmdCh[q] \in Seq(Command) /\ Len(cmdCh[q]) < CmdCap
      /\ cmdCh' = [cmdCh EXCEPT ![q] = Append(cmdCh[q], cmd)]
  BY DEF Deliver, TypeOK
<1>2. Append(cmdCh[q], cmd) \in Seq(Command) /\ Len(Append(cmdCh[q], cmd)) = Len(cmdCh[q]) + 1
  BY <1>1, AppendProperties
<1>3. CmdCap \in Nat /\ Len(cmdCh[q]) \in Nat
  BY <1>1, BoundsAssumption, LenProperties
<1>4. QED
  BY <1>1, <1>2, <1>3 DEF TypeOK

LEMMA EmitType ==
  ASSUME TypeOK, NEW p \in Prompts, NEW e \in Event, Emit(p, e)
  PROVE  /\ evtCh' \in [Prompts -> Seq(Event)]
         /\ \A q \in Prompts : Len(evtCh'[q]) <= EvtCap
<1>1. /\ evtCh[p] \in Seq(Event) /\ Len(evtCh[p]) < EvtCap
      /\ evtCh' = [evtCh EXCEPT ![p] = Append(evtCh[p], e)]
  BY DEF Emit, TypeOK
<1>2. Append(evtCh[p], e) \in Seq(Event) /\ Len(Append(evtCh[p], e)) = Len(evtCh[p]) + 1
  BY <1>1, AppendProperties
<1>3. EvtCap \in Nat /\ Len(evtCh[p]) \in Nat
  BY <1>1, BoundsAssumption, LenProperties
<1>4. QED
  BY <1>1, <1>2, <1>3 DEF TypeOK

LEMMA InitTypeInv == Init => TypeInv
<1> SUFFICES ASSUME Init PROVE TypeInv
  OBVIOUS
<1>1. 0 \in Objects /\ 0 \in 0..MaxTurns /\ 0 \in 0..MaxCancels /\ Never \in 0..Never
      /\ CmdCap >= 0 /\ EvtCap >= 0
  BY BoundsAssumption DEF Objects, MaxTurns, Never
<1>2. CancelCmd \in Command
  BY CmdType DEF CancelCmd
<1>3. /\ cmdCh \in [Prompts -> Seq(Command)] /\ \A p \in Prompts : Len(cmdCh[p]) <= CmdCap
      /\ evtCh \in [Prompts -> Seq(Event)] /\ \A p \in Prompts : Len(evtCh[p]) <= EvtCap
  <2>1. \A S : <<>> \in Seq(S) /\ Len(<<>>) = 0
    BY EmptySeq
  <2>2. QED
    BY <1>1, <2>1 DEF Init
<1>4. batch \in [Prompts -> Batch]
  BY NoBatchType DEF Init
<1>5. permits \in [Prompts -> [Calls -> Int]]
  BY DEF Init
<1>6. TypeOK
  BY <1>1, <1>2, <1>3, <1>4, <1>5 DEF Init, TypeOK, Batch
<1>7. QED
  BY <1>6 DEF Init, TypeInv, Asked, CancelInHand

\* The steps of a handler.
LEMMA HandlerTypeInv ==
  ASSUME TypeInv, NEW p \in Prompts, PromptArrives(p) \/ Handler(p) \/ ClientAnswers(p)
  PROVE  TypeInv'
<1> USE DEF TypeInv, Asked, CancelInHand, sessVars, handVars, readVars, runVars
<1>1. CASE PromptArrives(p)
  BY <1>1 DEF PromptArrives, TypeOK
<1>2. CASE StartRun(p)
  BY <1>2 DEF StartRun, TypeOK
<1>3. CASE Register(p)
  BY <1>3 DEF Register, TypeOK
<1>4. CASE ReceiveEvent(p)
  <2>1. /\ evtCh[p] \in Seq(Event) /\ evtCh[p] # <<>>
        /\ evtCh' = [evtCh EXCEPT ![p] = Tail(evtCh[p])]
    BY <1>4 DEF ReceiveEvent, TypeOK
  <2>2. Head(evtCh[p]) \in Event /\ Tail(evtCh[p]) \in Seq(Event)
        /\ Len(Tail(evtCh[p])) = Len(evtCh[p]) - 1 /\ Len(evtCh[p]) \in Nat
    BY <2>1, HeadTailProperties, LenProperties
  <2>3. EvtCap \in Nat
    BY BoundsAssumption
  <2>4. /\ evtCh' \in [Prompts -> Seq(Event)]
        /\ \A q \in Prompts : Len(evtCh'[q]) <= EvtCap
    BY <2>1, <2>2, <2>3 DEF TypeOK
  <2>5. /\ hcalls' \in [Prompts -> SUBSET Calls]
        /\ reply' \in [Prompts -> {"none", "end_turn", "cancelled", "error"}]
    BY <1>4, <2>2 DEF ReceiveEvent, Event, Response, TypeOK
  <2>6. /\ hpc' \in [Prompts -> {"idle", "loaded", "started", "forward", "ask", "waiting",
                                 "sending", "defer", "done"}]
        /\ \A q \in Prompts : hpc'[q] # hpc[q] => hpc'[q] \in {"ask", "forward", "defer"}
    BY <1>4, <2>2 DEF ReceiveEvent, TypeOK
  <2>7. QED
    BY <1>4, <2>4, <2>5, <2>6 DEF ReceiveEvent, TypeOK
<1>5. CASE StopForwarding(p)
  <2>1. CancelCmd \in Command
    BY CmdType DEF CancelCmd
  <2>2. QED
    BY <1>5, <2>1 DEF StopForwarding, TypeOK
<1>6. ASSUME NEW c \in Calls, AskPermission(p, c) PROVE TypeInv'
  BY <1>6 DEF AskPermission, TypeOK
<1>7. CASE RequestFails(p) \/ ClientAnswers(p)
  <2>1. PICK t \in {"approve", "deny"} : Prepare(p, t)
    BY <1>7 DEF RequestFails, ClientAnswers
  <2>2. Cmd(t, hcall[p]) \in Command
    BY CmdType DEF TypeOK
  <2>3. permits' \in [Prompts -> [Calls -> Int]]
    <3>1. permits[p] \in [Calls -> Int] /\ hcall[p] \in Calls
      BY <1>7 DEF RequestFails, ClientAnswers, TypeOK
    <3>2. [permits[p] EXCEPT ![hcall[p]] = @ + 1] \in [Calls -> Int]
      BY <3>1
    <3>3. permits' \in {permits, [permits EXCEPT ![p] = [permits[p] EXCEPT ![hcall[p]] = @ + 1]]}
      BY <1>7, <2>1 DEF RequestFails, ClientAnswers
    <3>4. QED
      BY <3>2, <3>3 DEF TypeOK
  <2>4. /\ hpc' = [hpc EXCEPT ![p] = "sending"] /\ hcmd' = [hcmd EXCEPT ![p] = Cmd(t, hcall[p])]
        /\ hch' = [hch EXCEPT ![p] = active[hobj[p]]]
        /\ UNCHANGED <<sessVars, down, hobj, hcalls, hcall, reply, readVars, runVars, cmdCh,
                       evtCh, deliveredCancel>>
    BY <1>7, <2>1 DEF RequestFails, ClientAnswers, Prepare
  <2>5. QED
    BY <2>2, <2>3, <2>4 DEF TypeOK
<1>8. CASE HandlerSends(p)
  <2>1. /\ cmdCh' \in [Prompts -> Seq(Command)]
        /\ \A q \in Prompts : Len(cmdCh'[q]) <= CmdCap
    <3>1. hch[p] \in Prompts \cup {None} /\ hcmd[p] \in Command
      BY DEF TypeOK
    <3>2. CASE cmdCh' = cmdCh
      BY <3>2 DEF TypeOK
    <3>3. CASE hch[p] # None /\ Deliver(hch[p], hcmd[p])
      BY <3>1, <3>3, DeliverType
    <3>4. QED
      BY <1>8, <3>2, <3>3 DEF HandlerSends
  <2>2. CancelCmd \in Command
    BY CmdType DEF CancelCmd
  <2>3. AfterSend(p) \in {"defer", "forward", "ask"}
    BY DEF AfterSend
  <2>4. QED
    BY <1>8, <2>1, <2>2, <2>3 DEF HandlerSends, TypeOK
<1>9. CASE FinishPrompt(p)
  <2>1. doneCh' \subseteq Prompts /\ ctxDone' \subseteq Prompts
    BY <1>9 DEF FinishPrompt, TypeOK
  <2>2. QED
    BY <1>9, <2>1 DEF FinishPrompt, TypeOK
<1>10. QED
  BY <1>1, <1>2, <1>3, <1>4, <1>5, <1>6, <1>7, <1>8, <1>9 DEF Handler

\* The steps of a run.
LEMMA RunTypeInv ==
  ASSUME TypeInv, NEW p \in Prompts, Run(p)
  PROVE  TypeInv'
<1> USE DEF TypeInv, Asked, CancelInHand, sessVars, handVars, readVars
<1>0. batch \in [Prompts -> Batch]
  BY DEF TypeOK, Batch
<1>1. CASE RunProposes(p)
  <2>1. turn[p] \in 0..MaxTurns /\ turn[p] < MaxTurns
    BY <1>1 DEF RunProposes, TypeOK
  <2>2. PICK S \in Batches[turn[p] + 1] :
          /\ batch' = [batch EXCEPT ![p] = [c \in S |-> "pending"]]
          /\ Emit(p, Ev("proposed", S))
    BY <1>1 DEF RunProposes
  <2>3. S \in SUBSET Calls
    BY <2>1, BatchesType
  <2>4. [c \in S |-> "pending"] \in [S -> {"pending", "granted", "denied"}]
    OBVIOUS
  <2>5. batch' \in [Prompts -> Batch]
    BY <1>0, <2>2, <2>3, <2>4 DEF Batch
  <2>6. Ev("proposed", S) \in Event
    BY <2>3, EvType
  <2>7. /\ evtCh' \in [Prompts -> Seq(Event)]
        /\ \A q \in Prompts : Len(evtCh'[q]) <= EvtCap
    BY <2>2, <2>6, EmitType
  <2>8. turn' \in [Prompts -> 0..MaxTurns]
    BY <1>1, <2>1, BoundsAssumption DEF RunProposes, TypeOK, MaxTurns
  <2>9. QED
    BY <1>1, <2>5, <2>7, <2>8 DEF RunProposes, TypeOK, Batch
<1>2. CASE RunReceives(p)
  <2> DEFINE cmd == Head(cmdCh[p])
             b == Decide(batch[p], cmd)
  <2>1. /\ cmdCh[p] \in Seq(Command) /\ cmdCh[p] # <<>>
        /\ cmdCh' = [cmdCh EXCEPT ![p] = Tail(cmdCh[p])]
    BY <1>2 DEF RunReceives, TypeOK
  <2>2. cmd \in Command /\ Tail(cmdCh[p]) \in Seq(Command)
        /\ Len(Tail(cmdCh[p])) = Len(cmdCh[p]) - 1 /\ Len(cmdCh[p]) \in Nat
    BY <2>1, HeadTailProperties, LenProperties
  <2>3. /\ cmdCh' \in [Prompts -> Seq(Command)]
        /\ \A q \in Prompts : Len(cmdCh'[q]) <= CmdCap
    <3>1. /\ cmdCh \in [Prompts -> Seq(Command)]
          /\ \A q \in Prompts : Len(cmdCh[q]) <= CmdCap
      BY DEF TypeOK
    <3>2. QED
      BY <2>1, <2>2, <3>1, BoundsAssumption
  <2>4. b \in Batch /\ DOMAIN b \in SUBSET Calls
    BY <1>0, <2>2, DecideType
  <2>5. /\ batch' \in [Prompts -> Batch]
        /\ todo' \in [Prompts -> SUBSET Calls]
        /\ apc' \in [Prompts -> {"idle", "think", "collect", "act", "completed", "cancelled",
                                 "failed", "over"}]
    <3>1. CASE cmd.type = "cancel"
      <4>1. /\ batch' = [batch EXCEPT ![p] = NoBatch] /\ todo' = todo
            /\ apc' = [apc EXCEPT ![p] = "cancelled"]
        BY <1>2, <3>1 DEF RunReceives
      <4>2. batch' \in [Prompts -> Batch]
        BY <1>0, <4>1, NoBatchType
      <4>3. QED
        BY <4>1, <4>2 DEF TypeOK
    <3>2. CASE cmd.type # "cancel"
      <4>1. /\ batch' = [batch EXCEPT ![p] = b]
            /\ apc' = [apc EXCEPT ![p] = IF Decided(b) THEN "act" ELSE "collect"]
            /\ todo' = [todo EXCEPT ![p] = IF Decided(b) THEN DOMAIN b ELSE {}]
        BY <1>2, <3>2 DEF RunReceives
      <4>2. QED
        BY <1>0, <2>4, <4>1 DEF TypeOK
    <3>3. QED
      BY <3>1, <3>2
  <2>6. QED
    BY <1>2, <2>3, <2>5 DEF RunReceives, TypeOK, Batch
<1>3. ASSUME NEW c \in Calls, RunExecutes(p, c) PROVE TypeInv'
  <2>1. /\ evtCh' \in [Prompts -> Seq(Event)]
        /\ \A q \in Prompts : Len(evtCh'[q]) <= EvtCap
    <3>1. Ev("ran", {c}) \in Event
      BY EvType
    <3>2. QED
      BY <1>3, <3>1, EmitType DEF RunExecutes, TypeOK
  <2>2. permits' \in [Prompts -> [Calls -> Int]]
    <3>1. permits[p] \in [Calls -> Int]
      BY DEF TypeOK
    <3>2. [permits[p] EXCEPT ![c] = @ - 1] \in [Calls -> Int]
      BY <3>1
    <3>3. permits' \in {permits, [permits EXCEPT ![p] = [permits[p] EXCEPT ![c] = @ - 1]]}
      BY <1>3 DEF RunExecutes
    <3>4. QED
      BY <3>2, <3>3 DEF TypeOK
  <2>3. batch' \in [Prompts -> Batch]
    BY <1>0, <1>3, NoBatchType DEF RunExecutes
  <2>4. /\ todo' \in [Prompts -> SUBSET Calls]
        /\ apc' \in [Prompts -> {"idle", "think", "collect", "act", "completed", "cancelled",
                                 "failed", "over"}]
    <3>1. \/ todo' = [todo EXCEPT ![p] = todo[p] \ {c}] /\ apc' = apc
          \/ todo' = [todo EXCEPT ![p] = {}] /\ apc' = [apc EXCEPT ![p] = "failed"]
      BY <1>3 DEF RunExecutes
    <3>2. todo[p] \ {c} \in SUBSET Calls
      BY DEF TypeOK
    <3>3. todo \in [Prompts -> SUBSET Calls]
          /\ apc \in [Prompts -> {"idle", "think", "collect", "act", "completed", "cancelled",
                                 "failed", "over"}]
      BY DEF TypeOK
    <3>4. todo' \in [Prompts -> SUBSET Calls]
      BY <3>1, <3>2, <3>3
    <3>5. QED
      BY <3>1, <3>3, <3>4
  <2>5. UNCHANGED <<sessVars, down, handVars, readVars, turn, cmdCh, deliveredCancel>>
    BY <1>3 DEF RunExecutes
  <2>6. QED
    BY <2>1, <2>2, <2>3, <2>4, <2>5 DEF TypeOK, Batch
<1>4. CASE RunResumes(p)
  <2>1. batch' \in [Prompts -> Batch]
    BY <1>0, <1>4, NoBatchType DEF RunResumes
  <2>2. QED
    BY <1>4, <2>1 DEF RunResumes, TypeOK, Batch
<1>5. CASE RunEnds(p)
  <2>1. /\ evtCh' \in [Prompts -> Seq(Event)]
        /\ \A q \in Prompts : Len(evtCh'[q]) <= EvtCap
    <3>1. PICK t \in {"completed", "cancelled", "failed"} : Emit(p, Ev(t, {}))
      BY <1>5 DEF RunEnds
    <3>2. Ev(t, {}) \in Event
      BY EvType
    <3>3. QED
      BY <3>1, <3>2, EmitType
  <2>2. QED
    BY <1>5, <2>1 DEF RunEnds, TypeOK
<1>6. QED
  BY <1>1, <1>2, <1>3, <1>4, <1>5 DEF Run

LEMMA NextTypeInv == TypeInv /\ [Next]_vars => TypeInv'
<1> SUFFICES ASSUME TypeInv, [Next]_vars PROVE TypeInv'
  OBVIOUS
<1> USE DEF TypeInv, Asked, CancelInHand, sessVars, handVars, readVars, runVars
<1>1. ASSUME NEW p \in Prompts, PromptArrives(p) \/ Handler(p) \/ ClientAnswers(p) PROVE TypeInv'
  BY <1>1, HandlerTypeInv
<1>2. ASSUME NEW p \in Prompts, Run(p) PROVE TypeInv'
  BY <1>2, RunTypeInv
<1>3. CASE CancelArrives
  <2>1. active[current] \in Prompts \cup {None}
    BY DEF TypeOK
  <2>2. cancels' \in 0..MaxCancels
    BY <1>3, BoundsAssumption DEF CancelArrives, TypeOK
  <2>3. QED
    BY <1>3, <2>1, <2>2 DEF CancelArrives, TypeOK
<1>4. CASE CancelSent
  <2>1. rch \in Prompts /\ CancelCmd \in Command
    BY <1>4, CmdType DEF CancelSent, CancelCmd
  <2>2. /\ cmdCh' \in [Prompts -> Seq(Command)]
        /\ \A q \in Prompts : Len(cmdCh'[q]) <= CmdCap
    BY <1>4, <2>1, DeliverType DEF CancelSent, TypeOK
  <2>3. Least(deliveredCancel[rch], turn[rch]) \in 0..Never
    BY <2>1, BoundsAssumption DEF Least, TypeOK, MaxTurns, Never
  <2>4. deliveredCancel' \in [Prompts -> 0..Never]
    BY <1>4, <2>3 DEF CancelSent, TypeOK
  <2>5. QED
    BY <1>4, <2>2, <2>4 DEF CancelSent, TypeOK
<1>5. CASE LoadSession
  <2>1. current' \in Objects
    BY <1>5, BoundsAssumption DEF LoadSession, TypeOK, Objects
  <2>2. QED
    BY <1>5, <2>1 DEF LoadSession, TypeOK
<1>6. CASE ConnectionCloses
  BY <1>6 DEF ConnectionCloses, TypeOK
<1>7. CASE UNCHANGED vars
  BY <1>7 DEF vars, TypeOK
<1>8. QED
  BY <1>1, <1>2, <1>3, <1>4, <1>5, <1>6, <1>7 DEF Next

\* The state of the session, its handlers, the read loop and the runs stays within its
\* types, and the channels within their capacities.
THEOREM SessionTypeCorrect == Spec => []TypeOK
<1>1. TypeInv => TypeOK
  BY DEF TypeInv
<1>2. QED
  BY <1>1, InitTypeInv, NextTypeInv, PTL DEF Spec

-----------------------------------------------------------------------------
(* No run is left behind. *)

\* Only these steps change a control point of a handler, and only two of them change what
\* the sessionStates hold.
LEMMA ReadLoopKeepsHandlers ==
  ASSUME CancelArrives \/ CancelSent \/ LoadSession \/ ConnectionCloses \/ UNCHANGED vars
  PROVE  UNCHANGED <<active, doneCh, ctxDone, handVars, runVars, evtCh, permits>>
BY DEF CancelArrives, CancelSent, LoadSession, ConnectionCloses, vars, sessVars, handVars,
       readVars, runVars

LEMMA RunKeepsHandlers ==
  ASSUME NEW p \in Prompts, Run(p)
  PROVE  UNCHANGED <<sessVars, down, handVars, readVars, deliveredCancel>>
BY DEF Run, RunProposes, RunReceives, RunExecutes, RunResumes, RunEnds

\* What a step of a handler that is neither its first nor its last does to its control
\* point, and to the sessionStates.
Middle(p) ==
    \/ StartRun(p) \/ ReceiveEvent(p) \/ StopForwarding(p) \/ RequestFails(p)
    \/ ClientAnswers(p) \/ HandlerSends(p) \/ \E c \in Calls : AskPermission(p, c)

LEMMA MiddleSteps ==
  ASSUME TypeOK, NEW p \in Prompts, Middle(p)
  PROVE  /\ \E at \in Registered \cup {"started", "done"} :
              /\ hpc' = [hpc EXCEPT ![p] = at]
              /\ at \in {"started", "done"} => hpc[p] = "loaded"
              /\ hpc[p] = "loaded" => at \in {"started", "done"}
         /\ hpc[p] \in {"loaded"} \cup Registered
         /\ UNCHANGED <<sessVars, hobj>>
<1> USE DEF sessVars, Registered
<1>1. CASE StartRun(p)
  BY <1>1 DEF StartRun
<1>2. CASE ReceiveEvent(p)
  BY <1>2 DEF ReceiveEvent
<1>3. CASE StopForwarding(p)
  BY <1>3 DEF StopForwarding
<1>4. CASE RequestFails(p) \/ ClientAnswers(p)
  BY <1>4 DEF RequestFails, ClientAnswers, Prepare
<1>5. CASE HandlerSends(p)
  BY <1>5 DEF HandlerSends, AfterSend
<1>6. CASE \E c \in Calls : AskPermission(p, c)
  BY <1>6 DEF AskPermission
<1>7. QED
  BY <1>1, <1>2, <1>3, <1>4, <1>5, <1>6 DEF Middle

LEMMA InitRegInv == Init => RegInv
BY DEF Init, RegInv

LEMMA NextRegInv == TypeInv /\ RegInv /\ [Next]_vars => RegInv'
<1> SUFFICES ASSUME TypeInv, RegInv, [Next]_vars PROVE RegInv'
  OBVIOUS
<1>0. TypeOK /\ None \notin Prompts
  BY NoneAssumption DEF TypeInv
<1> USE DEF RegInv
<1>1. ASSUME NEW p \in Prompts, PromptArrives(p) PROVE RegInv'
  BY <1>0, <1>1 DEF PromptArrives, sessVars, Registered, TypeOK
<1>2. ASSUME NEW p \in Prompts, Register(p) PROVE RegInv'
  BY <1>0, <1>2 DEF Register, Registered, TypeOK
<1>3. ASSUME NEW p \in Prompts, FinishPrompt(p) PROVE RegInv'
  BY <1>0, <1>3 DEF FinishPrompt, TypeOK
<1>4. ASSUME NEW p \in Prompts, Middle(p) PROVE RegInv'
  <2>1. PICK at \in Registered \cup {"started", "done"} :
          /\ hpc' = [hpc EXCEPT ![p] = at]
          /\ at \in {"started", "done"} => hpc[p] = "loaded"
          /\ UNCHANGED <<sessVars, hobj>>
    BY <1>0, <1>4, MiddleSteps
  <2>2. QED
    BY <1>0, <2>1 DEF sessVars, Registered, TypeOK
<1>5. ASSUME NEW p \in Prompts, Run(p) PROVE RegInv'
  BY <1>5, RunKeepsHandlers DEF sessVars, handVars
<1>6. CASE CancelArrives \/ CancelSent \/ LoadSession \/ ConnectionCloses \/ UNCHANGED vars
  BY <1>6, ReadLoopKeepsHandlers DEF handVars
<1>7. QED
  BY <1>1, <1>2, <1>3, <1>4, <1>5, <1>6 DEF Next, Handler, Middle

-----------------------------------------------------------------------------
(* Prompts one after the other. *)

LEMMA InitAlone == Init => AloneInv
BY DEF Init, AloneInv, Alone, OwnChannel, CtxInv, Outstanding

\* The session holds the run of the prompt at work, or none.
LEMMA OwnRun ==
  ASSUME TypeInv, RegInv, Alone, NEW p \in Prompts, Outstanding(p)
  PROVE  active[hobj[p]] \in {p, None}
<1>1. hobj[p] \in Objects /\ active[hobj[p]] \in Prompts \cup {None}
  BY DEF TypeInv, TypeOK
<1>2. active[hobj[p]] # None => Outstanding(active[hobj[p]])
  BY <1>1 DEF RegInv, Registered, Outstanding
<1>3. QED
  BY <1>1, <1>2 DEF Alone

LEMMA NextAlone ==
  ASSUME ~Concurrent
  PROVE  TypeInv /\ RegInv /\ AloneInv /\ [Next]_vars => AloneInv'
<1> SUFFICES ASSUME TypeInv, RegInv, AloneInv, [Next]_vars PROVE AloneInv'
  OBVIOUS
<1>0. TypeOK /\ None \notin Prompts
  BY NoneAssumption DEF TypeInv
<1> USE DEF AloneInv
<1>1. ASSUME NEW p \in Prompts, PromptArrives(p) PROVE AloneInv'
  <2>1. \A q \in Prompts : ~Outstanding(q)
    BY <1>1 DEF PromptArrives
  <2>2. /\ hpc' = [hpc EXCEPT ![p] = "loaded"] /\ hpc[p] = "idle"
        /\ UNCHANGED <<hch, ctxDone>>
    BY <1>1 DEF PromptArrives, sessVars
  <2>3. Alone'
    BY <1>0, <2>1, <2>2 DEF Alone, Outstanding, TypeOK
  <2>4. QED
    BY <1>0, <2>2, <2>3 DEF OwnChannel, CtxInv, TypeOK
<1>2. ASSUME NEW p \in Prompts, Register(p) PROVE AloneInv'
  BY <1>0, <1>2 DEF Register, Alone, OwnChannel, CtxInv, Outstanding, TypeOK
<1>3. ASSUME NEW p \in Prompts, FinishPrompt(p) PROVE AloneInv'
  <2>1. active[hobj[p]] \in {p, None}
    BY <1>3, OwnRun DEF FinishPrompt, Outstanding
  <2>2. ctxDone' \subseteq ctxDone \cup {p}
    BY <1>3, <2>1 DEF FinishPrompt
  <2>3. QED
    BY <1>0, <1>3, <2>2 DEF FinishPrompt, Alone, OwnChannel, CtxInv, Outstanding, TypeOK
<1>4. ASSUME NEW p \in Prompts, Middle(p) PROVE AloneInv'
  <2>1. PICK at \in Registered \cup {"started", "done"} :
          /\ hpc' = [hpc EXCEPT ![p] = at]
          /\ hpc[p] \in {"loaded"} \cup Registered
          /\ UNCHANGED <<sessVars, hobj>>
    BY <1>0, <1>4, MiddleSteps
  <2>2. Alone' /\ CtxInv'
    <3>1. \A q \in Prompts : hpc'[q] = (IF q = p THEN at ELSE hpc[q])
      BY <1>0, <2>1, Domains
    <3>2. \A q \in Prompts : Outstanding(q)' => Outstanding(q)
      BY <2>1, <3>1 DEF Outstanding, Registered
    <3>3. Alone'
      BY <3>2 DEF Alone
    <3>4. ctxDone' = ctxDone /\ ctxDone \subseteq Prompts /\ p \notin ctxDone
      BY <1>0, <2>1 DEF CtxInv, sessVars, Registered, TypeOK
    <3>5. CtxInv'
      BY <3>1, <3>4 DEF CtxInv
    <3>6. QED
      BY <3>3, <3>5
  <2>3. \A q \in Prompts \ {p} : hch'[q] = hch[q]
    BY <1>0, <1>4 DEF Middle, StartRun, ReceiveEvent, StopForwarding, RequestFails, Prepare,
                      ClientAnswers, HandlerSends, AskPermission, TypeOK
  <2>4. hpc'[p] = "sending" => hch'[p] \in {p, None}
    <3>1. active[hobj[p]] \in {p, None}
      BY <2>1, OwnRun DEF Outstanding, Registered
    <3>2. hpc'[p] = "sending" => hch'[p] = active[hobj[p]]
      BY <1>0, <1>4 DEF Middle, StartRun, ReceiveEvent, StopForwarding, RequestFails, Prepare,
                        ClientAnswers, HandlerSends, AfterSend, AskPermission, TypeOK
    <3>3. QED
      BY <3>1, <3>2
  <2>5. OwnChannel'
    BY <1>0, <2>1, <2>3, <2>4 DEF OwnChannel, TypeOK
  <2>6. QED
    BY <2>2, <2>5
<1>5. ASSUME NEW p \in Prompts, Run(p) PROVE AloneInv'
  BY <1>5, RunKeepsHandlers DEF sessVars, handVars, Alone, OwnChannel, CtxInv, Outstanding
<1>6. CASE CancelArrives \/ CancelSent \/ LoadSession \/ ConnectionCloses \/ UNCHANGED vars
  BY <1>6, ReadLoopKeepsHandlers DEF handVars, Alone, OwnChannel, CtxInv, Outstanding
<1>7. QED
  BY <1>1, <1>2, <1>3, <1>4, <1>5, <1>6 DEF Next, Handler, Middle

LEMMA InitCloseInv == Init => CloseInv
BY DEF Init, CloseInv, Registered

LEMMA NextCloseInv ==
  ASSUME ~Concurrent
  PROVE  TypeInv /\ RegInv /\ AloneInv /\ CloseInv /\ [Next]_vars => CloseInv'
<1> SUFFICES ASSUME TypeInv, RegInv, AloneInv, CloseInv, [Next]_vars PROVE CloseInv'
  OBVIOUS
<1>0. TypeOK /\ Alone
  BY DEF TypeInv, AloneInv
<1> USE DEF CloseInv
<1>1. ASSUME NEW p \in Prompts, PromptArrives(p) PROVE CloseInv'
  BY <1>0, <1>1 DEF PromptArrives, sessVars, runVars, Registered, TypeOK, Outstanding
<1>2. ASSUME NEW p \in Prompts, Register(p) PROVE CloseInv'
  <2>1. \A q \in Prompts \ {p} : hpc[q] \in {"idle", "done"}
    BY <1>0, <1>2 DEF Register, Alone, Outstanding
  <2>2. /\ hpc' = [hpc EXCEPT ![p] = "forward"]
        /\ active' = [active EXCEPT ![hobj[p]] = p]
        /\ UNCHANGED <<hobj, doneCh, apc>>
    BY <1>2 DEF Register, runVars
  <2>3. QED
    BY <1>0, <2>1, <2>2 DEF Registered, TypeOK
<1>3. ASSUME NEW p \in Prompts, FinishPrompt(p) PROVE CloseInv'
  <2>1. \A q \in Prompts \ {p} : hpc[q] \in {"idle", "done"}
    BY <1>0, <1>3 DEF FinishPrompt, Alone, Outstanding
  <2>2. active[hobj[p]] = p
    BY <1>3 DEF FinishPrompt, Registered
  <2>3. /\ hpc' = [hpc EXCEPT ![p] = "done"]
        /\ doneCh' = doneCh \cup {p}
        /\ UNCHANGED apc
    BY <1>3, <2>2, NoneAssumption DEF FinishPrompt, runVars
  <2>4. QED
    BY <1>0, <2>1, <2>3 DEF Registered, TypeOK
<1>4. ASSUME NEW p \in Prompts, Middle(p) PROVE CloseInv'
  <2>1. PICK at \in Registered \cup {"started", "done"} :
          /\ hpc' = [hpc EXCEPT ![p] = at]
          /\ at \in {"started", "done"} => hpc[p] = "loaded"
          /\ hpc[p] = "loaded" => at \in {"started", "done"}
          /\ hpc[p] \in {"loaded"} \cup Registered
          /\ UNCHANGED <<sessVars, hobj>>
    BY <1>0, <1>4, MiddleSteps
  <2>2. \A q \in Prompts \ {p} : apc'[q] = apc[q]
    BY <1>0, <1>4 DEF Middle, StartRun, ReceiveEvent, StopForwarding, RequestFails,
                      ClientAnswers, HandlerSends, AskPermission, runVars, TypeOK
  <2>3. at = "done" => apc'[p] = "idle"
    <3>1. SUFFICES ASSUME hpc[p] = "loaded", at = "done" PROVE apc'[p] = "idle"
      BY <2>1
    <3>2. StartRun(p)
      BY <1>4, <3>1 DEF Middle, ReceiveEvent, StopForwarding, RequestFails,
                        ClientAnswers, HandlerSends, AskPermission
    <3>3. hpc'[p] = "done"
      BY <1>0, <2>1, <3>1 DEF TypeOK
    <3>4. apc' = apc
      BY <1>0, <3>2, <3>3 DEF StartRun, TypeOK
    <3>5. QED
      BY <3>1, <3>4
  <2>4. QED
    BY <1>0, <2>1, <2>2, <2>3 DEF sessVars, Registered, TypeOK
<1>5. ASSUME NEW p \in Prompts, Run(p) PROVE CloseInv'
  <2>1. UNCHANGED <<active, doneCh, hpc, hobj>>
    BY <1>5, RunKeepsHandlers DEF sessVars, handVars
  <2>2. \A q \in Prompts : apc[q] = "idle" => apc'[q] = "idle"
    <3>1. apc[p] # "idle"
      BY <1>5 DEF Run, RunProposes, RunReceives, RunExecutes, RunResumes, RunEnds
    <3>2. apc' = apc \/ \E at : apc' = [apc EXCEPT ![p] = at]
      <4>1. CASE RunReceives(p)
        BY <4>1 DEF RunReceives
      <4>2. CASE \E c \in Calls : RunExecutes(p, c)
        BY <4>2 DEF RunExecutes
      <4>3. CASE RunProposes(p) \/ RunResumes(p) \/ RunEnds(p)
        BY <4>3 DEF RunProposes, RunResumes, RunEnds
      <4>4. QED
        BY <1>5, <4>1, <4>2, <4>3 DEF Run
    <3>3. QED
      BY <1>0, <3>1, <3>2 DEF TypeOK
  <2>3. QED
    BY <2>1, <2>2
<1>6. CASE CancelArrives \/ CancelSent \/ LoadSession \/ ConnectionCloses \/ UNCHANGED vars
  BY <1>6, ReadLoopKeepsHandlers DEF handVars, runVars
<1>7. QED
  BY <1>1, <1>2, <1>3, <1>4, <1>5, <1>6 DEF Next, Handler, Middle

\* The invariant of sequential prompts that the closed channels rest on.
LEMMA ChannelsClosed ==
  ASSUME ~Concurrent
  PROVE  Spec => []CloseInv
<1> DEFINE I == TypeInv /\ RegInv /\ AloneInv /\ CloseInv
<1>1. Init => I
  BY InitTypeInv, InitRegInv, InitAlone, InitCloseInv
<1>2. I /\ [Next]_vars => I'
  BY NextTypeInv, NextRegInv, NextAlone, NextCloseInv
<1>3. QED
  BY <1>1, <1>2, PTL DEF Spec

\* Whatever the order of prompts, loads and lost connections, also when prompts overlap:
\* a sessionState holds no run whose prompt has been answered.  When prompts come one after
\* the other, the deferred part of forwardEvents has closed the doneCh of each of them.
THEOREM NoRunLeftBehind == Spec => []NoStaleRun
<1> DEFINE I == TypeInv /\ RegInv
<1>1. Spec => []I
  <2>1. Init => I
    BY InitTypeInv, InitRegInv
  <2>2. I /\ [Next]_vars => I'
    BY NextTypeInv, NextRegInv
  <2>3. QED
    BY <2>1, <2>2, PTL DEF Spec
<1>2. CASE Concurrent
  <2>1. I => NoStaleRun
    BY <1>2 DEF NoStaleRun, Outstanding, RegInv, Registered
  <2>2. QED
    BY <1>1, <2>1, PTL
<1>3. CASE ~Concurrent
  <2>1. I /\ CloseInv => NoStaleRun
    BY DEF NoStaleRun, Outstanding, RegInv, Registered, CloseInv
  <2>2. Spec => []CloseInv
    BY <1>3, ChannelsClosed
  <2>3. QED
    BY <1>1, <2>1, <2>2, PTL
<1>4. QED
  BY <1>2, <1>3

-----------------------------------------------------------------------------
(* Nothing runs without a permission. *)

LEMMA InitBalance == Init => Balance /\ BatchInv
<1> SUFFICES ASSUME Init PROVE Balance /\ BatchInv
  OBVIOUS
<1>1. ASSUME NEW p \in Prompts, NEW c \in Calls
      PROVE  Sent(p, c) + Queued(p, c) + Due(p, c) <= permits[p][c]
  <2>1. Sent(p, c) = 0 /\ Due(p, c) = 0 /\ permits[p][c] = 0
    BY DEF Init, Sent, Due, IsDue
  <2>2. Queued(p, c) = 0
    BY HowManyEmpty DEF Init, Queued
  <2>3. QED
    BY <2>1, <2>2
<1>2. QED
  BY <1>1 DEF Init, Balance, BatchInv

\* The terms of the balance are numbers.
LEMMA BalanceTypes ==
  ASSUME TypeOK, NEW p \in Prompts, NEW c \in Calls
  PROVE  /\ Sent(p, c) \in {0, 1} /\ Due(p, c) \in {0, 1}
         /\ Queued(p, c) \in Nat /\ permits[p][c] \in Int
BY HowManyType DEF Sent, Due, Queued, TypeOK

\* A step keeps the balance if it uses no permission, queues nothing and makes no
\* permission newly due.
LEMMA BalanceKept ==
  ASSUME TypeOK, TypeOK', Balance, UNCHANGED <<cmdCh, permits>>,
         \A p \in Prompts, c \in Calls : Sent(p, c)' <= Sent(p, c) /\ Due(p, c)' <= Due(p, c)
  PROVE  Balance'
<1> SUFFICES ASSUME NEW p \in Prompts, NEW c \in Calls
             PROVE  (Sent(p, c) + Queued(p, c) + Due(p, c) <= permits[p][c])'
  BY DEF Balance
<1>1. Queued(p, c)' = Queued(p, c)
  BY DEF Queued
<1>2. /\ Sent(p, c) \in {0, 1} /\ Due(p, c) \in {0, 1} /\ Queued(p, c) \in Nat
      /\ Sent(p, c)' \in {0, 1} /\ Due(p, c)' \in {0, 1} /\ permits[p][c] \in Int
  BY BalanceTypes DEF Sent, Due
<1>3. Sent(p, c) + Queued(p, c) + Due(p, c) <= permits[p][c]
  BY DEF Balance
<1>4. QED
  BY <1>1, <1>2, <1>3

LEMMA NextBatchInv == TypeInv /\ BatchInv /\ [Next]_vars => BatchInv'
<1> SUFFICES ASSUME TypeInv, BatchInv, [Next]_vars PROVE BatchInv'
  OBVIOUS
<1>0. TypeOK
  BY DEF TypeInv
<1> USE DEF BatchInv
<1>1. ASSUME NEW p \in Prompts, RunReceives(p) PROVE BatchInv'
  <2> DEFINE cmd == Head(cmdCh[p])
             b == Decide(batch[p], cmd)
  <2>1. CASE cmd.type = "cancel"
    BY <1>0, <1>1, <2>1 DEF RunReceives, TypeOK
  <2>2. CASE cmd.type # "cancel"
    <3>1. /\ batch' = [batch EXCEPT ![p] = b]
          /\ apc' = [apc EXCEPT ![p] = IF Decided(b) THEN "act" ELSE "collect"]
          /\ todo' = [todo EXCEPT ![p] = IF Decided(b) THEN DOMAIN b ELSE {}]
      BY <1>1, <2>2 DEF RunReceives
    <3>2. QED
      BY <1>0, <3>1 DEF TypeOK
  <2>3. QED
    BY <2>1, <2>2
<1>2. ASSUME NEW p \in Prompts, RunProposes(p) \/ RunResumes(p) \/ RunEnds(p) PROVE BatchInv'
  BY <1>0, <1>2 DEF RunProposes, RunResumes, RunEnds, TypeOK
<1>3. ASSUME NEW p \in Prompts, NEW c \in Calls, RunExecutes(p, c) PROVE BatchInv'
  <2>1. \/ todo' = [todo EXCEPT ![p] = todo[p] \ {c}] /\ UNCHANGED <<apc, batch>>
        \/ todo' = [todo EXCEPT ![p] = {}] /\ apc' = [apc EXCEPT ![p] = "failed"]
           /\ batch' = [batch EXCEPT ![p] = NoBatch]
    BY <1>3 DEF RunExecutes
  <2>2. \A q \in Prompts \ {p} : apc'[q] = apc[q] /\ todo'[q] = todo[q] /\ batch'[q] = batch[q]
    BY <1>0, <2>1 DEF TypeOK
  <2>3. apc'[p] = "act" => apc[p] = "act" /\ todo'[p] \subseteq todo[p] /\ batch'[p] = batch[p]
    BY <1>0, <2>1 DEF TypeOK
  <2>4. QED
    BY <2>2, <2>3
<1>4. ASSUME NEW p \in Prompts, StartRun(p) PROVE BatchInv'
  BY <1>0, <1>4 DEF StartRun, TypeOK
<1>5. ASSUME NEW p \in Prompts, PromptArrives(p) \/ Register(p) \/ FinishPrompt(p) PROVE BatchInv'
  BY <1>5 DEF PromptArrives, Register, FinishPrompt, runVars
<1>6. ASSUME NEW p \in Prompts, Middle(p), ~StartRun(p) PROVE BatchInv'
  BY <1>6 DEF Middle, ReceiveEvent, StopForwarding, RequestFails, ClientAnswers, HandlerSends,
              AskPermission, runVars
<1>7. CASE CancelArrives \/ CancelSent \/ LoadSession \/ ConnectionCloses \/ UNCHANGED vars
  BY <1>7, ReadLoopKeepsHandlers DEF runVars
<1>8. QED
  BY <1>1, <1>2, <1>3, <1>4, <1>5, <1>6, <1>7 DEF Next, Handler, Middle, Run

\* The steps of a handler.
LEMMA HandlerBalance ==
  ASSUME TypeInv, TypeInv', OwnChannel, Balance,
         NEW p \in Prompts, PromptArrives(p) \/ Handler(p) \/ ClientAnswers(p)
  PROVE  Balance'
<1>0. TypeOK /\ TypeOK' /\ None \notin Prompts
  BY NoneAssumption DEF TypeInv
<1>1. ASSUME UNCHANGED <<cmdCh, permits, runVars>> \/ StartRun(p),
             \A q \in Prompts, c \in Calls : Sent(q, c)' <= Sent(q, c)
      PROVE  Balance'
  <2>1. \A q \in Prompts, c \in Calls : Due(q, c)' <= Due(q, c)
    <3>1. CASE UNCHANGED runVars
      BY <1>0, <3>1 DEF Due, IsDue, runVars, TypeOK
    <3>2. CASE StartRun(p)
      BY <1>0, <3>2 DEF StartRun, Due, IsDue, TypeOK
    <3>3. QED
      BY <1>1, <3>1, <3>2
  <2>2. UNCHANGED <<cmdCh, permits>>
    BY <1>1 DEF StartRun
  <2>3. QED
    BY <1>0, <1>1, <2>1, <2>2, BalanceKept
<1>2. CASE \/ PromptArrives(p) \/ StartRun(p) \/ Register(p) \/ ReceiveEvent(p) \/ FinishPrompt(p)
           \/ \E c \in Calls : AskPermission(p, c)
  <2>1. \A q \in Prompts : hpc'[q] = "sending" => hpc[q] = "sending"
    <3>1. \E at \in {"loaded", "done", "started", "forward", "ask", "defer", "waiting"} :
            hpc' = [hpc EXCEPT ![p] = at]
      <4>1. CASE ReceiveEvent(p)
        BY <4>1 DEF ReceiveEvent
      <4>2. CASE StartRun(p)
        BY <4>2 DEF StartRun
      <4>3. QED
        BY <1>2, <4>1, <4>2 DEF PromptArrives, Register, FinishPrompt, AskPermission
    <3>2. QED
      BY <1>0, <3>1 DEF TypeOK
  <2>2. UNCHANGED hcmd /\ (UNCHANGED <<cmdCh, permits, runVars>> \/ StartRun(p))
    BY <1>2 DEF PromptArrives, Register, ReceiveEvent, FinishPrompt, AskPermission, StartRun
  <2>3. \A q \in Prompts, c \in Calls : Sent(q, c)' <= Sent(q, c)
    BY <2>1, <2>2 DEF Sent
  <2>4. QED
    BY <1>1, <2>2, <2>3
<1>3. CASE StopForwarding(p) \/ RequestFails(p)
  <2>1. hcmd'[p].type # "approve" /\ \A q \in Prompts \ {p} : hpc'[q] = hpc[q] /\ hcmd'[q] = hcmd[q]
    BY <1>0, <1>3, Domains DEF StopForwarding, RequestFails, Prepare, CancelCmd, Cmd
  <2>2. \A q \in Prompts, c \in Calls : Sent(q, c)' <= Sent(q, c)
    BY <2>1 DEF Sent, Approval, Cmd
  <2>3. UNCHANGED <<cmdCh, permits, runVars>>
    BY <1>3 DEF StopForwarding, RequestFails
  <2>4. QED
    BY <1>1, <2>2, <2>3
<1>4. CASE ClientAnswers(p)
  <2> SUFFICES ASSUME NEW q \in Prompts, NEW c \in Calls
               PROVE  (Sent(q, c) + Queued(q, c) + Due(q, c) <= permits[q][c])'
    BY DEF Balance
  <2>1. Queued(q, c)' = Queued(q, c) /\ Due(q, c)' = Due(q, c)
    BY <1>4 DEF ClientAnswers, Queued, Due, IsDue, runVars
  <2>2. Sent(q, c)' - Sent(q, c) <= permits[q][c]' - permits[q][c]
    <3>1. CASE q # p
      <4>1. Sent(q, c)' = Sent(q, c) /\ permits'[q] = permits[q]
        BY <1>0, <1>4, <3>1, Domains DEF ClientAnswers, Prepare, Sent
      <4>2. QED
        BY <1>0, <4>1, BalanceTypes
    <3>2. CASE q = p /\ Prepare(p, "deny") /\ UNCHANGED permits
      BY <1>0, <1>4, <3>2 DEF ClientAnswers, Prepare, Sent, Approval, Cmd, TypeOK
    <3>3. CASE q = p /\ Prepare(p, "approve")
               /\ permits' = [permits EXCEPT ![p][hcall[p]] = permits[p][hcall[p]] + 1]
      <4>1. Sent(q, c) = 0 /\ Sent(q, c)' = IF hcall[p] = c THEN 1 ELSE 0
        BY <1>0, <1>4, <3>3 DEF ClientAnswers, Prepare, Sent, Approval, Cmd, TypeOK
      <4>2. permits'[q][c] = permits[q][c] + (IF hcall[p] = c THEN 1 ELSE 0)
        BY <1>0, <3>3 DEF TypeOK
      <4>3. QED
        BY <1>0, <4>1, <4>2, BalanceTypes
    <3>4. QED
      BY <1>4, <3>1, <3>2, <3>3 DEF ClientAnswers
  <2>3. /\ Sent(q, c) \in {0, 1} /\ Due(q, c) \in {0, 1} /\ Queued(q, c) \in Nat
        /\ permits[q][c] \in Int /\ Sent(q, c)' \in {0, 1} /\ permits'[q][c] \in Int
    <3>1. Sent(q, c)' \in {0, 1}
      BY DEF Sent
    <3>2. permits'[q][c] \in Int
      BY <1>0 DEF TypeOK
    <3>3. QED
      BY <1>0, <3>1, <3>2, BalanceTypes
  <2>4. Sent(q, c) + Queued(q, c) + Due(q, c) <= permits[q][c]
    BY DEF Balance
  <2>5. QED
    BY <2>1, <2>2, <2>3, <2>4
<1>5. CASE HandlerSends(p)
  <2> SUFFICES ASSUME NEW q \in Prompts, NEW c \in Calls
               PROVE  (Sent(q, c) + Queued(q, c) + Due(q, c) <= permits[q][c])'
    BY DEF Balance
  <2>1. Due(q, c)' = Due(q, c) /\ permits' = permits
    BY <1>5 DEF HandlerSends, Due, IsDue, runVars
  <2>2. hch[p] \in {p, None} /\ hcmd[p] \in Command
    BY <1>0, <1>5 DEF HandlerSends, OwnChannel, TypeOK
  <2>3. Sent(q, c)' + Queued(q, c)' <= Sent(q, c) + Queued(q, c)
    <3>1. CASE q # p
      <4>1. Sent(q, c)' = Sent(q, c)
        BY <1>0, <1>5, <3>1 DEF HandlerSends, Sent, TypeOK
      <4>2. cmdCh'[q] = cmdCh[q]
        BY <1>0, <1>5, <2>2, <3>1 DEF HandlerSends, Deliver, TypeOK
      <4>3. QED
        BY <1>0, <4>1, <4>2, BalanceTypes DEF Queued
    <3>2. CASE q = p
      <4>1. Sent(q, c) = (IF hcmd[p] = Approval(c) THEN 1 ELSE 0) /\ Sent(q, c)' = 0
        BY <1>0, <1>5, <3>2 DEF HandlerSends, AfterSend, Sent, TypeOK
      <4>2. cmdCh[p] \in Seq(Command)
            /\ (cmdCh'[p] = cmdCh[p] \/ cmdCh'[p] = Append(cmdCh[p], hcmd[p]))
        <5>1. cmdCh[p] \in Seq(Command)
          BY <1>0 DEF TypeOK
        <5>2. QED
          BY <1>0, <1>5, <2>2, <5>1, Domains DEF HandlerSends, Deliver
      <4>3. Queued(q, c)' <= Queued(q, c) + (IF hcmd[p] = Approval(c) THEN 1 ELSE 0)
        <5>1. Queued(q, c) = HowMany(cmdCh[p], Approval(c))
              /\ Queued(q, c)' = HowMany(cmdCh'[p], Approval(c)) /\ Queued(q, c) \in Nat
          BY <1>0, <3>2, BalanceTypes DEF Queued, Approval, Cmd
        <5>2. HowMany(Append(cmdCh[p], hcmd[p]), Approval(c)) =
                HowMany(cmdCh[p], Approval(c)) + (IF hcmd[p] = Approval(c) THEN 1 ELSE 0)
          BY <2>2, <4>2, HowManyAppend
        <5>3. \/ Queued(q, c)' = HowMany(cmdCh[p], Approval(c))
              \/ Queued(q, c)' = HowMany(Append(cmdCh[p], hcmd[p]), Approval(c))
          BY <4>2, <5>1
        <5>4. QED
          BY <5>1, <5>2, <5>3
      <4>4. Queued(q, c) \in Nat /\ Queued(q, c)' \in Nat
        BY <1>0, HowManyType DEF Queued, TypeOK
      <4>5. QED
        BY <4>1, <4>3, <4>4
    <3>3. QED
      BY <3>1, <3>2
  <2>4. /\ Sent(q, c) \in {0, 1} /\ Due(q, c) \in {0, 1} /\ Queued(q, c) \in Nat
        /\ permits[q][c] \in Int /\ Sent(q, c)' \in {0, 1} /\ Queued(q, c)' \in Nat
    BY <1>0, BalanceTypes, HowManyType DEF Sent, Queued, TypeOK
  <2>5. Sent(q, c) + Queued(q, c) + Due(q, c) <= permits[q][c]
    BY DEF Balance
  <2>6. QED
    BY <2>1, <2>3, <2>4, <2>5
<1>6. QED
  BY <1>2, <1>3, <1>4, <1>5 DEF Handler

\* The steps of a run.
LEMMA RunBalance ==
  ASSUME TypeInv, TypeInv', BatchInv, Balance, NEW p \in Prompts, Run(p)
  PROVE  Balance'
<1>0. TypeOK /\ TypeOK' /\ None \notin Prompts
  BY NoneAssumption DEF TypeInv
<1>1. \A q \in Prompts, c \in Calls : Sent(q, c)' = Sent(q, c)
  BY RunKeepsHandlers DEF Sent, handVars
<1>2. CASE RunProposes(p) \/ RunResumes(p) \/ RunEnds(p)
  <2>1. UNCHANGED <<cmdCh, permits>>
    BY <1>2 DEF RunProposes, RunResumes, RunEnds
  <2>2. \A q \in Prompts \ {p}, c \in Calls : Due(q, c)' = Due(q, c)
    <3>1. \A q \in Prompts \ {p} : apc'[q] = apc[q] /\ batch'[q] = batch[q]
      <4>1. CASE RunProposes(p)
        BY <1>0, <4>1 DEF RunProposes, TypeOK
      <4>2. CASE RunResumes(p) \/ RunEnds(p)
        BY <1>0, <4>2 DEF RunResumes, RunEnds, TypeOK
      <4>3. QED
        BY <1>2, <4>1, <4>2
    <3>2. todo' = todo
      BY <1>2 DEF RunProposes, RunResumes, RunEnds
    <3>3. QED
      BY <3>1, <3>2 DEF Due, IsDue
  <2>3. \A c \in Calls : Due(p, c)' = 0
    <3>1. CASE RunProposes(p)
      <4>1. PICK S : batch' = [batch EXCEPT ![p] = [c \in S |-> "pending"]]
        BY <3>1 DEF RunProposes
      <4>2. batch'[p] = [c \in S |-> "pending"]
        BY <1>0, <4>1 DEF TypeOK
      <4>3. QED
        BY <4>2 DEF Due, IsDue
    <3>2. CASE RunResumes(p) \/ RunEnds(p)
      BY <1>0, <3>2 DEF RunResumes, RunEnds, Due, IsDue, NoBatch, TypeOK
    <3>3. QED
      BY <1>2, <3>1, <3>2
  <2>4. \A q \in Prompts, c \in Calls : Sent(q, c)' <= Sent(q, c) /\ Due(q, c)' <= Due(q, c)
    BY <1>1, <2>2, <2>3 DEF Sent, Due
  <2>5. QED
    BY <1>0, <2>1, <2>4, BalanceKept
<1>3. CASE RunReceives(p)
  <2> SUFFICES ASSUME NEW q \in Prompts, NEW c \in Calls
               PROVE  (Sent(q, c) + Queued(q, c) + Due(q, c) <= permits[q][c])'
    BY DEF Balance
  <2> DEFINE cmd == Head(cmdCh[p])
             b == Decide(batch[p], cmd)
             taken == IF q = p /\ cmd = Approval(c) THEN 1 ELSE 0
  <2>1. /\ cmdCh[p] \in Seq(Command) /\ cmdCh[p] # <<>> /\ cmd \in Command
        /\ cmdCh' = [cmdCh EXCEPT ![p] = Tail(cmdCh[p])] /\ permits' = permits
    BY <1>0, <1>3, HeadTailProperties DEF RunReceives, TypeOK
  <2>2. Queued(q, c) = Queued(q, c)' + taken
    <3>1. CASE q # p
      <4>1. cmdCh'[q] = cmdCh[q]
        BY <1>0, <2>1, <3>1 DEF TypeOK
      <4>2. QED
        BY <1>0, <3>1, <4>1, BalanceTypes DEF Queued
    <3>2. CASE q = p
      <4>1. cmdCh'[p] = Tail(cmdCh[p])
        BY <1>0, <2>1 DEF TypeOK
      <4>2. HowMany(cmdCh[p], Approval(c)) =
              HowMany(Tail(cmdCh[p]), Approval(c)) + (IF cmd = Approval(c) THEN 1 ELSE 0)
        BY <2>1, HowManyTail
      <4>3. Queued(q, c) = HowMany(cmdCh[p], Approval(c))
            /\ Queued(q, c)' = HowMany(Tail(cmdCh[p]), Approval(c))
        BY <3>2, <4>1 DEF Queued, Approval, Cmd
      <4>4. QED
        BY <3>2, <4>2, <4>3
    <3>3. QED
      BY <3>1, <3>2
  <2>3. Due(q, c)' <= Due(q, c) + taken
    <3>1. CASE q # p
      <4>1. Due(q, c)' = Due(q, c)
        BY <1>0, <1>3, <3>1 DEF RunReceives, Due, IsDue, TypeOK
      <4>2. QED
        BY <1>0, <3>1, <4>1, BalanceTypes
    <3>2. CASE q = p /\ cmd.type = "cancel"
      <4>1. apc'[p] = "cancelled"
        BY <1>0, <1>3, <3>2 DEF RunReceives, TypeOK
      <4>2. Due(q, c)' = 0
        BY <3>2, <4>1 DEF Due, IsDue
      <4>3. QED
        BY <1>0, <4>2, BalanceTypes
    <3>3. CASE q = p /\ cmd.type # "cancel"
      <4>1. batch[p] \in Batch /\ apc[p] = "collect" /\ batch'[p] = b
        BY <1>0, <1>3, <3>3 DEF RunReceives, TypeOK, Batch
      <4>2. c \in DOMAIN b /\ b[c] = "granted" =>
              c \in DOMAIN batch[p] /\ (batch[p][c] = "granted" \/ cmd = Approval(c))
        <5>1. DOMAIN b = DOMAIN batch[p]
          BY <2>1, <4>1, DecideType
        <5>2. CASE cmd.call = c /\ cmd.type = "approve"
          BY <2>1, <5>1, <5>2 DEF Approval, Cmd, Command
        <5>3. CASE ~(cmd.call = c /\ cmd.type = "approve")
          BY <4>1, <5>1, <5>3 DEF Decide, Batch
        <5>4. QED
          BY <5>2, <5>3
      <4>3. IsDue(q, c)' => IsDue(q, c) \/ cmd = Approval(c)
        BY <3>3, <4>1, <4>2 DEF IsDue
      <4>4. QED
        BY <3>3, <4>3 DEF Due
    <3>4. QED
      BY <3>1, <3>2, <3>3
  <2>4. /\ Sent(q, c) \in {0, 1} /\ Due(q, c) \in {0, 1} /\ Queued(q, c) \in Nat
        /\ permits[q][c] \in Int /\ Due(q, c)' \in {0, 1} /\ Queued(q, c)' \in Nat
    BY <1>0, BalanceTypes, HowManyType DEF Due, Queued, TypeOK
  <2>5. Sent(q, c) + Queued(q, c) + Due(q, c) <= permits[q][c]
    BY DEF Balance
  <2>6. QED
    BY <1>1, <2>1, <2>2, <2>3, <2>4, <2>5
<1>4. ASSUME NEW d \in Calls, RunExecutes(p, d) PROVE Balance'
  <2> SUFFICES ASSUME NEW q \in Prompts, NEW c \in Calls
               PROVE  (Sent(q, c) + Queued(q, c) + Due(q, c) <= permits[q][c])'
    BY DEF Balance
  <2>1. Queued(q, c)' = Queued(q, c)
    BY <1>4 DEF RunExecutes, Queued
  <2>2. /\ apc[p] = "act" /\ d \in todo[p] /\ d \in DOMAIN batch[p]
        /\ \/ todo' = [todo EXCEPT ![p] = todo[p] \ {d}] /\ UNCHANGED <<apc, batch>>
           \/ todo' = [todo EXCEPT ![p] = {}] /\ apc' = [apc EXCEPT ![p] = "failed"]
              /\ batch' = [batch EXCEPT ![p] = NoBatch]
        /\ \/ permits' = permits
           \/ batch[p][d] = "granted" /\ permits' = [permits EXCEPT ![p][d] = permits[p][d] - 1]
    BY <1>4 DEF RunExecutes, BatchInv
  <2>3. CASE q # p
    <3>1. apc'[q] = apc[q] /\ todo'[q] = todo[q] /\ batch'[q] = batch[q]
      BY <1>0, <2>2, <2>3, Domains
    <3>2. Due(q, c)' = Due(q, c)
      BY <3>1 DEF Due, IsDue
    <3>3. permits'[q] = permits[q]
      BY <1>0, <2>2, <2>3, Domains
    <3>4. QED
      BY <1>1, <2>1, <3>2, <3>3 DEF Balance
  <2>4. CASE q = p
    <3>1. IsDue(q, c)' => IsDue(q, c) /\ c # d
      BY <1>0, <2>2, <2>4 DEF IsDue, TypeOK
    <3>2. permits'[q][c] = (IF c = d /\ permits' # permits THEN permits[q][c] - 1 ELSE permits[q][c])
      BY <1>0, <2>2, <2>4 DEF TypeOK
    <3>3. permits' # permits /\ c = d => IsDue(q, c)
      BY <2>2, <2>4 DEF IsDue
    <3>4. Due(q, c)' - Due(q, c) <= permits'[q][c] - permits[q][c]
      BY <1>0, <3>1, <3>2, <3>3, BalanceTypes DEF Due
    <3>5. /\ Sent(q, c) \in {0, 1} /\ Due(q, c) \in {0, 1} /\ Queued(q, c) \in Nat
          /\ permits[q][c] \in Int /\ permits'[q][c] \in Int /\ Due(q, c)' \in {0, 1}
      BY <1>0, <3>2, BalanceTypes DEF Due
    <3>6. Sent(q, c) + Queued(q, c) + Due(q, c) <= permits[q][c]
      BY DEF Balance
    <3>7. QED
      BY <1>1, <2>1, <3>4, <3>5, <3>6
  <2>5. QED
    BY <2>3, <2>4
<1>5. QED
  BY <1>2, <1>3, <1>4 DEF Run

LEMMA NextBalance ==
  TypeInv /\ TypeInv' /\ OwnChannel /\ BatchInv /\ Balance /\ [Next]_vars => Balance'
<1> SUFFICES ASSUME TypeInv, TypeInv', OwnChannel, BatchInv, Balance, [Next]_vars PROVE Balance'
  OBVIOUS
<1>0. TypeOK /\ TypeOK'
  BY DEF TypeInv
<1>1. ASSUME NEW p \in Prompts, PromptArrives(p) \/ Handler(p) \/ ClientAnswers(p) PROVE Balance'
  BY <1>1, HandlerBalance
<1>2. ASSUME NEW p \in Prompts, Run(p) PROVE Balance'
  BY <1>2, RunBalance
<1>3. CASE CancelSent
  <2> SUFFICES ASSUME NEW q \in Prompts, NEW c \in Calls
               PROVE  (Sent(q, c) + Queued(q, c) + Due(q, c) <= permits[q][c])'
    BY DEF Balance
  <2>1. Sent(q, c)' = Sent(q, c) /\ Due(q, c)' = Due(q, c) /\ permits' = permits
    BY <1>3, ReadLoopKeepsHandlers DEF Sent, Due, IsDue, handVars, runVars
  <2>2. /\ cmdCh[q] \in Seq(Command) /\ CancelCmd \in Command
        /\ cmdCh'[q] = cmdCh[q] \/ cmdCh'[q] = Append(cmdCh[q], CancelCmd)
    BY <1>0, <1>3, CmdType DEF CancelSent, Deliver, CancelCmd, TypeOK
  <2>3. HowMany(Append(cmdCh[q], CancelCmd), Approval(c)) = HowMany(cmdCh[q], Approval(c))
    <3>1. CancelCmd # Approval(c)
      BY DEF CancelCmd, Approval, Cmd
    <3>2. HowMany(cmdCh[q], Approval(c)) \in Nat
      BY <2>2, HowManyType
    <3>3. QED
      BY <2>2, <3>1, <3>2, HowManyAppend
  <2>4. Queued(q, c)' = HowMany(cmdCh'[q], Approval(c))
    BY DEF Queued, Approval, Cmd
  <2>5. Queued(q, c)' = Queued(q, c)
    BY <2>2, <2>3, <2>4 DEF Queued
  <2>6. QED
    BY <2>1, <2>5 DEF Balance
<1>4. CASE CancelArrives \/ LoadSession \/ ConnectionCloses \/ UNCHANGED vars
  <2>1. UNCHANGED <<cmdCh, permits, handVars, runVars>>
    BY <1>4, ReadLoopKeepsHandlers DEF CancelArrives, LoadSession, ConnectionCloses, vars
  <2>2. \A q \in Prompts, c \in Calls : Sent(q, c)' <= Sent(q, c) /\ Due(q, c)' <= Due(q, c)
    BY <2>1 DEF Sent, Due, IsDue, handVars, runVars
  <2>3. QED
    BY <1>0, <2>1, <2>2, BalanceKept
<1>5. QED
  BY <1>1, <1>2, <1>3, <1>4 DEF Next

LEMMA BalancePermits == TypeInv /\ Balance => OnlyAllowedRun
<1> SUFFICES ASSUME TypeInv, Balance, NEW p \in Prompts, NEW c \in Calls PROVE permits[p][c] >= 0
  BY DEF OnlyAllowedRun
<1>1. TypeOK
  BY DEF TypeInv
<1>2. Sent(p, c) \in Nat /\ Due(p, c) \in Nat /\ Queued(p, c) \in Nat /\ permits[p][c] \in Int
  BY <1>1, BalanceTypes
<1>3. Sent(p, c) + Queued(p, c) + Due(p, c) <= permits[p][c]
  BY DEF Balance
<1>4. QED
  BY <1>2, <1>3

\* What is inductive when a client sends its prompts one after the other.
SafeInv == TypeInv /\ RegInv /\ AloneInv /\ BatchInv /\ Balance

LEMMA InitSafeInv == Init => SafeInv
BY InitTypeInv, InitRegInv, InitAlone, InitBalance DEF SafeInv

LEMMA NextSafeInv ==
  ASSUME ~Concurrent
  PROVE  SafeInv /\ [Next]_vars => SafeInv'
<1>1. SafeInv /\ [Next]_vars => TypeInv' /\ RegInv' /\ AloneInv' /\ BatchInv'
  BY NextTypeInv, NextRegInv, NextAlone, NextBatchInv DEF SafeInv
<1>2. SafeInv /\ [Next]_vars => Balance'
  BY <1>1, NextBalance DEF SafeInv, AloneInv
<1>3. QED
  BY <1>1, <1>2 DEF SafeInv

\* When prompts come one after the other, a tool runs only on a permission the client gave
\* for that call of that prompt, once for each: no stale approval, of an earlier turn, batch
\* or prompt, and no load or cancel in between lets another call through.
THEOREM PermissionSafety ==
  ASSUME ~Concurrent
  PROVE  Spec => []OnlyAllowedRun
<1>1. Init => SafeInv
  BY InitSafeInv
<1>2. SafeInv /\ [Next]_vars => SafeInv'
  BY NextSafeInv
<1>3. SafeInv => OnlyAllowedRun
  BY BalancePermits DEF SafeInv
<1>4. QED
  BY <1>1, <1>2, <1>3, PTL DEF Spec

-----------------------------------------------------------------------------
(* How a prompt ends. *)

LEMMA InitEndInv == Init => EndInv
<1> SUFFICES ASSUME Init PROVE EndInv
  OBVIOUS
<1>1. StageInv
  BY DEF Init, StageInv
<1>2. \A p \in Prompts : Len(evtCh[p]) = 0 /\ Len(cmdCh[p]) = 0
  BY EmptySeq DEF Init
<1>3. EventInv /\ StopInv
  BY <1>2 DEF Init, EventInv, StopInv
<1>4. LeaveInv
  BY DEF Init, LeaveInv, Leaving
<1>5. QED
  BY <1>1, <1>3, <1>4 DEF EndInv

LEMMA NextStageInv == TypeInv /\ RegInv /\ StageInv /\ [Next]_vars => StageInv'
<1> SUFFICES ASSUME TypeInv, RegInv, StageInv, [Next]_vars PROVE StageInv'
  OBVIOUS
<1>0. TypeOK /\ None \notin Prompts /\ (rpc = "sending" => rch \in Prompts)
  BY NoneAssumption DEF TypeInv, CancelInHand
<1> USE DEF StageInv
<1>1. ASSUME NEW p \in Prompts, PromptArrives(p) PROVE StageInv'
  BY <1>0, <1>1 DEF PromptArrives, readVars, runVars, TypeOK
<1>2. ASSUME NEW p \in Prompts, Register(p) \/ FinishPrompt(p) PROVE StageInv'
  <2>1. /\ \E at \in {"forward", "done"} : hpc' = [hpc EXCEPT ![p] = at]
        /\ UNCHANGED <<permits, readVars, runVars>>
    BY <1>2 DEF Register, FinishPrompt
  <2>2. QED
    BY <1>0, <2>1 DEF readVars, runVars, TypeOK
<1>3. ASSUME NEW p \in Prompts, Middle(p) PROVE StageInv'
  <2>1. PICK at \in Registered \cup {"started", "done"} : hpc' = [hpc EXCEPT ![p] = at]
    BY <1>0, <1>3, MiddleSteps
  <2>2. \A q \in Prompts : hpc'[q] \in {"idle", "loaded"} => q # p /\ hpc'[q] = hpc[q]
    BY <1>0, <2>1 DEF Registered, TypeOK
  <2>3. hpc[p] = "loaded" \/ hpc[p] \in Registered
    BY <1>0, <1>3, MiddleSteps
  <2>4. \A q \in Prompts \ {p} : permits'[q] = permits[q] /\ apc'[q] = apc[q]
    BY <1>0, <1>3 DEF Middle, StartRun, ReceiveEvent, StopForwarding, RequestFails, ClientAnswers,
                      HandlerSends, AskPermission, runVars, TypeOK
  <2>5. UNCHANGED readVars
    BY <1>3 DEF Middle, StartRun, ReceiveEvent, StopForwarding, RequestFails, ClientAnswers,
                HandlerSends, AskPermission
  <2>6. \A q \in Prompts : hpc[q] # "idle" => hpc'[q] # "idle"
    BY <1>0, <2>1 DEF Registered, TypeOK
  <2>7. QED
    BY <1>0, <2>2, <2>4, <2>5, <2>6 DEF readVars
<1>4. ASSUME NEW p \in Prompts, Run(p) PROVE StageInv'
  <2>1. hpc[p] \notin {"idle", "loaded"}
    <3>1. apc[p] # "idle"
      BY <1>4 DEF Run, RunProposes, RunReceives, RunExecutes, RunResumes, RunEnds
    <3>2. QED
      BY <3>1
  <2>2. \A q \in Prompts \ {p} : permits'[q] = permits[q]
    <3>1. CASE \E c \in Calls : RunExecutes(p, c)
      BY <1>0, <3>1 DEF RunExecutes, TypeOK
    <3>2. CASE ~\E c \in Calls : RunExecutes(p, c)
      BY <1>4, <3>2 DEF Run, RunProposes, RunReceives, RunResumes, RunEnds
    <3>3. QED
      BY <3>1, <3>2
  <2>3. \A q \in Prompts \ {p} : apc'[q] = apc[q]
    <3>1. CASE \E c \in Calls : RunExecutes(p, c)
      BY <1>0, <3>1 DEF RunExecutes, TypeOK
    <3>2. CASE RunReceives(p)
      BY <1>0, <3>2 DEF RunReceives, TypeOK
    <3>3. CASE RunProposes(p) \/ RunResumes(p) \/ RunEnds(p)
      BY <1>0, <3>3 DEF RunProposes, RunResumes, RunEnds, TypeOK
    <3>4. QED
      BY <1>4, <3>1, <3>2, <3>3 DEF Run
  <2>4. UNCHANGED <<hpc, rpc, rch>>
    BY <1>4, RunKeepsHandlers DEF handVars, readVars
  <2>5. QED
    BY <2>1, <2>2, <2>3, <2>4
<1>5. CASE CancelArrives
  <2>1. rpc' = "sending" => hpc[rch'] # "idle"
    <3>1. current \in Objects
      BY <1>0 DEF TypeOK
    <3>2. active[current] # None => hpc[active[current]] \in Registered
      BY <3>1 DEF RegInv
    <3>3. QED
      BY <1>5, <3>2 DEF CancelArrives, Registered
  <2>2. UNCHANGED <<handVars, runVars, permits>>
    BY <1>5 DEF CancelArrives
  <2>3. QED
    BY <2>1, <2>2 DEF handVars, runVars
<1>6. CASE CancelSent \/ LoadSession \/ ConnectionCloses \/ UNCHANGED vars
  BY <1>6, ReadLoopKeepsHandlers
  DEF CancelSent, LoadSession, ConnectionCloses, vars, handVars, runVars, readVars
<1>7. QED
  BY <1>1, <1>2, <1>3, <1>4, <1>5, <1>6 DEF Next, Handler, Middle

\* What an emitted event does to the places of a channel.
LEMMA EmitPlaces ==
  ASSUME TypeOK, NEW p \in Prompts, NEW e \in Event, Emit(p, e)
  PROVE  /\ \A q \in Prompts \ {p} : evtCh'[q] = evtCh[q]
         /\ evtCh'[p] # <<>> /\ Len(evtCh'[p]) = Len(evtCh[p]) + 1 /\ Len(evtCh[p]) \in Nat
         /\ \A i \in 1 .. Len(evtCh[p]) : evtCh'[p][i] = evtCh[p][i]
         /\ evtCh'[p][Len(evtCh'[p])] = e
<1>1. evtCh[p] \in Seq(Event) /\ evtCh'[p] = Append(evtCh[p], e)
      /\ \A q \in Prompts \ {p} : evtCh'[q] = evtCh[q]
  BY DEF Emit, TypeOK
<1>2. QED
  BY <1>1, AppendProperties, LenProperties, EmptySeq

\* Of a run that is not over, no terminal event is in the channel.
EventFacts(p) ==
    /\ \A i \in 1 .. Len(evtCh[p]) :
          evtCh[p][i].type \in Terminal => apc[p] = "over" /\ i = Len(evtCh[p])
    /\ apc[p] = "over" /\ ~Leaving(p) /\ hpc[p] # "done" =>
          evtCh[p] # <<>> /\ evtCh[p][Len(evtCh[p])].type \in Terminal

LEMMA EventFactsKept ==
  ASSUME NEW p \in Prompts, EventFacts(p), evtCh'[p] = evtCh[p], apc'[p] = apc[p],
         Leaving(p) \/ hpc[p] = "done" => Leaving(p)' \/ hpc'[p] = "done"
  PROVE  EventFacts(p)'
BY DEF EventFacts

\* A terminal event at the head is alone.
LEMMA LastEvent ==
  ASSUME NEW p \in Prompts, evtCh[p] \in Seq(Event), EventFacts(p), evtCh[p] # <<>>,
         Head(evtCh[p]).type \in Terminal
  PROVE  apc[p] = "over" /\ Tail(evtCh[p]) = <<>> /\ Len(evtCh[p]) = 1
<1>1. Len(evtCh[p]) \in Nat \ {0} /\ Head(evtCh[p]) = evtCh[p][1]
      /\ (Len(evtCh[p]) = 1 <=> Tail(evtCh[p]) = <<>>)
  BY TailOf
<1>2. 1 \in 1 .. Len(evtCh[p]) /\ evtCh[p][1].type \in Terminal
  BY <1>1
<1>3. apc[p] = "over" /\ Len(evtCh[p]) = 1
  BY <1>2 DEF EventFacts
<1>4. QED
  BY <1>1, <1>3

LEMMA NextEventInv == TypeInv /\ StageInv /\ EventInv /\ [Next]_vars => EventInv'
<1> SUFFICES ASSUME TypeInv, StageInv, EventInv, [Next]_vars, NEW q \in Prompts
             PROVE  EventFacts(q)'
  BY DEF EventInv, EventFacts
<1>0. TypeOK /\ EventFacts(q)
  BY DEF TypeInv, EventInv, EventFacts
<1>1. ASSUME NEW p \in Prompts, p # q, PromptArrives(p) \/ Handler(p) \/ ClientAnswers(p)
      PROVE  EventFacts(q)'
  <2>1. hpc'[q] = hpc[q] /\ hcmd'[q] = hcmd[q] /\ evtCh'[q] = evtCh[q] /\ apc'[q] = apc[q]
    <3>1. CASE PromptArrives(p) \/ StartRun(p) \/ Register(p) \/ FinishPrompt(p)
      BY <1>0, <1>1, <3>1 DEF PromptArrives, StartRun, Register, FinishPrompt, runVars, TypeOK
    <3>2. CASE ReceiveEvent(p) \/ StopForwarding(p) \/ \E c \in Calls : AskPermission(p, c)
      BY <1>0, <1>1, <3>2 DEF ReceiveEvent, StopForwarding, AskPermission, runVars, TypeOK
    <3>3. CASE RequestFails(p) \/ ClientAnswers(p) \/ HandlerSends(p)
      BY <1>0, <1>1, <3>3 DEF RequestFails, ClientAnswers, HandlerSends, Prepare, runVars, TypeOK
    <3>4. QED
      BY <1>1, <3>1, <3>2, <3>3 DEF Handler
  <2>2. QED
    BY <1>0, <2>1, EventFactsKept DEF Leaving
<1>2. CASE PromptArrives(q) \/ Register(q) \/ \E c \in Calls : AskPermission(q, c)
  <2>1. evtCh' = evtCh /\ apc' = apc /\ hpc[q] \in {"idle", "started", "ask"}
    BY <1>2 DEF PromptArrives, Register, AskPermission, runVars
  <2>2. QED
    BY <1>0, <2>1, EventFactsKept DEF Leaving
<1>3. CASE StartRun(q)
  <2>1. evtCh' = evtCh /\ apc[q] = "idle" /\ apc'[q] \in {"idle", "think"}
    BY <1>0, <1>3 DEF StartRun, StageInv, TypeOK
  <2>2. \A i \in 1 .. Len(evtCh[q]) : evtCh[q][i].type \notin Terminal
    BY <1>0, <2>1 DEF EventFacts
  <2>3. evtCh'[q] = evtCh[q] /\ apc'[q] # "over"
    BY <2>1
  <2>4. QED
    BY <2>2, <2>3 DEF EventFacts
<1>4. CASE ReceiveEvent(q)
  <2> DEFINE e == Head(evtCh[q])
  <2>1. evtCh[q] \in Seq(Event) /\ evtCh[q] # <<>> /\ e \in Event /\ apc' = apc
        /\ evtCh'[q] = Tail(evtCh[q]) /\ hpc[q] = "forward"
    BY <1>0, <1>4, HeadTailProperties DEF ReceiveEvent, runVars, TypeOK
  <2>2. /\ Tail(evtCh[q]) \in Seq(Event) /\ Len(Tail(evtCh[q])) = Len(evtCh[q]) - 1
        /\ Len(evtCh[q]) \in Nat \ {0} /\ e = evtCh[q][1]
        /\ \A i \in 1 .. Len(Tail(evtCh[q])) : Tail(evtCh[q])[i] = evtCh[q][i + 1]
    BY <2>1, TailOf
  <2>3. \A i \in 1 .. Len(evtCh'[q]) :
          evtCh'[q][i].type \in Terminal => apc'[q] = "over" /\ i = Len(evtCh'[q])
    BY <1>0, <2>1, <2>2 DEF EventFacts
  <2>4. CASE e.type \in Terminal
    <3>1. hpc'[q] = "defer"
      BY <1>0, <1>4, <2>4 DEF ReceiveEvent, Terminal, TypeOK
    <3>2. QED
      BY <2>3, <3>1 DEF EventFacts, Leaving
  <2>5. CASE e.type \notin Terminal
    <3>1. apc'[q] = "over" => Len(evtCh[q]) # 1 /\ evtCh[q][Len(evtCh[q])].type \in Terminal
      BY <1>0, <2>1, <2>2, <2>5 DEF EventFacts, Leaving
    <3>2. Len(evtCh[q]) # 1 => Tail(evtCh[q]) # <<>>
                               /\ Tail(evtCh[q])[Len(Tail(evtCh[q]))] = evtCh[q][Len(evtCh[q])]
      BY <2>1, TailOf
    <3>3. apc'[q] = "over" => evtCh'[q] # <<>> /\ evtCh'[q][Len(evtCh'[q])].type \in Terminal
      BY <2>1, <3>1, <3>2
    <3>4. QED
      BY <2>3, <3>3 DEF EventFacts
  <2>6. QED
    BY <2>4, <2>5
<1>5. CASE StopForwarding(q) \/ RequestFails(q) \/ ClientAnswers(q)
  <2>1. evtCh' = evtCh /\ apc' = apc /\ hpc[q] \in {"forward", "waiting"}
    BY <1>5 DEF StopForwarding, RequestFails, ClientAnswers, runVars
  <2>2. QED
    BY <1>0, <2>1, EventFactsKept DEF Leaving
<1>6. CASE HandlerSends(q)
  <2>1. evtCh' = evtCh /\ apc' = apc /\ hpc[q] = "sending"
        /\ (hcmd[q].type = "cancel" => hpc'[q] = "defer")
    BY <1>0, <1>6 DEF HandlerSends, AfterSend, runVars, TypeOK
  <2>2. QED
    BY <1>0, <2>1, EventFactsKept DEF Leaving
<1>7. CASE FinishPrompt(q)
  <2>1. evtCh' = evtCh /\ apc' = apc /\ hpc'[q] = "done"
    BY <1>0, <1>7 DEF FinishPrompt, runVars, TypeOK
  <2>2. QED
    BY <1>0, <2>1, EventFactsKept
<1>8. ASSUME NEW p \in Prompts, Run(p) PROVE EventFacts(q)'
  <2>0. UNCHANGED <<hpc, hcmd>>
    BY <1>8, RunKeepsHandlers DEF handVars
  <2>1. ASSUME p # q PROVE EventFacts(q)'
    <3>1. evtCh'[q] = evtCh[q] /\ apc'[q] = apc[q]
      <4>1. CASE \E c \in Calls : RunExecutes(p, c)
        BY <1>0, <2>1, <4>1 DEF RunExecutes, Emit, TypeOK
      <4>2. CASE RunReceives(p)
        BY <1>0, <2>1, <4>2 DEF RunReceives, TypeOK
      <4>3. CASE RunProposes(p) \/ RunResumes(p) \/ RunEnds(p)
        BY <1>0, <2>1, <4>3 DEF RunProposes, RunResumes, RunEnds, Emit, TypeOK
      <4>4. QED
        BY <1>8, <4>1, <4>2, <4>3 DEF Run
    <3>2. QED
      BY <1>0, <2>0, <3>1, EventFactsKept DEF Leaving
  <2>2. ASSUME NEW e \in Event, e.type \notin Terminal, Emit(q, e) \/ UNCHANGED evtCh,
               apc[q] # "over", apc'[q] # "over"
        PROVE  EventFacts(q)'
    <3>1. CASE Emit(q, e)
      BY <1>0, <2>2, <3>1, EmitPlaces DEF EventFacts
    <3>2. CASE UNCHANGED evtCh
      BY <1>0, <2>2, <3>2 DEF EventFacts
    <3>3. QED
      BY <2>2, <3>1, <3>2
  <2>3. CASE RunProposes(q)
    <3>1. turn[q] \in 0..MaxTurns /\ turn[q] < MaxTurns /\ apc[q] = "think" /\ apc'[q] = "collect"
      BY <1>0, <2>3 DEF RunProposes, TypeOK
    <3>2. PICK S \in Batches[turn[q] + 1] : Emit(q, Ev("proposed", S))
      BY <2>3 DEF RunProposes
    <3>3. Ev("proposed", S) \in Event /\ Ev("proposed", S).type \notin Terminal
      BY <3>1, BatchesType, EvType DEF Ev, Terminal
    <3>4. QED
      BY <2>2, <3>1, <3>2, <3>3
  <2>4. ASSUME NEW c \in Calls, RunExecutes(q, c) PROVE EventFacts(q)'
    <3>1. apc[q] = "act" /\ apc'[q] \in {"act", "failed"}
      BY <1>0, <2>4 DEF RunExecutes, TypeOK
    <3>2. Ev("ran", {c}) \in Event /\ Ev("ran", {c}).type \notin Terminal
      BY EvType DEF Ev, Terminal
    <3>3. Emit(q, Ev("ran", {c})) \/ UNCHANGED evtCh
      BY <2>4 DEF RunExecutes
    <3>4. QED
      BY <2>2, <3>1, <3>2, <3>3
  <2>5. CASE RunReceives(q) \/ RunResumes(q)
    <3>1. apc[q] # "over" /\ apc'[q] # "over" /\ evtCh' = evtCh
      <4>1. CASE RunReceives(q)
        BY <1>0, <4>1 DEF RunReceives, TypeOK
      <4>2. CASE RunResumes(q)
        BY <1>0, <4>2 DEF RunResumes, TypeOK
      <4>3. QED
        BY <2>5, <4>1, <4>2
    <3>2. QED
      BY <1>0, <3>1 DEF EventFacts
  <2>6. CASE RunEnds(q)
    <3>1. PICK t \in Terminal : Emit(q, Ev(t, {}))
      BY <2>6 DEF RunEnds, Terminal
    <3>2. apc[q] # "over" /\ apc'[q] = "over"
      BY <1>0, <2>6 DEF RunEnds, TypeOK
    <3>3. Ev(t, {}) \in Event /\ Ev(t, {}).type \in Terminal
      BY EvType DEF Ev, Terminal
    <3>4. QED
      <4>1. /\ evtCh'[q] # <<>> /\ Len(evtCh'[q]) = Len(evtCh[q]) + 1 /\ Len(evtCh[q]) \in Nat
            /\ \A i \in 1 .. Len(evtCh[q]) : evtCh'[q][i] = evtCh[q][i]
            /\ evtCh'[q][Len(evtCh'[q])].type \in Terminal
        BY <1>0, <3>1, <3>3, EmitPlaces
      <4>2. \A i \in 1 .. Len(evtCh'[q]) : i = Len(evtCh'[q]) \/ i \in 1 .. Len(evtCh[q])
        BY <4>1
      <4>3. \A i \in 1 .. Len(evtCh[q]) : evtCh[q][i].type \notin Terminal
        BY <1>0, <3>2 DEF EventFacts
      <4>4. QED
        BY <3>2, <4>1, <4>2, <4>3 DEF EventFacts
  <2>7. QED
    BY <1>8, <2>1, <2>3, <2>4, <2>5, <2>6 DEF Run
<1>9. CASE CancelArrives \/ CancelSent \/ LoadSession \/ ConnectionCloses \/ UNCHANGED vars
  BY <1>0, <1>9, ReadLoopKeepsHandlers, EventFactsKept DEF handVars, runVars, Leaving
<1>10. QED
  BY <1>1, <1>2, <1>3, <1>4, <1>5, <1>6, <1>7, <1>8, <1>9 DEF Next, Handler

LEMMA NextLeaveInv ==
  TypeInv /\ CtxInv /\ EventInv /\ LeaveInv /\ [Next]_vars => LeaveInv'
<1> DEFINE Left(q) == Leaving(q) =>
               \/ down /\ reply[q] = "cancelled"
               \/ hpc[q] = "defer" /\ apc[q] = "over" /\ evtCh[q] = <<>> /\ reply[q] # "none"
<1> SUFFICES ASSUME TypeInv, CtxInv, EventInv, LeaveInv, [Next]_vars, NEW q \in Prompts
             PROVE  Left(q)'
  BY DEF LeaveInv
<1>0. TypeOK /\ EventFacts(q) /\ Left(q)
  BY DEF TypeInv, EventInv, EventFacts, LeaveInv
<1>1. ASSUME NEW p \in Prompts, p # q, PromptArrives(p) \/ Handler(p) \/ ClientAnswers(p)
      PROVE  Left(q)'
  <2>1. /\ hpc'[q] = hpc[q] /\ hcmd'[q] = hcmd[q] /\ evtCh'[q] = evtCh[q] /\ apc'[q] = apc[q]
        /\ reply'[q] = reply[q] /\ down' = down
    <3>1. CASE PromptArrives(p) \/ StartRun(p) \/ Register(p) \/ FinishPrompt(p)
      BY <1>0, <1>1, <3>1 DEF PromptArrives, StartRun, Register, FinishPrompt, runVars, TypeOK
    <3>2. CASE ReceiveEvent(p) \/ StopForwarding(p) \/ \E c \in Calls : AskPermission(p, c)
      BY <1>0, <1>1, <3>2 DEF ReceiveEvent, StopForwarding, AskPermission, runVars, TypeOK
    <3>3. CASE RequestFails(p) \/ ClientAnswers(p) \/ HandlerSends(p)
      BY <1>0, <1>1, <3>3 DEF RequestFails, ClientAnswers, HandlerSends, Prepare, runVars, TypeOK
    <3>4. QED
      BY <1>1, <3>1, <3>2, <3>3 DEF Handler
  <2>2. QED
    BY <1>0, <2>1 DEF Leaving
<1>2. CASE PromptArrives(q) \/ Register(q) \/ StartRun(q) \/ FinishPrompt(q)
           \/ \E c \in Calls : AskPermission(q, c)
  <2>1. hpc'[q] \in {"loaded", "forward", "started", "done", "waiting"}
    <3>1. CASE StartRun(q)
      BY <1>0, <3>1 DEF StartRun, TypeOK
    <3>2. QED
      BY <1>0, <1>2, <3>1 DEF PromptArrives, Register, FinishPrompt, AskPermission, TypeOK
  <2>2. QED
    BY <2>1 DEF Leaving
<1>3. CASE ReceiveEvent(q)
  <2> DEFINE e == Head(evtCh[q])
  <2>1. evtCh[q] \in Seq(Event) /\ evtCh[q] # <<>> /\ e \in Event /\ apc' = apc
        /\ evtCh'[q] = Tail(evtCh[q]) /\ reply'[q] = Response(e.type)
    BY <1>0, <1>3, TailOf DEF ReceiveEvent, runVars, TypeOK
  <2>5. hpc'[q] \in {"ask", "forward", "defer"} /\ (hpc'[q] = "defer" => e.type \in Terminal)
    <3>1. e.type \in {"proposed", "ran"} \cup Terminal
      BY <2>1 DEF Event, Terminal
    <3>2. hpc'[q] = CASE e.type = "proposed" -> "ask" [] e.type = "ran" -> "forward" [] OTHER -> "defer"
      BY <1>0, <1>3 DEF ReceiveEvent, TypeOK
    <3>3. QED
      BY <3>1, <3>2
  <2>2. e.type \in Terminal => apc[q] = "over" /\ Tail(evtCh[q]) = <<>>
    BY <1>0, <2>1, LastEvent
  <2>3. e.type \in Terminal => Response(e.type) # "none"
    BY DEF Terminal, Response
  <2>4. QED
    BY <2>1, <2>2, <2>3, <2>5 DEF Leaving
<1>4. CASE StopForwarding(q)
  <2>1. down
    BY <1>4 DEF StopForwarding, CtxInv
  <2>2. reply'[q] = "cancelled" /\ down' = down
    BY <1>0, <1>4 DEF StopForwarding, TypeOK
  <2>3. QED
    BY <2>1, <2>2
<1>5. CASE RequestFails(q) \/ ClientAnswers(q)
  <2>1. hpc'[q] = "sending" /\ hcmd'[q].type # "cancel"
    BY <1>0, <1>5 DEF RequestFails, ClientAnswers, Prepare, Cmd, TypeOK
  <2>2. QED
    BY <2>1 DEF Leaving
<1>6. CASE HandlerSends(q)
  <2>1. hpc'[q] = "defer" => hcmd[q].type = "cancel"
    BY <1>0, <1>6 DEF HandlerSends, AfterSend, TypeOK
  <2>2. hpc'[q] # "sending" /\ hpc[q] = "sending" /\ UNCHANGED <<reply, down>>
    BY <1>0, <1>6 DEF HandlerSends, AfterSend, TypeOK
  <2>3. QED
    BY <1>0, <2>1, <2>2 DEF Leaving
<1>7. ASSUME NEW p \in Prompts, Run(p) PROVE Left(q)'
  <2>1. UNCHANGED <<hpc, hcmd, reply, down>>
    BY <1>7, RunKeepsHandlers DEF handVars
  <2>2. apc[q] = "over" => evtCh'[q] = evtCh[q] /\ apc'[q] = apc[q]
    <3>1. apc[p] # "over"
      BY <1>7 DEF Run, RunProposes, RunReceives, RunExecutes, RunResumes, RunEnds
    <3>2. CASE \E c \in Calls : RunExecutes(p, c)
      BY <1>0, <3>1, <3>2 DEF RunExecutes, Emit, TypeOK
    <3>3. CASE RunReceives(p)
      BY <1>0, <3>1, <3>3 DEF RunReceives, TypeOK
    <3>4. CASE RunProposes(p) \/ RunResumes(p) \/ RunEnds(p)
      BY <1>0, <3>1, <3>4 DEF RunProposes, RunResumes, RunEnds, Emit, TypeOK
    <3>5. QED
      BY <1>7, <3>2, <3>3, <3>4 DEF Run
  <2>3. QED
    BY <1>0, <2>1, <2>2 DEF Leaving
<1>8. CASE CancelArrives \/ CancelSent \/ LoadSession \/ ConnectionCloses \/ UNCHANGED vars
  <2>1. UNCHANGED <<hpc, hcmd, reply, apc, evtCh>>
    BY <1>8, ReadLoopKeepsHandlers DEF handVars, runVars
  <2>2. down => down'
    BY <1>8 DEF CancelArrives, CancelSent, LoadSession, ConnectionCloses, vars
  <2>3. QED
    BY <1>0, <2>1, <2>2 DEF Leaving
<1>9. QED
  BY <1>1, <1>2, <1>3, <1>4, <1>5, <1>6, <1>7, <1>8 DEF Next, Handler

\* Being told to stop is for good.
LEMMA ToldKept ==
  ASSUME TypeInv, [Next]_vars, NEW q \in Prompts
  PROVE  /\ Told(q) => Told(q)'
         /\ CancelSent /\ rch = q => cmdCh' = cmdCh \/ Told(q)'
<1>0. TypeOK /\ (rpc = "sending" => rch \in Prompts)
  BY DEF TypeInv, CancelInHand
<1>1. CASE CancelSent
  <2>1. rch \in Prompts /\ down' = down
    BY <1>0, <1>1 DEF CancelSent
  <2>2. MaxTurns \in Nat /\ Never = MaxTurns + 1
    BY BoundsAssumption DEF MaxTurns, Never
  <2>3. deliveredCancel[rch] \in 0..Never /\ turn[rch] \in 0..MaxTurns
    BY <1>0, <2>1 DEF TypeOK
  <2>4. Least(deliveredCancel[rch], turn[rch]) # Never
    BY <2>2, <2>3 DEF Least
  <2>5. \/ deliveredCancel' = deliveredCancel /\ cmdCh' = cmdCh
        \/ deliveredCancel' = [deliveredCancel EXCEPT
                                  ![rch] = Least(deliveredCancel[rch], turn[rch])]
    BY <1>1 DEF CancelSent
  <2>6. CASE deliveredCancel' = deliveredCancel /\ cmdCh' = cmdCh
    BY <2>1, <2>6 DEF Told
  <2>7. CASE deliveredCancel' = [deliveredCancel EXCEPT
                                   ![rch] = Least(deliveredCancel[rch], turn[rch])]
    <3>1. deliveredCancel'[rch] # Never
      BY <1>0, <2>1, <2>4, <2>7 DEF TypeOK
    <3>2. q # rch => deliveredCancel'[q] = deliveredCancel[q]
      BY <1>0, <2>1, <2>7 DEF TypeOK
    <3>3. QED
      BY <2>1, <3>1, <3>2 DEF Told
  <2>8. QED
    BY <2>5, <2>6, <2>7
<1>2. CASE CancelArrives \/ LoadSession \/ ConnectionCloses \/ UNCHANGED vars
  BY <1>2 DEF CancelArrives, LoadSession, ConnectionCloses, vars, Told, CancelSent
<1>3. ASSUME NEW p \in Prompts, Run(p) PROVE UNCHANGED <<deliveredCancel, down, rpc>>
  BY <1>3, RunKeepsHandlers DEF readVars
<1>4. ASSUME NEW p \in Prompts, PromptArrives(p) \/ Handler(p) \/ ClientAnswers(p)
      PROVE  UNCHANGED <<deliveredCancel, down, rpc>>
  BY <1>4 DEF Handler, PromptArrives, StartRun, Register, ReceiveEvent, StopForwarding,
              AskPermission, ClientAnswers, RequestFails, HandlerSends, FinishPrompt, readVars
<1>5. QED
  BY <1>1, <1>2, <1>3, <1>4 DEF Next, Told, CancelSent

StopFacts(p) ==
    /\ apc[p] = "cancelled" => Told(p)
    /\ \A i \in 1 .. Len(cmdCh[p]) : cmdCh[p][i].type = "cancel" => Told(p)

\* A command that is appended, if it is a cancel, comes from somebody.
LEMMA AppendStop ==
  ASSUME TypeOK, TypeInv, [Next]_vars, NEW q \in Prompts, StopFacts(q), NEW cmd \in Command,
         cmdCh'[q] = Append(cmdCh[q], cmd), apc'[q] = apc[q], cmd.type = "cancel" => Told(q)'
  PROVE  StopFacts(q)'
<1>1. cmdCh[q] \in Seq(Command)
  BY DEF TypeOK
<1>2. /\ Len(cmdCh'[q]) = Len(cmdCh[q]) + 1 /\ Len(cmdCh[q]) \in Nat
      /\ \A i \in 1 .. Len(cmdCh[q]) : cmdCh'[q][i] = cmdCh[q][i]
      /\ cmdCh'[q][Len(cmdCh[q]) + 1] = cmd
  BY <1>1, AppendProperties, LenProperties
<1>3. Told(q) => Told(q)'
  BY ToldKept
<1>4. \A i \in 1 .. Len(cmdCh'[q]) : i = Len(cmdCh[q]) + 1 \/ i \in 1 .. Len(cmdCh[q])
  BY <1>2
<1>5. QED
  BY <1>2, <1>3, <1>4 DEF StopFacts

LEMMA NextStopInv ==
  TypeInv /\ OwnChannel /\ LeaveInv /\ StopInv /\ [Next]_vars => StopInv'
<1> SUFFICES ASSUME TypeInv, OwnChannel, LeaveInv, StopInv, [Next]_vars, NEW q \in Prompts
             PROVE  StopFacts(q)'
  BY DEF StopInv, StopFacts
<1>0. TypeOK /\ None \notin Prompts /\ StopFacts(q) /\ (Told(q) => Told(q)')
  BY NoneAssumption, ToldKept DEF TypeInv, StopInv, StopFacts
<1>1. ASSUME cmdCh'[q] = cmdCh[q], apc'[q] = apc[q] \/ apc'[q] # "cancelled" PROVE StopFacts(q)'
  BY <1>0, <1>1 DEF StopFacts
<1>2. ASSUME NEW p \in Prompts, StartRun(p) PROVE StopFacts(q)'
  BY <1>0, <1>1, <1>2 DEF StartRun, TypeOK
<1>3. ASSUME NEW p \in Prompts,
             \/ PromptArrives(p) \/ Register(p) \/ FinishPrompt(p) \/ ReceiveEvent(p)
             \/ StopForwarding(p) \/ RequestFails(p) \/ ClientAnswers(p)
             \/ \E c \in Calls : AskPermission(p, c)
      PROVE  StopFacts(q)'
  BY <1>1, <1>3 DEF PromptArrives, Register, FinishPrompt, ReceiveEvent, StopForwarding,
                    RequestFails, ClientAnswers, AskPermission, runVars
<1>4. ASSUME NEW p \in Prompts, HandlerSends(p) PROVE StopFacts(q)'
  <2>1. hch[p] \in {p, None} /\ hcmd[p] \in Command /\ apc' = apc /\ hpc[p] = "sending"
        /\ down' = down
    BY <1>0, <1>4 DEF HandlerSends, OwnChannel, runVars, TypeOK
  <2>2. \/ cmdCh' = cmdCh
        \/ hch[p] = p /\ cmdCh' = [cmdCh EXCEPT ![p] = Append(cmdCh[p], hcmd[p])]
    BY <1>4, <2>1 DEF HandlerSends, Deliver
  <2>3. hcmd[p].type = "cancel" => down
    BY <2>1 DEF LeaveInv, Leaving
  <2>4. CASE cmdCh'[q] = cmdCh[q]
    BY <1>1, <2>1, <2>4
  <2>5. CASE q = p /\ cmdCh' = [cmdCh EXCEPT ![p] = Append(cmdCh[p], hcmd[p])]
    <3>1. cmdCh'[q] = Append(cmdCh[q], hcmd[p])
      BY <1>0, <2>5 DEF TypeOK
    <3>2. hcmd[p].type = "cancel" => Told(q)'
      BY <2>1, <2>3 DEF Told
    <3>3. QED
      BY <1>0, <2>1, <3>1, <3>2, AppendStop
  <2>6. QED
    BY <1>0, <2>2, <2>4, <2>5 DEF TypeOK
<1>5. ASSUME NEW p \in Prompts, RunReceives(p) PROVE StopFacts(q)'
  <2>1. CASE p # q
    BY <1>0, <1>1, <1>5, <2>1 DEF RunReceives, TypeOK
  <2>2. CASE p = q
    <3>1. cmdCh[q] \in Seq(Command) /\ cmdCh[q] # <<>> /\ cmdCh'[q] = Tail(cmdCh[q])
      BY <1>0, <1>5, <2>2 DEF RunReceives, TypeOK
    <3>2. /\ Len(cmdCh[q]) \in Nat \ {0} /\ Len(Tail(cmdCh[q])) = Len(cmdCh[q]) - 1
          /\ Head(cmdCh[q]) = cmdCh[q][1]
          /\ \A i \in 1 .. Len(Tail(cmdCh[q])) : Tail(cmdCh[q])[i] = cmdCh[q][i + 1]
      BY <3>1, TailOf
    <3>3. \A i \in 1 .. Len(cmdCh'[q]) : cmdCh'[q][i].type = "cancel" => Told(q)
      <4>1. \A i \in 1 .. Len(Tail(cmdCh[q])) : i + 1 \in 1 .. Len(cmdCh[q])
        BY <3>2
      <4>2. QED
        BY <1>0, <3>1, <3>2, <4>1 DEF StopFacts
    <3>4. apc'[q] = "cancelled" => Head(cmdCh[q]).type = "cancel"
      BY <1>0, <1>5, <2>2 DEF RunReceives, TypeOK
    <3>5. Head(cmdCh[q]).type = "cancel" => Told(q)
      <4>1. 1 \in 1 .. Len(cmdCh[q])
        BY <3>2
      <4>2. QED
        BY <1>0, <3>2, <4>1 DEF StopFacts
    <3>6. QED
      BY <1>0, <3>3, <3>4, <3>5 DEF StopFacts
  <2>3. QED
    BY <2>1, <2>2
<1>6. ASSUME NEW p \in Prompts, NEW c \in Calls, RunExecutes(p, c) PROVE StopFacts(q)'
  <2>1. apc'[q] \in {apc[q], "failed"} /\ cmdCh' = cmdCh
    BY <1>0, <1>6 DEF RunExecutes, TypeOK
  <2>2. QED
    BY <1>1, <2>1
<1>7. ASSUME NEW p \in Prompts, RunProposes(p) \/ RunResumes(p) \/ RunEnds(p) PROVE StopFacts(q)'
  <2>1. apc'[q] \in {apc[q], "collect", "completed", "think", "over"} /\ cmdCh' = cmdCh
    BY <1>0, <1>7 DEF RunProposes, RunResumes, RunEnds, TypeOK
  <2>2. QED
    BY <1>1, <2>1
<1>8. CASE CancelSent
  <2>1. rch \in Prompts /\ CancelCmd \in Command /\ apc' = apc
    BY <1>0, <1>8, CmdType, ReadLoopKeepsHandlers
    DEF TypeInv, CancelInHand, CancelSent, CancelCmd, runVars
  <2>2. cmdCh' = cmdCh \/ cmdCh' = [cmdCh EXCEPT ![rch] = Append(cmdCh[rch], CancelCmd)]
    BY <1>8 DEF CancelSent, Deliver
  <2>3. CASE cmdCh'[q] = cmdCh[q]
    BY <1>1, <2>1, <2>3
  <2>4. CASE q = rch /\ cmdCh' # cmdCh
    <3>1. cmdCh'[q] = Append(cmdCh[q], CancelCmd) /\ apc'[q] = apc[q]
      BY <1>0, <2>1, <2>2, <2>4 DEF TypeOK
    <3>2. Told(q)'
      BY <1>8, <2>4, ToldKept
    <3>3. QED
      BY <1>0, <2>1, <3>1, <3>2, AppendStop
  <2>5. QED
    BY <1>0, <2>1, <2>2, <2>3, <2>4 DEF TypeOK
<1>9. CASE CancelArrives \/ LoadSession \/ ConnectionCloses \/ UNCHANGED vars
  <2>1. cmdCh' = cmdCh /\ apc' = apc
    BY <1>9 DEF CancelArrives, LoadSession, ConnectionCloses, vars, runVars
  <2>2. QED
    BY <1>1, <2>1
<1>10. QED
  BY <1>2, <1>3, <1>4, <1>5, <1>6, <1>7, <1>8, <1>9 DEF Next, Handler, Run

\* A handler that is done has left a response.
DoneInv == \A p \in Prompts : hpc[p] = "done" => reply[p] # "none"

LEMMA NextDoneInv == TypeInv /\ LeaveInv /\ DoneInv /\ [Next]_vars => DoneInv'
<1> SUFFICES ASSUME TypeInv, LeaveInv, DoneInv, [Next]_vars, NEW q \in Prompts
             PROVE  (hpc[q] = "done" => reply[q] # "none")'
  BY DEF DoneInv
<1>0. TypeOK /\ (hpc[q] = "done" => reply[q] # "none")
  BY DEF TypeInv, DoneInv
<1>1. ASSUME NEW p \in Prompts, PromptArrives(p) \/ Register(p) \/ ReceiveEvent(p)
                                \/ StopForwarding(p) \/ \E c \in Calls : AskPermission(p, c)
      PROVE  (hpc[q] = "done" => reply[q] # "none")'
  <2>1. hpc[p] # "done" /\ hpc'[p] # "done"
    BY <1>0, <1>1 DEF PromptArrives, Register, ReceiveEvent, StopForwarding, AskPermission, TypeOK
  <2>2. p # q => hpc'[q] = hpc[q] /\ reply'[q] = reply[q]
    BY <1>0, <1>1 DEF PromptArrives, Register, ReceiveEvent, StopForwarding, AskPermission, TypeOK
  <2>3. QED
    BY <1>0, <2>1, <2>2
<1>2. ASSUME NEW p \in Prompts, RequestFails(p) \/ ClientAnswers(p) \/ HandlerSends(p)
      PROVE  (hpc[q] = "done" => reply[q] # "none")'
  BY <1>0, <1>2 DEF RequestFails, ClientAnswers, HandlerSends, Prepare, AfterSend, TypeOK
<1>3. ASSUME NEW p \in Prompts, StartRun(p)
      PROVE  (hpc[q] = "done" => reply[q] # "none")'
  BY <1>0, <1>3 DEF StartRun, TypeOK
<1>4. ASSUME NEW p \in Prompts, FinishPrompt(p)
      PROVE  (hpc[q] = "done" => reply[q] # "none")'
  <2>1. reply[p] # "none"
    BY <1>4 DEF FinishPrompt, LeaveInv, Leaving
  <2>2. QED
    BY <1>0, <1>4, <2>1 DEF FinishPrompt, TypeOK
<1>5. ASSUME NEW p \in Prompts, Run(p) PROVE (hpc[q] = "done" => reply[q] # "none")'
  BY <1>0, <1>5, RunKeepsHandlers DEF handVars
<1>6. CASE CancelArrives \/ CancelSent \/ LoadSession \/ ConnectionCloses \/ UNCHANGED vars
  BY <1>0, <1>6, ReadLoopKeepsHandlers DEF handVars
<1>7. QED
  BY <1>1, <1>2, <1>3, <1>4, <1>5, <1>6 DEF Next, Handler

\* Everything the refinement rests on.
SessionInv == SafeInv /\ EndInv /\ DoneInv

LEMMA InitSessionInv == Init => SessionInv
<1>1. Init => DoneInv
  BY DEF Init, DoneInv
<1>2. QED
  BY <1>1, InitSafeInv, InitEndInv DEF SessionInv

LEMMA NextSessionInv ==
  ASSUME ~Concurrent
  PROVE  SessionInv /\ [Next]_vars => SessionInv'
<1>1. SessionInv /\ [Next]_vars => SafeInv'
  BY NextSafeInv DEF SessionInv
<1>2. SessionInv /\ [Next]_vars => EndInv'
  BY NextStageInv, NextEventInv, NextLeaveInv, NextStopInv DEF SessionInv, SafeInv, EndInv, AloneInv
<1>3. SessionInv /\ [Next]_vars => DoneInv'
  BY NextDoneInv DEF SessionInv, SafeInv, EndInv
<1>4. QED
  BY <1>1, <1>2, <1>3 DEF SessionInv

-----------------------------------------------------------------------------
(* The session implements its contract. *)

LEMMA InitContract == Init => Contract!Init
<1> SUFFICES ASSUME Init PROVE Contract!Init
  OBVIOUS
<1>1. Status = [p \in Prompts |-> "none"]
  BY DEF Init, Status
<1>2. Outcome = [p \in Prompts |-> "none"]
  BY DEF Init, Outcome
<1>3. ToldToStop = {}
  BY DEF Init, ToldToStop
<1>4. permits = [p \in Prompts |-> [c \in Calls |-> 0]] /\ down = FALSE
  BY DEF Init
<1>5. QED
  BY <1>1, <1>2, <1>3, <1>4 DEF Contract!Init

\* What the client sees of a prompt that a step leaves alone, or takes no further.
StatusKept(p) == Status[p]' = Status[p]
OutcomeKept(p) == Outcome[p]' = Outcome[p]

LEMMA Kept ==
  ASSUME NEW p \in Prompts
  PROVE  /\ UNCHANGED <<hpc[p], reply[p]>> => StatusKept(p)
         /\ {hpc[p], hpc'[p]} \cap {"idle", "done"} = {} => StatusKept(p)
         /\ UNCHANGED <<apc[p], evtCh[p], reply[p]>> => OutcomeKept(p)
         /\ apc[p] # "over" /\ apc'[p] # "over" => OutcomeKept(p)
         /\ UNCHANGED <<apc[p], evtCh[p]>> /\ evtCh[p] # <<>> => OutcomeKept(p)
BY DEF StatusKept, OutcomeKept, Status, Outcome

LEMMA KeptAll ==
  /\ (\A p \in Prompts : StatusKept(p)) => Status' = Status
  /\ (\A p \in Prompts : OutcomeKept(p)) => Outcome' = Outcome
BY DEF StatusKept, OutcomeKept, Status, Outcome

LEMMA KeptOthers ==
  ASSUME NEW p \in Prompts, NEW v
  PROVE  /\ (\A q \in Prompts \ {p} : StatusKept(q)) /\ Status[p]' = v
              => Status' = [Status EXCEPT ![p] = v]
         /\ (\A q \in Prompts \ {p} : OutcomeKept(q)) /\ Outcome[p]' = v
              => Outcome' = [Outcome EXCEPT ![p] = v]
BY DEF StatusKept, OutcomeKept, Status, Outcome

\* A step of the handler of one prompt does nothing to the others.
LEMMA HandlerAlone ==
  ASSUME TypeOK, NEW p \in Prompts, PromptArrives(p) \/ Handler(p) \/ ClientAnswers(p)
  PROVE  /\ \A q \in Prompts \ {p} : UNCHANGED <<hpc[q], reply[q], apc[q], evtCh[q]>>
         /\ ToldToStop' = ToldToStop /\ down' = down
<1>1. CASE PromptArrives(p) \/ StartRun(p) \/ Register(p) \/ FinishPrompt(p)
  BY <1>1 DEF PromptArrives, StartRun, Register, FinishPrompt, runVars, TypeOK, ToldToStop
<1>2. CASE ReceiveEvent(p) \/ StopForwarding(p) \/ \E c \in Calls : AskPermission(p, c)
  BY <1>2 DEF ReceiveEvent, StopForwarding, AskPermission, runVars, TypeOK, ToldToStop
<1>3. CASE RequestFails(p) \/ ClientAnswers(p) \/ HandlerSends(p)
  BY <1>3 DEF RequestFails, ClientAnswers, HandlerSends, Prepare, runVars, TypeOK, ToldToStop
<1>4. QED
  BY <1>1, <1>2, <1>3 DEF Handler

\* Where the steps of a handler lie between the steps of the contract.
LEMMA HandlerStutters ==
  ASSUME TypeOK, NEW p \in Prompts, PromptArrives(p) \/ Handler(p) \/ ClientAnswers(p),
         StatusKept(p), OutcomeKept(p), permits' = permits
  PROVE  UNCHANGED Contract!contract
<1>1. \A q \in Prompts : StatusKept(q) /\ OutcomeKept(q)
  BY HandlerAlone, Kept
<1>2. QED
  BY <1>1, KeptAll, HandlerAlone DEF Contract!contract

LEMMA PromptIsPrompt ==
  ASSUME TypeOK, StageInv, NEW p \in Prompts, PromptArrives(p)
  PROVE  Contract!Prompt(p)
<1>1. hpc[p] = "idle" /\ hpc'[p] = "loaded" /\ ~down /\ permits' = permits
      /\ UNCHANGED <<reply, apc, evtCh>>
  BY DEF PromptArrives, runVars, TypeOK
<1>2. \A q \in Prompts \ {p} : StatusKept(q)
  BY HandlerAlone, Kept
<1>3. Status[p] = "none" /\ Status[p]' = "open"
  BY <1>1 DEF Status
<1>4. Status' = [Status EXCEPT ![p] = "open"]
  BY <1>2, <1>3, KeptOthers
<1>5. Outcome' = Outcome
  BY <1>1, Kept, KeptAll
<1>6. QED
  BY <1>1, <1>3, <1>4, <1>5, HandlerAlone DEF Contract!Prompt

\* A run that starts is not seen; one that cannot start is refused.
LEMMA StartIsRefusal ==
  ASSUME TypeOK, StageInv, NEW p \in Prompts, StartRun(p)
  PROVE  Contract!Refuse(p) \/ UNCHANGED Contract!contract
<1>1. /\ hpc[p] = "loaded" /\ apc[p] = "idle" /\ permits[p] = [c \in Calls |-> 0]
      /\ permits' = permits /\ evtCh' = evtCh
  BY DEF StartRun, StageInv
<1>2. OutcomeKept(p) /\ Outcome[p] = "none"
  <2>1. apc'[p] \in {"idle", "think"}
    BY <1>1 DEF StartRun, TypeOK
  <2>2. QED
    BY <1>1, <2>1, Kept DEF Outcome
<1>3. CASE hpc'[p] = "started"
  BY <1>1, <1>2, <1>3, Kept, HandlerStutters DEF Handler
<1>4. CASE hpc'[p] = "done" /\ reply'[p] = "error"
  <2>1. Status[p] = "open" /\ Status[p]' = "error"
    BY <1>1, <1>4 DEF Status
  <2>2. \A q \in Prompts \ {p} : StatusKept(q) /\ OutcomeKept(q)
    BY HandlerAlone, Kept DEF Handler
  <2>3. Status' = [Status EXCEPT ![p] = "error"]
    BY <2>1, <2>2, KeptOthers
  <2>4. Outcome' = Outcome
    BY <1>2, <2>2, KeptAll
  <2>5. ToldToStop' = ToldToStop /\ down' = down
    BY HandlerAlone DEF Handler
  <2>6. QED
    BY <1>1, <1>2, <2>1, <2>3, <2>4, <2>5 DEF Contract!Refuse
<1>5. QED
  BY <1>3, <1>4 DEF StartRun, TypeOK

\* The events on the way to the handler, the last one too, are not seen: the outcome of a run
\* goes from the end of its channel to the reply.
LEMMA ReceiveStutters ==
  ASSUME TypeOK, EventInv, NEW p \in Prompts, ReceiveEvent(p)
  PROVE  UNCHANGED Contract!contract
<1> DEFINE e == Head(evtCh[p])
<1>1. /\ evtCh[p] \in Seq(Event) /\ evtCh[p] # <<>> /\ apc' = apc /\ permits' = permits
      /\ evtCh'[p] = Tail(evtCh[p]) /\ reply'[p] = Response(e.type)
      /\ hpc[p] = "forward" /\ hpc'[p] \in {"ask", "forward", "defer"}
  BY DEF ReceiveEvent, runVars, TypeOK
<1>2. StatusKept(p)
  BY <1>1, Kept
<1>3. OutcomeKept(p)
  <2>1. CASE apc[p] # "over"
    BY <1>1, <2>1, Kept
  <2>2. CASE apc[p] = "over"
    <3>1. Outcome[p] = Response(evtCh[p][Len(evtCh[p])].type)
      BY <1>1, <2>2 DEF Outcome
    <3>2. CASE Len(evtCh[p]) = 1
      <4>1. evtCh'[p] = <<>> /\ e = evtCh[p][Len(evtCh[p])]
        BY <1>1, <3>2, TailOf
      <4>2. Outcome[p]' = reply'[p]
        BY <1>1, <2>2, <4>1 DEF Outcome
      <4>3. QED
        BY <1>1, <3>1, <4>1, <4>2 DEF OutcomeKept
    <3>3. CASE Len(evtCh[p]) # 1
      <4>1. evtCh'[p] # <<>> /\ evtCh'[p][Len(evtCh'[p])] = evtCh[p][Len(evtCh[p])]
        BY <1>1, <3>3, TailOf
      <4>2. Outcome[p]' = Response(evtCh'[p][Len(evtCh'[p])].type)
        BY <1>1, <2>2, <4>1 DEF Outcome
      <4>3. QED
        BY <3>1, <4>1, <4>2 DEF OutcomeKept
    <3>4. QED
      BY <3>2, <3>3
  <2>3. QED
    BY <2>1, <2>2
<1>4. QED
  BY <1>1, <1>2, <1>3, HandlerStutters DEF Handler

\* A handler that leaves because the client is gone leaves the event of its run behind.
LEMMA StopStutters ==
  ASSUME TypeOK, EventInv, NEW p \in Prompts, StopForwarding(p)
  PROVE  UNCHANGED Contract!contract
<1>1. /\ hpc[p] = "forward" /\ hpc'[p] = "sending"
      /\ apc' = apc /\ evtCh' = evtCh /\ permits' = permits
  BY DEF StopForwarding, runVars, TypeOK
<1>2. apc[p] = "over" => evtCh[p] # <<>>
  BY <1>1 DEF EventInv, Leaving
<1>3. StatusKept(p) /\ OutcomeKept(p)
  BY <1>1, <1>2, Kept
<1>4. QED
  BY <1>1, <1>3, HandlerStutters DEF Handler

LEMMA InnerStutters ==
  ASSUME TypeOK, NEW p \in Prompts,
         Register(p) \/ RequestFails(p) \/ HandlerSends(p) \/ \E c \in Calls : AskPermission(p, c)
  PROVE  UNCHANGED Contract!contract
<1>1. {hpc[p], hpc'[p]} \cap {"idle", "done"} = {}
  <2>1. CASE Register(p) \/ \E c \in Calls : AskPermission(p, c)
    BY <2>1 DEF Register, AskPermission, TypeOK
  <2>2. CASE RequestFails(p) \/ HandlerSends(p)
    BY <2>2 DEF RequestFails, HandlerSends, Prepare, AfterSend, TypeOK
  <2>3. QED
    BY <2>1, <2>2
<1>2. UNCHANGED <<apc, evtCh, reply, permits>>
  BY DEF Register, AskPermission, RequestFails, HandlerSends, runVars
<1>3. StatusKept(p) /\ OutcomeKept(p)
  BY <1>1, <1>2, Kept
<1>4. QED
  BY <1>2, <1>3, HandlerStutters DEF Handler

LEMMA AnswerIsGrant ==
  ASSUME TypeOK, Asked, NEW p \in Prompts, ClientAnswers(p)
  PROVE  (\E c \in Calls : Contract!Grant(p, c)) \/ UNCHANGED Contract!contract
<1>1. /\ hpc[p] = "waiting" /\ hpc'[p] = "sending" /\ ~down /\ hcall[p] \in Calls
      /\ UNCHANGED <<apc, evtCh, reply>>
  BY DEF ClientAnswers, Prepare, Asked, runVars, TypeOK
<1>2. StatusKept(p) /\ OutcomeKept(p)
  BY <1>1, Kept
<1>3. \A q \in Prompts : StatusKept(q) /\ OutcomeKept(q)
  BY <1>2, HandlerAlone, Kept
<1>4. Status' = Status /\ Outcome' = Outcome /\ ToldToStop' = ToldToStop /\ down' = down
  BY <1>3, KeptAll, HandlerAlone
<1>5. Status[p] = "open"
  BY <1>1 DEF Status
<1>6. CASE permits' = [permits EXCEPT ![p][hcall[p]] = @ + 1]
  <2>1. Contract!Grant(p, hcall[p])
    BY <1>1, <1>4, <1>5, <1>6 DEF Contract!Grant
  <2>2. QED
    BY <1>1, <2>1
<1>7. CASE permits' = permits
  BY <1>4, <1>7 DEF Contract!contract
<1>8. QED
  BY <1>6, <1>7 DEF ClientAnswers

LEMMA FinishIsAnswer ==
  ASSUME TypeOK, LeaveInv, NEW p \in Prompts, FinishPrompt(p)
  PROVE  Contract!Answer(p)
<1>1. /\ hpc[p] = "defer" /\ hpc'[p] = "done" /\ reply' = reply
      /\ apc' = apc /\ evtCh' = evtCh /\ permits' = permits
  BY DEF FinishPrompt, runVars, TypeOK
<1>2. Status[p] = "open" /\ Status[p]' = reply[p]
  BY <1>1 DEF Status
<1>3. \A q \in Prompts \ {p} : StatusKept(q)
  BY HandlerAlone, Kept DEF Handler
<1>4. Status' = [Status EXCEPT ![p] = reply[p]]
  BY <1>2, <1>3, KeptOthers
<1>5. Outcome' = Outcome
  BY <1>1, Kept, KeptAll
<1>6. ToldToStop' = ToldToStop /\ down' = down
  BY HandlerAlone DEF Handler
<1>7. \/ down /\ reply[p] = "cancelled"
      \/ apc[p] = "over" /\ evtCh[p] = <<>> /\ reply[p] # "none"
  BY <1>1 DEF LeaveInv, Leaving
<1>8. CASE down /\ reply[p] = "cancelled"
  BY <1>1, <1>2, <1>4, <1>5, <1>6, <1>8 DEF Contract!Answer
<1>9. CASE apc[p] = "over" /\ evtCh[p] = <<>> /\ reply[p] # "none"
  <2>1. Outcome[p] = reply[p]
    BY <1>9 DEF Outcome
  <2>2. QED
    BY <1>1, <1>2, <1>4, <1>5, <1>6, <1>9, <2>1 DEF Contract!Answer
<1>10. QED
  BY <1>7, <1>8, <1>9

\* A step of a run leaves its handler alone, and other runs.
LEMMA RunAlone ==
  ASSUME TypeOK, NEW p \in Prompts, Run(p)
  PROVE  /\ Status' = Status /\ ToldToStop' = ToldToStop /\ down' = down
         /\ \A q \in Prompts \ {p} : OutcomeKept(q)
<1>1. UNCHANGED <<hpc, reply, deliveredCancel, down>>
  BY RunKeepsHandlers DEF handVars
<1>2. \A q \in Prompts \ {p} : UNCHANGED <<apc[q], evtCh[q]>>
  <2>1. CASE RunReceives(p)
    BY <2>1 DEF RunReceives, TypeOK
  <2>2. CASE RunProposes(p) \/ RunResumes(p) \/ RunEnds(p)
    BY <2>2 DEF RunProposes, RunResumes, RunEnds, Emit, TypeOK
  <2>3. CASE \E c \in Calls : RunExecutes(p, c)
    BY <2>3 DEF RunExecutes, Emit, TypeOK
  <2>4. QED
    BY <2>1, <2>2, <2>3 DEF Run
<1>3. \A q \in Prompts \ {p} : OutcomeKept(q)
  BY <1>1, <1>2, Kept
<1>4. QED
  BY <1>1, <1>3 DEF Status, ToldToStop

LEMMA RunStutters ==
  ASSUME TypeOK, NEW p \in Prompts, Run(p), apc[p] # "over", apc'[p] # "over", permits' = permits
  PROVE  UNCHANGED Contract!contract
<1>1. \A q \in Prompts : OutcomeKept(q)
  BY RunAlone, Kept
<1>2. QED
  BY <1>1, RunAlone, KeptAll DEF Contract!contract

\* A prompt whose run has started has been sent, and what it was answered is an answer.
LEMMA SentPrompt ==
  ASSUME StageInv, DoneInv, NEW p \in Prompts, apc[p] # "idle" \/ hpc[p] # "idle"
  PROVE  Status[p] # "none"
BY DEF StageInv, DoneInv, Status

LEMMA ExecuteIsExecute ==
  ASSUME TypeInv, BatchInv, Balance, NEW p \in Prompts, NEW c \in Calls, RunExecutes(p, c)
  PROVE  Contract!Execute(p, c) \/ UNCHANGED Contract!contract
<1>1. TypeOK /\ apc[p] = "act" /\ c \in todo[p] /\ Run(p)
  BY DEF TypeInv, RunExecutes, Run
<1>2. apc'[p] \in {"act", "failed"}
  BY <1>1 DEF RunExecutes, TypeOK
<1>3. CASE batch[p][c] = "granted" /\ c \in DOMAIN batch[p]
  <2>1. Due(p, c) = 1
    BY <1>1, <1>3 DEF Due, IsDue
  <2>2. permits[p][c] > 0
    BY <1>1, <2>1, BalanceTypes DEF Balance
  <2>3. permits' = [permits EXCEPT ![p][c] = @ - 1]
    BY <1>3 DEF RunExecutes
  <2>4. OutcomeKept(p) /\ Outcome[p] = "none"
    BY <1>1, <1>2, Kept DEF Outcome
  <2>5. Outcome' = Outcome
    BY <1>1, <2>4, RunAlone, KeptAll
  <2>6. QED
    BY <1>1, <2>2, <2>3, <2>4, <2>5, RunAlone DEF Contract!Execute
<1>4. CASE batch[p][c] # "granted"
  <2>1. permits' = permits
    BY <1>4 DEF RunExecutes
  <2>2. QED
    BY <1>1, <1>2, <2>1, RunStutters
<1>5. c \in DOMAIN batch[p]
  BY <1>1 DEF BatchInv
<1>6. QED
  BY <1>3, <1>4, <1>5

\* The terminal event of a run is its end; a cancelled run was told to stop or the client is gone.
LEMMA EndIsOver ==
  ASSUME TypeOK, StageInv, DoneInv, StopInv, NEW p \in Prompts, RunEnds(p)
  PROVE  \E end \in Contract!Responses : Contract!RunOver(p, end)
<1>1. PICK t \in Terminal : /\ apc[p] = t \/ (apc[p] = "think" /\ t # "cancelled")
                            /\ Emit(p, Ev(t, {}))
  BY DEF RunEnds, Terminal
<1>2. apc[p] \notin {"idle", "over"} /\ apc'[p] = "over" /\ permits' = permits /\ Run(p)
  BY <1>1 DEF RunEnds, TypeOK, Terminal, Run
<1>3. Ev(t, {}) \in Event /\ Ev(t, {}).type = t
  BY EvType DEF Ev, Terminal
<1>4. evtCh'[p] # <<>> /\ evtCh'[p][Len(evtCh'[p])].type = t
  BY <1>1, <1>3, EmitPlaces
<1>5. Outcome[p] = "none" /\ Outcome[p]' = Response(t)
  BY <1>2, <1>4 DEF Outcome
<1>6. Outcome' = [Outcome EXCEPT ![p] = Response(t)]
  BY <1>2, <1>5, RunAlone, KeptOthers
<1>7. Status[p] # "none"
  BY <1>2, SentPrompt
<1>8. Response(t) \in Contract!Responses /\ (Response(t) = "cancelled" => t = "cancelled")
  BY DEF Response, Terminal, Contract!Responses
<1>9. Response(t) = "cancelled" => p \in ToldToStop \/ down
  BY <1>1, <1>8 DEF StopInv, Told, ToldToStop
<1>10. Contract!RunOver(p, Response(t))
  BY <1>2, <1>5, <1>6, <1>7, <1>9, RunAlone DEF Contract!RunOver
<1>11. QED
  BY <1>8, <1>10

LEMMA RunKeepsContract ==
  ASSUME SessionInv, NEW p \in Prompts, Run(p)
  PROVE  \/ \E c \in Calls : Contract!Execute(p, c)
         \/ \E end \in Contract!Responses : Contract!RunOver(p, end)
         \/ UNCHANGED Contract!contract
<1>0. TypeInv /\ TypeOK /\ BatchInv /\ Balance /\ StageInv /\ DoneInv /\ StopInv
  BY DEF SessionInv, SafeInv, EndInv, TypeInv
<1>1. CASE RunProposes(p) \/ RunReceives(p) \/ RunResumes(p)
  <2>1. apc[p] # "over" /\ apc'[p] # "over"
    <3>1. CASE RunReceives(p)
      BY <1>0, <3>1 DEF RunReceives, TypeOK
    <3>2. CASE RunProposes(p) \/ RunResumes(p)
      BY <1>0, <3>2 DEF RunProposes, RunResumes, TypeOK
    <3>3. QED
      BY <1>1, <3>1, <3>2
  <2>2. permits' = permits
    BY <1>1 DEF RunProposes, RunReceives, RunResumes
  <2>3. QED
    BY <1>0, <2>1, <2>2, RunStutters
<1>2. ASSUME NEW c \in Calls, RunExecutes(p, c)
      PROVE  Contract!Execute(p, c) \/ UNCHANGED Contract!contract
  BY <1>0, <1>2, ExecuteIsExecute
<1>3. CASE RunEnds(p)
  BY <1>0, <1>3, EndIsOver
<1>4. QED
  BY <1>1, <1>2, <1>3 DEF Run

LEMMA HandlerKeepsContract ==
  ASSUME SessionInv, NEW p \in Prompts, PromptArrives(p) \/ Handler(p) \/ ClientAnswers(p)
  PROVE  \/ Contract!Prompt(p) \/ Contract!Refuse(p) \/ Contract!Answer(p)
         \/ \E c \in Calls : Contract!Grant(p, c)
         \/ UNCHANGED Contract!contract
<1>0. TypeOK /\ Asked /\ StageInv /\ EventInv /\ LeaveInv
  BY DEF SessionInv, SafeInv, EndInv, TypeInv
<1>1. CASE PromptArrives(p)
  BY <1>0, <1>1, PromptIsPrompt
<1>2. CASE StartRun(p)
  BY <1>0, <1>2, StartIsRefusal
<1>3. CASE ReceiveEvent(p)
  BY <1>0, <1>3, ReceiveStutters
<1>4. CASE StopForwarding(p)
  BY <1>0, <1>4, StopStutters
<1>5. CASE Register(p) \/ RequestFails(p) \/ HandlerSends(p) \/ \E c \in Calls : AskPermission(p, c)
  BY <1>0, <1>5, InnerStutters
<1>6. CASE ClientAnswers(p)
  BY <1>0, <1>6, AnswerIsGrant
<1>7. CASE FinishPrompt(p)
  BY <1>0, <1>7, FinishIsAnswer
<1>8. QED
  BY <1>1, <1>2, <1>3, <1>4, <1>5, <1>6, <1>7 DEF Handler

\* A cancel that enters the channel of a run tells it to stop.
LEMMA CancelIsTell ==
  ASSUME TypeInv, StageInv, DoneInv, CancelSent
  PROVE  (\E p \in Prompts : Contract!Tell(p)) \/ UNCHANGED Contract!contract
<1>1. /\ rch \in Prompts /\ rpc = "sending" /\ TypeOK
      /\ UNCHANGED <<hpc, reply, apc, evtCh, permits, down>>
  BY DEF TypeInv, CancelInHand, CancelSent, handVars, runVars
<1>2. Status' = Status /\ Outcome' = Outcome
  BY <1>1 DEF Status, Outcome
<1>3. CASE deliveredCancel' = deliveredCancel
  BY <1>1, <1>2, <1>3 DEF Contract!contract, ToldToStop
<1>4. CASE deliveredCancel' = [deliveredCancel EXCEPT
                                  ![rch] = Least(deliveredCancel[rch], turn[rch])]
  <2>1. MaxTurns \in Nat /\ Never = MaxTurns + 1
    BY BoundsAssumption DEF MaxTurns, Never
  <2>2. deliveredCancel[rch] \in 0..Never /\ turn[rch] \in 0..MaxTurns
    BY <1>1 DEF TypeOK
  <2>3. Least(deliveredCancel[rch], turn[rch]) # Never
    BY <2>1, <2>2 DEF Least
  <2>4. ToldToStop' = ToldToStop \cup {rch}
    BY <1>1, <1>4, <2>3 DEF ToldToStop, TypeOK
  <2>5. Status[rch] # "none"
    BY <1>1, SentPrompt DEF StageInv
  <2>6. Contract!Tell(rch)
    BY <1>1, <1>2, <2>4, <2>5 DEF Contract!Tell
  <2>7. QED
    BY <1>1, <2>6
<1>5. QED
  BY <1>3, <1>4 DEF CancelSent

LEMMA ReadLoopKeepsContract ==
  ASSUME SessionInv, CancelArrives \/ CancelSent \/ LoadSession \/ ConnectionCloses \/ UNCHANGED vars
  PROVE  (\E p \in Prompts : Contract!Tell(p)) \/ Contract!Lose \/ UNCHANGED Contract!contract
<1>1. CASE CancelSent
  BY <1>1, CancelIsTell DEF SessionInv, SafeInv, EndInv
<1>2. CASE CancelArrives \/ LoadSession \/ UNCHANGED vars
  BY <1>2 DEF CancelArrives, LoadSession, vars, handVars, runVars,
              Contract!contract, Status, Outcome, ToldToStop
<1>3. CASE ConnectionCloses
  BY <1>3 DEF ConnectionCloses, handVars, runVars, Contract!Lose, Status, Outcome, ToldToStop
<1>4. QED
  BY <1>1, <1>2, <1>3

LEMMA NextContract == SessionInv /\ [Next]_vars => [Contract!Next]_(Contract!contract)
<1> SUFFICES ASSUME SessionInv, [Next]_vars PROVE [Contract!Next]_(Contract!contract)
  OBVIOUS
<1>1. ASSUME NEW p \in Prompts, PromptArrives(p) \/ Handler(p) \/ ClientAnswers(p)
      PROVE  [Contract!Next]_(Contract!contract)
  BY <1>1, HandlerKeepsContract DEF Contract!Next
<1>2. ASSUME NEW p \in Prompts, Run(p) PROVE [Contract!Next]_(Contract!contract)
  BY <1>2, RunKeepsContract DEF Contract!Next
<1>3. CASE CancelArrives \/ CancelSent \/ LoadSession \/ ConnectionCloses \/ UNCHANGED vars
  BY <1>3, ReadLoopKeepsContract DEF Contract!Next
<1>4. QED
  BY <1>1, <1>2, <1>3 DEF Next

\* A session (server.go) whose prompts come one after the other implements SessionContract:
\* the steps of handler, read loop and run are steps of the contract or are not seen by the
\* client.
THEOREM SessionImplementsContract ==
  ASSUME ~Concurrent
  PROVE  Spec => ImplementsSession
<1>1. Init => SessionInv
  BY InitSessionInv
<1>2. SessionInv /\ [Next]_vars => SessionInv'
  BY NextSessionInv
<1>3. Init => Contract!Init
  BY InitContract
<1>4. SessionInv /\ [Next]_vars => [Contract!Next]_(Contract!contract)
  BY NextContract
<1>5. QED
  BY <1>1, <1>2, <1>3, <1>4, PTL DEF Spec, ImplementsSession, Contract!Spec

-----------------------------------------------------------------------------
(* A cancel that has been delivered stops the run. *)

\* What a command channel holds: the decisions about calls, and cancels.
Decisions(q) == {i \in 1 .. Len(q) : q[i].type # "cancel"}
CallsIn(q) == {q[i].call : i \in Decisions(q)}
Distinct(q) == \A i, j \in Decisions(q) : i # j => q[i].call # q[j].call
HasCancel(q) == \E i \in 1 .. Len(q) : q[i].type = "cancel"

\* The calls of the proposal that the handler has in its hands: those it has not asked
\* about, and the one it is asking about or has a decision of.
Deciding(p) == hpc[p] = "sending" /\ hcmd[p].type # "cancel"
Hand(p) ==
    (IF hpc[p] \in {"ask", "waiting"} \/ Deciding(p) THEN hcalls[p] ELSE {})
    \cup (IF hpc[p] = "waiting" THEN {hcall[p]} ELSE {})
    \cup (IF Deciding(p) THEN {hcmd[p].call} ELSE {})

\* The calls the run waits for.
Pending(p) ==
    IF apc[p] = "collect" THEN {c \in DOMAIN batch[p] : batch[p][c] = "pending"} ELSE {}

\* The run may still execute calls.
Live(p) == apc[p] \in {"idle", "think", "collect", "act"}

\* Each call the run waits for is at one place on its way: in the proposal that the handler
\* has not received, in the hands of the handler, or decided in the command channel.
Flight(p) ==
    /\ Hand(p) \subseteq Pending(p) /\ CallsIn(cmdCh[p]) \subseteq Pending(p)
    /\ Hand(p) \cap CallsIn(cmdCh[p]) = {}
    /\ Distinct(cmdCh[p])
    /\ hpc[p] = "waiting" => hcall[p] \notin hcalls[p]
    /\ Deciding(p) => hcmd[p].call \notin hcalls[p]
    /\ \A i \in 1 .. Len(evtCh[p]) : evtCh[p][i].type = "proposed" =>
          /\ i = Len(evtCh[p])
          /\ apc[p] = "collect" /\ evtCh[p][i].calls = Pending(p)
          /\ Hand(p) = {} /\ CallsIn(cmdCh[p]) = {}

\* So between two batches there are only cancels in the channel, and a cancel that was there
\* before the run proposed its batch is the first thing it receives.
Stopping(p) ==
    /\ deliveredCancel[p] # Never => HasCancel(cmdCh[p])
    /\ deliveredCancel[p] < turn[p] =>
         apc[p] # "act" /\ (apc[p] = "collect" => Head(cmdCh[p]).type = "cancel")

FlightInv == \A p \in Prompts : Live(p) => Flight(p) /\ Stopping(p)

\* What an appended command adds.
LEMMA CommandAppended ==
  ASSUME NEW q \in Seq(Command), NEW cmd \in Command
  PROVE  /\ CallsIn(Append(q, cmd)) = CallsIn(q) \cup (IF cmd.type = "cancel" THEN {} ELSE {cmd.call})
         /\ Distinct(q) /\ (cmd.type # "cancel" => cmd.call \notin CallsIn(q)) =>
              Distinct(Append(q, cmd))
         /\ HasCancel(q) \/ cmd.type = "cancel" => HasCancel(Append(q, cmd))
         /\ q # <<>> => Head(Append(q, cmd)) = Head(q)
<1> DEFINE r == Append(q, cmd)
           n == Len(q)
<1>1. /\ r \in Seq(Command) /\ n \in Nat /\ Len(r) = n + 1
      /\ \A i \in 1 .. n : r[i] = q[i]
      /\ r[n + 1] = cmd
  BY AppendProperties, LenProperties
<1> HIDE DEF r
<1>2. Decisions(r) = Decisions(q) \cup (IF cmd.type = "cancel" THEN {} ELSE {n + 1})
  BY <1>1 DEF Decisions
<1>3. \A i \in Decisions(q) : i \in 1 .. n /\ r[i] = q[i] /\ q[i].call \in CallsIn(q)
  BY <1>1 DEF Decisions, CallsIn
<1>4. CallsIn(r) = CallsIn(q) \cup (IF cmd.type = "cancel" THEN {} ELSE {cmd.call})
  BY <1>1, <1>2, <1>3 DEF CallsIn
<1>5. Distinct(q) /\ (cmd.type # "cancel" => cmd.call \notin CallsIn(q)) => Distinct(r)
  BY <1>1, <1>2, <1>3 DEF Distinct
<1>6. HasCancel(q) \/ cmd.type = "cancel" => HasCancel(r)
  BY <1>1 DEF HasCancel
<1>7. q # <<>> => Head(r) = Head(q)
  <2>1. q # <<>> => 1 \in 1 .. n /\ Head(q) = q[1]
    BY <1>1, TailOf
  <2>2. r # <<>> /\ Head(r) = r[1]
    BY <1>1, EmptySeq, TailOf
  <2>3. QED
    BY <1>1, <2>1, <2>2
<1>8. QED
  BY <1>4, <1>5, <1>6, <1>7 DEF r

\* What is left when the first command has been received.
LEMMA CommandReceived ==
  ASSUME NEW q \in Seq(Command), q # <<>>
  PROVE  /\ CallsIn(Tail(q)) \subseteq CallsIn(q)
         /\ Distinct(q) => Distinct(Tail(q))
         /\ Head(q).type # "cancel" =>
              /\ Head(q).call \in CallsIn(q)
              /\ Distinct(q) => Head(q).call \notin CallsIn(Tail(q))
              /\ HasCancel(q) => HasCancel(Tail(q))
<1> DEFINE t == Tail(q)
<1>1. /\ Head(q) = q[1] /\ Len(q) \in Nat \ {0} /\ Len(t) = Len(q) - 1
      /\ \A i \in 1 .. Len(t) : t[i] = q[i + 1]
  BY TailOf
<1> HIDE DEF t
<1>2. \A i \in Decisions(t) : i + 1 \in Decisions(q) /\ t[i] = q[i + 1] /\ i \in Nat /\ i # 0
  BY <1>1 DEF Decisions
<1>3. CallsIn(t) \subseteq CallsIn(q)
  BY <1>2 DEF CallsIn
<1>4. Distinct(q) => Distinct(t)
  BY <1>2 DEF Distinct
<1>5. ASSUME Head(q).type # "cancel"
      PROVE  /\ Head(q).call \in CallsIn(q)
             /\ Distinct(q) => Head(q).call \notin CallsIn(t)
             /\ HasCancel(q) => HasCancel(t)
  <2>1. 1 \in Decisions(q) /\ q[1].type # "cancel"
    BY <1>1, <1>5 DEF Decisions
  <2>2. Head(q).call \in CallsIn(q)
    BY <1>1, <2>1 DEF CallsIn
  <2>3. Distinct(q) => Head(q).call \notin CallsIn(t)
    <3>1. SUFFICES ASSUME Distinct(q), NEW i \in Decisions(t) PROVE t[i].call # q[1].call
      BY <1>1 DEF CallsIn
    <3>2. i + 1 \in Decisions(q) /\ t[i] = q[i + 1] /\ i + 1 # 1
      BY <1>2
    <3>3. QED
      BY <2>1, <3>1, <3>2 DEF Distinct
  <2>4. HasCancel(q) => HasCancel(t)
    <3>1. ASSUME NEW i \in 1 .. Len(q), q[i].type = "cancel" PROVE HasCancel(t)
      <4>1. i # 1 /\ i - 1 \in 1 .. Len(t) /\ t[i - 1] = q[i]
        BY <1>1, <2>1, <3>1
      <4>2. QED
        BY <3>1, <4>1 DEF HasCancel
    <3>2. QED
      BY <3>1 DEF HasCancel
  <2>5. QED
    BY <2>2, <2>3, <2>4
<1>6. QED
  BY <1>3, <1>4, <1>5 DEF t

\* A channel with cancels only.
LEMMA OnlyCancels ==
  ASSUME NEW q \in Seq(Command), CallsIn(q) = {}, HasCancel(q)
  PROVE  q # <<>> /\ Head(q).type = "cancel"
<1>1. PICK i \in 1 .. Len(q) : q[i].type = "cancel"
  BY DEF HasCancel
<1>2. Len(q) \in Nat /\ q # <<>>
  BY <1>1, EmptySeq, LenProperties
<1>3. Head(q) = q[1] /\ 1 \in 1 .. Len(q)
  BY <1>2, TailOf
<1>4. Decisions(q) = {}
  BY DEF CallsIn
<1>5. QED
  BY <1>2, <1>3, <1>4 DEF Decisions

FlightFacts(p) == Live(p) => Flight(p) /\ Stopping(p)

\* A turn that comes after the cancel finds it in the channel.
LEMMA StoppingNonempty ==
  ASSUME TypeOK, NEW p \in Prompts, Stopping(p), deliveredCancel[p] < turn[p]
  PROVE  HasCancel(cmdCh[p]) /\ cmdCh[p] # <<>>
<1>1. MaxTurns \in Nat /\ Never = MaxTurns + 1 /\ turn[p] \in 0..MaxTurns
  BY BoundsAssumption DEF MaxTurns, Never, TypeOK
<1>2. deliveredCancel[p] # Never
  BY <1>1
<1>3. HasCancel(cmdCh[p])
  BY <1>2 DEF Stopping
<1>4. QED
  BY <1>3, EmptySeq DEF HasCancel

\* A step of others.
LEMMA FlightKept ==
  ASSUME NEW p \in Prompts, FlightFacts(p),
         UNCHANGED <<hpc[p], hcalls[p], hcall[p], hcmd[p], apc[p], batch[p], turn[p],
                     cmdCh[p], evtCh[p], deliveredCancel[p]>>
  PROVE  FlightFacts(p)'
<1>1. /\ Hand(p)' = Hand(p) /\ Pending(p)' = Pending(p) /\ (Live(p)' <=> Live(p))
      /\ Deciding(p)' <=> Deciding(p)
  BY DEF Hand, Pending, Live, Deciding
<1>2. /\ CallsIn(cmdCh[p])' = CallsIn(cmdCh[p]) /\ Distinct(cmdCh[p])' = Distinct(cmdCh[p])
      /\ HasCancel(cmdCh[p])' = HasCancel(cmdCh[p])
  BY DEF CallsIn, Distinct, HasCancel, Decisions
<1>3. Flight(p) => Flight(p)'
  BY <1>1, <1>2 DEF Flight
<1>4. Stopping(p) => Stopping(p)'
  BY <1>2 DEF Stopping
<1>5. QED
  BY <1>1, <1>3, <1>4 DEF FlightFacts

\* A step of the handler that leaves the channels alone and takes no call into its hands.
LEMMA HandlerFlight ==
  ASSUME NEW p \in Prompts, FlightFacts(p),
         UNCHANGED <<apc[p], batch[p], turn[p], cmdCh[p], evtCh[p], deliveredCancel[p]>>,
         Hand(p)' \subseteq Hand(p),
         (hpc[p] = "waiting" => hcall[p] \notin hcalls[p])',
         (Deciding(p) => hcmd[p].call \notin hcalls[p])'
  PROVE  FlightFacts(p)'
<1>1. Pending(p)' = Pending(p) /\ (Live(p)' <=> Live(p))
  BY DEF Pending, Live
<1>2. /\ CallsIn(cmdCh[p])' = CallsIn(cmdCh[p]) /\ Distinct(cmdCh[p])' = Distinct(cmdCh[p])
      /\ HasCancel(cmdCh[p])' = HasCancel(cmdCh[p])
  BY DEF CallsIn, Distinct, HasCancel, Decisions
<1>3. Flight(p) => Flight(p)'
  BY <1>1, <1>2 DEF Flight
<1>4. Stopping(p) => Stopping(p)'
  BY <1>2 DEF Stopping
<1>5. QED
  BY <1>1, <1>3, <1>4 DEF FlightFacts

LEMMA AskFlight ==
  ASSUME TypeInv, NEW p \in Prompts, FlightFacts(p),
         \/ PromptArrives(p) \/ Register(p) \/ FinishPrompt(p) \/ StopForwarding(p)
         \/ RequestFails(p) \/ ClientAnswers(p) \/ \E c \in Calls : AskPermission(p, c),
         Live(p)
  PROVE  FlightFacts(p)'
<1>0. TypeOK
  BY DEF TypeInv
<1>1. UNCHANGED <<apc, batch, turn, cmdCh, evtCh, deliveredCancel>>
  BY DEF PromptArrives, Register, FinishPrompt, StopForwarding, RequestFails, ClientAnswers,
         AskPermission, runVars
<1>2. CASE PromptArrives(p) \/ Register(p) \/ FinishPrompt(p)
  <2>1. hpc'[p] \in {"loaded", "forward", "done"}
    BY <1>0, <1>2 DEF PromptArrives, Register, FinishPrompt, TypeOK
  <2>2. Hand(p)' = {} /\ ~ Deciding(p)'
    BY <2>1 DEF Hand, Deciding
  <2>3. QED
    BY <1>1, <2>1, <2>2, HandlerFlight
<1>3. CASE StopForwarding(p)
  <2>1. hpc'[p] = "sending" /\ hcmd'[p] = CancelCmd
    BY <1>0, <1>3 DEF StopForwarding, TypeOK
  <2>2. Hand(p)' = {} /\ ~ Deciding(p)'
    BY <2>1 DEF Hand, Deciding, CancelCmd, Cmd
  <2>3. QED
    BY <1>1, <2>1, <2>2, HandlerFlight
<1>4. CASE \E c \in Calls : AskPermission(p, c)
  <2>1. PICK c \in Calls : AskPermission(p, c)
    BY <1>4
  <2>2. /\ hpc[p] = "ask" /\ hpc'[p] = "waiting" /\ c \in hcalls[p]
        /\ hcall'[p] = c /\ hcalls'[p] = hcalls[p] \ {c}
    BY <1>0, <2>1 DEF AskPermission, TypeOK
  <2>3. Hand(p) = hcalls[p] /\ Hand(p)' = hcalls[p] /\ ~ Deciding(p)'
    BY <2>2 DEF Hand, Deciding
  <2>4. QED
    BY <1>1, <2>2, <2>3, HandlerFlight
<1>5. CASE RequestFails(p) \/ ClientAnswers(p)
  <2>1. PICK t \in {"approve", "deny"} : hpc[p] = "waiting" /\ Prepare(p, t) /\ hcalls' = hcalls
    BY <1>5 DEF RequestFails, ClientAnswers
  <2>2. /\ hpc'[p] = "sending" /\ hcmd'[p] = Cmd(t, hcall[p]) /\ hcalls'[p] = hcalls[p]
    BY <1>0, <2>1 DEF Prepare, TypeOK
  <2>3. hcmd'[p].type # "cancel" /\ hcmd'[p].call = hcall[p]
    BY <2>2 DEF Cmd
  <2>4. /\ Hand(p) = hcalls[p] \cup {hcall[p]} /\ Hand(p)' = hcalls[p] \cup {hcall[p]}
    BY <2>1, <2>2, <2>3 DEF Hand, Deciding
  <2>5. hcall[p] \notin hcalls[p]
    BY <2>1 DEF FlightFacts, Flight
  <2>6. QED
    BY <1>1, <2>2, <2>3, <2>4, <2>5, HandlerFlight
<1>6. QED
  BY <1>2, <1>3, <1>4, <1>5

\* A run starts with empty hands.
LEMMA StartFlight ==
  ASSUME TypeInv, StageInv, NEW p \in Prompts, FlightFacts(p), StartRun(p)
  PROVE  FlightFacts(p)'
<1>1. /\ hpc[p] = "loaded" /\ hpc'[p] \in {"done", "started"}
      /\ apc[p] = "idle" /\ apc'[p] \in {"idle", "think"}
      /\ UNCHANGED <<batch, turn, cmdCh, evtCh, deliveredCancel>>
  BY DEF StartRun, StageInv, TypeInv, TypeOK
<1>2. /\ Hand(p)' = {} /\ ~ Deciding(p)' /\ Live(p)
      /\ Pending(p) = {} /\ Pending(p)' = {}
  BY <1>1 DEF Hand, Deciding, Live, Pending
<1>3. /\ CallsIn(cmdCh[p])' = CallsIn(cmdCh[p]) /\ Distinct(cmdCh[p])' = Distinct(cmdCh[p])
      /\ HasCancel(cmdCh[p])' = HasCancel(cmdCh[p])
  BY <1>1 DEF CallsIn, Distinct, HasCancel, Decisions
<1>4. Flight(p) /\ Stopping(p)
  BY <1>2 DEF FlightFacts
<1>5. Flight(p)'
  BY <1>1, <1>2, <1>3, <1>4 DEF Flight
<1>6. Stopping(p)'
  BY <1>1, <1>3, <1>4 DEF Stopping
<1>7. QED
  BY <1>5, <1>6 DEF FlightFacts

\* The handler takes the calls of a proposal, which is the last event.
LEMMA ReceiveFlight ==
  ASSUME TypeInv, NEW p \in Prompts, FlightFacts(p), ReceiveEvent(p), Live(p)
  PROVE  FlightFacts(p)'
<1>0. TypeOK /\ Flight(p) /\ Stopping(p)
  BY DEF TypeInv, FlightFacts
<1>1. /\ hpc[p] = "forward" /\ evtCh[p] \in Seq(Event) /\ evtCh[p] # <<>>
      /\ evtCh'[p] = Tail(evtCh[p])
      /\ UNCHANGED <<apc, batch, turn, cmdCh, deliveredCancel>>
  BY <1>0 DEF ReceiveEvent, runVars, TypeOK
<1>2. PICK e : e = Head(evtCh[p])
  OBVIOUS
<1>3. /\ Len(evtCh[p]) \in Nat \ {0} /\ e = evtCh[p][1]
      /\ Len(evtCh'[p]) = Len(evtCh[p]) - 1
      /\ \A i \in 1 .. Len(evtCh'[p]) : evtCh'[p][i] = evtCh[p][i + 1] /\ i + 1 \in 1 .. Len(evtCh[p])
  BY <1>1, <1>2, TailOf
<1>4. /\ Hand(p) = {} /\ Pending(p)' = Pending(p) /\ (Live(p)' <=> Live(p))
  BY <1>1 DEF Hand, Deciding, Pending, Live
<1>5. /\ CallsIn(cmdCh[p])' = CallsIn(cmdCh[p]) /\ Distinct(cmdCh[p])' = Distinct(cmdCh[p])
      /\ HasCancel(cmdCh[p])' = HasCancel(cmdCh[p])
  BY <1>1 DEF CallsIn, Distinct, HasCancel, Decisions
<1>6. Stopping(p)'
  BY <1>0, <1>1, <1>5 DEF Stopping
<1>7. CASE e.type = "proposed"
  <2>1. 1 = Len(evtCh[p]) /\ e.calls = Pending(p) /\ CallsIn(cmdCh[p]) = {}
    <3>1. 1 \in 1 .. Len(evtCh[p]) /\ evtCh[p][1].type = "proposed"
      BY <1>3, <1>7
    <3>2. 1 = Len(evtCh[p]) /\ evtCh[p][1].calls = Pending(p) /\ CallsIn(cmdCh[p]) = {}
      BY <1>0, <3>1 DEF Flight
    <3>3. QED
      BY <1>3, <3>2
  <2>2. Len(evtCh'[p]) = 0
    BY <1>3, <2>1
  <2>3. hpc'[p] = "ask" /\ hcalls'[p] = e.calls
    BY <1>0, <1>2, <1>7 DEF ReceiveEvent, TypeOK
  <2>4. Hand(p)' = Pending(p)' /\ ~ Deciding(p)'
    BY <1>4, <2>1, <2>3 DEF Hand, Deciding
  <2>5. Flight(p)'
    BY <1>0, <1>4, <1>5, <2>1, <2>2, <2>3, <2>4 DEF Flight
  <2>6. QED
    BY <1>6, <2>5 DEF FlightFacts
<1>8. CASE e.type # "proposed"
  <2>1. hpc'[p] \in {"forward", "defer"}
    BY <1>0, <1>2, <1>8 DEF ReceiveEvent, TypeOK
  <2>2. Hand(p)' = {} /\ ~ Deciding(p)'
    BY <2>1 DEF Hand, Deciding
  <2>3. \A i \in 1 .. Len(evtCh'[p]) : evtCh'[p][i].type = "proposed" =>
          /\ i = Len(evtCh'[p])
          /\ apc[p] = "collect" /\ evtCh'[p][i].calls = Pending(p) /\ CallsIn(cmdCh[p]) = {}
    <3>1. SUFFICES ASSUME NEW i \in 1 .. Len(evtCh'[p]), evtCh'[p][i].type = "proposed"
                   PROVE  /\ i = Len(evtCh'[p])
                          /\ apc[p] = "collect" /\ evtCh'[p][i].calls = Pending(p)
                          /\ CallsIn(cmdCh[p]) = {}
      OBVIOUS
    <3>2. evtCh'[p][i] = evtCh[p][i + 1] /\ i + 1 \in 1 .. Len(evtCh[p])
      BY <1>3
    <3>3. i + 1 = Len(evtCh[p]) /\ apc[p] = "collect" /\ evtCh[p][i + 1].calls = Pending(p)
          /\ CallsIn(cmdCh[p]) = {}
      BY <1>0, <3>1, <3>2 DEF Flight
    <3>4. QED
      BY <1>3, <3>2, <3>3
  <2>4. Flight(p)'
    BY <1>0, <1>1, <1>4, <1>5, <2>1, <2>2, <2>3 DEF Flight
  <2>5. QED
    BY <1>6, <2>4 DEF FlightFacts
<1>9. QED
  BY <1>7, <1>8

\* The handler sends what it has in its hands, or a cancel, to its own run or to none.
LEMMA SendFlight ==
  ASSUME TypeInv, OwnChannel, NEW p \in Prompts, FlightFacts(p), HandlerSends(p), Live(p)
  PROVE  FlightFacts(p)'
<1>0. TypeOK /\ Flight(p) /\ Stopping(p) /\ cmdCh[p] \in Seq(Command) /\ hcmd[p] \in Command
  BY DEF TypeInv, FlightFacts, TypeOK
<1>1. /\ hpc[p] = "sending" /\ hpc'[p] \in {"defer", "forward", "ask"}
      /\ UNCHANGED <<apc, batch, turn, hcalls, evtCh, deliveredCancel>>
      /\ hcmd[p].type = "cancel" => hpc'[p] = "defer"
  BY <1>0 DEF HandlerSends, AfterSend, runVars, TypeOK
<1>2. cmdCh'[p] = cmdCh[p] \/ cmdCh'[p] = Append(cmdCh[p], hcmd[p])
  BY <1>0 DEF HandlerSends, Deliver, OwnChannel, TypeOK
<1>3. /\ Pending(p)' = Pending(p) /\ (Live(p)' <=> Live(p)) /\ ~ Deciding(p)'
      /\ Hand(p)' \subseteq IF hcmd[p].type = "cancel" THEN {} ELSE hcalls[p]
  BY <1>1 DEF Hand, Deciding, Pending, Live
<1>4. hcmd[p].type # "cancel" => /\ Hand(p) = hcalls[p] \cup {hcmd[p].call}
                                 /\ hcmd[p].call \notin hcalls[p]
                                 /\ hcmd[p].call \notin CallsIn(cmdCh[p])
                                 /\ hcmd[p].call \in Pending(p)
  BY <1>0, <1>1 DEF Hand, Deciding, Flight
<1>5. Hand(p)' \subseteq Hand(p)
  BY <1>3, <1>4
<1>6. CASE cmdCh'[p] = cmdCh[p]
  BY <1>1, <1>3, <1>5, <1>6, HandlerFlight
<1>7. CASE cmdCh'[p] = Append(cmdCh[p], hcmd[p])
  <2>1. PICK r : r = cmdCh'[p]
    OBVIOUS
  <2>2. /\ CallsIn(r) = CallsIn(cmdCh[p])
                          \cup (IF hcmd[p].type = "cancel" THEN {} ELSE {hcmd[p].call})
        /\ Distinct(r)
        /\ HasCancel(cmdCh[p]) => HasCancel(r)
        /\ cmdCh[p] # <<>> => Head(r) = Head(cmdCh[p])
    BY <1>0, <1>4, <1>7, <2>1, CommandAppended DEF Flight
  <2>3. /\ CallsIn(cmdCh[p])' = CallsIn(r) /\ Distinct(cmdCh[p])' = Distinct(r)
        /\ HasCancel(cmdCh[p])' = HasCancel(r)
    BY <2>1 DEF CallsIn, Distinct, HasCancel, Decisions
  <2>4. Hand(p)' \cap CallsIn(r) = {} /\ CallsIn(r) \subseteq Pending(p)
    BY <1>0, <1>3, <1>4, <2>2 DEF Flight
  <2>5. \A i \in 1 .. Len(evtCh[p]) : evtCh[p][i].type = "proposed" =>
          /\ i = Len(evtCh[p]) /\ apc[p] = "collect" /\ evtCh[p][i].calls = Pending(p)
          /\ Hand(p) = {} /\ CallsIn(r) = {}
    BY <1>0, <1>4, <2>2 DEF Flight
  <2>6. Flight(p)'
    BY <1>0, <1>1, <1>3, <1>5, <2>2, <2>3, <2>4, <2>5 DEF Flight
  <2>7. Stopping(p)'
    <3>1. apc[p] = "collect" /\ deliveredCancel[p] < turn[p] => cmdCh[p] # <<>>
      BY <1>0, StoppingNonempty
    <3>2. QED
      BY <1>0, <1>1, <2>1, <2>2, <2>3, <3>1 DEF Stopping
  <2>8. QED
    BY <2>6, <2>7 DEF FlightFacts
<1>8. QED
  BY <1>2, <1>6, <1>7

\* The run asks for a batch when nothing but cancels is on its way.
LEMMA ProposeFlight ==
  ASSUME TypeInv, NEW p \in Prompts, FlightFacts(p), RunProposes(p)
  PROVE  FlightFacts(p)'
<1>0. /\ TypeOK /\ cmdCh[p] \in Seq(Command) /\ apc[p] = "think"
      /\ turn[p] \in 0..MaxTurns /\ turn[p] < MaxTurns /\ MaxTurns \in Nat /\ Never = MaxTurns + 1
  BY BoundsAssumption DEF TypeInv, TypeOK, RunProposes, MaxTurns, Never
<1>1. Flight(p) /\ Stopping(p) /\ Pending(p) = {}
  BY <1>0 DEF FlightFacts, Live, Pending
<1>2. PICK S \in Batches[turn[p] + 1] :
        batch' = [batch EXCEPT ![p] = [c \in S |-> "pending"]] /\ Emit(p, Ev("proposed", S))
  BY DEF RunProposes
<1>3. /\ apc'[p] = "collect" /\ turn'[p] = turn[p] + 1 /\ batch'[p] = [c \in S |-> "pending"]
      /\ UNCHANGED <<hpc, hcalls, hcall, hcmd, cmdCh, deliveredCancel>>
  BY <1>0, <1>2 DEF RunProposes, handVars, TypeOK
<1>4. Pending(p)' = S
  BY <1>3 DEF Pending
<1>5. Ev("proposed", S) \in Event /\ Ev("proposed", S).calls = S
  BY <1>0, BatchesType, EvType DEF Ev
<1>6. /\ Len(evtCh'[p]) = Len(evtCh[p]) + 1 /\ Len(evtCh[p]) \in Nat
      /\ \A i \in 1 .. Len(evtCh[p]) : evtCh'[p][i] = evtCh[p][i]
      /\ evtCh'[p][Len(evtCh'[p])] = Ev("proposed", S)
  BY <1>0, <1>2, <1>5, EmitPlaces
<1>7. /\ Hand(p)' = Hand(p) /\ Hand(p) = {} /\ CallsIn(cmdCh[p]) = {}
      /\ Deciding(p)' <=> Deciding(p)
  BY <1>1, <1>3 DEF Flight, Hand, Deciding
<1>8. /\ CallsIn(cmdCh[p])' = CallsIn(cmdCh[p]) /\ Distinct(cmdCh[p])' = Distinct(cmdCh[p])
      /\ HasCancel(cmdCh[p])' = HasCancel(cmdCh[p])
  BY <1>3 DEF CallsIn, Distinct, HasCancel, Decisions
<1>9. \A i \in 1 .. Len(evtCh'[p]) : evtCh'[p][i].type = "proposed" =>
          i = Len(evtCh'[p]) /\ evtCh'[p][i].calls = S
  <2>1. \A i \in 1 .. Len(evtCh[p]) : evtCh[p][i].type # "proposed"
    BY <1>0, <1>1 DEF Flight
  <2>2. \A i \in 1 .. Len(evtCh'[p]) : i = Len(evtCh'[p]) \/ i \in 1 .. Len(evtCh[p])
    BY <1>6
  <2>3. QED
    BY <1>5, <1>6, <2>1, <2>2
<1>10. Flight(p)'
  BY <1>1, <1>3, <1>4, <1>7, <1>8, <1>9 DEF Flight
<1>11. Stopping(p)'
  <2>1. deliveredCancel[p] < turn[p] + 1 => deliveredCancel[p] # Never
    BY <1>0
  <2>2. deliveredCancel[p] # Never => Head(cmdCh[p]).type = "cancel"
    BY <1>0, <1>1, <1>7, OnlyCancels DEF Stopping
  <2>3. QED
    BY <1>1, <1>3, <1>8, <2>1, <2>2 DEF Stopping
<1>12. QED
  BY <1>10, <1>11 DEF FlightFacts

\* A decision settles a call the run waits for; a cancel ends the run.
LEMMA DecideFlight ==
  ASSUME TypeInv, NEW p \in Prompts, FlightFacts(p), RunReceives(p)
  PROVE  FlightFacts(p)'
<1>0. /\ TypeOK /\ cmdCh[p] \in Seq(Command) /\ cmdCh[p] # <<>> /\ apc[p] = "collect"
      /\ cmdCh'[p] = Tail(cmdCh[p])
      /\ UNCHANGED <<hpc, hcalls, hcall, hcmd, evtCh, turn, deliveredCancel>>
  BY DEF TypeInv, TypeOK, RunReceives, handVars
<1>1. Flight(p) /\ Stopping(p)
  BY <1>0 DEF FlightFacts, Live
<1>2. PICK cmd, q : cmd = Head(cmdCh[p]) /\ q = cmdCh'[p]
  OBVIOUS
<1>3. CASE cmd.type = "cancel"
  <2>1. apc'[p] = "cancelled"
    BY <1>0, <1>2, <1>3 DEF RunReceives, TypeOK
  <2>2. QED
    BY <2>1 DEF FlightFacts, Live
<1>4. CASE cmd.type # "cancel"
  <2>1. /\ CallsIn(q) \subseteq CallsIn(cmdCh[p]) \ {cmd.call} /\ Distinct(q)
        /\ cmd.call \in CallsIn(cmdCh[p])
        /\ HasCancel(cmdCh[p]) => HasCancel(q)
    BY <1>0, <1>1, <1>2, <1>4, CommandReceived DEF Flight
  <2>2. /\ CallsIn(cmdCh[p])' = CallsIn(q) /\ Distinct(cmdCh[p])' = Distinct(q)
        /\ HasCancel(cmdCh[p])' = HasCancel(q)
    BY <1>2 DEF CallsIn, Distinct, HasCancel, Decisions
  <2>3. cmd.call \in Pending(p) /\ cmd.call \notin Hand(p)
    BY <1>1, <2>1 DEF Flight
  <2>4. PICK b : b = Decide(batch[p], cmd)
    OBVIOUS
  <2>5. /\ batch'[p] = b
        /\ apc'[p] = IF Decided(b) THEN "act" ELSE "collect"
    BY <1>0, <1>2, <1>4, <2>4 DEF RunReceives, TypeOK
  <2>6. {c \in DOMAIN b : b[c] = "pending"} = Pending(p) \ {cmd.call}
    BY <1>0, <2>3, <2>4 DEF Decide, Pending
  <2>7. Pending(p)' = Pending(p) \ {cmd.call}
    <3>1. CASE Decided(b)
      BY <2>5, <2>6, <3>1 DEF Pending, Decided
    <3>2. CASE ~ Decided(b)
      BY <2>5, <2>6, <3>2 DEF Pending
    <3>3. QED
      BY <3>1, <3>2
  <2>8. Hand(p)' = Hand(p) /\ (Deciding(p)' <=> Deciding(p))
    BY <1>0 DEF Hand, Deciding
  <2>9. \A i \in 1 .. Len(evtCh[p]) : evtCh[p][i].type # "proposed"
    BY <1>1, <2>1 DEF Flight
  <2>10. Flight(p)'
    BY <1>0, <1>1, <2>1, <2>2, <2>3, <2>7, <2>8, <2>9 DEF Flight
  <2>11. Stopping(p)'
    BY <1>0, <1>1, <1>2, <1>4, <2>1, <2>2 DEF Stopping
  <2>12. QED
    BY <2>10, <2>11 DEF FlightFacts
<1>5. QED
  BY <1>3, <1>4

\* The run goes on without asking: nothing is on its way.
LEMMA ActFlight ==
  ASSUME TypeInv, NEW p \in Prompts, FlightFacts(p),
         RunResumes(p) \/ RunEnds(p) \/ \E c \in Calls : RunExecutes(p, c)
  PROVE  FlightFacts(p)'
<1>0. TypeOK
  BY DEF TypeInv
<1>1. UNCHANGED <<hpc, hcalls, hcall, hcmd, cmdCh, turn, deliveredCancel>>
  BY DEF RunResumes, RunEnds, RunExecutes, handVars
<1>2. CASE apc'[p] \notin {"idle", "think", "collect", "act"}
  BY <1>2 DEF FlightFacts, Live
<1>3. ASSUME apc[p] = "act", apc'[p] \in {"act", "think"},
             \A i \in 1 .. Len(evtCh'[p]) : evtCh'[p][i].type = "proposed" =>
                \E j \in 1 .. Len(evtCh[p]) : evtCh[p][j].type = "proposed"
      PROVE  FlightFacts(p)'
  <2>1. /\ Flight(p) /\ Stopping(p) /\ Pending(p) = {} /\ Pending(p)' = {}
        /\ Hand(p)' = Hand(p) /\ (Deciding(p)' <=> Deciding(p))
    BY <1>1, <1>3 DEF FlightFacts, Live, Pending, Hand, Deciding
  <2>2. /\ CallsIn(cmdCh[p])' = CallsIn(cmdCh[p]) /\ Distinct(cmdCh[p])' = Distinct(cmdCh[p])
        /\ HasCancel(cmdCh[p])' = HasCancel(cmdCh[p])
    BY <1>1 DEF CallsIn, Distinct, HasCancel, Decisions
  <2>3. \A j \in 1 .. Len(evtCh[p]) : evtCh[p][j].type # "proposed"
    BY <1>3, <2>1 DEF Flight
  <2>4. Flight(p)'
    BY <1>1, <1>3, <2>1, <2>2, <2>3 DEF Flight
  <2>5. Stopping(p)'
    BY <1>1, <1>3, <2>1, <2>2 DEF Stopping
  <2>6. QED
    BY <2>4, <2>5 DEF FlightFacts
<1>4. CASE RunResumes(p)
  <2>1. apc[p] = "act" /\ apc'[p] \in {"completed", "think"} /\ evtCh' = evtCh
    BY <1>0, <1>4 DEF RunResumes, TypeOK
  <2>2. QED
    BY <1>2, <1>3, <2>1
<1>5. CASE RunEnds(p)
  <2>1. apc'[p] = "over"
    BY <1>0, <1>5 DEF RunEnds, TypeOK
  <2>2. QED
    BY <1>2, <2>1
<1>6. ASSUME NEW c \in Calls, RunExecutes(p, c) PROVE FlightFacts(p)'
  <2>1. apc[p] = "act" /\ apc'[p] \in {"act", "failed"}
        /\ (evtCh' = evtCh \/ Emit(p, Ev("ran", {c})))
    BY <1>0, <1>6 DEF RunExecutes, TypeOK
  <2>2. CASE evtCh' = evtCh
    BY <1>2, <1>3, <2>1, <2>2
  <2>3. CASE Emit(p, Ev("ran", {c}))
    <3>1. Ev("ran", {c}) \in Event /\ Ev("ran", {c}).type # "proposed"
      BY EvType DEF Ev
    <3>2. /\ Len(evtCh'[p]) = Len(evtCh[p]) + 1 /\ Len(evtCh[p]) \in Nat
          /\ \A i \in 1 .. Len(evtCh[p]) : evtCh'[p][i] = evtCh[p][i]
          /\ evtCh'[p][Len(evtCh'[p])] = Ev("ran", {c})
      BY <1>0, <2>3, <3>1, EmitPlaces
    <3>3. \A i \in 1 .. Len(evtCh'[p]) : i = Len(evtCh'[p]) \/ i \in 1 .. Len(evtCh[p])
      BY <3>2
    <3>4. \A i \in 1 .. Len(evtCh'[p]) : evtCh'[p][i].type = "proposed" =>
                \E j \in 1 .. Len(evtCh[p]) : evtCh[p][j].type = "proposed"
      BY <3>1, <3>2, <3>3
    <3>5. QED
      BY <1>2, <1>3, <2>1, <3>4
  <2>4. QED
    BY <2>1, <2>2, <2>3
<1>7. QED
  BY <1>4, <1>5, <1>6

\* The client's cancel enters the channel and is noted with the turn.
LEMMA CancelFlight ==
  ASSUME TypeInv, NEW p \in Prompts, FlightFacts(p), CancelSent, rch = p
  PROVE  FlightFacts(p)'
<1>0. /\ TypeOK /\ cmdCh[p] \in Seq(Command) /\ CancelCmd \in Command /\ CancelCmd.type = "cancel"
      /\ UNCHANGED <<hpc, hcalls, hcall, hcmd, evtCh, apc, batch, turn>>
  BY CmdType DEF TypeInv, TypeOK, CancelSent, CancelCmd, Cmd, handVars, runVars
<1>1. \/ UNCHANGED <<cmdCh, deliveredCancel>>
      \/ /\ cmdCh'[p] = Append(cmdCh[p], CancelCmd)
         /\ deliveredCancel'[p] = Least(deliveredCancel[p], turn[p])
  BY <1>0 DEF CancelSent, Deliver, TypeOK
<1>2. CASE UNCHANGED <<cmdCh, deliveredCancel>>
  BY <1>0, <1>2, FlightKept
<1>3. CASE /\ cmdCh'[p] = Append(cmdCh[p], CancelCmd)
           /\ deliveredCancel'[p] = Least(deliveredCancel[p], turn[p])
  <2>1. PICK r : r = cmdCh'[p]
    OBVIOUS
  <2>2. /\ CallsIn(r) = CallsIn(cmdCh[p]) /\ (Distinct(cmdCh[p]) => Distinct(r))
        /\ HasCancel(r)
        /\ cmdCh[p] # <<>> => Head(r) = Head(cmdCh[p])
    <3>1. PICK q, cmd : q = cmdCh[p] /\ cmd = CancelCmd
      OBVIOUS
    <3>2. /\ q \in Seq(Command) /\ cmd \in Command /\ cmd.type = "cancel"
          /\ r = Append(q, cmd)
      BY <1>0, <1>3, <2>1, <3>1
    <3>3. /\ CallsIn(r) = CallsIn(q) \cup (IF cmd.type = "cancel" THEN {} ELSE {cmd.call})
          /\ Distinct(q) /\ (cmd.type # "cancel" => cmd.call \notin CallsIn(q)) => Distinct(r)
          /\ HasCancel(q) \/ cmd.type = "cancel" => HasCancel(r)
          /\ q # <<>> => Head(r) = Head(q)
      BY <3>2, CommandAppended
    <3>4. QED
      BY <3>1, <3>2, <3>3
  <2>3. /\ CallsIn(cmdCh[p])' = CallsIn(r) /\ Distinct(cmdCh[p])' = Distinct(r)
        /\ HasCancel(cmdCh[p])' = HasCancel(r)
    BY <2>1 DEF CallsIn, Distinct, HasCancel, Decisions
  <2>4. /\ Hand(p)' = Hand(p) /\ Pending(p)' = Pending(p) /\ (Live(p)' <=> Live(p))
        /\ Deciding(p)' <=> Deciding(p)
    BY <1>0 DEF Hand, Pending, Live, Deciding
  <2>5. Flight(p) => Flight(p)'
    BY <1>0, <2>2, <2>3, <2>4 DEF Flight
  <2>6. Stopping(p) => Stopping(p)'
    <3>1. turn[p] \in Int /\ deliveredCancel[p] \in Int
      BY <1>0, BoundsAssumption DEF TypeOK, Never, MaxTurns
    <3>2. deliveredCancel'[p] < turn[p] => deliveredCancel[p] < turn[p]
      BY <1>3, <3>1 DEF Least
    <3>3. Stopping(p) /\ deliveredCancel[p] < turn[p] => cmdCh[p] # <<>>
      BY <1>0, StoppingNonempty
    <3>4. QED
      BY <1>0, <2>1, <2>2, <2>3, <3>2, <3>3 DEF Stopping
  <2>7. QED
    BY <2>4, <2>5, <2>6 DEF FlightFacts
<1>4. QED
  BY <1>1, <1>2, <1>3

\* The handler and the run of one prompt touch nothing of another prompt.
LEMMA OtherFlight ==
  ASSUME TypeInv, OwnChannel, NEW p \in Prompts, NEW q \in Prompts, p # q, FlightFacts(q),
         PromptArrives(p) \/ Handler(p) \/ ClientAnswers(p) \/ Run(p)
  PROVE  FlightFacts(q)'
<1>0. TypeOK /\ None \notin Prompts
  BY NoneAssumption DEF TypeInv
<1>1. CASE PromptArrives(p) \/ StartRun(p) \/ Register(p) \/ FinishPrompt(p)
  <2>1. UNCHANGED <<hpc[q], hcalls[q], hcall[q], hcmd[q], apc[q], batch[q], turn[q],
                    cmdCh[q], evtCh[q], deliveredCancel[q]>>
    BY <1>0, <1>1 DEF PromptArrives, StartRun, Register, FinishPrompt, runVars, TypeOK
  <2>2. QED
    BY <2>1, FlightKept
<1>2. CASE ReceiveEvent(p) \/ StopForwarding(p) \/ \E c \in Calls : AskPermission(p, c)
  <2>1. UNCHANGED <<hpc[q], hcalls[q], hcall[q], hcmd[q], apc[q], batch[q], turn[q],
                    cmdCh[q], evtCh[q], deliveredCancel[q]>>
    BY <1>0, <1>2 DEF ReceiveEvent, StopForwarding, AskPermission, runVars, TypeOK
  <2>2. QED
    BY <2>1, FlightKept
<1>3. CASE RequestFails(p) \/ ClientAnswers(p)
  <2>1. UNCHANGED <<hpc[q], hcalls[q], hcall[q], hcmd[q], apc[q], batch[q], turn[q],
                    cmdCh[q], evtCh[q], deliveredCancel[q]>>
    BY <1>0, <1>3 DEF RequestFails, ClientAnswers, Prepare, runVars, TypeOK
  <2>2. QED
    BY <2>1, FlightKept
<1>4. CASE HandlerSends(p)
  <2>1. hch[p] \in {p, None}
    BY <1>4 DEF HandlerSends, OwnChannel
  <2>2. cmdCh'[q] = cmdCh[q]
    BY <1>0, <1>4, <2>1 DEF HandlerSends, Deliver, TypeOK
  <2>3. UNCHANGED <<hpc[q], hcalls[q], hcall[q], hcmd[q], apc[q], batch[q], turn[q],
                    evtCh[q], deliveredCancel[q]>>
    BY <1>0, <1>4 DEF HandlerSends, runVars, TypeOK
  <2>4. QED
    BY <2>2, <2>3, FlightKept
<1>5. CASE Run(p)
  <2>1. UNCHANGED <<hpc, hcalls, hcall, hcmd, deliveredCancel>>
    BY <1>5, RunKeepsHandlers DEF handVars
  <2>2. UNCHANGED <<apc[q], batch[q], turn[q], cmdCh[q], evtCh[q]>>
    <3>1. CASE \E c \in Calls : RunExecutes(p, c)
      BY <1>0, <3>1 DEF RunExecutes, Emit, TypeOK
    <3>2. CASE RunReceives(p)
      BY <1>0, <3>2 DEF RunReceives, TypeOK
    <3>3. CASE RunProposes(p) \/ RunResumes(p) \/ RunEnds(p)
      BY <1>0, <3>3 DEF RunProposes, RunResumes, RunEnds, Emit, TypeOK
    <3>4. QED
      BY <1>5, <3>1, <3>2, <3>3 DEF Run
  <2>3. QED
    BY <2>1, <2>2, FlightKept
<1>6. QED
  BY <1>1, <1>2, <1>3, <1>4, <1>5 DEF Handler

\* A dead run stays dead, whatever its handler does.
LEMMA DeadFlight ==
  ASSUME NEW p \in Prompts, ~ Live(p), apc'[p] = apc[p]
  PROVE  FlightFacts(p)'
BY DEF FlightFacts, Live

LEMMA InitFlight == Init => FlightInv
<1> SUFFICES ASSUME Init, NEW p \in Prompts PROVE Flight(p) /\ Stopping(p)
  BY DEF FlightInv
<1>1. /\ hpc[p] = "idle" /\ apc[p] = "idle" /\ cmdCh[p] = <<>> /\ evtCh[p] = <<>>
      /\ turn[p] = 0 /\ deliveredCancel[p] = Never
  BY DEF Init
<1>2. Len(<<>>) = 0
  BY EmptySeq
<1>3. Decisions(cmdCh[p]) = {}
  BY <1>1, <1>2 DEF Decisions
<1>4. CallsIn(cmdCh[p]) = {} /\ Distinct(cmdCh[p])
  BY <1>3 DEF CallsIn, Distinct
<1>5. Hand(p) = {} /\ ~ Deciding(p)
  BY <1>1 DEF Hand, Deciding
<1>6. Flight(p)
  BY <1>1, <1>2, <1>4, <1>5 DEF Flight
<1>7. ~ (Never < 0)
  BY BoundsAssumption DEF Never, MaxTurns
<1>8. Stopping(p)
  BY <1>1, <1>7 DEF Stopping
<1>9. QED
  BY <1>6, <1>8

LEMMA NextFlight ==
  TypeInv /\ StageInv /\ OwnChannel /\ FlightInv /\ [Next]_vars => FlightInv'
<1> SUFFICES ASSUME TypeInv, StageInv, OwnChannel, FlightInv, [Next]_vars, NEW q \in Prompts
             PROVE  FlightFacts(q)'
  BY DEF FlightInv, FlightFacts
<1>0. FlightFacts(q)
  BY DEF FlightInv, FlightFacts
<1>1. ASSUME NEW p \in Prompts, PromptArrives(p) \/ Handler(p) \/ ClientAnswers(p) \/ Run(p),
             p # q
      PROVE  FlightFacts(q)'
  BY <1>0, <1>1, OtherFlight
<1>2. CASE \/ PromptArrives(q) \/ Register(q) \/ FinishPrompt(q) \/ StopForwarding(q)
           \/ RequestFails(q) \/ ClientAnswers(q) \/ \E c \in Calls : AskPermission(q, c)
           \/ ReceiveEvent(q) \/ HandlerSends(q)
  <2>1. apc' = apc
    BY <1>2 DEF PromptArrives, Register, FinishPrompt, StopForwarding, RequestFails,
                ClientAnswers, AskPermission, ReceiveEvent, HandlerSends, runVars
  <2>2. QED
    BY <1>0, <1>2, <2>1, DeadFlight, AskFlight, ReceiveFlight, SendFlight
<1>3. CASE StartRun(q)
  BY <1>0, <1>3, StartFlight
<1>4. CASE Run(q)
  BY <1>0, <1>4, ProposeFlight, DecideFlight, ActFlight DEF Run
<1>5. CASE CancelSent
  <2>1. CASE rch = q
    BY <1>0, <1>5, <2>1, CancelFlight
  <2>2. CASE rch # q
    <3>1. rch \in Prompts
      BY <1>5 DEF CancelSent, TypeInv, CancelInHand
    <3>2. UNCHANGED <<hpc, hcalls, hcall, hcmd, apc, batch, turn, evtCh>>
      BY <1>5 DEF CancelSent, handVars, runVars
    <3>3. UNCHANGED <<cmdCh[q], deliveredCancel[q]>>
      BY <1>5, <2>2, <3>1 DEF CancelSent, Deliver, TypeInv, TypeOK
    <3>4. QED
      BY <1>0, <3>2, <3>3, FlightKept
  <2>3. QED
    BY <2>1, <2>2
<1>6. CASE CancelArrives \/ LoadSession \/ ConnectionCloses \/ UNCHANGED vars
  <2>1. UNCHANGED <<hpc, hcalls, hcall, hcmd, apc, batch, turn, cmdCh, evtCh, deliveredCancel>>
    BY <1>6 DEF CancelArrives, LoadSession, ConnectionCloses, vars, handVars, runVars
  <2>2. QED
    BY <1>0, <2>1, FlightKept
<1>7. QED
  BY <1>1, <1>2, <1>3, <1>4, <1>5, <1>6 DEF Next, Handler

\* In a session whose prompts come one after the other, a run whose channel has taken a
\* cancel (handleCancel of server.go) executes no call that it proposes after that: for any
\* batches of the model, any number of cancels and any order of what is on its way.
THEOREM CancelStopsRun ==
  ASSUME ~Concurrent
  PROVE  Spec => []DeliveredCancelStops
<1> DEFINE I == SessionInv /\ FlightInv
<1>1. Init => I
  BY InitSessionInv, InitFlight
<1>2. I /\ [Next]_vars => I'
  <2>1. SessionInv /\ [Next]_vars => SessionInv'
    BY NextSessionInv
  <2>2. I /\ [Next]_vars => FlightInv'
    BY NextFlight DEF SessionInv, SafeInv, AloneInv, EndInv
  <2>3. QED
    BY <2>1, <2>2
<1>3. I => DeliveredCancelStops
  <2>1. SUFFICES ASSUME I, NEW p \in Prompts, apc[p] = "act" PROVE turn[p] <= deliveredCancel[p]
    BY DEF DeliveredCancelStops
  <2>2. TypeOK /\ Stopping(p)
    BY <2>1 DEF SessionInv, SafeInv, TypeInv, FlightInv, Live
  <2>3. turn[p] \in Int /\ deliveredCancel[p] \in Int
    BY <2>2, BoundsAssumption DEF TypeOK, Never, MaxTurns
  <2>4. QED
    BY <2>1, <2>2, <2>3 DEF Stopping
<1>4. QED
  BY <1>1, <1>2, <1>3, PTL DEF Spec

============================================================================
