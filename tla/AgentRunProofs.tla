--------------------------- MODULE AgentRunProofs ---------------------------
(***************************************************************************)
(* Theorems about AgentRun for every set of call IDs, every set of model   *)
(* responses and every channel capacity.                                   *)
(***************************************************************************)
EXTENDS AgentRun, Queues, FiniteSetTheorems, SequenceTheorems, FunctionTheorems, TLAPS

-----------------------------------------------------------------------------
(* How the number of places of a value in a channel changes when something *)
(* is appended to it or taken from its head.  The proofs that balance what *)
(* was sent against what was done rest on these.                           *)

\* What is left of a channel when its head is taken.
LEMMA TailOf ==
  ASSUME NEW S, NEW q \in Seq(S), q # <<>>
  PROVE  /\ Head(q) \in S /\ Head(q) = q[1]
         /\ Tail(q) \in Seq(S) /\ Len(q) \in Nat \ {0} /\ Len(Tail(q)) = Len(q) - 1
         /\ \A i \in 1 .. Len(Tail(q)) : Tail(q)[i] = q[i + 1]
         /\ Len(q) = 1 <=> Tail(q) = <<>>
         /\ Len(q) # 1 => Tail(q)[Len(Tail(q))] = q[Len(q)]
<1>1. /\ Head(q) \in S /\ Head(q) = q[1]
      /\ Tail(q) \in Seq(S) /\ Len(q) \in Nat \ {0} /\ Len(Tail(q)) = Len(q) - 1
      /\ \A i \in 1 .. Len(Tail(q)) : Tail(q)[i] = q[i + 1]
  BY HeadTailProperties, LenProperties, EmptySeq
<1>2. Len(Tail(q)) = 0 <=> Tail(q) = <<>>
  BY <1>1, EmptySeq
<1>3. Len(q) # 1 => Len(Tail(q)) \in 1 .. Len(Tail(q))
  BY <1>1
<1>4. QED
  BY <1>1, <1>2, <1>3

\* A channel is its head and the rest.
LEMMA HeadAndTail ==
  ASSUME NEW S, NEW q \in Seq(S), q # <<>>
  PROVE  /\ <<Head(q)>> \in Seq(S) /\ Tail(q) \in Seq(S)
         /\ q = <<Head(q)>> \o Tail(q)
<1>1. /\ Head(q) \in S /\ Head(q) = q[1] /\ Tail(q) \in Seq(S) /\ Len(q) \in Nat \ {0}
      /\ Len(Tail(q)) = Len(q) - 1
      /\ \A i \in 1 .. Len(Tail(q)) : Tail(q)[i] = q[i + 1]
  BY TailOf
<1>2. <<Head(q)>> \in Seq(S) /\ Len(<<Head(q)>>) = 1 /\ <<Head(q)>>[1] = Head(q)
  BY <1>1
<1>3. /\ <<Head(q)>> \o Tail(q) \in Seq(S)
      /\ Len(<<Head(q)>> \o Tail(q)) = Len(q)
      /\ \A i \in 1 .. Len(q) :
           (<<Head(q)>> \o Tail(q))[i] = IF i <= 1 THEN <<Head(q)>>[i] ELSE Tail(q)[i - 1]
  BY <1>1, <1>2, ConcatProperties
<1>4. \A i \in 1 .. Len(q) : (<<Head(q)>> \o Tail(q))[i] = q[i]
  BY <1>1, <1>2, <1>3
<1>5. QED
  BY <1>1, <1>2, <1>3, <1>4, SeqEqual

\* A channel with room for one value.
LEMMA OneOnly ==
  ASSUME NEW S, NEW q \in Seq(S), q # <<>>, Len(q) <= 1
  PROVE  Head(q) \in S /\ q = <<Head(q)>>
<1>1. /\ Tail(q) \in Seq(S) /\ Len(q) \in Nat \ {0} /\ Len(Tail(q)) = Len(q) - 1
      /\ Head(q) \in S
  BY TailOf
<1>2. Len(Tail(q)) \notin Nat \ {0}
  BY <1>1
<1>3. Tail(q) = <<>>
  BY <1>1, <1>2, EmptySeq
<1>4. QED
  BY <1>1, <1>3, HeadAndTail, ConcatEmptySeq

\* What is left without the first value.
LEMMA DropOne ==
  ASSUME NEW S, NEW e \in S, NEW t \in Seq(S)
  PROVE  Tail(<<e>> \o t) = t
<1> DEFINE q == <<e>> \o t
<1>1. <<e>> \in Seq(S) /\ Len(<<e>>) = 1 /\ Len(t) \in Nat
  BY LenProperties
<1>2. /\ q \in Seq(S) /\ Len(q) = Len(<<e>>) + Len(t)
      /\ \A i \in 1 .. Len(<<e>>) + Len(t) :
           q[i] = IF i <= Len(<<e>>) THEN <<e>>[i] ELSE t[i - Len(<<e>>)]
  BY <1>1, ConcatProperties
<1> HIDE DEF q
<1>3. q # <<>>
  BY <1>1, <1>2, EmptySeq
<1>4. /\ Tail(q) \in Seq(S) /\ Len(Tail(q)) = Len(t)
      /\ \A i \in 1 .. Len(Tail(q)) : Tail(q)[i] = q[i + 1]
  BY <1>1, <1>2, <1>3, TailOf
<1>5. \A i \in 1 .. Len(Tail(q)) : Tail(q)[i] = t[i]
  BY <1>1, <1>2, <1>4
<1>6. Tail(q) = t
  BY <1>4, <1>5, SeqEqual
<1>7. QED
  BY <1>6 DEF q

LEMMA PlacesFinite ==
  ASSUME NEW S, NEW q \in Seq(S), NEW x
  PROVE  /\ IsFiniteSet(Places(q, x))
         /\ Cardinality(Places(q, x)) \in Nat
<1>1. IsFiniteSet(1 .. Len(q))
  BY FS_Interval, LenProperties
<1>2. Places(q, x) \in SUBSET (1 .. Len(q))
  BY DEF Places
<1>3. QED
  BY <1>1, <1>2, FS_Subset, FS_CardinalityType

LEMMA PlacesAppend ==
  ASSUME NEW S, NEW q \in Seq(S), NEW e \in S, NEW x
  PROVE  Cardinality(Places(Append(q, e), x)) =
           IF e = x THEN Cardinality(Places(q, x)) + 1 ELSE Cardinality(Places(q, x))
<1>1. /\ Len(Append(q, e)) = Len(q) + 1 /\ Len(q) \in Nat
      /\ \A i \in 1 .. Len(q) : Append(q, e)[i] = q[i]
      /\ Append(q, e)[Len(q) + 1] = e
  BY AppendProperties, LenProperties
<1>2. Places(Append(q, e), x) = Places(q, x) \cup (IF e = x THEN {Len(q) + 1} ELSE {})
  BY <1>1 DEF Places
<1>3. Len(q) + 1 \notin Places(q, x)
  BY <1>1 DEF Places
<1>4. QED
  BY <1>2, <1>3, PlacesFinite, FS_AddElement

LEMMA PlacesTail ==
  ASSUME NEW S, NEW q \in Seq(S), NEW x, q # <<>>
  PROVE  Cardinality(Places(q, x)) =
           IF Head(q) = x THEN Cardinality(Places(Tail(q), x)) + 1
                          ELSE Cardinality(Places(Tail(q), x))
<1> DEFINE T == Places(Tail(q), x)
           R == Places(q, x) \ {1}
           f == [i \in T |-> i + 1]
<1>1. /\ Tail(q) \in Seq(S) /\ Len(q) \in Nat \ {0} /\ Len(Tail(q)) = Len(q) - 1
      /\ Head(q) = q[1]
      /\ \A i \in 1 .. Len(Tail(q)) : Tail(q)[i] = q[i + 1]
  BY TailOf
<1>2. f \in Bijection(T, R)
  <2>1. \A i \in T : i \in Nat /\ i + 1 \in R
    BY <1>1 DEF Places
  <2>2. \A j \in R : j \in Nat /\ j - 1 \in T /\ f[j - 1] = j
    BY <1>1 DEF Places
  <2>3. f \in [T -> R] /\ \A a, b \in T : f[a] = f[b] => a = b
    BY <2>1
  <2>4. \A j \in R : \E i \in T : f[i] = j
    BY <2>2
  <2>5. QED
    BY <2>3, <2>4 DEF Bijection, Injection, Surjection, IsInjective
<1>3. IsFiniteSet(T) /\ IsFiniteSet(Places(q, x)) /\ Cardinality(T) \in Nat
      /\ Cardinality(Places(q, x)) \in Nat
  BY <1>1, PlacesFinite
<1>4. Cardinality(R) = Cardinality(T)
  BY <1>2, <1>3, FS_Bijection DEF ExistsBijection
<1>5. Cardinality(R) = IF 1 \in Places(q, x) THEN Cardinality(Places(q, x)) - 1
                                             ELSE Cardinality(Places(q, x))
  BY <1>3, FS_RemoveElement
<1>6. 1 \in Places(q, x) <=> Head(q) = x
  BY <1>1 DEF Places
<1>7. QED
  BY <1>3, <1>4, <1>5, <1>6

\* The same for the number of them.
LEMMA HowManyType ==
  ASSUME NEW S, NEW q \in Seq(S), NEW x
  PROVE  HowMany(q, x) \in Nat
BY PlacesFinite DEF HowMany

LEMMA HowManyEmpty ==
  ASSUME NEW x
  PROVE  HowMany(<<>>, x) = 0
<1>1. Places(<<>>, x) = {}
  BY EmptySeq DEF Places
<1>2. QED
  BY <1>1, FS_EmptySet DEF HowMany

LEMMA HowManyAppend ==
  ASSUME NEW S, NEW q \in Seq(S), NEW e \in S, NEW x
  PROVE  HowMany(Append(q, e), x) = HowMany(q, x) + (IF e = x THEN 1 ELSE 0)
<1>1. Cardinality(Places(q, x)) \in Nat
  BY PlacesFinite
<1>2. QED
  BY <1>1, PlacesAppend DEF HowMany

LEMMA HowManyTail ==
  ASSUME NEW S, NEW q \in Seq(S), NEW x, q # <<>>
  PROVE  HowMany(q, x) = HowMany(Tail(q), x) + (IF Head(q) = x THEN 1 ELSE 0)
<1>1. Tail(q) \in Seq(S)
  BY HeadTailProperties
<1>2. Cardinality(Places(Tail(q), x)) \in Nat
  BY <1>1, PlacesFinite
<1>3. QED
  BY <1>2, PlacesTail DEF HowMany

-----------------------------------------------------------------------------
(* Type correctness. *)

\* The call in hand is a real one as long as something is still to be said
\* about it.
InHand == pc \in {"run", "report", "record"} => cur \in CallIDs

TypeInv == TypeOK /\ InHand

\* An event about calls of the run is an event.
LEMMA EvType ==
  ASSUME NEW t \in EventTypes, NEW S \in SUBSET CallIDs
  PROVE  Ev(t, S) \in Event
BY DEF Ev, Event

LEMMA MsgType ==
  ASSUME NEW r \in {"user", "assistant", "skill", "tool"}, NEW S \in SUBSET CallIDs
  PROVE  Msg(r, S) \in Message
BY DEF Msg, Message

\* The distinct IDs of a response are call IDs.
LEMMA ResponseRange ==
  ASSUME NEW resp \in Responses
  PROVE  RangeOf(resp) \in SUBSET CallIDs
BY ResponsesAssumption, ElementOfSeq DEF RangeOf

\* A decision leaves the calls of the batch and their approvals well typed.
LEMMA DecideType ==
  ASSUME TypeOK, NEW cmd \in Command, cmd.type # "cancel"
  PROVE  /\ Decide(cmd) \in UNION {[S -> Approvals] : S \in SUBSET CallIDs}
         /\ DOMAIN Decide(cmd) = DOMAIN batch
<1>1. PICK S \in SUBSET CallIDs : batch \in [S -> Approvals]
  BY DEF TypeOK
<1>2. Decide(cmd) \in [S -> Approvals]
  BY <1>1 DEF Decide, Approvals
<1>3. QED
  BY <1>1, <1>2

LEMMA InitTypeInv == Init => TypeInv
<1> SUFFICES ASSUME Init PROVE TypeInv
  OBVIOUS
<1>1. pc \in PCs /\ InHand
  BY DEF Init, PCs, InHand
<1>2. batch \in [{} -> Approvals]
  BY DEF Init
<1>3. 0 \in 0..MaxTurns /\ 0 \in 0..MaxCmds /\ CmdCap >= 0 /\ EvtCap >= 0 /\ OutCap >= 0
  BY BoundsAssumption
<1>4. \A S : <<>> \in Seq(S) /\ Len(<<>>) = 0
  BY EmptySeq
<1>5. approvals \in [CallIDs -> Nat] /\ executions \in [CallIDs -> Nat]
  BY DEF Init
<1>6. batch \in UNION {[S -> Approvals] : S \in SUBSET CallIDs}
  BY <1>2
<1>7. /\ log \in Seq(Message) /\ held \in Seq(Event) /\ Len(held) <= 1
      /\ cmdCh \in Seq(Command) /\ Len(cmdCh) <= CmdCap
      /\ evtCh \in Seq(Event) /\ Len(evtCh) <= EvtCap
      /\ outCh \in Seq(Event) /\ Len(outCh) <= OutCap
      /\ lastEvt \in Seq(Event) /\ Len(lastEvt) <= 1
  BY <1>3, <1>4 DEF Init
<1>8. QED
  BY <1>1, <1>3, <1>5, <1>6, <1>7 DEF Init, TypeInv, TypeOK

\* Emit keeps the event channel a bounded sequence of events.
LEMMA EmitType ==
  ASSUME TypeOK, NEW e \in Event, Emit(e)
  PROVE  evtCh' \in Seq(Event) /\ Len(evtCh') <= EvtCap
BY BoundsAssumption, AppendProperties DEF Emit, TypeOK

\* Storing a message keeps the log a sequence of messages.
LEMMA StoredType ==
  ASSUME TypeOK, NEW m \in Message, Stored(m)
  PROVE  log' \in Seq(Message)
BY AppendProperties DEF Stored, TypeOK

\* A step that only emits an event.
LEMMA EmitStepType ==
  ASSUME TypeInv, NEW e \in Event, NEW from, NEW to \in PCs \ {"run", "report", "record"},
         EmitStep(from, e, to)
  PROVE  TypeInv'
<1>1. evtCh' \in Seq(Event) /\ Len(evtCh') <= EvtCap
  BY EmitType DEF EmitStep, TypeInv
<1>2. QED
  BY <1>1 DEF EmitStep, TypeInv, TypeOK, InHand, otherVars, pipeVars, clientVars

LEMMA NextTypeInv == TypeInv /\ [Next]_vars => TypeInv'
<1> SUFFICES ASSUME TypeInv, [Next]_vars PROVE TypeInv'
  OBVIOUS
<1> USE DEF TypeInv, InHand
<1>1. CASE Begin
  <2>1. Ev("RunStarted", {}) \in Event
    BY EvType DEF EventTypes
  <2>2. evtCh' \in Seq(Event) /\ Len(evtCh') <= EvtCap
    BY <1>1, <2>1, EmitType DEF Begin
  <2>3. QED
    BY <1>1, <2>2 DEF Begin, TypeOK, otherVars, pipeVars, clientVars, PCs
<1>2. CASE StartContext
  <2>1. log' \in Seq(Message)
    BY <1>2, MsgType, StoredType DEF StartContext, TypeOK
  <2>2. QED
    BY <1>2, <2>1 DEF StartContext, TypeOK, otherVars, pipeVars, clientVars, PCs
<1>3. CASE GenerateFails
  BY <1>3 DEF GenerateFails, TypeOK, otherVars, pipeVars, clientVars, PCs
<1>4. CASE GenerateAnswer
  <2>1. log' \in Seq(Message)
    BY <1>4, MsgType, StoredType DEF GenerateAnswer, TypeOK
  <2>2. QED
    BY <1>4, <2>1 DEF GenerateAnswer, TypeOK, otherVars, pipeVars, clientVars, PCs
<1>5. CASE GenerateToolCalls
  <2>1. PICK resp \in Responses :
          /\ batch' = BuildPending(resp)
          /\ Stored(Msg("assistant", RangeOf(resp))) \/ log' = log
    BY <1>5 DEF GenerateToolCalls
  <2>2. RangeOf(resp) \in SUBSET CallIDs
    BY ResponseRange
  <2>3. batch' \in [RangeOf(resp) -> Approvals]
    BY <2>1 DEF BuildPending, Approvals
  <2>4. log' \in Seq(Message)
    BY <2>1, <2>2, MsgType, StoredType DEF TypeOK
  <2>5. turn' \in 0..MaxTurns
    BY <1>5, BoundsAssumption DEF GenerateToolCalls, TypeOK
  <2>6. QED
    BY <1>5, <2>2, <2>3, <2>4, <2>5
    DEF GenerateToolCalls, TypeOK, otherVars, pipeVars, clientVars, PCs
<1>6. CASE TurnAnswered
  BY <1>6, EvType, EmitStepType DEF TurnAnswered, EventTypes, PCs
<1>7. CASE TurnWithCalls
  BY <1>7, EvType, EmitStepType DEF TurnWithCalls, EventTypes, PCs
<1>8. CASE Propose
  <2>1. DOMAIN batch \in SUBSET CallIDs
    BY DEF TypeOK
  <2>2. Ev("ToolsProposed", DOMAIN batch) \in Event
    BY <2>1, EvType DEF EventTypes
  <2>3. QED
    BY <1>8, <2>2, EmitStepType DEF Propose, PCs
<1>9. CASE ReceiveCommand
  <2>1. cmdCh \in Seq(Command) /\ cmdCh # <<>>
    BY <1>9 DEF ReceiveCommand, TypeOK
  <2>2. Head(cmdCh) \in Command /\ cmdCh' \in Seq(Command) /\ Len(cmdCh') <= CmdCap
    BY <1>9, <2>1, HeadTailProperties, BoundsAssumption DEF ReceiveCommand, TypeOK
  <2>3. batch' \in UNION {[S -> Approvals] : S \in SUBSET CallIDs}
    BY <1>9, <2>2, DecideType DEF ReceiveCommand, TypeOK
  <2>4. pc' \in {"collect", "cancel"}
    BY <1>9 DEF ReceiveCommand
  <2>5. QED
    BY <1>9, <2>2, <2>3, <2>4 DEF ReceiveCommand, TypeOK, otherVars, pipeVars, clientVars, PCs
<1>10. CASE ApprovalsCollected
  BY <1>10 DEF ApprovalsCollected, TypeOK, otherVars, pipeVars, clientVars, PCs
<1>11. ASSUME NEW c \in CallIDs, SkipDenied(c) PROVE TypeInv'
  BY <1>11 DEF SkipDenied, TypeOK, otherVars, pipeVars, clientVars, PCs
<1>12. ASSUME NEW c \in CallIDs, StartTool(c) PROVE TypeInv'
  <2>1. Ev("ToolStarted", {c}) \in Event
    BY EvType DEF EventTypes
  <2>2. evtCh' \in Seq(Event) /\ Len(evtCh') <= EvtCap
    BY <1>12, <2>1, EmitType DEF StartTool
  <2>3. QED
    BY <1>12, <2>2 DEF StartTool, TypeOK, otherVars, pipeVars, clientVars, PCs
<1>13. CASE RunTool
  <2>1. log' \in Seq(Message)
    BY <1>13, MsgType, StoredType DEF RunTool, TypeOK
  <2>2. executions' \in [CallIDs -> Nat]
    BY <1>13 DEF RunTool, TypeOK
  <2>3. outcome' \in {"ok", "error"}
    BY <1>13 DEF RunTool
  <2>4. QED
    BY <1>13, <2>1, <2>2, <2>3 DEF RunTool, TypeOK, otherVars, pipeVars, clientVars, PCs
<1>14. CASE ReportTool
  <2>1. cur \in CallIDs
    BY <1>14 DEF ReportTool
  <2>2. Ev(IF outcome = "ok" THEN "ToolCompleted" ELSE "ToolFailed", {cur}) \in Event
    BY <2>1, EvType DEF EventTypes
  <2>3. evtCh' \in Seq(Event) /\ Len(evtCh') <= EvtCap
    BY <1>14, <2>2, EmitType DEF ReportTool
  <2>4. QED
    BY <1>14, <2>1, <2>3 DEF ReportTool, TypeOK, otherVars, pipeVars, clientVars, PCs
<1>15. CASE RecordResult
  <2>1. cur \in CallIDs
    BY <1>15 DEF RecordResult
  <2>2. log' \in Seq(Message)
    BY <1>15, <2>1, MsgType, StoredType DEF RecordResult, TypeOK
  <2>3. pc' \in {"execute", "fail"}
    BY <1>15 DEF RecordResult
  <2>4. QED
    BY <1>15, <2>2, <2>3 DEF RecordResult, TypeOK, otherVars, pipeVars, clientVars, PCs
<1>16. CASE ToolsDone
  <2>1. Ev("ToolsCompleted", {}) \in Event
    BY EvType DEF EventTypes
  <2>2. evtCh' \in Seq(Event) /\ Len(evtCh') <= EvtCap
    BY <1>16, <2>1, EmitType DEF ToolsDone
  <2>3. pc' \in {"complete", "generate"}
    BY <1>16 DEF ToolsDone
  <2>4. QED
    BY <1>16, <2>2, <2>3 DEF ToolsDone, TypeOK, otherVars, pipeVars, clientVars, PCs
<1>17. CASE Complete
  BY <1>17, EvType, EmitStepType DEF Complete, EventTypes, PCs
<1>18. CASE Cancelled
  BY <1>18, EvType, EmitStepType DEF Cancelled, EventTypes, PCs
<1>19. CASE Failed
  BY <1>19, EvType, EmitStepType DEF Failed, EventTypes, PCs
<1>20. CASE CompleteContext
  BY <1>20 DEF CompleteContext, TypeOK, otherVars, pipeVars, clientVars, PCs
<1>21. CASE ForwarderReceives
  <2>1. Head(evtCh) \in Event /\ evtCh' \in Seq(Event) /\ Len(evtCh') <= EvtCap
    BY <1>21, HeadTailProperties, BoundsAssumption DEF ForwarderReceives, TypeOK
  <2>2. held' \in Seq(Event) /\ Len(held') <= 1
    BY <1>21, <2>1 DEF ForwarderReceives
  <2>3. QED
    BY <1>21, <2>1, <2>2 DEF ForwarderReceives, TypeOK, agentVars, clientVars
<1>22. CASE ForwarderSends
  <2>1. Head(held) \in Event
    BY <1>22, HeadTailProperties DEF ForwarderSends, TypeOK
  <2>2. outCh' \in Seq(Event) /\ Len(outCh') <= OutCap
    BY <1>22, <2>1, AppendProperties, BoundsAssumption DEF ForwarderSends, TypeOK
  <2>3. QED
    BY <1>22, <2>1, <2>2, EmptySeq DEF ForwarderSends, TypeOK, agentVars, clientVars
<1>23. CASE ClientReceives
  <2>1. Head(outCh) \in Event /\ outCh' \in Seq(Event) /\ Len(outCh') <= OutCap
    BY <1>23, HeadTailProperties, BoundsAssumption DEF ClientReceives, TypeOK
  <2>2. lastEvt' \in Seq(Event) /\ Len(lastEvt') <= 1
    BY <1>23, <2>1 DEF ClientReceives
  <2>3. QED
    BY <1>23, <2>1, <2>2 DEF ClientReceives, TypeOK, agentVars
<1>24. ASSUME NEW cmd \in Command, ClientSends(cmd) PROVE TypeInv'
  <2>1. cmdCh' \in Seq(Command) /\ Len(cmdCh') <= CmdCap
    BY <1>24, AppendProperties, BoundsAssumption DEF ClientSends, TypeOK
  <2>2. cmds' \in 0..MaxCmds
    BY <1>24, BoundsAssumption DEF ClientSends, TypeOK
  <2>3. approvals' \in [CallIDs -> Nat]
    BY <1>24 DEF ClientSends, TypeOK
  <2>4. QED
    BY <1>24, <2>1, <2>2, <2>3 DEF ClientSends, TypeOK, agentVars, pipeVars
<1>25. CASE UNCHANGED vars
  BY <1>25 DEF vars, agentVars, otherVars, pipeVars, clientVars, TypeOK
<1>26. QED
  BY <1>1, <1>2, <1>3, <1>4, <1>5, <1>6, <1>7, <1>8, <1>9, <1>10, <1>11, <1>12, <1>13,
     <1>14, <1>15, <1>16, <1>17, <1>18, <1>19, <1>20, <1>21, <1>22, <1>23, <1>24, <1>25
  DEF Next, Agent, Forwarder, Client

\* The state of a run stays within its types and the channels within their
\* capacities.
THEOREM TypeCorrect == Spec => []TypeOK
<1>1. Init => TypeInv
  BY InitTypeInv
<1>2. TypeInv /\ [Next]_vars => TypeInv'
  BY NextTypeInv
<1>3. TypeInv => TypeOK
  BY DEF TypeInv
<1>4. QED
  BY <1>1, <1>2, <1>3, PTL DEF Spec

-----------------------------------------------------------------------------
(* Every execution is paid for by an approval. *)

\* A decided call stays as it was, a pending one of the command is decided.
LEMMA DecideBatch ==
  ASSUME TypeOK, NEW cmd \in Command, cmd.type # "cancel"
  PROVE  /\ DOMAIN Decide(cmd) = DOMAIN batch
         /\ \A c \in DOMAIN batch :
              Decide(cmd)[c] = IF c = cmd.call /\ batch[c] = "pending"
                                 THEN IF cmd.type = "approve" THEN "granted" ELSE "denied"
                                 ELSE batch[c]
<1>1. PICK S \in SUBSET CallIDs : batch \in [S -> Approvals]
  BY DEF TypeOK
<1>2. QED
  BY <1>1 DEF Decide

LEMMA InitBatchInv == Init => BatchInv
BY DEF Init, BatchInv, Acting

LEMMA NextBatchInv == TypeInv /\ BatchInv /\ [Next]_vars => BatchInv'
<1> SUFFICES ASSUME TypeInv, BatchInv, [Next]_vars PROVE BatchInv'
  OBVIOUS
<1> USE DEF BatchInv, Acting, AllDecided
<1>1. CASE GenerateToolCalls
  <2>1. PICK resp \in Responses : resp # <<>> /\ batch' = BuildPending(resp)
    BY <1>1 DEF GenerateToolCalls
  <2>2. resp \in Seq(CallIDs) /\ 1 \in 1 .. Len(resp)
    BY <2>1, ResponsesAssumption, EmptySeq, LenProperties
  <2>3. RangeOf(resp) # {}
    BY <2>2 DEF RangeOf
  <2>4. QED
    BY <1>1, <2>1, <2>3 DEF GenerateToolCalls, BuildPending
<1>2. CASE ReceiveCommand
  <2>1. Head(cmdCh) \in Command
    BY <1>2, HeadTailProperties DEF ReceiveCommand, TypeInv, TypeOK
  <2>2. DOMAIN batch' = DOMAIN batch
    BY <1>2, <2>1, DecideBatch DEF ReceiveCommand, TypeInv
  <2>3. QED
    BY <1>2, <2>2 DEF ReceiveCommand
<1>3. CASE \E c \in CallIDs : SkipDenied(c) \/ StartTool(c)
  BY <1>3 DEF SkipDenied, StartTool
<1>4. CASE Begin \/ StartContext \/ GenerateFails \/ GenerateAnswer \/ ApprovalsCollected
  BY <1>4 DEF Begin, StartContext, GenerateFails, GenerateAnswer, ApprovalsCollected
<1>5. CASE TurnAnswered \/ TurnWithCalls \/ Propose \/ Complete \/ Cancelled \/ Failed
  BY <1>5 DEF TurnAnswered, TurnWithCalls, Propose, Complete, Cancelled, Failed, EmitStep
<1>6. CASE RunTool \/ ReportTool \/ RecordResult \/ ToolsDone \/ CompleteContext
  BY <1>6 DEF RunTool, ReportTool, RecordResult, ToolsDone, CompleteContext
<1>7. CASE Forwarder \/ Client \/ UNCHANGED vars
  BY <1>7 DEF Forwarder, Client, ForwarderReceives, ForwarderSends, ClientReceives,
              ClientSends, vars, agentVars
<1>8. QED
  BY <1>1, <1>2, <1>3, <1>4, <1>5, <1>6, <1>7 DEF Next, Agent

LEMMA InitBalance == Init => Balance
<1> SUFFICES ASSUME Init, NEW c \in CallIDs
             PROVE  executions[c] + Queued(c) + Unused(c) <= approvals[c]
  BY DEF Balance
<1>1. Queued(c) = 0
  BY HowManyEmpty DEF Init, Queued
<1>2. Unused(c) = 0
  BY DEF Init, Unused, Granted, Acting
<1>3. QED
  BY <1>1, <1>2 DEF Init

\* A step that leaves the channel and the counters alone keeps the balance if it
\* makes no call newly due to run.
LEMMA BalanceKept ==
  ASSUME TypeInv, Balance, UNCHANGED <<cmdCh, executions, approvals>>,
         \A c \in CallIDs : Unused(c)' <= Unused(c)
  PROVE  Balance'
<1> SUFFICES ASSUME NEW c \in CallIDs
             PROVE  (executions[c] + Queued(c) + Unused(c) <= approvals[c])'
  BY DEF Balance
<1>1. Queued(c)' = Queued(c)
  BY DEF Queued
<1>2. Unused(c) \in Nat /\ Unused(c)' \in Nat
  BY DEF Unused
<1>3. Queued(c) \in Nat
  BY HowManyType DEF Queued, TypeInv, TypeOK
<1>4. executions[c] \in Nat /\ approvals[c] \in Nat
  BY DEF TypeInv, TypeOK
<1>5. executions[c] + Queued(c) + Unused(c) <= approvals[c]
  BY DEF Balance
<1>6. QED
  BY <1>1, <1>2, <1>3, <1>4, <1>5

LEMMA NextBalance == TypeInv /\ BatchInv /\ Balance /\ [Next]_vars => Balance'
<1> SUFFICES ASSUME TypeInv, BatchInv, Balance, [Next]_vars PROVE Balance'
  OBVIOUS
<1>1. CASE ReceiveCommand
  <2> SUFFICES ASSUME NEW c \in CallIDs
               PROVE  (executions[c] + Queued(c) + Unused(c) <= approvals[c])'
    BY DEF Balance
  <2>1. Head(cmdCh) \in Command /\ cmdCh \in Seq(Command) /\ cmdCh # <<>>
        /\ cmdCh' = Tail(cmdCh) /\ cmdCh' \in Seq(Command)
    BY <1>1, HeadTailProperties DEF ReceiveCommand, TypeInv, TypeOK
  <2>2. Queued(c) = Queued(c)' + (IF Head(cmdCh) = Approve(c) THEN 1 ELSE 0)
    BY <2>1, HowManyTail DEF Queued
  <2>3. Unused(c)' <= Unused(c) + (IF Head(cmdCh) = Approve(c) THEN 1 ELSE 0)
    <3>1. CASE Head(cmdCh).type = "cancel"
      BY <1>1, <3>1 DEF ReceiveCommand, Unused, Acting
    <3>2. CASE Head(cmdCh).type # "cancel"
      <4>1. batch' = Decide(Head(cmdCh)) /\ pc' = "collect" /\ pc = "collect"
        BY <1>1, <3>2 DEF ReceiveCommand
      <4>2. c \in Granted' => c \in Granted \/ Head(cmdCh) = Approve(c)
        BY <2>1, <3>2, <4>1, DecideBatch DEF Granted, Approve, Command, TypeInv
      <4>3. QED
        BY <4>1, <4>2 DEF Unused
    <3>3. QED
      BY <3>1, <3>2
  <2>4. executions[c] \in Nat /\ approvals[c] \in Nat /\ Queued(c)' \in Nat
        /\ Queued(c) \in Nat /\ Unused(c) \in Nat /\ Unused(c)' \in Nat
    BY <2>1, HowManyType DEF Queued, Unused, TypeInv, TypeOK
  <2>5. executions[c] + Queued(c) + Unused(c) <= approvals[c]
    BY DEF Balance
  <2>6. executions' = executions /\ approvals' = approvals
    BY <1>1 DEF ReceiveCommand, otherVars, clientVars
  <2>7. QED
    BY <2>2, <2>3, <2>4, <2>5, <2>6
<1>2. CASE RunTool
  <2> SUFFICES ASSUME NEW c \in CallIDs
               PROVE  (executions[c] + Queued(c) + Unused(c) <= approvals[c])'
    BY DEF Balance
  <2>1. cur \in DOMAIN batch \ todo /\ batch[cur] = "granted"
    BY <1>2 DEF RunTool, BatchInv, Acting
  <2>2. Unused(c)' + (IF c = cur THEN 1 ELSE 0) = Unused(c)
    BY <1>2, <2>1 DEF RunTool, Unused, Granted, Acting
  <2>3. executions[c]' = executions[c] + (IF c = cur THEN 1 ELSE 0)
    BY <1>2 DEF RunTool, TypeInv, TypeOK
  <2>4. Queued(c)' = Queued(c) /\ approvals' = approvals
    BY <1>2 DEF RunTool, Queued, otherVars, clientVars
  <2>5. executions[c] \in Nat /\ approvals[c] \in Nat /\ Queued(c) \in Nat
        /\ Unused(c) \in Nat /\ Unused(c)' \in Nat
    BY HowManyType DEF Queued, Unused, TypeInv, TypeOK
  <2>6. executions[c] + Queued(c) + Unused(c) <= approvals[c]
    BY DEF Balance
  <2>7. QED
    BY <2>2, <2>3, <2>4, <2>5, <2>6
<1>3. ASSUME NEW cmd \in Command, ClientSends(cmd) PROVE Balance'
  <2> SUFFICES ASSUME NEW c \in CallIDs
               PROVE  (executions[c] + Queued(c) + Unused(c) <= approvals[c])'
    BY DEF Balance
  <2>1. cmdCh \in Seq(Command) /\ cmdCh' = Append(cmdCh, cmd)
    BY <1>3 DEF ClientSends, TypeInv, TypeOK
  <2>2. Queued(c)' = Queued(c) + (IF cmd = Approve(c) THEN 1 ELSE 0)
    BY <2>1, HowManyAppend DEF Queued
  <2>3. approvals[c]' = approvals[c] + (IF cmd = Approve(c) THEN 1 ELSE 0)
    BY <1>3 DEF ClientSends, Approve, TypeInv, TypeOK
  <2>4. Unused(c)' = Unused(c) /\ executions' = executions
    BY <1>3 DEF ClientSends, Unused, Granted, agentVars
  <2>5. executions[c] \in Nat /\ approvals[c] \in Nat /\ Queued(c) \in Nat /\ Unused(c) \in Nat
    BY HowManyType DEF Queued, Unused, TypeInv, TypeOK
  <2>6. executions[c] + Queued(c) + Unused(c) <= approvals[c]
    BY DEF Balance
  <2>7. QED
    BY <2>2, <2>3, <2>4, <2>5, <2>6
<1>4. CASE GenerateToolCalls \/ Propose
  <2>1. \A c \in CallIDs : Unused(c)' = 0
    <3>1. CASE GenerateToolCalls
      BY <3>1 DEF GenerateToolCalls, Unused, Acting
    <3>2. CASE Propose
      BY <3>2 DEF Propose, EmitStep, Unused, Granted, BatchInv
    <3>3. QED
      BY <1>4, <3>1, <3>2
  <2>2. UNCHANGED <<cmdCh, executions, approvals>>
    BY <1>4 DEF GenerateToolCalls, Propose, EmitStep, otherVars, clientVars
  <2>3. QED
    BY <2>1, <2>2, BalanceKept DEF Unused
<1>5. CASE ApprovalsCollected \/ \E c \in CallIDs : SkipDenied(c) \/ StartTool(c)
  <2>1. \A c \in CallIDs : Unused(c)' <= Unused(c)
    <3>1. CASE ApprovalsCollected
      BY <3>1 DEF ApprovalsCollected, Unused, Granted, Acting
    <3>2. CASE \E c \in CallIDs : SkipDenied(c) \/ StartTool(c)
      BY <3>2 DEF SkipDenied, StartTool, Unused, Granted, Acting
    <3>3. QED
      BY <1>5, <3>1, <3>2
  <2>2. UNCHANGED <<cmdCh, executions, approvals>>
    BY <1>5 DEF ApprovalsCollected, SkipDenied, StartTool, otherVars, clientVars
  <2>3. QED
    BY <2>1, <2>2, BalanceKept
<1>6. CASE Begin \/ StartContext \/ GenerateFails \/ GenerateAnswer
  BY <1>6, BalanceKept
  DEF Begin, StartContext, GenerateFails, GenerateAnswer, Unused, Granted, Acting,
      otherVars, clientVars
<1>7. CASE TurnAnswered \/ TurnWithCalls \/ Complete \/ Cancelled \/ Failed
  BY <1>7, BalanceKept
  DEF TurnAnswered, TurnWithCalls, Complete, Cancelled, Failed, EmitStep, Unused, Granted,
      Acting, otherVars, clientVars
<1>8. CASE ReportTool \/ RecordResult \/ ToolsDone \/ CompleteContext
  BY <1>8, BalanceKept
  DEF ReportTool, RecordResult, ToolsDone, CompleteContext, Unused, Granted, Acting,
      otherVars, clientVars
<1>9. CASE Forwarder \/ ClientReceives \/ UNCHANGED vars
  BY <1>9, BalanceKept
  DEF Forwarder, ForwarderReceives, ForwarderSends, ClientReceives, vars, otherVars,
      agentVars, clientVars, Unused, Granted
<1>10. QED
  BY <1>1, <1>2, <1>3, <1>4, <1>5, <1>6, <1>7, <1>8, <1>9 DEF Next, Agent, Client

\* No call runs without an approval of its own: over the whole run a call ID is
\* executed at most as often as the client approved it, whatever the commands,
\* the responses of the model and the failures are.
THEOREM ApprovalSafety == Spec => []OneApprovalPerExecution
<1> DEFINE I == TypeInv /\ ApprovalInv
<1>1. Init => I
  BY InitTypeInv, InitBatchInv, InitBalance DEF ApprovalInv
<1>2. I /\ [Next]_vars => I'
  BY NextTypeInv, NextBatchInv, NextBalance DEF ApprovalInv
<1>3. I => OneApprovalPerExecution
  <2> SUFFICES ASSUME I, NEW c \in CallIDs PROVE executions[c] <= approvals[c]
    BY DEF OneApprovalPerExecution
  <2>1. executions[c] \in Nat /\ approvals[c] \in Nat /\ Queued(c) \in Nat /\ Unused(c) \in Nat
    BY HowManyType DEF Queued, Unused, TypeInv, TypeOK
  <2>2. executions[c] + Queued(c) + Unused(c) <= approvals[c]
    BY DEF ApprovalInv, Balance
  <2>3. QED
    BY <2>1, <2>2
<1>4. QED
  BY <1>1, <1>2, <1>3, PTL DEF Spec

-----------------------------------------------------------------------------
(* The run implements RunContract. *)

LEMMA InitContract == Init => Contract!Init
BY DEF Init, Contract!Init, Status, Thinking, Acting

\* Steps the contract does not see: those of the channels, and those of the loop
\* between two control points of the same status.
LEMMA ContractStutters ==
  ASSUME Status' = Status, UNCHANGED <<batch, executions>>,
         pc' = "collect" <=> pc = "collect", pc' \in Acting <=> pc \in Acting,
         pc \in Acting => Ran' = Ran
  PROVE  UNCHANGED Contract!vars
BY DEF Contract!vars, Granted, Acting

LEMMA NextContract ==
  TypeInv /\ BatchInv /\ [Next]_vars => [Contract!Next]_(Contract!vars)
<1> SUFFICES ASSUME TypeInv, BatchInv, [Next]_vars
             PROVE  Contract!Next \/ UNCHANGED Contract!vars
  OBVIOUS
<1> USE DEF Status, Thinking, Acting
<1>1. CASE Begin \/ StartContext \/ TurnWithCalls \/ Complete \/ Cancelled \/ Failed
            \/ CompleteContext \/ TurnAnswered
  BY <1>1, ContractStutters
  DEF Begin, StartContext, TurnWithCalls, Complete, Cancelled, Failed, CompleteContext,
      TurnAnswered, EmitStep
<1>2. CASE GenerateToolCalls
  BY <1>2 DEF GenerateToolCalls, Contract!vars
<1>3. CASE GenerateFails \/ GenerateAnswer
  <2>1. Contract!End
    BY <1>3 DEF GenerateFails, GenerateAnswer, Contract!End, Contract!Forget
  <2>2. QED
    BY <2>1 DEF Contract!Next
<1>4. CASE Propose
  <2>1. DOMAIN batch \in SUBSET CallIDs /\ DOMAIN batch # {}
    BY <1>4 DEF Propose, EmitStep, TypeInv, TypeOK, BatchInv
  <2>2. Contract!Ask(DOMAIN batch)
    BY <1>4, <2>1 DEF Propose, EmitStep, Contract!Ask
  <2>3. QED
    BY <2>1, <2>2 DEF Contract!Next
<1>5. CASE ReceiveCommand
  <2>1. CASE Head(cmdCh).type = "cancel"
    <3>1. Contract!End
      BY <1>5, <2>1 DEF ReceiveCommand, Contract!End, Contract!Forget
    <3>2. QED
      BY <3>1 DEF Contract!Next
  <2>2. CASE Head(cmdCh).type # "cancel"
    <3>1. Head(cmdCh) \in Command
      BY <1>5, HeadTailProperties DEF ReceiveCommand, TypeInv, TypeOK
    <3>2. DOMAIN batch' = DOMAIN batch
      BY <1>5, <2>2, <3>1, DecideBatch DEF ReceiveCommand, TypeInv
    <3>3. QED
      BY <1>5, <2>2, <3>2 DEF ReceiveCommand, Contract!vars
  <2>3. QED
    BY <2>1, <2>2
<1>6. CASE ApprovalsCollected
  <2>1. Granted \in SUBSET CallIDs /\ Granted \subseteq DOMAIN batch
    BY DEF Granted, TypeInv, TypeOK
  <2>2. Ran' = {}
    BY <1>6 DEF ApprovalsCollected, Ran, Granted
  <2>3. Contract!Settle(Granted)
    BY <1>6, <2>1, <2>2 DEF ApprovalsCollected, Contract!Settle, Granted
  <2>4. QED
    BY <2>1, <2>3 DEF Contract!Next
<1>7. ASSUME NEW c \in CallIDs, SkipDenied(c) PROVE UNCHANGED Contract!vars
  <2>1. Ran' = Ran
    BY <1>7 DEF SkipDenied, Ran, Granted
  <2>2. QED
    BY <1>7, <2>1, ContractStutters DEF SkipDenied
<1>8. ASSUME NEW c \in CallIDs, StartTool(c) PROVE UNCHANGED Contract!vars
  <2>1. Ran' = Ran
    BY <1>8 DEF StartTool, Ran, Granted
  <2>2. QED
    BY <1>8, <2>1, ContractStutters DEF StartTool
<1>9. CASE RunTool
  <2>1. cur \in DOMAIN batch \ todo /\ batch[cur] = "granted" /\ cur \in CallIDs
    BY <1>9 DEF RunTool, BatchInv, TypeInv, InHand
  <2>2. cur \in Granted \ Ran /\ Ran' = Ran \cup {cur} /\ Granted' = Granted
    BY <1>9, <2>1 DEF RunTool, Ran, Granted
  <2>3. Contract!Run(cur)
    BY <1>9, <2>1, <2>2 DEF RunTool, Contract!Run
  <2>4. QED
    BY <2>1, <2>3 DEF Contract!Next
<1>10. CASE ReportTool
  <2>1. Ran' = Ran
    BY <1>10 DEF ReportTool, Ran, Granted
  <2>2. QED
    BY <1>10, <2>1, ContractStutters DEF ReportTool
<1>11. CASE RecordResult
  <2>1. CASE pc' = "execute"
    <3>1. Ran' = Ran
      BY <1>11, <2>1 DEF RecordResult, Ran, Granted
    <3>2. QED
      BY <1>11, <2>1, <3>1, ContractStutters DEF RecordResult
  <2>2. CASE pc' = "fail"
    <3>1. Contract!End
      BY <1>11, <2>2 DEF RecordResult, Contract!End, Contract!Forget
    <3>2. QED
      BY <3>1 DEF Contract!Next
  <2>3. QED
    BY <1>11, <2>1, <2>2 DEF RecordResult
<1>12. CASE ToolsDone
  <2>1. CASE AnyDenied
    <3>1. Contract!End
      BY <1>12, <2>1 DEF ToolsDone, Contract!End, Contract!Forget
    <3>2. QED
      BY <3>1 DEF Contract!Next
  <2>2. CASE ~AnyDenied
    <3>1. \A c \in DOMAIN batch : batch[c] \in Approvals
      BY DEF TypeInv, TypeOK
    <3>2. Ran = DOMAIN batch
      BY <1>12, <2>2, <3>1
      DEF ToolsDone, AnyDenied, Ran, Granted, Approvals, BatchInv, AllDecided
    <3>3. Contract!Resume
      BY <1>12, <2>2, <3>2 DEF ToolsDone, Contract!Resume, Contract!Forget
    <3>4. QED
      BY <3>3 DEF Contract!Next
  <2>3. QED
    BY <2>1, <2>2
<1>13. CASE Forwarder \/ Client \/ UNCHANGED vars
  <2>1. UNCHANGED <<pc, batch, todo, cur, executions>>
    BY <1>13 DEF Forwarder, Client, ForwarderReceives, ForwarderSends, ClientReceives,
                 ClientSends, vars, agentVars
  <2>2. Ran' = Ran
    BY <2>1 DEF Ran, Granted
  <2>3. QED
    BY <2>1, <2>2, ContractStutters
<1>14. QED
  BY <1>1, <1>2, <1>3, <1>4, <1>5, <1>6, <1>7, <1>8, <1>9, <1>10, <1>11, <1>12, <1>13
  DEF Next, Agent

\* The loop, its channels and its forwarder implement the contract of a run: a
\* batch is settled as a whole before any call of it runs, only granted calls run
\* and each once, and the model is asked again only after all of them have run.
THEOREM RunImplementsContract == Spec => ImplementsContract
<1> DEFINE I == TypeInv /\ BatchInv
<1>1. Init => I /\ Contract!Init
  BY InitTypeInv, InitBatchInv, InitContract
<1>2. I /\ [Next]_vars => I'
  BY NextTypeInv, NextBatchInv
<1>3. I /\ [Next]_vars => [Contract!Next]_(Contract!vars)
  BY NextContract
<1>4. QED
  BY <1>1, <1>2, <1>3, PTL DEF Spec, ImplementsContract, Contract!Spec

-----------------------------------------------------------------------------
(* The events arrive in order and none is left behind. *)

\* The event the loop sent last.
Tip == Stream[Len(Stream)]

\* What that event may be at each control point of the loop.
Said(e) ==
    /\ pc # "begin"
    /\ pc = "start" => e.type = "RunStarted"
    /\ pc \in {"generate", "answered", "turn"} => e.type \in {"RunStarted", "ToolsCompleted"}
    /\ pc = "propose" => e.type = "TurnCompleted"
    /\ pc = "complete" => e.type \in {"TurnCompleted", "ToolsCompleted"}
    /\ pc = "collect" => e.type = "ToolsProposed" /\ e.calls = DOMAIN batch
    /\ pc = "cancel" => e.type = "ToolsProposed"
    /\ pc \in {"execute", "record"} =>
         \/ e.type = "ToolsProposed" /\ todo \subseteq e.calls
         \/ e.type \in {"ToolCompleted", "ToolFailed"} /\ e.calls \cap todo = {}
    /\ pc \in {"run", "report"} => e.type = "ToolStarted" /\ e.calls = {cur}
    /\ pc = "fail" => e.type \in {"RunStarted", "ToolsCompleted", "ToolsProposed",
                                  "ToolCompleted", "ToolFailed"}
    /\ pc \in {"return", "done"} <=> e.type \in TerminalTypes

SaidInv == IF pc = "begin" THEN Stream = <<>> ELSE Stream # <<>> /\ Said(Tip)

\* The forwarder has ended: there is nothing behind the terminal event.
ShutInv == closed => held = <<>> /\ evtCh = <<>> /\ Stream # <<>> /\ Tip.type \in TerminalTypes

FlowInv == SaidInv /\ StreamOrder /\ ShutInv

\* Joining two channels of events, with what there is to say of it.
Joined(s, t) == s \o t

LEMMA JoinedType ==
  ASSUME NEW s \in Seq(Event), NEW t \in Seq(Event)
  PROVE  /\ Joined(s, t) \in Seq(Event)
         /\ Joined(s, <<>>) = s /\ Joined(<<>>, t) = t
         /\ Joined(s, t) = <<>> => s = <<>> /\ t = <<>>
         /\ Len(Joined(s, t)) = Len(s) + Len(t) /\ Len(s) \in Nat /\ Len(t) \in Nat
         /\ \A i \in 1 .. Len(s) : Joined(s, t)[i] = s[i]
<1>1. /\ s \o t \in Seq(Event) /\ Len(s \o t) = Len(s) + Len(t)
      /\ Len(s) \in Nat /\ Len(t) \in Nat
      /\ \A i \in 1 .. Len(s) + Len(t) :
           (s \o t)[i] = IF i <= Len(s) THEN s[i] ELSE t[i - Len(s)]
  BY ConcatProperties, LenProperties
<1>2. s \o <<>> = s /\ <<>> \o t = t
  BY ConcatEmptySeq
<1>3. s \o t = <<>> => s = <<>> /\ t = <<>>
  BY ConcatEqualIffEmpty
<1>4. QED
  BY <1>1, <1>2, <1>3 DEF Joined

LEMMA JoinedThrice ==
  ASSUME NEW s \in Seq(Event), NEW t \in Seq(Event), NEW u \in Seq(Event)
  PROVE  Joined(Joined(s, t), u) = Joined(s, Joined(t, u))
BY ConcatAssociative DEF Joined

LEMMA JoinedOne ==
  ASSUME NEW s \in Seq(Event), NEW e \in Event
  PROVE  /\ <<e>> \in Seq(Event) /\ Append(s, e) = Joined(s, <<e>>)
         /\ Tail(Joined(<<e>>, s)) = s
<1>1. Append(s, e) = s \o <<e>>
  BY AppendIsConcat
<1>2. Tail(<<e>> \o s) = s
  BY DropOne
<1>3. QED
  BY <1>1, <1>2 DEF Joined

LEMMA JoinedHead ==
  ASSUME NEW s \in Seq(Event), s # <<>>
  PROVE  /\ Head(s) \in Event /\ <<Head(s)>> \in Seq(Event) /\ Tail(s) \in Seq(Event)
         /\ s = Joined(<<Head(s)>>, Tail(s))
<1>1. <<Head(s)>> \in Seq(Event) /\ Tail(s) \in Seq(Event) /\ s = <<Head(s)>> \o Tail(s)
  BY HeadAndTail
<1>2. Head(s) \in Event
  BY TailOf
<1>3. QED
  BY <1>1, <1>2 DEF Joined

LEMMA StreamIs ==
  /\ Stream = Joined(Joined(Joined(lastEvt, outCh), held), evtCh)
  /\ TypeInv => /\ lastEvt \in Seq(Event) /\ Len(lastEvt) <= 1
                /\ outCh \in Seq(Event)
                /\ held \in Seq(Event) /\ Len(held) <= 1
                /\ evtCh \in Seq(Event)
                /\ Joined(lastEvt, outCh) \in Seq(Event)
                /\ Joined(Joined(lastEvt, outCh), held) \in Seq(Event)
                /\ Stream \in Seq(Event)
<1>1. Stream = Joined(Joined(Joined(lastEvt, outCh), held), evtCh)
  BY DEF Stream, Joined
<1>2. TypeInv => /\ lastEvt \in Seq(Event) /\ Len(lastEvt) <= 1
                 /\ outCh \in Seq(Event)
                 /\ held \in Seq(Event) /\ Len(held) <= 1
                 /\ evtCh \in Seq(Event)
  BY DEF TypeInv, TypeOK
<1>3. QED
  BY <1>1, <1>2, JoinedType

LEMMA StreamType ==
  ASSUME TypeInv
  PROVE  /\ Stream \in Seq(Event) /\ Len(Stream) \in Nat
         /\ Stream # <<>> => Tip \in Event /\ Len(Stream) >= 1
<1>1. Stream \in Seq(Event)
  BY StreamIs
<1>2. QED
  BY <1>1, LenProperties, EmptySeq, ElementOfSeq DEF Tip

\* An event is sent to the end of the stream.
LEMMA StreamGrows ==
  ASSUME TypeInv, NEW e \in Event, evtCh' = Append(evtCh, e), UNCHANGED <<lastEvt, outCh, held>>
  PROVE  Stream' = Append(Stream, e)
<1>1. PICK a \in Seq(Event) : a = Joined(Joined(lastEvt, outCh), held)
  BY StreamIs
<1>2. PICK b \in Seq(Event) : b = evtCh
  BY StreamIs
<1>3. Stream = Joined(a, b)
  BY <1>1, <1>2, StreamIs
<1>4. Stream' = Joined(Joined(Joined(lastEvt', outCh'), held'), evtCh')
  BY DEF Stream, Joined
<1>5. Stream' = Joined(a, Append(b, e))
  BY <1>1, <1>2, <1>4
<1>6. Joined(a, b) \in Seq(Event)
  BY JoinedType
<1>7. /\ <<e>> \in Seq(Event) /\ Append(b, e) = Joined(b, <<e>>)
      /\ Append(Joined(a, b), e) = Joined(Joined(a, b), <<e>>)
  BY <1>6, JoinedOne
<1>8. Joined(Joined(a, b), <<e>>) = Joined(a, Joined(b, <<e>>))
  BY <1>7, JoinedThrice
<1>9. QED
  BY <1>3, <1>5, <1>7, <1>8

\* The forwarder moves events along and leaves the stream as it is.
LEMMA StreamForwarded ==
  ASSUME TypeInv, Forwarder
  PROVE  Stream' = Stream
<1>1. Stream' = Joined(Joined(Joined(lastEvt', outCh'), held'), evtCh')
  BY DEF Stream, Joined
<1>2. CASE ForwarderReceives
  <2>1. /\ held = <<>> /\ held' = <<Head(evtCh)>> /\ evtCh' = Tail(evtCh) /\ evtCh # <<>>
        /\ lastEvt' = lastEvt /\ outCh' = outCh
    BY <1>2 DEF ForwarderReceives, clientVars
  <2>2. PICK a \in Seq(Event) : a = Joined(lastEvt, outCh)
    BY StreamIs
  <2>3. /\ held' \in Seq(Event) /\ evtCh' \in Seq(Event)
        /\ evtCh = Joined(held', evtCh')
    BY <2>1, JoinedHead, StreamIs
  <2>4. Stream = Joined(a, evtCh)
    BY <2>1, <2>2, JoinedType, StreamIs
  <2>5. Stream' = Joined(Joined(a, held'), evtCh')
    BY <1>1, <2>1, <2>2
  <2>6. QED
    BY <2>3, <2>4, <2>5, JoinedThrice
<1>3. CASE ForwarderSends
  <2>1. /\ held # <<>> /\ held' = <<>> /\ outCh' = Append(outCh, Head(held))
        /\ lastEvt' = lastEvt /\ evtCh' = evtCh
    BY <1>3 DEF ForwarderSends, clientVars
  <2>2. held = <<Head(held)>> /\ Head(held) \in Event
    BY <2>1, OneOnly, StreamIs
  <2>3. outCh' = Joined(outCh, held) /\ outCh' \in Seq(Event)
    <3>1. PICK e \in Event : e = Head(held) /\ held = <<e>>
      BY <2>2
    <3>2. outCh \in Seq(Event) /\ outCh' = Append(outCh, e)
      BY <2>1, <3>1, StreamIs
    <3>3. Append(outCh, e) = Joined(outCh, <<e>>) /\ Append(outCh, e) \in Seq(Event)
      BY <3>2, JoinedOne, AppendProperties
    <3>4. QED
      BY <3>1, <3>2, <3>3
  <2>4. Joined(lastEvt, outCh') = Joined(Joined(lastEvt, outCh), held)
    BY <2>3, JoinedThrice, StreamIs
  <2>5. Joined(Joined(lastEvt, outCh'), <<>>) = Joined(Joined(lastEvt, outCh), held)
    BY <2>4, JoinedType, StreamIs
  <2>6. QED
    BY <1>1, <2>1, <2>5, StreamIs
<1>4. QED
  BY <1>2, <1>3 DEF Forwarder

\* The client forgets the event it saw before.
LEMMA StreamReceived ==
  ASSUME TypeInv, ClientReceives
  PROVE  /\ lastEvt' # <<>> /\ Stream # <<>> /\ Stream' # <<>>
         /\ Stream' = Stream \/ Stream' = Tail(Stream)
<1>1. /\ outCh # <<>> /\ lastEvt' = <<Head(outCh)>> /\ outCh' = Tail(outCh)
      /\ held' = held /\ evtCh' = evtCh
  BY DEF ClientReceives
<1>2. PICK l \in Seq(Event), o \in Seq(Event), h \in Seq(Event), v \in Seq(Event) :
        l = lastEvt /\ o = outCh /\ h = held /\ v = evtCh
  BY StreamIs
<1>3. Stream' = Joined(Joined(Joined(lastEvt', outCh'), held'), evtCh')
  BY DEF Stream, Joined
<1>4. o = Joined(lastEvt', outCh') /\ lastEvt' # <<>>
  BY <1>1, <1>2, JoinedHead
<1>5. PICK s \in Seq(Event) : s = Joined(o, h)
  BY JoinedType
<1>6. PICK r \in Seq(Event) : r = Joined(s, v)
  BY JoinedType
<1>7. Stream' = r
  BY <1>1, <1>2, <1>3, <1>4, <1>5, <1>6
<1>8. Stream = Joined(l, r)
  <2>1. Joined(Joined(l, o), h) = Joined(l, s)
    BY <1>5, JoinedThrice
  <2>2. Joined(Joined(l, s), v) = Joined(l, r)
    BY <1>6, JoinedThrice
  <2>3. QED
    BY <1>2, <2>1, <2>2, StreamIs
<1>9. r # <<>> /\ Stream # <<>>
  BY <1>1, <1>2, <1>5, <1>6, <1>8, JoinedType
<1>10. CASE l = <<>>
  BY <1>4, <1>7, <1>8, <1>9, <1>10, JoinedType
<1>11. CASE l # <<>>
  <2>1. l = <<Head(l)>> /\ Head(l) \in Event
    BY <1>2, <1>11, OneOnly, StreamIs
  <2>2. Tail(Joined(l, r)) = r
    BY <2>1, JoinedOne
  <2>3. QED
    BY <1>4, <1>7, <1>8, <1>9, <2>2
<1>12. QED
  BY <1>10, <1>11

\* Event after event.
Ordered(s) == \A i \in 1 .. Len(s) - 1 : Follows(s[i], s[i + 1])

LEMMA OrderedAppend ==
  ASSUME NEW s \in Seq(Event), NEW e \in Event, Ordered(s), s # <<>> => Follows(s[Len(s)], e)
  PROVE  /\ Ordered(Append(s, e)) /\ Append(s, e)[Len(Append(s, e))] = e
         /\ s # <<>> => Append(s, e)[1] = s[1]
<1>1. /\ Len(Append(s, e)) = Len(s) + 1 /\ Len(s) \in Nat
      /\ \A i \in 1 .. Len(s) : Append(s, e)[i] = s[i]
      /\ Append(s, e)[Len(s) + 1] = e
      /\ Len(s) >= 1 => s # <<>>
      /\ s # <<>> => Len(s) >= 1
  BY AppendProperties, LenProperties, EmptySeq
<1>2. ASSUME NEW i \in 1 .. Len(Append(s, e)) - 1
      PROVE  Follows(Append(s, e)[i], Append(s, e)[i + 1])
  <2>1. CASE i < Len(s)
    <3>1. Append(s, e)[i] = s[i] /\ Append(s, e)[i + 1] = s[i + 1] /\ i \in 1 .. Len(s) - 1
      BY <1>1, <2>1
    <3>2. QED
      BY <3>1 DEF Ordered
  <2>2. CASE i = Len(s)
    <3>1. Append(s, e)[i] = s[i] /\ Append(s, e)[i + 1] = e /\ s # <<>>
      BY <1>1, <2>2
    <3>2. QED
      BY <2>2, <3>1
  <2>3. QED
    BY <1>1, <2>1, <2>2
<1>3. Ordered(Append(s, e))
  BY <1>2 DEF Ordered
<1>4. QED
  BY <1>1, <1>3

LEMMA OrderedTail ==
  ASSUME NEW s \in Seq(Event), s # <<>>, Tail(s) # <<>>, Ordered(s)
  PROVE  Ordered(Tail(s)) /\ Tail(s)[Len(Tail(s))] = s[Len(s)]
<1>1. /\ Tail(s) \in Seq(Event) /\ Len(s) \in Nat \ {0} /\ Len(Tail(s)) = Len(s) - 1
      /\ \A i \in 1 .. Len(Tail(s)) : Tail(s)[i] = s[i + 1]
      /\ Tail(s)[Len(Tail(s))] = s[Len(s)]
  BY TailOf
<1>2. ASSUME NEW i \in 1 .. Len(Tail(s)) - 1
      PROVE  Follows(Tail(s)[i], Tail(s)[i + 1])
  <2>1. Tail(s)[i] = s[i + 1] /\ Tail(s)[i + 1] = s[(i + 1) + 1] /\ i + 1 \in 1 .. Len(s) - 1
    BY <1>1
  <2>2. QED
    BY <2>1 DEF Ordered
<1>3. QED
  BY <1>1, <1>2 DEF Ordered

\* A step of the loop that says nothing agrees with what was said last.
Silent ==
    \/ StartContext \/ GenerateFails \/ GenerateAnswer \/ GenerateToolCalls
    \/ ReceiveCommand \/ ApprovalsCollected \/ \E c \in CallIDs : SkipDenied(c)
    \/ RunTool \/ RecordResult \/ CompleteContext

LEMMA SilentSaid ==
  ASSUME TypeInv, BatchInv, Silent, NEW e \in Event, Said(e)
  PROVE  Said(e)'
<1> USE DEF Said, TerminalTypes
<1>1. CASE StartContext \/ GenerateFails \/ GenerateAnswer \/ GenerateToolCalls
  BY <1>1 DEF StartContext, GenerateFails, GenerateAnswer, GenerateToolCalls
<1>2. CASE ReceiveCommand
  <2>1. Head(cmdCh) \in Command
    BY <1>2, HeadTailProperties DEF ReceiveCommand, TypeInv, TypeOK
  <2>2. DOMAIN batch' = DOMAIN batch
    BY <1>2, <2>1, DecideBatch DEF ReceiveCommand, TypeInv
  <2>3. QED
    BY <1>2, <2>2 DEF ReceiveCommand
<1>3. CASE ApprovalsCollected \/ \E c \in CallIDs : SkipDenied(c)
  BY <1>3 DEF ApprovalsCollected, SkipDenied
<1>4. CASE RunTool \/ RecordResult \/ CompleteContext
  BY <1>4 DEF RunTool, RecordResult, CompleteContext
<1>5. QED
  BY <1>1, <1>2, <1>3, <1>4 DEF Silent

\* What a step of the loop says may follow what was said last.
Telling ==
    \/ Begin \/ TurnAnswered \/ TurnWithCalls \/ Propose \/ \E c \in CallIDs : StartTool(c)
    \/ ReportTool \/ ToolsDone \/ Complete \/ Cancelled \/ Failed

LEMMA TellingSaid ==
  ASSUME TypeInv, BatchInv, Telling
  PROVE  \E f \in Event :
           /\ evtCh' = Append(evtCh, f)
           /\ Said(f)'
           /\ pc = "begin" => f.type = "RunStarted"
           /\ \A e \in Event : Said(e) => Follows(e, f)
<1> DEFINE Good(f) == /\ evtCh' = Append(evtCh, f) /\ Said(f)'
                      /\ pc = "begin" => f.type = "RunStarted"
                      /\ \A e \in Event : Said(e) => Follows(e, f)
<1> USE DEF Said, TerminalTypes, Follows, Ev, Emit
<1>1. CASE Begin
  <2>1. Ev("RunStarted", {}) \in Event
    BY DEF Event, EventTypes
  <2>2. Good(Ev("RunStarted", {}))
    BY <1>1 DEF Begin
  <2>3. QED
    BY <2>1, <2>2
<1>2. CASE TurnAnswered \/ TurnWithCalls
  <2>1. Ev("TurnCompleted", {}) \in Event
    BY DEF Event, EventTypes
  <2>2. Good(Ev("TurnCompleted", {}))
    BY <1>2 DEF TurnAnswered, TurnWithCalls, EmitStep
  <2>3. QED
    BY <2>1, <2>2
<1>3. CASE Propose
  <2>1. PICK D \in SUBSET CallIDs : D = DOMAIN batch
    BY DEF TypeInv, TypeOK
  <2>2. Ev("ToolsProposed", D) \in Event
    BY DEF Event, EventTypes
  <2>3. Good(Ev("ToolsProposed", D))
    BY <1>3, <2>1 DEF Propose, EmitStep
  <2>4. QED
    BY <2>2, <2>3
<1>4. ASSUME NEW c \in CallIDs, StartTool(c) PROVE \E f \in Event : Good(f)
  <2>1. Ev("ToolStarted", {c}) \in Event
    BY DEF Event, EventTypes
  <2>2. Good(Ev("ToolStarted", {c}))
    <3>1. ASSUME NEW e \in Event, Said(e) PROVE Follows(e, Ev("ToolStarted", {c}))
      BY <1>4, <3>1 DEF StartTool
    <3>2. QED
      BY <1>4, <3>1 DEF StartTool
  <2>3. QED
    BY <2>1, <2>2
<1>5. CASE ReportTool
  <2>1. PICK c \in CallIDs : c = cur
    BY <1>5 DEF ReportTool, TypeInv, InHand
  <2>2. PICK t \in {"ToolCompleted", "ToolFailed"} :
          t = IF outcome = "ok" THEN "ToolCompleted" ELSE "ToolFailed"
    OBVIOUS
  <2>3. c \notin todo
    BY <1>5, <2>1 DEF ReportTool, BatchInv, Acting
  <2>4. Ev(t, {c}) \in Event
    BY DEF Event, EventTypes
  <2>5. Good(Ev(t, {c}))
    BY <1>5, <2>1, <2>2, <2>3 DEF ReportTool
  <2>6. QED
    BY <2>4, <2>5
<1>6. CASE ToolsDone
  <2>1. Ev("ToolsCompleted", {}) \in Event
    BY DEF Event, EventTypes
  <2>2. Good(Ev("ToolsCompleted", {}))
    BY <1>6 DEF ToolsDone
  <2>3. QED
    BY <2>1, <2>2
<1>7. CASE Complete
  <2>1. Ev("RunCompleted", {}) \in Event
    BY DEF Event, EventTypes
  <2>2. Good(Ev("RunCompleted", {}))
    BY <1>7 DEF Complete, EmitStep
  <2>3. QED
    BY <2>1, <2>2
<1>8. CASE Cancelled
  <2>1. Ev("RunCancelled", {}) \in Event
    BY DEF Event, EventTypes
  <2>2. Good(Ev("RunCancelled", {}))
    BY <1>8 DEF Cancelled, EmitStep
  <2>3. QED
    BY <2>1, <2>2
<1>9. CASE Failed
  <2>1. Ev("RunFailed", {}) \in Event
    BY DEF Event, EventTypes
  <2>2. Good(Ev("RunFailed", {}))
    BY <1>9 DEF Failed, EmitStep
  <2>3. QED
    BY <2>1, <2>2
<1>10. QED
  BY <1>1, <1>2, <1>3, <1>4, <1>5, <1>6, <1>7, <1>8, <1>9 DEF Telling

\* Where the event the forwarder holds is in the stream.
LEMMA HeldPlace ==
  ASSUME TypeInv, held # <<>>
  PROVE  \E i \in 1 .. Len(Stream) :
           /\ Stream[i] = Head(held) /\ i = Len(lastEvt \o outCh) + 1
           /\ Len(Stream) = i + Len(evtCh)
<1>1. PICK a \in Seq(Event), b \in Seq(Event), h \in Event :
        /\ a = Joined(lastEvt, outCh) /\ b = evtCh /\ h = Head(held) /\ held = <<h>>
  BY OneOnly, StreamIs
<1>2. PICK c \in Seq(Event) : c = Append(a, h)
  BY AppendProperties
<1>3. Stream = Joined(c, b)
  <2>1. Stream = Joined(Joined(a, <<h>>), b)
    BY <1>1, StreamIs
  <2>2. c = Joined(a, <<h>>)
    BY <1>2, JoinedOne
  <2>3. QED
    BY <2>1, <2>2
<1>4. Len(c) = Len(a) + 1 /\ Len(a) \in Nat /\ c[Len(a) + 1] = h
  BY <1>2, AppendProperties, LenProperties
<1>5. /\ Len(Stream) = Len(c) + Len(b) /\ Len(b) \in Nat
      /\ \A i \in 1 .. Len(c) : Stream[i] = c[i]
  BY <1>3, JoinedType
<1>6. /\ Len(a) + 1 \in 1 .. Len(Stream) /\ Stream[Len(a) + 1] = h
      /\ Len(Stream) = Len(a) + 1 + Len(b)
  BY <1>4, <1>5
<1>7. a = lastEvt \o outCh
  BY <1>1 DEF Joined
<1>8. QED
  BY <1>1, <1>6, <1>7

LEMMA InitFlowInv == Init => FlowInv
BY EmptySeq DEF Init, FlowInv, SaidInv, StreamOrder, ShutInv, Stream

LEMMA OrderSplit ==
  StreamOrder <=> Ordered(Stream) /\ (Stream # <<>> /\ lastEvt = <<>> => Stream[1].type = "RunStarted")
BY DEF StreamOrder, Ordered

\* The terminal event is the last one: nothing may follow it.
LEMMA TerminalIsLast ==
  ASSUME TypeInv, SaidInv, StreamOrder, NEW i \in 1 .. Len(Stream),
         Stream[i].type \in TerminalTypes
  PROVE  i = Len(Stream) /\ pc \in {"return", "done"}
<1>1. Stream # <<>> /\ Len(Stream) \in Nat
  BY StreamType, EmptySeq
<1>2. i = Len(Stream)
  <2>1. ASSUME i # Len(Stream) PROVE FALSE
    <3>1. i \in 1 .. Len(Stream) - 1
      BY <1>1, <2>1
    <3>2. Follows(Stream[i], Stream[i + 1])
      BY <3>1 DEF StreamOrder
    <3>3. QED
      BY <3>2 DEF Follows, TerminalTypes
  <2>2. QED
    BY <2>1
<1>3. QED
  BY <1>1, <1>2 DEF SaidInv, Said, Tip, TerminalTypes

LEMMA NextFlowInv == TypeInv /\ BatchInv /\ FlowInv /\ [Next]_vars => FlowInv'
<1> SUFFICES ASSUME TypeInv, BatchInv, FlowInv, [Next]_vars PROVE FlowInv'
  OBVIOUS
<1>0. /\ Stream \in Seq(Event) /\ Len(Stream) \in Nat
      /\ Stream # <<>> => Tip \in Event /\ Len(Stream) >= 1
  BY StreamType
<1>1. CASE Silent
  <2>1. UNCHANGED <<evtCh, otherVars>> /\ pc # "begin" /\ pc' # "begin"
    BY <1>1 DEF Silent, StartContext, GenerateFails, GenerateAnswer, GenerateToolCalls,
                ReceiveCommand, ApprovalsCollected, SkipDenied, RunTool, RecordResult,
                CompleteContext
  <2>2. UNCHANGED <<lastEvt, outCh, held, evtCh, closed>>
    BY <2>1 DEF otherVars, pipeVars, clientVars
  <2>3. Stream' = Stream /\ Tip' = Tip
    BY <2>2 DEF Stream, Tip
  <2>4. Stream # <<>> /\ Said(Tip)
    BY <2>1 DEF FlowInv, SaidInv
  <2>5. PICK e \in Event : e = Tip
    BY <1>0, <2>4
  <2>6. Said(e) /\ e = Tip'
    BY <2>3, <2>4, <2>5
  <2>7. Said(e)'
    BY <1>1, <2>6, SilentSaid
  <2>8. SaidInv'
    BY <2>1, <2>3, <2>4, <2>6, <2>7 DEF SaidInv
  <2>9. StreamOrder' /\ ShutInv'
    BY <2>2, <2>3 DEF FlowInv, StreamOrder, ShutInv
  <2>10. QED
    BY <2>8, <2>9 DEF FlowInv
<1>2. CASE Telling
  <2>1. PICK f \in Event :
          /\ evtCh' = Append(evtCh, f)
          /\ Said(f)'
          /\ pc = "begin" => f.type = "RunStarted"
          /\ \A e \in Event : Said(e) => Follows(e, f)
    BY <1>2, TellingSaid
  <2>2. UNCHANGED otherVars /\ pc \notin {"return", "done"}
    BY <1>2 DEF Telling, Begin, TurnAnswered, TurnWithCalls, Propose, StartTool, ReportTool,
                ToolsDone, Complete, Cancelled, Failed, EmitStep
  <2>3. UNCHANGED <<lastEvt, outCh, held, closed>>
    BY <2>2 DEF otherVars, pipeVars, clientVars
  <2>4. Stream' = Append(Stream, f)
    BY <2>1, <2>3, StreamGrows
  <2>5. Stream # <<>> => pc # "begin" /\ Said(Tip) /\ Follows(Stream[Len(Stream)], f)
    BY <1>0, <2>1 DEF FlowInv, SaidInv, Tip
  <2>6. /\ Ordered(Append(Stream, f))
        /\ Append(Stream, f)[Len(Append(Stream, f))] = f
        /\ Stream # <<>> => Append(Stream, f)[1] = Stream[1]
        /\ Append(Stream, f) # <<>> /\ Stream = <<>> => Append(Stream, f)[1] = f
    <3>1. Ordered(Stream)
      BY OrderSplit DEF FlowInv
    <3>2. Append(Stream, f) # <<>> /\ Append(Stream, f)[Len(Stream) + 1] = f
      BY <1>0, AppendProperties
    <3>3. Stream = <<>> => Len(Stream) = 0
      BY EmptySeq
    <3>4. Stream # <<>> => Follows(Stream[Len(Stream)], f)
      BY <2>5
    <3>5. QED
      BY <1>0, <3>1, <3>2, <3>3, <3>4, OrderedAppend
  <2>7. Stream' # <<>> /\ Tip' = f
    BY <1>0, <2>4, <2>6, AppendProperties DEF Tip
  <2>8. SaidInv'
    <3>1. pc' # "begin"
      BY <2>1 DEF Said
    <3>2. QED
      BY <2>1, <2>7, <3>1 DEF SaidInv
  <2>9. StreamOrder'
    <3>1. Stream = <<>> => pc = "begin"
      BY DEF FlowInv, SaidInv
    <3>2. lastEvt' = <<>> => Stream'[1].type = "RunStarted"
      BY <2>1, <2>3, <2>4, <2>6, <2>7, <3>1, OrderSplit DEF FlowInv
    <3>3. Ordered(Stream')
      BY <2>4, <2>6
    <3>4. QED
      BY <3>2, <3>3 DEF StreamOrder, Ordered
  <2>10. ShutInv'
    <3>1. ~closed
      BY <2>2 DEF FlowInv, ShutInv, SaidInv, Said
    <3>2. QED
      BY <2>3, <3>1 DEF ShutInv
  <2>11. QED
    BY <2>8, <2>9, <2>10 DEF FlowInv
<1>3. CASE Forwarder
  <2>1. Stream' = Stream /\ Tip' = Tip
    BY <1>3, StreamForwarded DEF Tip
  <2>2. UNCHANGED <<agentVars, clientVars>>
    BY <1>3 DEF Forwarder, ForwarderReceives, ForwarderSends
  <2>3. lastEvt' = lastEvt /\ UNCHANGED <<pc, batch, todo, cur>>
    BY <2>2 DEF agentVars, clientVars
  <2>4. SaidInv' /\ StreamOrder'
    <3>1. Said(Tip)' <=> Said(Tip)
      BY <2>1, <2>3 DEF Said
    <3>2. QED
      BY <2>1, <2>3, <3>1 DEF FlowInv, SaidInv, StreamOrder
  <2>5. ShutInv'
    <3>1. CASE ForwarderReceives
      BY <3>1 DEF ForwarderReceives, ShutInv
    <3>2. CASE ForwarderSends /\ closed'
      <4>1. /\ held # <<>> /\ Head(held).type \in TerminalTypes
            /\ held' = <<>> /\ evtCh' = evtCh
        BY <3>2 DEF ForwarderSends
      <4>2. PICK i \in 1 .. Len(Stream) :
              Stream[i] = Head(held) /\ i = Len(lastEvt \o outCh) + 1
              /\ Len(Stream) = i + Len(evtCh)
        BY <4>1, HeldPlace
      <4>3. i = Len(Stream)
        BY <4>1, <4>2, TerminalIsLast DEF FlowInv
      <4>4. evtCh = <<>>
        <5>1. evtCh \in Seq(Event) /\ Len(evtCh) \in Nat
          BY LenProperties DEF TypeInv, TypeOK
        <5>2. Len(evtCh) = 0
          BY <4>2, <4>3, <5>1
        <5>3. QED
          BY <5>1, <5>2, EmptySeq
      <4>5. Stream # <<>> /\ Tip.type \in TerminalTypes
        BY <1>0, <4>1, <4>2, <4>3, EmptySeq DEF Tip
      <4>6. QED
        BY <2>1, <4>1, <4>4, <4>5 DEF ShutInv
    <3>3. QED
      BY <1>3, <3>1, <3>2 DEF Forwarder, ShutInv
  <2>6. QED
    BY <2>4, <2>5 DEF FlowInv
<1>4. CASE ClientReceives
  <2>1. /\ lastEvt' # <<>> /\ Stream # <<>> /\ Stream' # <<>>
        /\ Stream' = Stream \/ Stream' = Tail(Stream)
    BY <1>4, StreamReceived
  <2>2. UNCHANGED <<agentVars, held, evtCh, closed>>
    BY <1>4 DEF ClientReceives
  <2>3. UNCHANGED <<pc, batch, todo, cur, held, evtCh, closed>>
    BY <2>2 DEF agentVars
  <2>4. Ordered(Stream') /\ Stream'[Len(Stream')] = Stream[Len(Stream)]
    <3>1. Ordered(Stream)
      BY OrderSplit DEF FlowInv
    <3>2. CASE Stream' = Stream
      BY <3>1, <3>2
    <3>3. CASE Stream' = Tail(Stream)
      BY <1>0, <2>1, <3>1, <3>3, OrderedTail
    <3>4. QED
      BY <2>1, <3>2, <3>3
  <2>5. Tip' = Tip
    BY <2>4 DEF Tip
  <2>6. SaidInv'
    <3>1. Said(Tip)' <=> Said(Tip)
      BY <2>3, <2>5 DEF Said
    <3>2. QED
      BY <2>1, <2>3, <3>1 DEF FlowInv, SaidInv
  <2>7. StreamOrder'
    BY <2>1, <2>4 DEF StreamOrder, Ordered
  <2>8. ShutInv'
    BY <2>1, <2>3, <2>5 DEF FlowInv, ShutInv
  <2>9. QED
    BY <2>6, <2>7, <2>8 DEF FlowInv
<1>5. CASE UNCHANGED vars \/ \E cmd \in Command : ClientSends(cmd)
  <2>1. UNCHANGED <<pc, batch, todo, cur, lastEvt, outCh, held, evtCh, closed>>
    BY <1>5 DEF vars, agentVars, otherVars, pipeVars, clientVars, ClientSends
  <2>2. Stream' = Stream /\ Tip' = Tip
    BY <2>1 DEF Stream, Tip
  <2>3. Said(Tip)' <=> Said(Tip)
    BY <2>1, <2>2 DEF Said
  <2>4. QED
    BY <2>1, <2>2, <2>3 DEF FlowInv, SaidInv, StreamOrder, ShutInv
<1>6. QED
  BY <1>1, <1>2, <1>3, <1>4, <1>5 DEF Next, Agent, Client, Silent, Telling

LEMMA FlowHolds == Spec => [](TypeInv /\ FlowInv)
<1> DEFINE I == TypeInv /\ BatchInv /\ FlowInv
<1>1. Init => I
  BY InitTypeInv, InitBatchInv, InitFlowInv
<1>2. I /\ [Next]_vars => I'
  BY NextTypeInv, NextBatchInv, NextFlowInv
<1>3. QED
  BY <1>1, <1>2, PTL DEF Spec

\* The client sees the events of a run in an order the run can produce, whatever
\* the capacities of the channels are and however late it and the forwarder come.
THEOREM EventsInOrder == Spec => []StreamOrder
BY FlowHolds, PTL DEF FlowInv

\* When the event channel of the caller is closed, the terminal event is in front
\* of the closing, the loop is over and no event is left in the forwarder.
THEOREM NoEventLost == Spec => []NothingLost
<1>1. TypeInv /\ FlowInv => NothingLost
  <2> SUFFICES ASSUME TypeInv, FlowInv, closed PROVE NothingLost
    BY DEF NothingLost
  <2>1. held = <<>> /\ evtCh = <<>> /\ Stream # <<>> /\ Tip.type \in TerminalTypes
    BY DEF FlowInv, ShutInv
  <2>2. lastEvt \o outCh \in Seq(Event)
    BY ConcatProperties DEF TypeInv, TypeOK
  <2>3. Stream = lastEvt \o outCh
    BY <2>1, <2>2, ConcatEmptySeq DEF Stream
  <2>4. pc \in {"return", "done"}
    BY <2>1 DEF FlowInv, SaidInv, Said
  <2>5. QED
    BY <2>1, <2>3, <2>4 DEF NothingLost, Tip
<1>2. QED
  BY <1>1, FlowHolds, PTL

-----------------------------------------------------------------------------
(* The model is asked again only with every call of it answered. *)

\* While the run may come to ask the model again.
Live == {"begin", "start", "generate", "turn", "propose", "collect"} \cup Acting

\* Calls of the response in hand that have no result in the context yet.
Open ==
    CASE pc \in {"turn", "propose", "collect"} -> DOMAIN batch
      [] pc = "execute" -> todo
      [] pc \in {"run", "report", "record"} -> todo \cup {cur}
      [] OTHER -> {}

\* No assistant message comes after the place i.
Newest(i) == \A k \in i + 1 .. Len(log) : log[k].role # "assistant"

\* The response in hand is at the place i.
Current(i) == i \in StoredTurns /\ Newest(i) /\ log[i].calls = DOMAIN batch

\* A call without a result is one of those in hand.
AnsweredInv ==
    \A i \in StoredTurns : \A c \in log[i].calls :
        AnswersIn(i, c) # {} \/ (Current(i) /\ c \in Open)

\* As long as every response is in the log: one result at most for a call, one call
\* for a result, and the response in hand is the newest, its open calls unanswered.
PairedInv ==
    /\ \A i \in StoredTurns : \A c \in log[i].calls :
         \A j, k \in AnswersIn(i, c) : j = k
    /\ \A j \in 1 .. Len(log) :
         log[j].role = "tool" =>
           \E i \in StoredTurns : \E c \in log[i].calls : j \in AnswersIn(i, c)
    /\ pc \notin {"begin", "start", "generate"} =>
         \E i \in StoredTurns : Current(i) /\ \A c \in Open : AnswersIn(i, c) = {}

TurnsInv == Cardinality(StoredTurns) <= turn

ContextInv ==
    pc \in Live => /\ AnsweredInv
                   /\ TurnsInv
                   /\ Cardinality(StoredTurns) = turn => PairedInv

LEMMA LogType ==
  ASSUME TypeInv
  PROVE  /\ Len(log) \in Nat
         /\ \A i \in 1 .. Len(log) : /\ log[i] \in Message /\ log[i].calls \subseteq CallIDs
         /\ StoredTurns \subseteq 1 .. Len(log)
         /\ IsFiniteSet(StoredTurns) /\ Cardinality(StoredTurns) \in Nat
<1>1. Len(log) \in Nat /\ \A i \in 1 .. Len(log) : log[i] \in Message
  BY LenProperties, ElementOfSeq DEF TypeInv, TypeOK
<1>2. StoredTurns \subseteq 1 .. Len(log)
  BY DEF StoredTurns
<1>3. IsFiniteSet(StoredTurns) /\ Cardinality(StoredTurns) \in Nat
  <2>1. IsFiniteSet(1 .. Len(log)) /\ StoredTurns \in SUBSET (1 .. Len(log))
    BY <1>1, <1>2, FS_Interval
  <2>2. IsFiniteSet(StoredTurns)
    BY <2>1, FS_Subset
  <2>3. QED
    BY <2>2, FS_CardinalityType
<1>4. QED
  BY <1>1, <1>2, <1>3 DEF Message

\* What a message changes about the turns in the log and their results.
LEMMA LogGrows ==
  ASSUME TypeInv, NEW m \in Message, Stored(m)
  PROVE  /\ Len(log') = Len(log) + 1 /\ log'[Len(log) + 1] = m
         /\ \A i \in 1 .. Len(log) : log'[i] = log[i]
         /\ StoredTurns' = IF m.role = "assistant" /\ m.calls # {}
                             THEN StoredTurns \cup {Len(log) + 1} ELSE StoredTurns
         /\ \A i \in 1 .. Len(log) :
              /\ Newest(i)' <=> Newest(i) /\ m.role # "assistant"
              /\ \A c \in CallIDs :
                   AnswersIn(i, c)' = IF m = Msg("tool", {c}) /\ Newest(i)
                                        THEN AnswersIn(i, c) \cup {Len(log) + 1}
                                        ELSE AnswersIn(i, c)
         /\ \A i : i = Len(log) + 1 => Newest(i)' /\ \A c \in CallIDs : AnswersIn(i, c)' = {}
<1>1. /\ Len(log') = Len(log) + 1 /\ log'[Len(log) + 1] = m /\ Len(log) \in Nat
      /\ \A i \in 1 .. Len(log) : log'[i] = log[i]
  BY AppendProperties, LenProperties DEF Stored, TypeInv, TypeOK
<1>2. StoredTurns' = IF m.role = "assistant" /\ m.calls # {}
                       THEN StoredTurns \cup {Len(log) + 1} ELSE StoredTurns
  BY <1>1 DEF StoredTurns
<1>3. ASSUME NEW i \in 1 .. Len(log)
      PROVE  Newest(i)' <=> Newest(i) /\ m.role # "assistant"
  BY <1>1 DEF Newest
<1>4. ASSUME NEW i \in 1 .. Len(log), NEW c \in CallIDs
      PROVE  AnswersIn(i, c)' = IF m = Msg("tool", {c}) /\ Newest(i)
                                  THEN AnswersIn(i, c) \cup {Len(log) + 1}
                                  ELSE AnswersIn(i, c)
  <2>0. PICK n \in Nat : n = Len(log) /\ Len(log') = n + 1
    BY <1>1
  <2>1. \A j \in i + 1 .. n : j \in AnswersIn(i, c)' <=> j \in AnswersIn(i, c)
    BY <1>1, <2>0 DEF AnswersIn
  <2>2. n + 1 \in AnswersIn(i, c)' <=> m = Msg("tool", {c}) /\ Newest(i)
    <3>1. m = Msg("tool", {c}) => m.role # "assistant"
      BY DEF Msg
    <3>2. \A k \in i + 1 .. n + 1 : log'[k] = IF k = n + 1 THEN m ELSE log[k]
      BY <1>1, <2>0
    <3>3. n + 1 \in i + 1 .. n + 1
      BY <2>0
    <3>4. n + 1 \in AnswersIn(i, c)' <=>
            m = Msg("tool", {c}) /\ \A k \in i + 1 .. n + 1 : log'[k].role # "assistant"
      BY <2>0, <3>2, <3>3 DEF AnswersIn
    <3>5. QED
      BY <2>0, <3>1, <3>2, <3>4 DEF Newest
  <2>3. \A j : /\ j \in AnswersIn(i, c) => j \in i + 1 .. n
               /\ j \in AnswersIn(i, c)' => j \in i + 1 .. n + 1
    BY <2>0 DEF AnswersIn
  <2>4. \A j : j \in AnswersIn(i, c)' <=>
               j \in AnswersIn(i, c) \/ (j = n + 1 /\ m = Msg("tool", {c}) /\ Newest(i))
    BY <2>0, <2>1, <2>2, <2>3
  <2>5. QED
    BY <2>0, <2>4
<1>5. ASSUME NEW i, i = Len(log) + 1
      PROVE  Newest(i)' /\ \A c \in CallIDs : AnswersIn(i, c)' = {}
  BY <1>1, <1>5 DEF Newest, AnswersIn
<1>6. QED
  BY <1>1, <1>2, <1>3, <1>4, <1>5

\* A step that leaves the turns in the log and their results as they are.
Quiet ==
    /\ StoredTurns' = StoredTurns
    /\ \A i \in StoredTurns :
         /\ log'[i].calls = log[i].calls
         /\ Newest(i)' <=> Newest(i)
         /\ \A c \in CallIDs : AnswersIn(i, c)' = AnswersIn(i, c)
    /\ \A j \in 1 .. Len(log') : log'[j].role = "tool" => j \in 1 .. Len(log) /\ log[j].role = "tool"

LEMMA QuietLog ==
  ASSUME TypeInv, log' = log \/ \E r \in {"user", "skill"} : Stored(Msg(r, {}))
  PROVE  Quiet
<1>1. CASE log' = log
  BY <1>1 DEF Quiet, StoredTurns, Newest, AnswersIn
<1>2. ASSUME NEW r \in {"user", "skill"}, Stored(Msg(r, {})) PROVE Quiet
  <2>1. Msg(r, {}) \in Message /\ Msg(r, {}).role = r
    BY DEF Msg, Message
  <2>2. \A c \in CallIDs : Msg(r, {}) # Msg("tool", {c})
    BY DEF Msg
  <2>3. StoredTurns \subseteq 1 .. Len(log) /\ Len(log) \in Nat
    BY LogType
  <2>4. /\ Len(log') = Len(log) + 1 /\ log'[Len(log) + 1].role = r
        /\ \A i \in 1 .. Len(log) : log'[i] = log[i]
        /\ StoredTurns' = StoredTurns
        /\ \A i \in 1 .. Len(log) :
             /\ Newest(i)' <=> Newest(i)
             /\ \A c \in CallIDs : AnswersIn(i, c)' = AnswersIn(i, c)
    BY <1>2, <2>1, <2>2, LogGrows
  <2>5. QED
    BY <2>3, <2>4 DEF Quiet
<1>3. QED
  BY <1>1, <1>2

LEMMA ContextKept ==
  ASSUME TypeInv, ContextInv, Quiet, turn' = turn, DOMAIN batch' = DOMAIN batch, Open' = Open,
         pc' \in Live => pc \in Live,
         pc \in {"begin", "start", "generate"} /\ pc' \in Live => pc' \in {"begin", "start", "generate"}
  PROVE  ContextInv'
<1> SUFFICES ASSUME pc' \in Live
             PROVE  /\ AnsweredInv' /\ TurnsInv'
                    /\ Cardinality(StoredTurns)' = turn' => PairedInv'
  BY DEF ContextInv
<1>0. AnsweredInv /\ TurnsInv /\ (Cardinality(StoredTurns) = turn => PairedInv)
  BY DEF ContextInv
<1>1. /\ StoredTurns' = StoredTurns
      /\ \A i \in StoredTurns : log[i].calls \subseteq CallIDs
  BY LogType DEF Quiet
<1>2. \A i \in StoredTurns : Current(i)' <=> Current(i)
  BY DEF Quiet, Current
<1>3. AnsweredInv'
  BY <1>0, <1>1, <1>2 DEF AnsweredInv, Quiet
<1>4. TurnsInv'
  BY <1>0, <1>1 DEF TurnsInv
<1>5. ASSUME PairedInv PROVE PairedInv'
  <2>1. \A i \in StoredTurns' : \A c \in log'[i].calls : \A j, k \in AnswersIn(i, c)' : j = k
    BY <1>1, <1>5 DEF PairedInv, Quiet
  <2>2. \A j \in 1 .. Len(log') :
          log'[j].role = "tool" =>
            \E i \in StoredTurns' : \E c \in log'[i].calls : j \in AnswersIn(i, c)'
    BY <1>1, <1>5 DEF PairedInv, Quiet
  <2>3. Open \subseteq CallIDs
    BY DEF Open, TypeInv, TypeOK, InHand
  <2>4. pc' \notin {"begin", "start", "generate"} =>
          \E i \in StoredTurns' : Current(i)' /\ \A c \in Open' : AnswersIn(i, c)' = {}
    BY <1>1, <1>2, <1>5, <2>3 DEF PairedInv, Quiet
  <2>5. QED
    BY <2>1, <2>2, <2>4 DEF PairedInv
<1>6. QED
  BY <1>0, <1>1, <1>3, <1>4, <1>5

\* A response goes to the end of the log, with all its calls open.
LEMMA TurnStored ==
  ASSUME TypeInv, ContextInv, NEW D \in SUBSET CallIDs, D # {},
         Stored(Msg("assistant", D)), DOMAIN batch' = D, turn' = turn + 1,
         pc = "generate", pc' = "turn"
  PROVE  ContextInv'
<1>1. PICK n \in Nat : n = Len(log)
  BY LogType
<1>2. /\ Msg("assistant", D) \in Message /\ Msg("assistant", D).role = "assistant"
      /\ Msg("assistant", D).calls = D
      /\ \A c \in CallIDs : Msg("assistant", D) # Msg("tool", {c})
  BY DEF Msg, Message
<1>3. /\ Len(log') = n + 1 /\ log'[n + 1].role = "assistant" /\ log'[n + 1].calls = D
      /\ \A i \in 1 .. n : log'[i] = log[i]
      /\ StoredTurns' = StoredTurns \cup {n + 1}
      /\ \A i \in 1 .. n : \A c \in CallIDs : AnswersIn(i, c)' = AnswersIn(i, c)
      /\ \A i : i = n + 1 => Newest(i)' /\ \A c \in CallIDs : AnswersIn(i, c)' = {}
  BY <1>1, <1>2, LogGrows
<1>4. /\ StoredTurns \subseteq 1 .. n
      /\ \A i \in 1 .. n : log[i].calls \subseteq CallIDs
      /\ IsFiniteSet(StoredTurns) /\ Cardinality(StoredTurns) \in Nat
  BY <1>1, LogType
<1>5. AnsweredInv /\ TurnsInv /\ (Cardinality(StoredTurns) = turn => PairedInv)
  BY DEF ContextInv, Live
<1>6. \A i : i = n + 1 => Current(i)'
  BY <1>3 DEF Current
<1>7. AnsweredInv'
  <2>1. Open = {} /\ Open' = D
    BY DEF Open
  <2>2. ASSUME NEW i \in StoredTurns', NEW c \in log'[i].calls
        PROVE  AnswersIn(i, c)' # {} \/ (Current(i)' /\ c \in Open')
    <3>1. CASE i = n + 1
      BY <1>3, <1>6, <2>1, <3>1
    <3>2. CASE i \in StoredTurns
      BY <1>3, <1>4, <1>5, <2>1, <3>2 DEF AnsweredInv
    <3>3. QED
      BY <1>3, <3>1, <3>2
  <2>3. QED
    BY <2>2 DEF AnsweredInv
<1>8. Cardinality(StoredTurns') = Cardinality(StoredTurns) + 1
  <2>1. n + 1 \notin StoredTurns
    BY <1>4
  <2>2. QED
    BY <1>3, <1>4, <2>1, FS_AddElement
<1>9. turn \in Nat
  BY BoundsAssumption DEF TypeInv, TypeOK
<1>10. TurnsInv'
  BY <1>4, <1>5, <1>8, <1>9 DEF TurnsInv
<1>11. ASSUME PairedInv PROVE PairedInv'
  <2>1. \A i \in StoredTurns' : \A c \in log'[i].calls : \A j, k \in AnswersIn(i, c)' : j = k
    <3>1. ASSUME NEW i \in StoredTurns PROVE \A c \in log'[i].calls : \A j, k \in AnswersIn(i, c)' : j = k
      BY <1>3, <1>4, <1>11, <3>1 DEF PairedInv
    <3>2. ASSUME NEW i, i = n + 1 PROVE \A c \in log'[i].calls : \A j, k \in AnswersIn(i, c)' : j = k
      BY <1>3, <3>2
    <3>3. QED
      BY <1>3, <3>1, <3>2
  <2>2. \A j \in 1 .. Len(log') :
          log'[j].role = "tool" =>
            \E i \in StoredTurns' : \E c \in log'[i].calls : j \in AnswersIn(i, c)'
    <3>1. ASSUME NEW j \in 1 .. Len(log'), log'[j].role = "tool"
          PROVE  \E i \in StoredTurns' : \E c \in log'[i].calls : j \in AnswersIn(i, c)'
      <4>1. j \in 1 .. n /\ log[j].role = "tool"
        BY <1>3, <3>1
      <4>2. PICK i \in StoredTurns : \E c \in log[i].calls : j \in AnswersIn(i, c)
        BY <1>1, <1>11, <4>1 DEF PairedInv
      <4>3. QED
        BY <1>3, <1>4, <4>2
    <3>2. QED
      BY <3>1
  <2>3. \E i \in StoredTurns' : Current(i)' /\ \A c \in Open' : AnswersIn(i, c)' = {}
    <3>1. Open' \subseteq CallIDs
      BY DEF Open
    <3>2. QED
      BY <1>3, <1>6, <3>1
  <2>4. QED
    BY <2>1, <2>2, <2>3 DEF PairedInv
<1>12. QED
  BY <1>4, <1>5, <1>7, <1>8, <1>9, <1>10, <1>11 DEF ContextInv

\* A response that could not be stored: from now on responses are missing.
LEMMA TurnLost ==
  ASSUME TypeInv, ContextInv, log' = log, turn' = turn + 1, pc = "generate"
  PROVE  ContextInv'
<1>1. AnsweredInv /\ TurnsInv /\ Open = {}
  BY DEF ContextInv, Live, Open
<1>2. /\ StoredTurns' = StoredTurns /\ Cardinality(StoredTurns) \in Nat /\ turn \in Nat
      /\ \A i, c : AnswersIn(i, c)' = AnswersIn(i, c)
  BY LogType, BoundsAssumption DEF StoredTurns, AnswersIn, TypeInv, TypeOK
<1>3. TurnsInv' /\ Cardinality(StoredTurns') # turn'
  BY <1>1, <1>2 DEF TurnsInv
<1>4. AnsweredInv'
  BY <1>1, <1>2 DEF AnsweredInv
<1>5. QED
  BY <1>3, <1>4 DEF ContextInv

\* A result closes the call in hand.
LEMMA ResultStored ==
  ASSUME TypeInv, BatchInv, ContextInv, Stored(Msg("tool", {cur})), UNCHANGED <<batch, todo, turn>>,
         pc = "record", pc' = "execute"
  PROVE  ContextInv'
<1>1. PICK n \in Nat : n = Len(log)
  BY LogType
<1>2. PICK d \in CallIDs : d = cur
  BY DEF TypeInv, InHand
<1>3. /\ Msg("tool", {d}) \in Message /\ Msg("tool", {d}).role = "tool"
      /\ \A c \in CallIDs : Msg("tool", {d}) = Msg("tool", {c}) <=> c = d
  BY DEF Msg, Message
<1>4. /\ Len(log') = n + 1 /\ log'[n + 1].role = "tool"
      /\ \A i \in 1 .. n : log'[i] = log[i]
      /\ StoredTurns' = StoredTurns
      /\ \A i \in 1 .. n :
           /\ Newest(i)' <=> Newest(i)
           /\ \A c \in CallIDs :
                AnswersIn(i, c)' = IF c = d /\ Newest(i) THEN AnswersIn(i, c) \cup {n + 1}
                                                         ELSE AnswersIn(i, c)
  BY <1>1, <1>2, <1>3, LogGrows
<1>5. /\ StoredTurns \subseteq 1 .. n
      /\ \A i \in 1 .. n : log[i].calls \subseteq CallIDs
  BY <1>1, LogType
<1>6. AnsweredInv /\ TurnsInv /\ (Cardinality(StoredTurns) = turn => PairedInv)
  BY DEF ContextInv, Live, Acting
<1>7. \A i \in StoredTurns : Current(i)' <=> Current(i)
  BY <1>4, <1>5 DEF Current
<1>8. Open = todo \cup {d} /\ Open' = todo /\ d \notin todo /\ todo \subseteq CallIDs
      /\ d \in DOMAIN batch
  BY <1>2 DEF Open, BatchInv, Acting, TypeInv, TypeOK
<1>9. AnsweredInv'
  <2>1. ASSUME NEW i \in StoredTurns, NEW c \in log[i].calls
        PROVE  AnswersIn(i, c)' # {} \/ (Current(i)' /\ c \in Open')
    <3>1. AnswersIn(i, c) # {} \/ (Current(i) /\ c \in Open)
      BY <1>6 DEF AnsweredInv
    <3>2. i \in 1 .. n /\ c \in CallIDs /\ (Current(i) => Newest(i))
      BY <1>5 DEF Current
    <3>3. AnswersIn(i, c)' = IF c = d /\ Newest(i) THEN AnswersIn(i, c) \cup {n + 1}
                                                   ELSE AnswersIn(i, c)
      BY <1>4, <3>2
    <3>4. QED
      BY <1>7, <1>8, <3>1, <3>2, <3>3
  <2>2. QED
    BY <1>4, <1>5, <2>1 DEF AnsweredInv
<1>10. TurnsInv' /\ Cardinality(StoredTurns') = Cardinality(StoredTurns) /\ turn' = turn
  BY <1>4, <1>6 DEF TurnsInv
<1>11. ASSUME PairedInv PROVE PairedInv'
  <2>1. PICK t \in StoredTurns : Current(t) /\ \A c \in Open : AnswersIn(t, c) = {}
    BY <1>11 DEF PairedInv
  <2>2. Newest(t) /\ log[t].calls = DOMAIN batch /\ t \in 1 .. n
    BY <1>5, <2>1 DEF Current
  <2>3. \A i \in StoredTurns : Newest(i) => i = t
    <3>1. ASSUME NEW i \in StoredTurns, Newest(i), i # t PROVE FALSE
      <4>1. i \in 1 .. n /\ log[i].role = "assistant" /\ log[t].role = "assistant"
        BY <1>5 DEF StoredTurns
      <4>2. CASE i < t
        BY <1>1, <2>2, <3>1, <4>1, <4>2 DEF Newest
      <4>3. CASE t < i
        BY <1>1, <2>2, <4>1, <4>3 DEF Newest
      <4>4. QED
        BY <2>2, <3>1, <4>1, <4>2, <4>3
    <3>2. QED
      BY <3>1
  <2>4. ASSUME NEW i \in StoredTurns, NEW c \in log[i].calls
        PROVE  /\ \A j, k \in AnswersIn(i, c)' : j = k
               /\ \A j \in AnswersIn(i, c) : j \in AnswersIn(i, c)'
    <3>1. i \in 1 .. n /\ c \in CallIDs
      BY <1>5
    <3>2. AnswersIn(i, c)' = IF c = d /\ Newest(i) THEN AnswersIn(i, c) \cup {n + 1}
                                                   ELSE AnswersIn(i, c)
      BY <1>4, <3>1
    <3>3. c = d /\ Newest(i) => AnswersIn(i, c) = {}
      BY <1>8, <2>1, <2>3
    <3>4. \A j, k \in AnswersIn(i, c) : j = k
      BY <1>11 DEF PairedInv
    <3>5. QED
      BY <3>2, <3>3, <3>4
  <2>5. \A i \in StoredTurns' : \A c \in log'[i].calls : \A j, k \in AnswersIn(i, c)' : j = k
    BY <1>4, <1>5, <2>4
  <2>6. \A j \in 1 .. Len(log') :
          log'[j].role = "tool" =>
            \E i \in StoredTurns' : \E c \in log'[i].calls : j \in AnswersIn(i, c)'
    <3>1. ASSUME NEW j \in 1 .. n, log[j].role = "tool"
          PROVE  \E i \in StoredTurns' : \E c \in log'[i].calls : j \in AnswersIn(i, c)'
      <4>1. PICK i \in StoredTurns : \E c \in log[i].calls : j \in AnswersIn(i, c)
        BY <1>1, <1>11, <3>1 DEF PairedInv
      <4>2. QED
        BY <1>4, <1>5, <2>4, <4>1
    <3>2. t \in StoredTurns' /\ d \in log'[t].calls /\ n + 1 \in AnswersIn(t, d)'
      BY <1>4, <1>8, <2>1, <2>2
    <3>3. QED
      BY <1>4, <3>1, <3>2
  <2>7. \E i \in StoredTurns' : Current(i)' /\ \A c \in Open' : AnswersIn(i, c)' = {}
    <3>1. \A c \in Open' : AnswersIn(t, c)' = {}
      BY <1>4, <1>8, <2>1, <2>2
    <3>2. QED
      BY <1>4, <1>7, <2>1, <3>1
  <2>8. QED
    BY <2>5, <2>6, <2>7 DEF PairedInv
<1>12. QED
  BY <1>6, <1>9, <1>10, <1>11 DEF ContextInv

LEMMA InitContextInv == Init => ContextInv
<1> SUFFICES ASSUME Init PROVE ContextInv
  OBVIOUS
<1>1. Len(log) = 0
  BY EmptySeq DEF Init
<1>2. StoredTurns = {} /\ Cardinality(StoredTurns) = 0
  BY <1>1, FS_EmptySet DEF StoredTurns
<1>3. QED
  BY <1>1, <1>2 DEF Init, ContextInv, AnsweredInv, TurnsInv, PairedInv

LEMMA NextContextInv == TypeInv /\ BatchInv /\ ContextInv /\ [Next]_vars => ContextInv'
<1> SUFFICES ASSUME TypeInv, BatchInv, ContextInv, [Next]_vars PROVE ContextInv'
  OBVIOUS
<1> USE DEF Live, Acting, Open
<1>1. CASE StartContext
  <2>1. log' = log \/ \E r \in {"user", "skill"} : Stored(Msg(r, {}))
    BY <1>1 DEF StartContext
  <2>2. QED
    BY <1>1, <2>1, QuietLog, ContextKept DEF StartContext
<1>2. CASE Begin \/ TurnWithCalls \/ Propose
  BY <1>2, QuietLog, ContextKept DEF Begin, TurnWithCalls, Propose, EmitStep
<1>3. CASE GenerateToolCalls
  <2>1. PICK resp \in Responses :
          /\ resp # <<>> /\ batch' = BuildPending(resp)
          /\ Stored(Msg("assistant", RangeOf(resp))) \/ log' = log
    BY <1>3 DEF GenerateToolCalls
  <2>2. RangeOf(resp) \in SUBSET CallIDs
    BY ResponseRange
  <2>3. RangeOf(resp) # {}
    <3>1. resp \in Seq(CallIDs) /\ 1 \in 1 .. Len(resp)
      BY <2>1, ResponsesAssumption, EmptySeq, LenProperties
    <3>2. QED
      BY <3>1 DEF RangeOf
  <2>4. DOMAIN batch' = RangeOf(resp)
    BY <2>1 DEF BuildPending
  <2>5. pc = "generate" /\ pc' = "turn" /\ turn' = turn + 1
    BY <1>3 DEF GenerateToolCalls
  <2>6. QED
    BY <2>1, <2>2, <2>3, <2>4, <2>5, TurnStored, TurnLost
<1>4. CASE ReceiveCommand
  <2>1. Head(cmdCh) \in Command
    BY <1>4, HeadTailProperties DEF ReceiveCommand, TypeInv, TypeOK
  <2>2. DOMAIN batch' = DOMAIN batch
    BY <1>4, <2>1, DecideBatch DEF ReceiveCommand, TypeInv
  <2>3. CASE pc' = "collect"
    BY <1>4, <2>2, <2>3, QuietLog, ContextKept DEF ReceiveCommand
  <2>4. CASE pc' = "cancel"
    BY <2>4 DEF ContextInv
  <2>5. QED
    BY <1>4, <2>3, <2>4 DEF ReceiveCommand
<1>5. CASE ApprovalsCollected
  BY <1>5, QuietLog, ContextKept DEF ApprovalsCollected
<1>6. ASSUME NEW c \in CallIDs, SkipDenied(c) \/ StartTool(c) PROVE ContextInv'
  BY <1>6, QuietLog, ContextKept DEF SkipDenied, StartTool
<1>7. CASE RunTool
  <2>1. log' = log \/ \E r \in {"user", "skill"} : Stored(Msg(r, {}))
    BY <1>7 DEF RunTool
  <2>2. QED
    BY <1>7, <2>1, QuietLog, ContextKept DEF RunTool
<1>8. CASE ReportTool
  BY <1>8, QuietLog, ContextKept DEF ReportTool
<1>9. CASE RecordResult
  <2>1. CASE Stored(Msg("tool", {cur})) /\ pc' = "execute"
    BY <1>9, <2>1, ResultStored DEF RecordResult
  <2>2. CASE pc' = "fail"
    BY <2>2 DEF ContextInv
  <2>3. QED
    BY <1>9, <2>1, <2>2 DEF RecordResult
<1>10. CASE ToolsDone
  <2>1. CASE pc' = "generate"
    BY <1>10, <2>1, QuietLog, ContextKept DEF ToolsDone
  <2>2. CASE pc' = "complete"
    BY <2>2 DEF ContextInv
  <2>3. QED
    BY <1>10, <2>1, <2>2 DEF ToolsDone
<1>11. CASE GenerateFails \/ GenerateAnswer \/ CompleteContext
  BY <1>11 DEF GenerateFails, GenerateAnswer, CompleteContext, ContextInv
<1>12. CASE TurnAnswered \/ Complete \/ Cancelled \/ Failed
  BY <1>12 DEF TurnAnswered, Complete, Cancelled, Failed, EmitStep, ContextInv
<1>13. CASE Forwarder \/ Client \/ UNCHANGED vars
  <2>1. UNCHANGED <<pc, batch, todo, cur, log, turn>>
    BY <1>13 DEF Forwarder, Client, ForwarderReceives, ForwarderSends, ClientReceives,
                 ClientSends, vars, agentVars
  <2>2. QED
    BY <2>1, QuietLog, ContextKept
<1>14. QED
  BY <1>1, <1>2, <1>3, <1>4, <1>5, <1>6, <1>7, <1>8, <1>9, <1>10, <1>11, <1>12, <1>13
  DEF Next, Agent

\* The model is never asked again with a call in its context that has no result,
\* and as long as every response was stored each has one result and no result
\* stands alone: for every order of decisions, executions and storage failures.
THEOREM ModelSeesAnswers == Spec => []ContextAnswered
<1> DEFINE I == TypeInv /\ BatchInv /\ ContextInv
<1>1. Init => I
  BY InitTypeInv, InitBatchInv, InitContextInv
<1>2. I /\ [Next]_vars => I'
  BY NextTypeInv, NextBatchInv, NextContextInv
<1>3. I => ContextAnswered
  <2> SUFFICES ASSUME I, pc = "generate"
               PROVE  /\ \A i \in StoredTurns : \A c \in log[i].calls : AnswersIn(i, c) # {}
                      /\ Cardinality(StoredTurns) = turn =>
                           /\ \A i \in StoredTurns : \A c \in log[i].calls :
                                Cardinality(AnswersIn(i, c)) = 1
                           /\ \A j \in 1 .. Len(log) :
                                 log[j].role = "tool" =>
                                   \E i \in StoredTurns : \E c \in log[i].calls :
                                      j \in AnswersIn(i, c)
    BY DEF ContextAnswered
  <2>1. /\ AnsweredInv /\ (Cardinality(StoredTurns) = turn => PairedInv)
        /\ Open = {}
    BY DEF ContextInv, Live, Open
  <2>2. \A i \in StoredTurns : \A c \in log[i].calls : AnswersIn(i, c) # {}
    BY <2>1 DEF AnsweredInv
  <2>3. ASSUME PairedInv, NEW i \in StoredTurns, NEW c \in log[i].calls
        PROVE  Cardinality(AnswersIn(i, c)) = 1
    <3>1. PICK j : j \in AnswersIn(i, c)
      BY <2>2
    <3>2. AnswersIn(i, c) = {j}
      BY <2>3, <3>1 DEF PairedInv
    <3>3. QED
      BY <3>2, FS_Singleton
  <2>4. QED
    BY <2>1, <2>2, <2>3 DEF PairedInv
<1>4. QED
  BY <1>1, <1>2, <1>3, PTL DEF Spec

=============================================================================
