------------------------------ MODULE RpcProofs ------------------------------
(***************************************************************************)
(* Theorems about Rpc for any number of callers at each end, any wire and  *)
(* any responses a peer may send.                                          *)
(***************************************************************************)
EXTENDS Rpc, SequenceTheorems, TLAPS

\* Each end has a peer.
LEMMA OtherSide == \A s \in Sides : Other(s) \in Sides
BY SidesAssumption DEF Other

-----------------------------------------------------------------------------
(* Type correctness. *)

\* Everything but the wires.
TypeButWire ==
    /\ mu \in [Sides -> Holders]
    /\ nextID \in [Sides -> Nat]
    /\ pending \in [Sides -> SUBSET Ids]
    /\ box \in [Sides -> [Ids -> {"empty", "answered", "closed"}]]
    /\ open \in BOOLEAN
    /\ loop \in [Sides -> {"read", "lookup", "deliver", "stopped", "drained", "ended"}]
    /\ inHand \in [Sides -> Ids \cup {0}]
    /\ serving \in [Sides -> SUBSET Ids]
    /\ ctx \in [Callers -> {"live", "cancelled"}]
    /\ cpc \in [Callers -> {"idle", "registered", "writing", "waiting", "unregister", "returned"}]
    /\ cid \in [Callers -> Ids \cup {0}]
    /\ result \in [Callers -> {"none", "written", "error", "cancelled", "closed", "answered"}]
    /\ stray \in 0..MaxStray

WireType == wire \in [Sides -> Seq(Message)] /\ \A s \in Sides : Len(wire[s]) <= WireCap

\* Only a caller of Request waits for a response.
HasID == \A r \in Callers : cpc[r] = "waiting" => cid[r] # 0

TypeInv == TypeButWire /\ WireType /\ HasID

LEMMA InitType == Init => TypeInv
<1> SUFFICES ASSUME Init PROVE TypeInv
  OBVIOUS
<1>1. <<>> \in Seq(Message) /\ Len(<<>>) = 0
  BY EmptySeq
<1>2. WireType
  BY <1>1, BoundsAssumption DEF Init, WireType
<1>3. TypeButWire
  BY BoundsAssumption DEF Init, TypeButWire, Holders
<1>4. HasID
  BY DEF Init, HasID
<1>5. QED
  BY <1>2, <1>3, <1>4 DEF TypeInv

LEMMA WriteType ==
  ASSUME WireType, NEW s \in Sides, NEW m \in Message, Write(s, m)
  PROVE  WireType'
<1>1. Other(s) \in Sides
  BY OtherSide
<1>2. Append(wire[Other(s)], m) \in Seq(Message)
      /\ Len(Append(wire[Other(s)], m)) = Len(wire[Other(s)]) + 1
      /\ Len(wire[Other(s)]) \in Nat
  BY <1>1, AppendProperties, LenProperties DEF WireType
<1>3. QED
  BY <1>1, <1>2, BoundsAssumption DEF Write, WireType

LEMMA ReadType ==
  ASSUME WireType, NEW s \in Sides, wire[s] # <<>>, wire' = [wire EXCEPT ![s] = Tail(@)]
  PROVE  WireType' /\ Head(wire[s]) \in Message
<1>1. wire[s] \in Seq(Message)
  BY DEF WireType
<1>2. /\ Head(wire[s]) \in Message /\ Tail(wire[s]) \in Seq(Message)
      /\ Len(Tail(wire[s])) = Len(wire[s]) - 1 /\ Len(wire[s]) \in Nat
  BY <1>1, HeadTailProperties, LenProperties
<1>3. QED
  BY <1>2, BoundsAssumption DEF WireType

LEMMA CallerType ==
  ASSUME TypeInv, NEW r \in Callers, Register(r) \/ MarshalFails(r) \/ Caller(r) \/ CancelContext(r)
  PROVE  TypeInv'
<1> DEFINE s == SideOf[r]
<1>1. s \in Sides
  BY CallersAssumption
<1> USE <1>1 DEF TypeInv, HasID
<1>2. CASE Register(r)
  <2>1. nextID[s] + 1 \in Ids
    BY <1>2, BoundsAssumption DEF Register, Ids, TypeButWire
  <2>2. TypeButWire'
    BY <1>2, <2>1 DEF Register, TypeButWire
  <2>3. QED
    BY <1>2, <2>2 DEF Register, WireType
<1>3. CASE MarshalFails(r) \/ ContextDone(r) \/ ConnectionDone(r) \/ CancelContext(r)
  BY <1>3 DEF MarshalFails, ContextDone, ConnectionDone, CancelContext, TypeButWire, WireType
<1>4. CASE LockToWrite(r)
  BY <1>4 DEF LockToWrite, Lock, Holders, TypeButWire, WireType
<1>5. CASE WriteMessage(r)
  <2>1. M(IF cid[r] = 0 THEN "notification" ELSE "request", cid[r]) \in Message
    BY DEF M, Message, TypeButWire
  <2>2. WireType'
    BY <1>5, <2>1, WriteType DEF WriteMessage
  <2>3. TypeButWire'
    BY <1>5 DEF WriteMessage, Unlock, Holders, TypeButWire
  <2>4. HasID'
    BY <1>5 DEF WriteMessage, TypeButWire
  <2>5. QED
    BY <2>2, <2>3, <2>4
<1>6. CASE WriteFails(r)
  BY <1>6 DEF WriteFails, Unlock, Holders, TypeButWire, WireType
<1>7. CASE ReceiveResponse(r)
  <2>1. TypeButWire'
    <3>1. cid[r] \in Ids
      BY <1>7 DEF ReceiveResponse, TypeButWire
    <3>2. QED
      BY <1>7, <3>1 DEF ReceiveResponse, TypeButWire
  <2>2. QED
    BY <1>7, <2>1 DEF ReceiveResponse, WireType
<1>8. CASE Unregister(r)
  BY <1>8 DEF Unregister, TypeButWire, WireType
<1>9. QED
  BY <1>2, <1>3, <1>4, <1>5, <1>6, <1>7, <1>8 DEF Caller

LEMMA LoopType ==
  ASSUME TypeInv, NEW s \in Sides, ReadLoop(s)
  PROVE  TypeInv'
<1> USE DEF TypeInv, HasID
<1>1. CASE ReadResponse(s)
  <2>1. WireType' /\ Head(wire[s]) \in Message
    BY <1>1, ReadType DEF ReadResponse
  <2>2. Head(wire[s]).id \in Ids \cup {0}
    BY <2>1 DEF Message
  <2>3. QED
    BY <1>1, <2>1, <2>2 DEF ReadResponse, TypeButWire
<1>2. CASE LookUp(s)
  BY <1>2 DEF LookUp, TypeButWire, WireType
<1>3. CASE Deliver(s)
  BY <1>3 DEF Deliver, TypeButWire, WireType
<1>4. CASE ReadRequest(s)
  <2>1. WireType' /\ Head(wire[s]) \in Message
    BY <1>4, ReadType DEF ReadRequest
  <2>2. Head(wire[s]).kind = "request" => Head(wire[s]).id \in Ids
    BY <2>1 DEF Message
  <2>3. QED
    BY <1>4, <2>1, <2>2 DEF ReadRequest, TypeButWire
<1>5. CASE Drain(s)
  BY <1>5 DEF Drain, TypeButWire, WireType
<1>6. CASE StopScanning(s) \/ EndLoop(s)
  BY <1>6 DEF StopScanning, EndLoop, TypeButWire, WireType
<1>7. QED
  BY <1>1, <1>2, <1>3, <1>4, <1>5, <1>6 DEF ReadLoop

LEMMA NextType == TypeInv /\ [Next]_vars => TypeInv'
<1> SUFFICES ASSUME TypeInv, [Next]_vars PROVE TypeInv'
  OBVIOUS
<1> USE DEF TypeInv, HasID
<1>1. ASSUME NEW r \in Callers,
             Register(r) \/ MarshalFails(r) \/ Caller(r) \/ CancelContext(r)
      PROVE  TypeInv'
  BY <1>1, CallerType
<1>2. ASSUME NEW s \in Sides, ReadLoop(s) PROVE TypeInv'
  BY <1>2, LoopType
<1>3. ASSUME NEW s \in Sides, NEW i \in Ids, ServeLocks(s, i) PROVE TypeInv'
  BY <1>3 DEF ServeLocks, Lock, Holders, TypeButWire, WireType
<1>4. ASSUME NEW s \in Sides, NEW i \in Ids, ServeWrites(s, i) PROVE TypeInv'
  <2>1. M("response", i) \in Message
    BY DEF M, Message
  <2>2. WireType'
    BY <1>4, <2>1, WriteType DEF ServeWrites, WireType
  <2>3. QED
    BY <1>4, <2>2 DEF ServeWrites, Unlock, Holders, TypeButWire
<1>5. ASSUME Close \/ \E s \in Sides : ScanFails(s) \/ CloseAfterDone(s) PROVE TypeInv'
  BY <1>5 DEF Close, ScanFails, CloseAfterDone, TypeButWire, WireType
<1>6. ASSUME NEW s \in Sides, NEW i \in Ids, StrayResponse(s, i) PROVE TypeInv'
  <2>1. M("response", i) \in Message
    BY DEF M, Message
  <2>2. WireType'
    BY <1>6, <2>1, WriteType DEF StrayResponse
  <2>3. stray' \in 0..MaxStray
    BY <1>6, BoundsAssumption DEF StrayResponse, TypeButWire
  <2>4. QED
    BY <1>6, <2>2, <2>3 DEF StrayResponse, TypeButWire
<1>7. CASE UNCHANGED vars
  BY <1>7 DEF vars, TypeButWire, WireType
<1>8. QED
  BY <1>1, <1>2, <1>3, <1>4, <1>5, <1>6, <1>7, StrayersAssumption DEF Next, Serve

-----------------------------------------------------------------------------
(* IDs and response channels. *)

LEMMA InitRpcInv == Init => RpcInv
BY CallersAssumption DEF Init, RpcInv, IdInv, BoxInv, OwnID

LEMMA NextIdInv == TypeInv /\ IdInv /\ [Next]_vars => IdInv'
<1> SUFFICES ASSUME TypeInv, IdInv, [Next]_vars PROVE IdInv'
  OBVIOUS
<1> USE CallersAssumption DEF IdInv, OwnID, TypeInv, TypeButWire, Ids
<1>1. ASSUME NEW r \in Callers, Register(r) PROVE IdInv'
  <2> DEFINE s == SideOf[r]
  <2>1. /\ cid' = [cid EXCEPT ![r] = nextID[s] + 1]
        /\ nextID' = [nextID EXCEPT ![s] = @ + 1]
        /\ pending' = [pending EXCEPT ![s] = @ \cup {nextID[s] + 1}]
    BY <1>1 DEF Register
  <2>2. \A q \in Callers : cid'[q] <= nextID'[SideOf[q]]
    <3> SUFFICES ASSUME NEW q \in Callers PROVE cid'[q] <= nextID'[SideOf[q]]
      OBVIOUS
    <3>1. s \in Sides /\ SideOf[q] \in Sides /\ nextID[s] \in Nat /\ nextID[SideOf[q]] \in Nat
      OBVIOUS
    <3>2. cid[q] <= nextID[SideOf[q]] /\ cid[q] \in Int
      BY BoundsAssumption
    <3>3. nextID'[SideOf[q]] = nextID[SideOf[q]] + (IF SideOf[q] = s THEN 1 ELSE 0)
      BY <2>1, <3>1
    <3>4. cid'[q] = IF q = r THEN nextID[s] + 1 ELSE cid[q]
      BY <2>1
    <3>5. QED
      BY <3>1, <3>2, <3>3, <3>4
  <2>3. \A t \in Sides : \A i \in pending'[t] : i <= nextID'[t]
    BY <2>1
  <2>4. OwnID'
    BY <2>1
  <2>5. QED
    BY <2>2, <2>3, <2>4
<1>2. ASSUME NEW r \in Callers,
             MarshalFails(r) \/ LockToWrite(r) \/ WriteMessage(r) \/ WriteFails(r)
             \/ ReceiveResponse(r) \/ ContextDone(r) \/ ConnectionDone(r) \/ CancelContext(r)
      PROVE  IdInv'
  BY <1>2 DEF MarshalFails, LockToWrite, WriteMessage, WriteFails, ReceiveResponse,
              ContextDone, ConnectionDone, CancelContext
<1>3. ASSUME NEW r \in Callers, Unregister(r) PROVE IdInv'
  BY <1>3 DEF Unregister
<1>4. ASSUME NEW s \in Sides,
             ReadResponse(s) \/ Deliver(s) \/ ReadRequest(s) \/ StopScanning(s) \/ EndLoop(s)
      PROVE  IdInv'
  BY <1>4 DEF ReadResponse, Deliver, ReadRequest, StopScanning, EndLoop
<1>5. ASSUME NEW s \in Sides, LookUp(s) PROVE IdInv'
  BY <1>5 DEF LookUp
<1>6. ASSUME NEW s \in Sides, Drain(s) PROVE IdInv'
  BY <1>6 DEF Drain
<1>7. ASSUME NEW s \in Sides, NEW i \in Ids,
             ServeLocks(s, i) \/ ServeWrites(s, i) \/ StrayResponse(s, i)
      PROVE  IdInv'
  BY <1>7 DEF ServeLocks, ServeWrites, StrayResponse
<1>8. ASSUME Close \/ UNCHANGED vars \/ \E s \in Sides : ScanFails(s) \/ CloseAfterDone(s)
      PROVE  IdInv'
  BY <1>8 DEF Close, ScanFails, CloseAfterDone, vars
<1>9. QED
  BY <1>1, <1>2, <1>3, <1>4, <1>5, <1>6, <1>7, <1>8, StrayersAssumption
  DEF Next, Caller, ReadLoop, Serve

LEMMA NextBoxInv == TypeInv /\ IdInv /\ BoxInv /\ [Next]_vars => BoxInv'
<1> SUFFICES ASSUME TypeInv, IdInv, BoxInv, [Next]_vars PROVE BoxInv'
  OBVIOUS
<1> USE CallersAssumption DEF BoxInv, TypeInv, TypeButWire, Ids
<1>1. ASSUME NEW r \in Callers, Register(r) PROVE BoxInv'
  BY <1>1 DEF Register
<1>2. ASSUME NEW r \in Callers,
             MarshalFails(r) \/ LockToWrite(r) \/ WriteMessage(r) \/ WriteFails(r)
             \/ ContextDone(r) \/ ConnectionDone(r) \/ CancelContext(r)
      PROVE  BoxInv'
  BY <1>2 DEF MarshalFails, LockToWrite, WriteMessage, WriteFails, ContextDone,
              ConnectionDone, CancelContext
<1>3. ASSUME NEW r \in Callers, ReceiveResponse(r) PROVE BoxInv'
  BY <1>3 DEF ReceiveResponse
<1>4. ASSUME NEW r \in Callers, Unregister(r) PROVE BoxInv'
  BY <1>4 DEF Unregister
<1>5. ASSUME NEW s \in Sides,
             ReadResponse(s) \/ ReadRequest(s) \/ StopScanning(s) \/ EndLoop(s)
      PROVE  BoxInv'
  BY <1>5 DEF ReadResponse, ReadRequest, StopScanning, EndLoop
<1>6. ASSUME NEW s \in Sides, LookUp(s) PROVE BoxInv'
  BY <1>6 DEF LookUp, IdInv
<1>7. ASSUME NEW s \in Sides, Deliver(s) PROVE BoxInv'
  BY <1>7 DEF Deliver
<1>8. ASSUME NEW s \in Sides, Drain(s) PROVE BoxInv'
  BY <1>8 DEF Drain, IdInv
<1>9. ASSUME NEW s \in Sides, NEW i \in Ids,
             ServeLocks(s, i) \/ ServeWrites(s, i) \/ StrayResponse(s, i)
      PROVE  BoxInv'
  BY <1>9 DEF ServeLocks, ServeWrites, StrayResponse
<1>10. ASSUME Close \/ UNCHANGED vars \/ \E s \in Sides : ScanFails(s) \/ CloseAfterDone(s)
       PROVE  BoxInv'
  BY <1>10 DEF Close, ScanFails, CloseAfterDone, vars
<1>11. QED
  BY <1>1, <1>2, <1>3, <1>4, <1>5, <1>6, <1>7, <1>8, <1>9, <1>10,
     StrayersAssumption
  DEF Next, Caller, ReadLoop, Serve

LEMMA RpcInvariant == Spec => [](TypeInv /\ RpcInv)
<1>1. Init => TypeInv /\ RpcInv
  BY InitType, InitRpcInv
<1>2. TypeInv /\ RpcInv /\ [Next]_vars => (TypeInv /\ RpcInv)'
  BY NextType, NextIdInv, NextBoxInv DEF RpcInv
<1>3. QED
  BY <1>1, <1>2, PTL DEF Spec

\* Both ends keep their types and no wire holds more than it can.
THEOREM RpcTypeCorrect == Spec => []TypeOK
<1>1. TypeInv => TypeOK
  BY DEF TypeInv, TypeButWire, WireType, TypeOK
<1>2. QED
  BY <1>1, RpcInvariant, PTL

\* A caller receives the response to its own request only: the IDs in use at one
\* end are distinct.
THEOREM IDsDistinct == Spec => []OwnID
<1>1. RpcInv => OwnID
  BY DEF RpcInv, IdInv
<1>2. QED
  BY <1>1, RpcInvariant, PTL

\* The read loop waits for no caller: the channel it sends a response on, at any
\* time and whatever the peer sent before, has room.
THEOREM ReadLoopNeverBlocked == Spec => []NeverBlocked
<1>1. TypeInv /\ RpcInv => NeverBlocked
  BY DEF TypeInv, TypeButWire, RpcInv, BoxInv, NeverBlocked
<1>2. QED
  BY <1>1, RpcInvariant, PTL
=============================================================================
