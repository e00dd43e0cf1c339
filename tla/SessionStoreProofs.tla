--------------------------- MODULE SessionStoreProofs ---------------------------
(***************************************************************************)
(* Theorems about SessionStore for any number of run commands at once, any *)
(* sets of IDs and of agents, and files that fail at any step.             *)
(***************************************************************************)
EXTENDS SessionStore, TLAPS

Points == {"start", "agent", "open", "save", "write", "prompt", "ran", "ended"}

\* The IDs that are given away are made or named by somebody, never a mixture.
TypeInv ==
    /\ active \in Sessions \cup {None}
    /\ pc \in [Procs -> Points]
    /\ asked \in [Procs -> Agents \cup {None}]
    /\ agent \in [Procs -> Agents \cup {None}]
    /\ sid \in [Procs -> Sessions \cup {None}]
    /\ begun \in [Procs -> Sessions \cup {None}]
    /\ meta \in [Sessions -> Agents \cup {None, "torn"}]
    /\ served \in [Procs -> [session : Sessions \cup {None}, agent : Agents \cup {None}]]
    /\ used \in SUBSET (Generated \cup Named)
    /\ saved \in BOOLEAN /\ cut \in BOOLEAN /\ overlap \in BOOLEAN

\* While no saves of IDs of different length have overlapped there is no mixture, those
\* that save now have IDs of one length, and what one of them may write over is not longer.
MixInv ==
    ~overlap =>
        /\ active # Mixed
        /\ \A p \in Procs : sid[p] # Mixed
        /\ \A p, q \in Saving : sid[p] \in Named <=> sid[q] \in Named
        /\ \A p \in Saving : active \in Generated => sid[p] \notin Named

\* Once something was saved the file is empty only within a save, or since one that was
\* cut short; a command that has no session is excused, and one that saves has a session.
EmptyInv ==
    /\ active = None /\ saved /\ ~cut => Saving # {}
    /\ \A p \in Procs :
         /\ pc[p] \in {"agent", "open"} /\ sid[p] = None => p \in excused
         /\ pc[p] \in {"save", "write"} => sid[p] # None
    /\ made \subseteq excused

\* An agent that a process may have settled on.
Reason(p, a) ==
    IF asked[p] # None THEN a = asked[p] ELSE a = Default \/ <<begun[p], a>> \in given

\* What the metadata name was set by somebody; a command that has not opened its session
\* set out with the one it has, or has none; from then on the agent it settled on, and that
\* of a session it made, has a reason.
AgentInv ==
    /\ \A s \in Sessions : meta[s] \in Agents => <<s, meta[s]>> \in given
    /\ \A p \in Procs :
        /\ pc[p] \in {"start", "agent", "open"} => p \notin made
        /\ pc[p] = "agent" => begun[p] = sid[p]
        /\ pc[p] = "open" => Reason(p, agent[p])
        /\ pc[p] \in {"save", "write", "prompt", "ran"} /\ p \in made => Reason(p, served[p].agent)
    /\ made \subseteq Procs

StoreInv == TypeInv /\ MixInv /\ EmptyInv /\ AgentInv

-----------------------------------------------------------------------------
(* Types. *)

LEMMA InitTypeInv == Init => TypeInv
<1> SUFFICES ASSUME Init PROVE TypeInv
  OBVIOUS
<1>1. pc \in [Procs -> Points]
  BY DEF Init, Points
<1>2. /\ asked \in [Procs -> Agents \cup {None}]
      /\ agent \in [Procs -> Agents \cup {None}]
      /\ sid \in [Procs -> Sessions \cup {None}]
      /\ begun \in [Procs -> Sessions \cup {None}]
      /\ meta \in [Sessions -> Agents \cup {None, "torn"}]
  BY DEF Init
<1>3. served \in [Procs -> [session : Sessions \cup {None}, agent : Agents \cup {None}]]
  BY DEF Init
<1>4. /\ active \in Sessions \cup {None} /\ used \in SUBSET (Generated \cup Named)
      /\ saved \in BOOLEAN /\ cut \in BOOLEAN /\ overlap \in BOOLEAN
  BY DEF Init
<1>5. QED
  BY <1>1, <1>2, <1>3, <1>4 DEF TypeInv

LEMMA RunTypeInv ==
  ASSUME TypeInv, NEW p \in Procs, Run(p)
  PROVE  TypeInv'
<1> USE DEF Go, store, saves, history
<1>0. pc' \in [Procs -> Points]
  BY DEF TypeInv, Points, Run, Start, GetDefaultAgent, LoadSession, LoadFails,
         NewSession, OpenActive, WriteActive, SaveFails, Prompt, GiveUp
<1>1. CASE Start(p)
  <2>1. PICK o \in Named \cup used \cup {None}, a \in Agents \cup {None},
             s \in Sessions \cup {None} :
          /\ asked' = [asked EXCEPT ![p] = a]
          /\ used' = used \cup ({o} \ {None})
          /\ sid' = [sid EXCEPT ![p] = s]
          /\ begun' = [begun EXCEPT ![p] = s]
    BY <1>1 DEF Start, TypeInv, Sessions
  <2>2. o \in Generated \cup Named \cup {None}
    BY DEF TypeInv
  <2>3. QED
    BY <1>0, <1>1, <2>1, <2>2 DEF Start, TypeInv
<1>3. CASE GetDefaultAgent(p)
  <2>1. agent' \in [Procs -> Agents \cup {None}]
    BY <1>3, AgentsAssumption DEF GetDefaultAgent, TypeInv
  <2>2. QED
    BY <1>0, <1>3, <2>1 DEF GetDefaultAgent, TypeInv
<1>4. CASE LoadSession(p)
  <2>1. [session |-> sid[p], agent |-> Default] \in [session : Sessions \cup {None}, agent : Agents \cup {None}]
    BY AgentsAssumption DEF TypeInv
  <2>2. QED
    BY <1>0, <1>4, <2>1 DEF LoadSession, TypeInv
<1>5. CASE NewSession(p)
  <2>1. PICK s \in Generated \ used :
          /\ sid' = [sid EXCEPT ![p] = s]
          /\ served' = [served EXCEPT ![p] = [session |-> s, agent |-> agent[p]]]
          /\ used' = used \cup {s}
    BY <1>5 DEF NewSession
  <2>2. s \in Sessions
        /\ [session |-> s, agent |-> agent[p]] \in [session : Sessions \cup {None}, agent : Agents \cup {None}]
    BY DEF TypeInv, Sessions
  <2>3. QED
    BY <1>0, <1>5, <2>1, <2>2 DEF NewSession, TypeInv
<1>6. CASE OpenActive(p)
  BY <1>0, <1>6 DEF OpenActive, TypeInv
<1>7. CASE WriteActive(p)
  BY <1>0, <1>7 DEF WriteActive, TypeInv, Sessions
<1>8. CASE SaveFails(p) \/ Prompt(p) \/ GiveUp(p) \/ LoadFails(p)
  BY <1>0, <1>8 DEF SaveFails, Prompt, GiveUp, LoadFails, TypeInv
<1>9. QED
  BY <1>1, <1>3, <1>4, <1>5, <1>6, <1>7, <1>8 DEF Run

\* What SetDefaultAgent and Delete change, no run command reads but for its agent.
LEMMA ManageKeeps ==
  ASSUME NEW s \in used, (\E a \in Agents : SetDefaultAgent(s, a)) \/ Delete(s)
  PROVE  UNCHANGED <<active, pc, asked, agent, sid, served, used, history>>
BY DEF SetDefaultAgent, Delete

\* They write an agent, which then was set, or something that is none.
LEMMA ManageMeta ==
  ASSUME TypeInv, NEW s \in used, (\E a \in Agents : SetDefaultAgent(s, a)) \/ Delete(s)
  PROVE  /\ given \subseteq given'
         /\ \E m \in Agents \cup {None, "torn"} :
              /\ meta' = [meta EXCEPT ![s] = m]
              /\ m \in Agents => m = meta[s] \/ <<s, m>> \in given'
<1>0. s \in Sessions /\ meta \in [Sessions -> Agents \cup {None, "torn"}]
  BY DEF TypeInv, Sessions
<1>1. ASSUME NEW a \in Agents, SetDefaultAgent(s, a)
      PROVE  /\ given \subseteq given'
             /\ \E m \in Agents \cup {None, "torn"} :
                  /\ meta' = [meta EXCEPT ![s] = m]
                  /\ m \in Agents => <<s, m>> \in given'
  <2>1. PICK m \in {a, "torn"} : meta' = [meta EXCEPT ![s] = m]
    BY <1>1 DEF SetDefaultAgent
  <2>2. m \in Agents => m = a
    BY AgentsAssumption
  <2>3. given' = given \cup {<<s, a>>}
    BY <1>1 DEF SetDefaultAgent
  <2>4. QED
    BY <2>1, <2>2, <2>3
<1>2. CASE Delete(s)
  <2>1. given' = given /\ (meta' = [meta EXCEPT ![s] = None] \/ meta' = meta)
    BY <1>2 DEF Delete
  <2>2. meta = [meta EXCEPT ![s] = meta[s]]
    BY <1>0
  <2>3. None \notin Agents
    BY IDsAssumption
  <2>4. QED
    BY <1>0, <2>1, <2>2, <2>3
<1>3. QED
  BY <1>1, <1>2

LEMMA NextTypeInv == TypeInv /\ [Next]_vars => TypeInv'
<1> SUFFICES ASSUME TypeInv, [Next]_vars PROVE TypeInv'
  OBVIOUS
<1>1. CASE \E p \in Procs : Run(p)
  BY <1>1, RunTypeInv
<1>2. ASSUME NEW s \in used, (\E a \in Agents : SetDefaultAgent(s, a)) \/ Delete(s)
      PROVE  TypeInv'
  <2>1. UNCHANGED <<active, pc, asked, agent, sid, served, used, history>>
    BY <1>2, ManageKeeps
  <2>2. meta' \in [Sessions -> Agents \cup {None, "torn"}]
    BY <1>2, ManageMeta DEF TypeInv
  <2>3. QED
    BY <2>1, <2>2 DEF TypeInv, history, saves
<1>3. CASE UNCHANGED vars
  BY <1>3 DEF TypeInv, vars, store, history, saves
<1>4. QED
  BY <1>1, <1>2, <1>3 DEF Next

-----------------------------------------------------------------------------
(* What active_session holds. *)

LEMMA InitMixInv == Init => MixInv
BY IDsAssumption DEF Init, MixInv, Saving, Sessions

\* Who saves is changed only by the command that takes a step.
LEMMA OtherSaving ==
  ASSUME TypeInv, NEW p \in Procs, NEW from, NEW to, Go(p, from, to)
  PROVE  /\ Saving' \ {p} = Saving \ {p}
         /\ p \in Saving' <=> to = "write"
         /\ p \in Saving <=> from = "write"
BY DEF TypeInv, Go, Saving

LEMMA RunMixInv ==
  ASSUME TypeInv, MixInv, NEW p \in Procs, Run(p)
  PROVE  MixInv'
<1> SUFFICES ASSUME ~overlap' PROVE MixInv'
  BY DEF MixInv
<1> USE IDsAssumption DEF saves, history
<1>0. ~overlap /\ overlap' = FALSE
  BY DEF Run, Start, GetDefaultAgent, LoadSession, LoadFails, NewSession, OpenActive,
         WriteActive, SaveFails, Prompt, GiveUp, TypeInv
<1>1. /\ active # Mixed
      /\ \A q \in Procs : sid[q] # Mixed
      /\ \A q, r \in Saving : sid[q] \in Named <=> sid[r] \in Named
      /\ \A q \in Saving : active \in Generated => sid[q] \notin Named
  BY <1>0 DEF MixInv
<1>2. CASE Start(p) \/ GetDefaultAgent(p) \/ LoadSession(p) \/ LoadFails(p) \/ NewSession(p)
  <2>1. /\ active' = active /\ Saving' = Saving /\ p \notin Saving
        /\ \A q \in Procs \ {p} : sid'[q] = sid[q]
    BY <1>2, OtherSaving DEF Start, GetDefaultAgent, LoadSession, LoadFails, NewSession,
       TypeInv, Go, Saving
  <2>2. sid'[p] # Mixed
    <3>1. CASE Start(p)
      <4>1. sid'[p] \in Named \cup used \cup {None, active}
        BY <3>1 DEF Start, TypeInv
      <4>2. QED
        BY <1>1, <4>1 DEF TypeInv, Sessions
    <3>2. QED
      BY <1>1, <1>2, <3>1 DEF GetDefaultAgent, LoadSession, LoadFails, NewSession, TypeInv, Sessions
  <2>3. Saving \subseteq Procs \ {p}
    BY <2>1 DEF Saving
  <2>4. QED
    BY <1>1, <2>1, <2>2, <2>3 DEF MixInv
<1>3. CASE OpenActive(p)
  <2>1. /\ active' = None /\ sid' = sid /\ Go(p, "save", "write")
        /\ \A q \in Saving : sid[q] \in Named <=> sid[p] \in Named
    BY <1>0, <1>3 DEF OpenActive
  <2>2. Saving' = Saving \cup {p}
    BY <2>1, OtherSaving
  <2>3. QED
    BY <1>1, <2>1, <2>2 DEF MixInv, Sessions
<1>4. CASE WriteActive(p)
  <2>1. sid' = sid /\ p \in Saving /\ Saving' \subseteq Saving
    BY <1>4, OtherSaving DEF WriteActive
  <2>2. active' = sid[p]
    BY <1>1, <1>4, <2>1 DEF WriteActive
  <2>3. \A q \in Saving' : active' \in Generated => sid[q] \notin Named
    BY <1>1, <2>1, <2>2
  <2>4. QED
    BY <1>1, <2>1, <2>2, <2>3 DEF MixInv, Saving
<1>5. CASE SaveFails(p) \/ Prompt(p) \/ GiveUp(p)
  <2>1. UNCHANGED <<active, sid>> /\ Saving' \subseteq Saving
    BY <1>5 DEF SaveFails, Prompt, GiveUp, Go, Saving, TypeInv
  <2>2. QED
    BY <1>1, <2>1 DEF MixInv
<1>6. QED
  BY <1>2, <1>3, <1>4, <1>5 DEF Run

LEMMA NextMixInv == TypeInv /\ MixInv /\ [Next]_vars => MixInv'
<1> SUFFICES ASSUME TypeInv, MixInv, [Next]_vars PROVE MixInv'
  OBVIOUS
<1>1. CASE \E p \in Procs : Run(p)
  BY <1>1, RunMixInv
<1>2. CASE UNCHANGED <<active, pc, asked, agent, sid, served, used, history>>
  BY <1>2 DEF MixInv, Saving, history, saves
<1>3. QED
  BY <1>1, <1>2, ManageKeeps DEF Next, vars

LEMMA InitEmptyInv == Init => EmptyInv
BY DEF Init, EmptyInv

LEMMA RunEmptyInv ==
  ASSUME TypeInv, EmptyInv, NEW p \in Procs, Run(p)
  PROVE  EmptyInv'
<1> USE IDsAssumption DEF saves, history
<1>1. CASE GetDefaultAgent(p)
  <2>1. /\ UNCHANGED <<active, sid, saves, excused, made>>
        /\ pc[p] = "agent" /\ Saving' = Saving
        /\ \A q \in Procs \ {p} : pc'[q] = pc[q]
        /\ pc'[p] = "open"
    BY <1>1 DEF GetDefaultAgent, Go, Saving, TypeInv
  <2>2. QED
    BY <2>1 DEF EmptyInv
<1>2. CASE Start(p)
  <2>1. /\ UNCHANGED <<active, saves, made>> /\ pc'[p] = "agent" /\ Saving' = Saving
        /\ \A q \in Procs \ {p} : pc'[q] = pc[q] /\ sid'[q] = sid[q]
        /\ excused \subseteq excused'
    BY <1>2 DEF Start, Go, Saving, TypeInv
  <2>2. sid'[p] = None => p \in excused'
    BY <1>2 DEF Start, EmptyInv, TypeInv
  <2>3. QED
    BY <2>1, <2>2 DEF EmptyInv
<1>8. CASE LoadFails(p)
  <2>1. /\ UNCHANGED <<active, saves, made, pc>> /\ pc[p] = "open" /\ Saving' = Saving
        /\ \A q \in Procs \ {p} : sid'[q] = sid[q]
        /\ excused' = excused \cup {p}
    BY <1>8 DEF LoadFails, Saving, TypeInv
  <2>2. QED
    BY <2>1 DEF EmptyInv
<1>3. CASE LoadSession(p) \/ NewSession(p)
  <2>1. /\ UNCHANGED <<active, saves, excused>> /\ pc[p] = "open" /\ pc'[p] = "save" /\ Saving' = Saving
        /\ \A q \in Procs \ {p} : pc'[q] = pc[q] /\ sid'[q] = sid[q]
    BY <1>3 DEF LoadSession, NewSession, Go, Saving, TypeInv
  <2>2. sid'[p] # None
    BY <1>3 DEF LoadSession, NewSession, TypeInv, Sessions
  <2>3. made' \subseteq excused
    BY <1>3, <2>1 DEF LoadSession, NewSession, EmptyInv
  <2>4. QED
    BY <2>1, <2>2, <2>3 DEF EmptyInv
<1>4. CASE OpenActive(p)
  <2>1. /\ UNCHANGED <<sid, saved, cut, excused, made>> /\ pc[p] = "save" /\ pc'[p] = "write"
        /\ p \in Saving'
        /\ \A q \in Procs \ {p} : pc'[q] = pc[q]
    BY <1>4 DEF OpenActive, Go, Saving, TypeInv
  <2>2. QED
    BY <2>1 DEF EmptyInv
<1>5. CASE WriteActive(p)
  <2>1. /\ UNCHANGED <<sid, excused, made>> /\ pc[p] = "write" /\ pc'[p] = "prompt"
        /\ \A q \in Procs \ {p} : pc'[q] = pc[q]
    BY <1>5 DEF WriteActive, Go, TypeInv
  <2>2. active' # None
    BY <1>5, <2>1 DEF WriteActive, EmptyInv, Sessions
  <2>3. QED
    BY <2>1, <2>2 DEF EmptyInv
<1>6. CASE SaveFails(p) \/ Prompt(p) \/ GiveUp(p)
  <2>1. /\ UNCHANGED <<active, sid, saved, excused, made>> /\ pc'[p] \in {"prompt", "ran", "ended"}
        /\ \A q \in Procs \ {p} : pc'[q] = pc[q]
        /\ cut' = (cut \/ (pc[p] = "write" /\ active = None))
    BY <1>6 DEF SaveFails, Prompt, GiveUp, Go, TypeInv
  <2>2. pc[p] # "write" => Saving' = Saving
    BY <2>1 DEF Saving
  <2>3. QED
    BY <2>1, <2>2 DEF EmptyInv, TypeInv
<1>7. QED
  BY <1>1, <1>2, <1>3, <1>4, <1>5, <1>6, <1>8 DEF Run

LEMMA NextEmptyInv == TypeInv /\ EmptyInv /\ [Next]_vars => EmptyInv'
<1> SUFFICES ASSUME TypeInv, EmptyInv, [Next]_vars PROVE EmptyInv'
  OBVIOUS
<1>1. CASE \E p \in Procs : Run(p)
  BY <1>1, RunEmptyInv
<1>2. CASE UNCHANGED <<active, pc, asked, agent, sid, served, used, history>>
  BY <1>2 DEF EmptyInv, Saving, history, saves
<1>3. QED
  BY <1>1, <1>2, ManageKeeps DEF Next, vars

-----------------------------------------------------------------------------
(* The agent of a run. *)

LEMMA InitAgentInv == Init => AgentInv
BY IDsAssumption DEF Init, AgentInv

LEMMA RunAgentInv ==
  ASSUME TypeInv, AgentInv, NEW p \in Procs, Run(p)
  PROVE  AgentInv'
<1> USE DEF Go, TypeInv, history, saves, store
<1>1. UNCHANGED <<meta, given>>
  BY DEF Run, Start, GetDefaultAgent, LoadSession, LoadFails, NewSession, OpenActive,
         WriteActive, SaveFails, Prompt, GiveUp
<1>2. \A q \in Procs \ {p} :
        /\ UNCHANGED <<pc[q], asked[q], agent[q], served[q], begun[q], sid[q]>>
        /\ q \in made' <=> q \in made
  BY DEF Run, Start, GetDefaultAgent, LoadSession, LoadFails, NewSession, OpenActive,
         WriteActive, SaveFails, Prompt, GiveUp
<1>3. made' \subseteq made \cup {p}
  BY DEF Run, Start, GetDefaultAgent, LoadSession, LoadFails, NewSession, OpenActive,
         WriteActive, SaveFails, Prompt, GiveUp
<1>4. SUFFICES /\ pc'[p] \in {"start", "agent", "open"} => p \notin made'
               /\ pc'[p] = "agent" => begun'[p] = sid'[p]
               /\ pc'[p] = "open" => Reason(p, agent[p])'
               /\ pc'[p] \in {"save", "write", "prompt", "ran"} /\ p \in made' => Reason(p, served[p].agent)'
  <2>1. \A q \in Procs \ {p} : /\ Reason(q, agent[q])' <=> Reason(q, agent[q])
                               /\ Reason(q, served[q].agent)' <=> Reason(q, served[q].agent)
    BY <1>1, <1>2 DEF Reason
  <2>2. QED
    BY <1>1, <1>2, <1>3, <1>4, <2>1 DEF AgentInv
<1>5. CASE Start(p)
  <2>1. made' = made /\ pc[p] = "start" /\ pc'[p] = "agent" /\ begun'[p] = sid'[p]
    BY <1>5 DEF Start
  <2>2. QED
    BY <2>1 DEF AgentInv
<1>6. CASE GetDefaultAgent(p)
  <2>1. /\ UNCHANGED <<made, asked, begun>> /\ pc[p] = "agent" /\ pc'[p] = "open"
    BY <1>6 DEF GetDefaultAgent
  <2>2. \/ asked[p] # None /\ agent'[p] = asked[p]
        \/ asked[p] = None /\ agent'[p] = Default
        \/ asked[p] = None /\ sid[p] # None /\ meta[sid[p]] \in Agents /\ agent'[p] = meta[sid[p]]
    BY <1>6 DEF GetDefaultAgent
  <2>3. begun[p] = sid[p] /\ (sid[p] # None => sid[p] \in Sessions)
    BY <2>1 DEF AgentInv
  <2>4. Reason(p, agent[p])'
    BY <1>1, <2>1, <2>2, <2>3 DEF AgentInv, Reason
  <2>5. QED
    BY <2>1, <2>4 DEF AgentInv
<1>7. CASE LoadSession(p)
  <2>1. made' = made /\ pc[p] = "open" /\ pc'[p] = "save"
    BY <1>7 DEF LoadSession
  <2>2. QED
    BY <2>1 DEF AgentInv
<1>8. CASE LoadFails(p)
  <2>1. UNCHANGED <<made, asked, agent, begun, pc>> /\ pc[p] = "open"
    BY <1>8 DEF LoadFails
  <2>2. QED
    BY <1>1, <2>1 DEF AgentInv, Reason
<1>9. CASE NewSession(p)
  <2>1. /\ UNCHANGED <<asked, agent, begun>> /\ pc[p] = "open" /\ pc'[p] = "save"
        /\ served'[p].agent = agent[p]
    BY <1>9 DEF NewSession
  <2>2. QED
    BY <1>1, <2>1 DEF AgentInv, Reason
<1>10. CASE OpenActive(p) \/ WriteActive(p) \/ SaveFails(p) \/ Prompt(p) \/ GiveUp(p)
  <2>1. UNCHANGED <<made, served, asked, agent, begun>>
        /\ \/ pc'[p] = "ended"
           \/ /\ pc[p] \in {"save", "write", "prompt"} /\ pc'[p] \in {"write", "prompt", "ran"}
    BY <1>10 DEF OpenActive, WriteActive, SaveFails, Prompt, GiveUp
  <2>2. QED
    BY <1>1, <2>1 DEF AgentInv, Reason
<1>11. QED
  BY <1>5, <1>6, <1>7, <1>8, <1>9, <1>10 DEF Run

LEMMA NextAgentInv == TypeInv /\ AgentInv /\ [Next]_vars => AgentInv'
<1> SUFFICES ASSUME TypeInv, AgentInv, [Next]_vars PROVE AgentInv'
  OBVIOUS
<1>1. CASE \E p \in Procs : Run(p)
  BY <1>1, RunAgentInv
<1>2. ASSUME NEW s \in used, (\E a \in Agents : SetDefaultAgent(s, a)) \/ Delete(s)
      PROVE  AgentInv'
  <2>1. UNCHANGED <<pc, asked, agent, sid, served, begun, made>>
    BY <1>2, ManageKeeps DEF history
  <2>2. PICK m \in Agents \cup {None, "torn"} :
          /\ meta' = [meta EXCEPT ![s] = m]
          /\ m \in Agents => m = meta[s] \/ <<s, m>> \in given'
    BY <1>2, ManageMeta
  <2>3. given \subseteq given'
    BY <1>2, ManageMeta
  <2>4. \A t \in Sessions : meta'[t] \in Agents => <<t, meta'[t]>> \in given'
    BY <2>2, <2>3 DEF AgentInv, TypeInv
  <2>5. \A q \in Procs : /\ Reason(q, agent[q]) => Reason(q, agent[q])'
                         /\ Reason(q, served[q].agent) => Reason(q, served[q].agent)'
    BY <2>1, <2>3 DEF Reason
  <2>6. QED
    BY <2>1, <2>4, <2>5 DEF AgentInv
<1>3. CASE UNCHANGED vars
  BY <1>3 DEF AgentInv, Reason, vars, store, history
<1>4. QED
  BY <1>1, <1>2, <1>3 DEF Next

-----------------------------------------------------------------------------
(* The theorems. *)

LEMMA StoreAlways == Spec => []StoreInv
<1>1. Init => StoreInv
  BY InitTypeInv, InitMixInv, InitEmptyInv, InitAgentInv DEF StoreInv
<1>2. StoreInv /\ [Next]_vars => StoreInv'
  BY NextTypeInv, NextMixInv, NextEmptyInv, NextAgentInv DEF StoreInv
<1>3. QED
  BY <1>1, <1>2, PTL DEF Spec

\* saveActiveSession (internal/cli/root.go) leaves a mixture of two IDs only when saves of
\* IDs of different length overlapped.
THEOREM MixedOnlyByOverlap == Spec => []ActiveIsSomeones
<1>1. StoreInv => ActiveIsSomeones
  BY DEF StoreInv, MixInv, ActiveIsSomeones, TypeInv
<1>2. QED
  BY <1>1, StoreAlways, PTL

\* A run command makes a session of its own only if nothing was saved before, if it read the
\* file within a save or after one that was cut short or could not read it (loadActiveSession,
\* internal/cli/root.go), or if its session/load failed (internal/cli/run.go).
THEOREM SessionsGoOn == Spec => []ForgottenOnlyForCause
<1>1. StoreInv => ForgottenOnlyForCause
  BY DEF StoreInv, EmptyInv, ForgottenOnlyForCause
<1>2. QED
  BY <1>1, StoreAlways, PTL

\* The agent of a session that a run makes was given with --agent, or is the default agent,
\* or was set for the session the run set out with and could not load, whatever is done to
\* the metadata between the steps of the run (internal/cli/run.go).
THEOREM AgentOfNewSessions == Spec => []AgentOfNewHasReason
<1>1. StoreInv => AgentOfNewHasReason
  BY DEF StoreInv, AgentInv, Reason, AgentOfNewHasReason
<1>2. QED
  BY <1>1, StoreAlways, PTL

=============================================================================
