---------------------------- MODULE DaemonProofs ----------------------------
(***************************************************************************)
(* Theorems about Daemon, for any number of processes and connections.     *)
(***************************************************************************)
EXTENDS Daemon, TLAPS

LEMMA TypeInit == Init => TypeOK
<1>1. HAVE Init
<1>2. QED  BY <1>1, NoneAssumption DEF Init, TypeOK, Phases

LEMMA TypeStep == TypeOK /\ [Next]_vars => TypeOK'
<1> SUFFICES ASSUME TypeOK, [Next]_vars PROVE TypeOK'
  OBVIOUS
<1> USE NoneAssumption, ClientsAssumption DEF TypeOK, Phases, clientVars, history
<1>1. ASSUME NEW s \in Servers, Serve(s) \/ ServeInForeground(s) PROVE TypeOK'
  BY <1>1 DEF Serve, ServeInForeground, Launch, Others, Alive
<1>2. ASSUME NEW s \in Servers, Listen(s) PROVE TypeOK'
  BY <1>2 DEF Listen
<1>3. ASSUME NEW s \in Servers, WritePIDFile(s) \/ AcceptConnections(s) \/ WaitForEnd(s)
      PROVE TypeOK'
  BY <1>3 DEF WritePIDFile, AcceptConnections, WaitForEnd
<1>4. ASSUME NEW s \in Servers, SeeSignal(s) PROVE TypeOK'
  BY <1>4 DEF SeeSignal, CloseListener
<1>5. ASSUME NEW s \in Servers, DrainDone(s) \/ DrainTimeout(s) PROVE TypeOK'
  BY <1>5 DEF DrainDone, DrainTimeout
<1>6. ASSUME NEW s \in Servers, RemovePIDFile(s) PROVE TypeOK'
  BY <1>6 DEF RemovePIDFile, Vanish
<1>7. ASSUME NEW s \in Servers, Signal(s) PROVE TypeOK'
  BY <1>7 DEF Signal
<1>8. ASSUME NEW s \in Servers, Kill(s) PROVE TypeOK'
  BY <1>8 DEF Kill, Vanish
<1>9. ASSUME NEW c \in Clients, Dial(c) PROVE TypeOK'
  BY <1>9 DEF Dial
<1>10. ASSUME NEW c \in Clients, Accept(c) \/ HandleConnection(c) \/ Leave(c) PROVE TypeOK'
  BY <1>10 DEF Accept, HandleConnection, Leave
<1>11. ASSUME NEW c \in Clients, AskShutdown(c) PROVE TypeOK'
  BY <1>11 DEF AskShutdown
<1>12. ASSUME NEW c \in Clients, OfferShutdown(c) PROVE TypeOK'
  BY <1>12 DEF OfferShutdown, CloseListener
<1>13. CASE UNCHANGED vars
  BY <1>13 DEF vars
<1> QED
  BY <1>1, <1>2, <1>3, <1>4, <1>5, <1>6, <1>7, <1>8, <1>9, <1>10, <1>11, <1>12, <1>13
  DEF Next, Server, Connection

\* The control points and the files of Daemon stay among those it declares.
THEOREM DaemonTypeCorrect == Spec => []TypeOK
<1>1. QED  BY TypeInit, TypeStep, PTL DEF Spec

-----------------------------------------------------------------------------
LEMMA DaemonInvInit == Init => DaemonInv
<1>1. QED  BY NoneAssumption 
   DEF Init, DaemonInv, ConnInv, ListenerServes, FileInv, KnownInv, Alive, Named

\* The address and the connections: the two parts that lean on one another, since a
\* shutdown closes the listener of the process its connection goes to.
LEMMA ListenerStep ==
    TypeOK /\ ConnInv /\ ListenerServes /\ [Next]_vars => ConnInv' /\ ListenerServes'
<1> SUFFICES ASSUME TypeOK, ConnInv, ListenerServes, [Next]_vars
             PROVE  ConnInv' /\ ListenerServes'
  OBVIOUS
<1> USE NoneAssumption DEF TypeOK, ConnInv, ListenerServes, clientVars, history
<1>1. ASSUME NEW s \in Servers, Serve(s) \/ ServeInForeground(s)
      PROVE ConnInv' /\ ListenerServes'
  BY <1>1 DEF Serve, ServeInForeground, Launch, Others, Alive
<1>2. ASSUME NEW s \in Servers, Listen(s) PROVE ConnInv' /\ ListenerServes'
  BY <1>2 DEF Listen
<1>3. ASSUME NEW s \in Servers, WritePIDFile(s) \/ AcceptConnections(s) \/ WaitForEnd(s)
      PROVE ConnInv' /\ ListenerServes'
  BY <1>3 DEF WritePIDFile, AcceptConnections, WaitForEnd
<1>4. ASSUME NEW s \in Servers, SeeSignal(s) PROVE ConnInv' /\ ListenerServes'
  BY <1>4 DEF SeeSignal, CloseListener
<1>5. ASSUME NEW s \in Servers, DrainDone(s) \/ DrainTimeout(s)
      PROVE ConnInv' /\ ListenerServes'
  BY <1>5 DEF DrainDone, DrainTimeout
<1>6. ASSUME NEW s \in Servers, RemovePIDFile(s) PROVE ConnInv' /\ ListenerServes'
  BY <1>6 DEF RemovePIDFile, Vanish
<1>7. ASSUME NEW s \in Servers, Signal(s) PROVE ConnInv' /\ ListenerServes'
  BY <1>7 DEF Signal
<1>8. ASSUME NEW s \in Servers, Kill(s) PROVE ConnInv' /\ ListenerServes'
  BY <1>8 DEF Kill, Vanish, Alive
<1>9. ASSUME NEW c \in Clients, Dial(c) PROVE ConnInv' /\ ListenerServes'
  BY <1>9 DEF Dial
<1>10. ASSUME NEW c \in Clients, Accept(c) \/ HandleConnection(c) \/ Leave(c)
       PROVE ConnInv' /\ ListenerServes'
  BY <1>10 DEF Accept, HandleConnection, Leave
<1>11. ASSUME NEW c \in Clients, AskShutdown(c) PROVE ConnInv' /\ ListenerServes'
  BY <1>11 DEF AskShutdown
<1>12. ASSUME NEW c \in Clients, OfferShutdown(c) PROVE ConnInv' /\ ListenerServes'
  BY <1>12 DEF OfferShutdown, CloseListener
<1>13. CASE UNCHANGED vars
  BY <1>13 DEF vars
<1> QED
  BY <1>1, <1>2, <1>3, <1>4, <1>5, <1>6, <1>7, <1>8, <1>9, <1>10, <1>11, <1>12, <1>13
  DEF Next, Server, Connection

\* Only an end of its own takes a process out of the file's reach, and that end
\* removes the file, or notes that it could not.
LEMMA FileStep == TypeOK /\ ConnInv /\ FileInv /\ [Next]_vars => FileInv'
<1> SUFFICES ASSUME TypeOK, ConnInv, FileInv, [Next]_vars PROVE FileInv'
  OBVIOUS
<1> USE NoneAssumption DEF TypeOK, FileInv, Named, clientVars, history
<1>1. ASSUME NEW s \in Servers, Serve(s) \/ ServeInForeground(s) PROVE FileInv'
  BY <1>1 DEF Serve, ServeInForeground, Launch, Others, Alive
<1>2. ASSUME NEW s \in Servers, Listen(s) PROVE FileInv'
  BY <1>2 DEF Listen
<1>3. ASSUME NEW s \in Servers, WritePIDFile(s) \/ AcceptConnections(s) \/ WaitForEnd(s)
      PROVE FileInv'
  BY <1>3 DEF WritePIDFile, AcceptConnections, WaitForEnd
<1>4. ASSUME NEW s \in Servers, SeeSignal(s) PROVE FileInv'
  BY <1>4 DEF SeeSignal, CloseListener
<1>5. ASSUME NEW s \in Servers, DrainDone(s) \/ DrainTimeout(s) PROVE FileInv'
  BY <1>5 DEF DrainDone, DrainTimeout
<1>6. ASSUME NEW s \in Servers, RemovePIDFile(s) PROVE FileInv'
  BY <1>6 DEF RemovePIDFile, Vanish
<1>7. ASSUME NEW s \in Servers, Signal(s) PROVE FileInv'
  BY <1>7 DEF Signal
<1>8. ASSUME NEW s \in Servers, Kill(s) PROVE FileInv'
  BY <1>8 DEF Kill, Vanish
<1>9. ASSUME NEW c \in Clients,
             Dial(c) \/ Accept(c) \/ HandleConnection(c) \/ Leave(c) \/ AskShutdown(c)
      PROVE FileInv'
  BY <1>9 DEF Dial, Accept, HandleConnection, Leave, AskShutdown
<1>10. ASSUME NEW c \in Clients, OfferShutdown(c) PROVE FileInv'
  BY <1>10 DEF OfferShutdown, CloseListener
<1>11. CASE UNCHANGED vars
  BY <1>11 DEF vars
<1> QED
  BY <1>1, <1>2, <1>3, <1>4, <1>5, <1>6, <1>7, <1>8, <1>9, <1>10, <1>11
  DEF Next, Server, Connection

\* Two processes that are alive together have met from the launch of the later one
\* on, so what one does to the file is no concern of a process that has met nobody.
LEMMA KnownStep == TypeOK /\ ConnInv /\ KnownInv /\ [Next]_vars => KnownInv'
<1> SUFFICES ASSUME TypeOK, ConnInv, KnownInv, [Next]_vars PROVE KnownInv'
  OBVIOUS
<1> USE NoneAssumption DEF TypeOK, KnownInv, Alive, Named, clientVars, history
<1>1. ASSUME NEW s \in Servers, Serve(s) \/ ServeInForeground(s) PROVE KnownInv'
  BY <1>1 DEF Serve, ServeInForeground, Launch, Others, Alive
<1>2. ASSUME NEW s \in Servers, Listen(s) PROVE KnownInv'
  BY <1>2 DEF Listen
<1>3. ASSUME NEW s \in Servers, WritePIDFile(s) \/ AcceptConnections(s) \/ WaitForEnd(s)
      PROVE KnownInv'
  BY <1>3 DEF WritePIDFile, AcceptConnections, WaitForEnd
<1>4. ASSUME NEW s \in Servers, SeeSignal(s) PROVE KnownInv'
  BY <1>4 DEF SeeSignal, CloseListener
<1>5. ASSUME NEW s \in Servers, DrainDone(s) \/ DrainTimeout(s) PROVE KnownInv'
  BY <1>5 DEF DrainDone, DrainTimeout
<1>6. ASSUME NEW s \in Servers, RemovePIDFile(s) PROVE KnownInv'
  BY <1>6 DEF RemovePIDFile, Vanish
<1>7. ASSUME NEW s \in Servers, Signal(s) PROVE KnownInv'
  BY <1>7 DEF Signal
<1>8. ASSUME NEW s \in Servers, Kill(s) PROVE KnownInv'
  BY <1>8 DEF Kill, Vanish
<1>9. ASSUME NEW c \in Clients,
             Dial(c) \/ Accept(c) \/ HandleConnection(c) \/ Leave(c) \/ AskShutdown(c)
      PROVE KnownInv'
  BY <1>9 DEF Dial, Accept, HandleConnection, Leave, AskShutdown
<1>10. ASSUME NEW c \in Clients, OfferShutdown(c) PROVE KnownInv'
  BY <1>10 DEF OfferShutdown, CloseListener, ConnInv
<1>11. CASE UNCHANGED vars
  BY <1>11 DEF vars
<1> QED
  BY <1>1, <1>2, <1>3, <1>4, <1>5, <1>6, <1>7, <1>8, <1>9, <1>10, <1>11
  DEF Next, Server, Connection

LEMMA DaemonInvariant == Spec => [](TypeOK /\ DaemonInv)
<1>1. Init => TypeOK /\ DaemonInv
  BY TypeInit, DaemonInvInit
<1>2. TypeOK /\ DaemonInv /\ [Next]_vars => TypeOK' /\ DaemonInv'
  BY TypeStep, ListenerStep, FileStep, KnownStep DEF DaemonInv
<1>3. QED  BY <1>1, <1>2, PTL DEF Spec

\* The address is held by a process from its Listen to the close of its listener and
\* by nobody else, whichever way processes end and shutdowns arrive.
THEOREM AddressIsHeld == Spec => []ListenerServes
<1>1. DaemonInv => ListenerServes
  BY DEF DaemonInv
<1>2. QED  BY <1>1, DaemonInvariant, PTL

\* A PID file never outlives a process that ended by itself and could remove it, also
\* when several processes write and remove it.
THEOREM PIDFileIsLive == Spec => []NoStalePIDFile
<1>1. DaemonInv => NoStalePIDFile
  BY DEF DaemonInv, FileInv, Named, NoStalePIDFile, Alive
<1>2. QED  BY <1>1, DaemonInvariant, PTL

\* A server that serves is the one the PID file names, unless it has met another
\* process or could not write the file: for any number of processes, killed or not.
THEOREM ServingIsKnown == Spec => []RunningIsKnown
<1>1. DaemonInv => RunningIsKnown
  BY DEF DaemonInv, KnownInv, Named, RunningIsKnown
<1>2. QED  BY <1>1, DaemonInvariant, PTL
=============================================================================
