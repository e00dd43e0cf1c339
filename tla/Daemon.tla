------------------------------- MODULE Daemon -------------------------------
(***************************************************************************)
(* The life of server processes that share a data directory and an         *)
(* address: RunServer and handleConnection (internal/app/server.go), the   *)
(* PID file (internal/app/pid.go), and the commands that start and stop    *)
(* them (internal/cli/serve.go, root.go, stop.go).                         *)
(***************************************************************************)
EXTENDS Naturals, FiniteSets

CONSTANTS
    Servers,   \* server processes that may be started
    Clients,   \* connections that may be made
    Stoppers,  \* those of them that are stop commands
    None,      \* no server
    MayKill,   \* a process may be killed, or get a signal it does not yet catch
    MayFail    \* the PID file may not be writable, or not be removed

ASSUME NoneAssumption == None \notin Servers
ASSUME ClientsAssumption == Stoppers \subseteq Clients
ASSUME SwitchAssumption == {MayKill, MayFail} \subseteq BOOLEAN

VARIABLES
    spc,        \* control point of each process
    listening,  \* the process that listens at the address
    pidFile,    \* the process server.pid names, None when there is no file
    signalled,  \* processes whose signal context is done
    killed,     \* history: processes that ended without an exit of their own
    met,        \* history: processes that were alive together with another one
    unwritten,  \* history: processes that could not write the PID file
    kept,       \* history: processes that could not remove it
    cpc,        \* each connection, as its client sees it
    at,         \* the process it goes to
    waited,     \* connections in the wait group of their process
    trying      \* stop commands whose goroutine has not yet offered the shutdown

clientVars == <<cpc, at, waited, trying>>
history == <<killed, met, unwritten, kept>>
vars == <<spc, listening, pidFile, signalled, history, clientVars>>

Phases == {"off", "launched", "bound", "named", "open", "serving", "closed", "removing",
           "exited", "refused"}
Alive(s) == spc[s] \notin {"off", "exited", "refused"}

Init ==
    /\ spc = [s \in Servers |-> "off"]
    /\ listening = None /\ pidFile = None
    /\ signalled = {} /\ killed = {} /\ met = {} /\ unwritten = {} /\ kept = {}
    /\ cpc = [c \in Clients |-> "idle"]
    /\ at = [c \in Clients |-> None]
    /\ waited = {} /\ trying = {}

\* The operators named ...Fault are faults a change of the code could bring in;
\* no specification uses them.

-----------------------------------------------------------------------------
(* Starting. *)

\* ReadPID: the process the file names, if that is alive.
AlreadyRunning == pidFile # None /\ Alive(pidFile)

Others == {t \in Servers : Alive(t)}

Launch(s) ==
    /\ spc' = [spc EXCEPT ![s] = "launched"]
    /\ met' = IF Others = {} THEN met ELSE met \cup Others \cup {s}
    /\ UNCHANGED <<listening, pidFile, signalled, killed, unwritten, kept, clientVars>>

\* serve looks at the PID file and starts a process; serve --foreground is that
\* process and does not look.
Serve(s) ==
    /\ spc[s] = "off"
    /\ IF AlreadyRunning
         THEN /\ spc' = [spc EXCEPT ![s] = "refused"]
              /\ UNCHANGED <<listening, pidFile, signalled, history, clientVars>>
         ELSE Launch(s)

ServeInForeground(s) == spc[s] = "off" /\ Launch(s)

\* An address that is in use is only logged.
ListenFault(s) ==
    /\ spc[s] = "launched"
    /\ spc' = [spc EXCEPT ![s] = "bound"]
    /\ listening' = IF listening = None THEN s ELSE listening
    /\ UNCHANGED <<pidFile, signalled, history, clientVars>>

\* A second process at the address gets an error and ends.
Listen(s) ==
    /\ spc[s] = "launched"
    /\ IF listening = None
         THEN listening' = s /\ spc' = [spc EXCEPT ![s] = "bound"]
         ELSE UNCHANGED listening /\ spc' = [spc EXCEPT ![s] = "exited"]
    /\ UNCHANGED <<pidFile, signalled, history, clientVars>>

\* The PID file keeps the process that wrote it first.
WritePIDFileFault(s) ==
    /\ spc[s] = "bound"
    /\ pidFile' = IF pidFile = None THEN s ELSE pidFile
    /\ spc' = [spc EXCEPT ![s] = "named"]
    /\ UNCHANGED <<listening, signalled, history, clientVars>>

\* A file that cannot be written, and may be empty then, is only logged.
WritePIDFile(s) ==
    /\ spc[s] = "bound"
    /\ \/ pidFile' = s /\ UNCHANGED unwritten
       \/ MayFail /\ unwritten' = unwritten \cup {s} /\ pidFile' \in {pidFile, None}
    /\ spc' = [spc EXCEPT ![s] = "named"]
    /\ UNCHANGED <<listening, signalled, killed, met, kept, clientVars>>

\* From here on signals are caught, and a goroutine accepts connections.
AcceptConnections(s) ==
    /\ spc[s] = "named"
    /\ spc' = [spc EXCEPT ![s] = "open"]
    /\ UNCHANGED <<listening, pidFile, signalled, history, clientVars>>

\* RunServer comes to its select.
WaitForEnd(s) ==
    /\ spc[s] = "open"
    /\ spc' = [spc EXCEPT ![s] = "serving"]
    /\ UNCHANGED <<listening, pidFile, signalled, history, clientVars>>

-----------------------------------------------------------------------------
(* Ending. *)

\* The listener is closed, and with it the connections nobody has accepted.
CloseListener(s) ==
    /\ spc' = [spc EXCEPT ![s] = "closed"]
    /\ listening' = None
    /\ cpc' = [c \in Clients |-> IF at[c] = s /\ cpc[c] = "dialled" THEN "gone" ELSE cpc[c]]

SeeSignal(s) ==
    /\ spc[s] = "serving" /\ s \in signalled
    /\ CloseListener(s)
    /\ UNCHANGED <<pidFile, signalled, history, at, waited, trying>>

\* The wait group is done.
DrainDone(s) ==
    /\ spc[s] = "closed"
    /\ \A c \in waited : at[c] # s
    /\ spc' = [spc EXCEPT ![s] = "removing"]
    /\ UNCHANGED <<listening, pidFile, signalled, history, clientVars>>

\* There is no limit to the wait.
DrainTimeoutFault(s) == DrainDone(s)

\* Five seconds have passed.
DrainTimeout(s) ==
    /\ spc[s] = "closed"
    /\ spc' = [spc EXCEPT ![s] = "removing"]
    /\ UNCHANGED <<listening, pidFile, signalled, history, clientVars>>

\* A process that ends takes its connections and goroutines with it.
Vanish(s) ==
    /\ spc' = [spc EXCEPT ![s] = "exited"]
    /\ cpc' = [c \in Clients |-> IF at[c] = s THEN "gone" ELSE cpc[c]]
    /\ waited' = {c \in waited : at[c] # s}
    /\ trying' = {c \in trying : at[c] # s}

\* The PID file is left behind.
RemovePIDFileFault(s) ==
    /\ spc[s] = "removing"
    /\ Vanish(s)
    /\ UNCHANGED <<listening, pidFile, signalled, history, at>>

\* os.Remove, whoever the file names, and the end of the process: nobody looks whether
\* the file is gone.
RemovePIDFile(s) ==
    /\ spc[s] = "removing"
    /\ \/ pidFile' = None /\ UNCHANGED kept
       \/ MayFail /\ kept' = kept \cup {s} /\ UNCHANGED pidFile
    /\ Vanish(s)
    /\ UNCHANGED <<listening, signalled, killed, met, unwritten, at>>

\* SIGTERM or SIGINT, once NotifyContext catches them.
Signal(s) ==
    /\ spc[s] \in {"open", "serving", "closed", "removing"}
    /\ signalled' = signalled \cup {s}
    /\ UNCHANGED <<spc, listening, pidFile, history, clientVars>>

\* SIGKILL, a crash, or a signal before that.
Kill(s) ==
    /\ MayKill /\ Alive(s)
    /\ Vanish(s)
    /\ listening' = IF listening = s THEN None ELSE listening
    /\ killed' = killed \cup {s}
    /\ UNCHANGED <<pidFile, signalled, met, unwritten, kept, at>>

Server(s) ==
    \/ Listen(s) \/ WritePIDFile(s) \/ AcceptConnections(s) \/ WaitForEnd(s)
    \/ SeeSignal(s) \/ DrainDone(s) \/ DrainTimeout(s) \/ RemovePIDFile(s)

-----------------------------------------------------------------------------
(* Connections. *)

\* The listener takes connections before they are accepted.
Dial(c) ==
    /\ cpc[c] = "idle"
    /\ cpc' = [cpc EXCEPT ![c] = IF listening = None THEN "gone" ELSE "dialled"]
    /\ at' = [at EXCEPT ![c] = listening]
    /\ UNCHANGED <<spc, listening, pidFile, signalled, history, waited, trying>>

\* Accept and then wg.Add, which may come after wg.Wait.
Accept(c) ==
    /\ cpc[c] = "dialled" /\ spc[at[c]] \in {"open", "serving"}
    /\ cpc' = [cpc EXCEPT ![c] = "accepted"]
    /\ UNCHANGED <<spc, listening, pidFile, signalled, history, at, waited, trying>>

HandleConnection(c) ==
    /\ cpc[c] = "accepted"
    /\ cpc' = [cpc EXCEPT ![c] = "served"]
    /\ waited' = waited \cup {c}
    /\ UNCHANGED <<spc, listening, pidFile, signalled, history, at, trying>>

\* kontekst/shutdown is answered; a goroutine offers the shutdown to RunServer.
AskShutdown(c) ==
    /\ c \in Stoppers /\ cpc[c] = "served"
    /\ cpc' = [cpc EXCEPT ![c] = "told"]
    /\ trying' = trying \cup {c}
    /\ UNCHANGED <<spc, listening, pidFile, signalled, history, at, waited>>

\* The channel has no buffer and the send does not wait: unless RunServer is at
\* its select the shutdown is dropped.
OfferShutdown(c) ==
    /\ c \in trying
    /\ trying' = trying \ {c}
    /\ IF spc[at[c]] = "serving"
         THEN CloseListener(at[c])
         ELSE UNCHANGED <<spc, listening, cpc>>
    /\ UNCHANGED <<pidFile, signalled, history, at, waited>>

\* The client closes its connection, or a run ends with it.
Leave(c) ==
    /\ cpc[c] \in {"served", "told"}
    /\ cpc' = [cpc EXCEPT ![c] = "gone"]
    /\ waited' = waited \ {c}
    /\ UNCHANGED <<spc, listening, pidFile, signalled, history, at, trying>>

Connection(c) == Accept(c) \/ HandleConnection(c) \/ OfferShutdown(c)

Next ==
    \/ \E s \in Servers : Serve(s) \/ ServeInForeground(s) \/ Server(s) \/ Signal(s) \/ Kill(s)
    \/ \E c \in Clients : Dial(c) \/ Connection(c) \/ AskShutdown(c) \/ Leave(c)

Spec == Init /\ [][Next]_vars

\* Processes and their goroutines run; clients may keep their connections open.
LiveSpec ==
    /\ Spec
    /\ \A s \in Servers : WF_vars(Server(s))
    /\ \A c \in Clients : WF_vars(Connection(c))

-----------------------------------------------------------------------------
(* Properties. *)

TypeOK ==
    /\ spc \in [Servers -> Phases]
    /\ listening \in Servers \cup {None} /\ pidFile \in Servers \cup {None}
    /\ {signalled, killed, met, unwritten, kept} \subseteq SUBSET Servers
    /\ cpc \in [Clients -> {"idle", "dialled", "accepted", "served", "told", "gone"}]
    /\ at \in [Clients -> Servers \cup {None}]
    /\ waited \subseteq Clients /\ trying \subseteq Stoppers

\* A server that has come to its select is the one that serve, ps and every other
\* reader of the PID file find, if it has met no other process, not even one that was
\* already shutting down, and its write of the file has not failed.
RunningIsKnown ==
    \A s \in Servers : spc[s] = "serving" /\ s \notin met \cup unwritten => pidFile = s

\* Only a process that was killed, or could not remove the file when it ended, leaves one
\* that names it.
NoStalePIDFile == pidFile # None => Alive(pidFile) \/ pidFile \in killed \cup kept

\* A process that is past its own listening never holds the address, and one that
\* accepts connections always does: a server that ends makes room for the next.
ListenerServes ==
    \A s \in Servers : listening = s <=> spc[s] \in {"bound", "named", "open", "serving"}

\* A server that was signalled, or has taken a shutdown, ends, whatever its clients
\* do with their connections.
EndsWhenTold ==
    \A s \in Servers : (s \in signalled \/ spc[s] = "closed") ~> spc[s] = "exited"

-----------------------------------------------------------------------------
(* Inductive strengthenings: what the theorems of DaemonProofs rest on. *)

\* A connection that is under way has a process.
ConnInv ==
    \A c \in Clients :
        /\ cpc[c] \in {"dialled", "accepted", "served", "told"} => at[c] \in Servers
        /\ c \in trying => cpc[c] # "idle" /\ at[c] \in Servers

Named == {"named", "open", "serving", "closed", "removing"}

\* The file names a process between its own write and its end, a killed one, or one that
\* could not remove it.
FileInv == pidFile # None => spc[pidFile] \in Named \/ pidFile \in killed \cup kept

\* Processes that are alive together have met; the file names a process that is past
\* its write, has met no other and could write.
KnownInv ==
    /\ \A s, t \in Servers : Alive(s) /\ Alive(t) /\ s # t => s \in met
    /\ \A s \in Servers : spc[s] \in Named /\ s \notin met \cup unwritten => pidFile = s

DaemonInv == ConnInv /\ ListenerServes /\ FileInv /\ KnownInv
=============================================================================
