----------------------------- MODULE SessionStore -----------------------------
(***************************************************************************)
(* Which session a `kontekst <prompt>` works in, and with which agent: the *)
(* CLI processes (internal/cli/run.go), the active_session file they share *)
(* (internal/cli/root.go), the daemon's answers to session/new and         *)
(* session/load, and the session files with their metadata                 *)
(* (internal/session/file_sessions.go).                                    *)
(*                                                                         *)
(* os.WriteFile empties a file when it opens it and writes afterwards: two *)
(* steps, between which others read, write, or the process is killed.      *)
(***************************************************************************)
EXTENDS Naturals, FiniteSets

CONSTANTS
    Procs,      \* processes of the run command
    Generated,  \* session IDs that NewSessionID may make, of one length
    Named,      \* session IDs a user may give with --session, of one shorter length
    Mixed,      \* what an ID of Generated reads when one of Named was written over it
    Agents,     \* names of agents
    Default,    \* DefaultAgentName
    None,       \* no ID, no name, no file
    Failing,    \* processes that may be killed, and whose files and requests may fail
    MaxManage   \* bound: uses of SetDefaultAgent and Delete

Sessions == Generated \cup Named \cup {Mixed}

ASSUME IDsAssumption ==
    /\ Generated \cap Named = {}
    /\ Mixed \notin Generated \cup Named
    /\ None \notin Sessions \cup Agents
ASSUME AgentsAssumption == Default \in Agents /\ "torn" \notin Agents
ASSUME BoundAssumption == Failing \subseteq Procs /\ MaxManage \in Nat

VARIABLES
    files,    \* sessions that have a message file
    meta,     \* the default agent in a session's metadata; "torn" does not parse
    active,   \* content of active_session
    pc,       \* of a process, named for what it does next
    asked,    \* the --agent of a process
    agent,    \* the agent it settles on
    sid,      \* its session
    served,   \* the session and the agent of its connection in the daemon
    used,     \* session IDs that someone has been given or has named
    manages,  \* uses of SetDefaultAgent and Delete
    saved,    \* history: active_session was written once
    cut,      \* history: active_session is empty since a save that was cut short
    overlap,  \* history: saves overlapped, of IDs of different length
    excused,  \* history: processes that have a reason to make a session of their own
    made,     \* history: processes that did
    begun,    \* history: the session a process set out with
    given     \* history: the agents that were set for a session, as pairs

store == <<files, meta>>
saves == <<saved, cut, overlap>>
history == <<saves, excused, made, begun>>
vars == <<store, given, active, pc, asked, agent, sid, served, used, manages, history>>

Init ==
    /\ files = {}
    /\ meta = [s \in Sessions |-> None]
    /\ active = None
    /\ pc = [p \in Procs |-> "start"]
    /\ asked = [p \in Procs |-> None]
    /\ agent = [p \in Procs |-> None]
    /\ sid = [p \in Procs |-> None]
    /\ served = [p \in Procs |-> [session |-> None, agent |-> None]]
    /\ used = {} /\ manages = 0
    /\ saved = FALSE /\ cut = FALSE /\ overlap = FALSE /\ excused = {} /\ made = {}
    /\ begun = [p \in Procs |-> None] /\ given = {}

Go(p, from, to) == pc[p] = from /\ pc' = [pc EXCEPT ![p] = to]

Saving == {p \in Procs : pc[p] = "write"}

\* The operators named ...Fault are faults a change of the code could bring in;
\* no specification uses them.

-----------------------------------------------------------------------------
(* The run command. *)

\* The command line, and the session: --session, else what active_session says, or nothing
\* if it cannot be read.
Start(p) ==
    /\ Go(p, "start", "agent")
    /\ \E o \in Named \cup used \cup {None}, a \in Agents \cup {None},
          unreadable \in {u \in BOOLEAN : u => p \in Failing} :
          LET s == IF o # None THEN o ELSE IF unreadable THEN None ELSE active IN
          /\ asked' = [asked EXCEPT ![p] = a]
          /\ used' = used \cup ({o} \ {None})
          /\ sid' = [sid EXCEPT ![p] = s]
          /\ begun' = [begun EXCEPT ![p] = s]
          /\ excused' = IF o = None /\ (unreadable \/ ~saved \/ cut \/ Saving # {})
                        THEN excused \cup {p} ELSE excused
    /\ UNCHANGED <<store, given, active, agent, served, manages, saves, made>>

\* The default agent comes before --agent.
GetDefaultAgentFault(p) ==
    /\ Go(p, "agent", "open")
    /\ agent' = [agent EXCEPT ![p] =
                   IF sid[p] # None /\ meta[sid[p]] \in Agents THEN meta[sid[p]]
                   ELSE IF asked[p] # None THEN asked[p] ELSE Default]
    /\ UNCHANGED <<store, given, active, asked, sid, served, used, manages, history>>

\* --agent, else the default agent of the session if its metadata can be read, else the
\* default.
GetDefaultAgent(p) ==
    /\ Go(p, "agent", "open")
    /\ \E unreadable \in {u \in BOOLEAN : u => p \in Failing} :
          agent' = [agent EXCEPT ![p] =
                      IF asked[p] # None THEN asked[p]
                      ELSE IF sid[p] # None /\ ~unreadable /\ meta[sid[p]] \in Agents THEN meta[sid[p]]
                      ELSE Default]
    /\ UNCHANGED <<store, given, active, asked, sid, served, used, manages, history>>

\* The session is not loaded unless it has a file; the command makes another one.
LoadSessionFault(p) ==
    /\ sid[p] # None
    /\ IF sid[p] \in files
         THEN /\ Go(p, "open", "save")
              /\ served' = [served EXCEPT ![p] = [session |-> sid[p], agent |-> Default]]
              /\ UNCHANGED sid
         ELSE /\ pc[p] = "open"
              /\ sid' = [sid EXCEPT ![p] = None]
              /\ UNCHANGED <<pc, served>>
    /\ UNCHANGED <<store, given, active, asked, agent, used, manages, history>>

\* session/load takes every ID, with a file or without one, and the default agent.
LoadSession(p) ==
    /\ sid[p] # None
    /\ Go(p, "open", "save")
    /\ served' = [served EXCEPT ![p] = [session |-> sid[p], agent |-> Default]]
    /\ UNCHANGED <<store, given, active, asked, agent, sid, used, manages, history>>

\* The request is answered with an error, or not with a session: the command goes on as
\* one that has no session.
LoadFails(p) ==
    /\ p \in Failing
    /\ sid[p] # None /\ pc[p] = "open"
    /\ sid' = [sid EXCEPT ![p] = None]
    /\ excused' = excused \cup {p}
    /\ UNCHANGED <<store, given, active, pc, asked, agent, served, used, manages, saves, made, begun>>

\* session/new makes an ID, which has no file yet.
NewSession(p) ==
    /\ sid[p] = None
    /\ Go(p, "open", "save")
    /\ \E s \in Generated \ used :
          /\ sid' = [sid EXCEPT ![p] = s]
          /\ served' = [served EXCEPT ![p] = [session |-> s, agent |-> agent[p]]]
          /\ used' = used \cup {s}
    /\ made' = made \cup {p}
    /\ UNCHANGED <<store, given, active, asked, agent, manages, saves, excused, begun>>

\* Written over what is there.
OpenActiveFault(p) ==
    /\ Go(p, "save", "write")
    /\ overlap' = (overlap \/ \E q \in Saving : (sid[q] \in Named) # (sid[p] \in Named))
    /\ UNCHANGED <<store, given, active, asked, agent, sid, served, used, manages, saved, cut, excused, made, begun>>

\* saveActiveSession: the file is opened, and empty.
OpenActive(p) ==
    /\ Go(p, "save", "write")
    /\ active' = None
    /\ overlap' = (overlap \/ \E q \in Saving : (sid[q] \in Named) # (sid[p] \in Named))
    /\ UNCHANGED <<store, given, asked, agent, sid, served, used, manages, saved, cut, excused, made, begun>>

\* The ID is written from the start of the file; what it does not cover stays.
WriteActive(p) ==
    /\ Go(p, "write", "prompt")
    /\ active' = IF sid[p] \in Named /\ active \in Generated \cup {Mixed} THEN Mixed
                 ELSE sid[p]
    /\ saved' = TRUE /\ cut' = FALSE
    /\ UNCHANGED <<store, given, asked, agent, sid, served, used, manages, overlap, excused, made, begun>>

\* The file cannot be opened, or not be written; the command goes on all the same.
SaveFails(p) ==
    /\ p \in Failing
    /\ \/ Go(p, "save", "prompt") /\ UNCHANGED cut
       \/ Go(p, "write", "prompt") /\ cut' = (cut \/ active = None)
    /\ UNCHANGED <<store, given, active, asked, agent, sid, served, used, manages, saved, overlap, excused, made, begun>>

\* handlePrompt, StartRun and Ensure: now the session has a file.
Prompt(p) ==
    /\ Go(p, "prompt", "ran")
    /\ files' = files \cup {served[p].session}
    /\ UNCHANGED <<meta, given, active, asked, agent, sid, served, used, manages, history>>

\* The command ends early: it is killed, the daemon does not answer, or not to
\* session/new, the agent has no configuration, or the file cannot be created.
GiveUp(p) ==
    /\ p \in Failing
    /\ pc[p] \notin {"start", "ran", "ended"}
    /\ pc' = [pc EXCEPT ![p] = "ended"]
    /\ cut' = (cut \/ (pc[p] = "write" /\ active = None))
    /\ UNCHANGED <<store, given, active, asked, agent, sid, served, used, manages, saved, overlap, excused, made, begun>>

Run(p) ==
    \/ Start(p) \/ GetDefaultAgent(p)
    \/ LoadSession(p) \/ LoadFails(p) \/ NewSession(p)
    \/ OpenActive(p) \/ WriteActive(p) \/ SaveFails(p)
    \/ Prompt(p) \/ GiveUp(p)

-----------------------------------------------------------------------------
(* The rest of FileService.  docs/cli.md:96 has a command that sets the agent;     *)
(* neither it nor one that deletes exists yet, so the callers are external.        *)

\* The metadata are written, or torn, whether the session has a file or not.
SetDefaultAgent(s, a) ==
    /\ manages < MaxManage
    /\ \E m \in {a} \cup (IF Failing # {} THEN {"torn"} ELSE {}) : meta' = [meta EXCEPT ![s] = m]
    /\ given' = given \cup {<<s, a>>}
    /\ manages' = manages + 1
    /\ UNCHANGED <<files, active, pc, asked, agent, sid, served, used, history>>

\* The message file first; the metadata may be left behind.
Delete(s) ==
    /\ manages < MaxManage
    /\ s \in files
    /\ files' = files \ {s}
    /\ \/ meta' = [meta EXCEPT ![s] = None]
       \/ Failing # {} /\ UNCHANGED meta
    /\ manages' = manages + 1
    /\ UNCHANGED <<given, active, pc, asked, agent, sid, served, used, history>>

Next ==
    \/ \E p \in Procs : Run(p)
    \/ \E s \in used : (\E a \in Agents : SetDefaultAgent(s, a)) \/ Delete(s)

Spec == Init /\ [][Next]_vars

-----------------------------------------------------------------------------
(* Properties. *)

\* What active_session holds is the ID of a session that a run has, unless a short ID
\* and a long one were saved at once: then it may be a mixture of the two, which the
\* next run takes for a session, as session/load takes any ID.
ActiveIsSomeones == active = Mixed => overlap

\* Once a session was saved, a run that names none goes on with one that was there
\* before, also if that has no file yet or no file any more: it begins another one only
\* if it read active_session in the middle of a save or after one that was cut short, if
\* it could not read it, or if the daemon refused the session it asked for.
ForgottenOnlyForCause == made \subseteq excused

\* A run that begins a session of its own has the agent that the user asked for, and if he
\* asked for none the default agent or one that somebody set for the session the command
\* set out with and did not get.
AgentOfNewHasReason ==
    \A p \in made :
        pc[p] = "ran" =>
            IF asked[p] # None THEN served[p].agent = asked[p]
            ELSE served[p].agent = Default \/ <<begun[p], served[p].agent>> \in given
=============================================================================
