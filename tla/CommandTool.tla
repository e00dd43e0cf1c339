------------------------------ MODULE CommandTool ------------------------------
(***************************************************************************)
(* Calls of run_command (internal/tool/builtin/command.go) by the runs of  *)
(* one server: a call resolves its command and arguments, prepares the     *)
(* .venv of a Python command if it is not there, and runs the script with  *)
(* a time limit.  Calls of different runs go on at once, and those of one  *)
(* command share its directory.                                            *)
(*                                                                         *)
(* External are python3 -m venv, pip, the scripts and whatever they start: *)
(* programs that take any number of steps, fail, or never end; and the     *)
(* user, who writes and removes the file of requirements at any time.  An  *)
(* os.Stat may fail although there is what it looks for.                   *)
(***************************************************************************)
EXTENDS Commands, TLC

CONSTANTS
    Callers,     \* calls of run_command
    Requests,    \* what the model may ask for: [name, given, agentDir]
    MaxHelpers,  \* bound: what holds the output of a script besides it, at a time
    MaxRestarts  \* bound: restarts of the server

ASSUME CountsAssumption == MaxHelpers \in Nat /\ MaxRestarts \in Nat

Dirs == DOMAIN Manifests
Stages == {"absent", "dir", "python", "pip"}  \* how far a .venv has come

\* There is no file of requirements, or it lists packages the .venv has or has not.
Listings == {"no file", "missing", "installed"}

VARIABLES
    venv,      \* stage of the .venv of each directory
    packages,  \* what the file of requirements of each directory lists
    pc,        \* control point of each call
    req,       \* its request
    env,       \* the variables of its script
    workDir,   \* the working directory of its script
    python,    \* the script is run by the interpreter of the .venv
    expired,   \* its context is over: the call's two minutes or the command's limit
    exit,      \* how the process it has started ended: "none", "ok", "failed", "killed"
    helpers,   \* what that process started and what holds its output: in its group or not
    result,    \* what the call returned
    restarts,  \* number of restarts
    spoiled,   \* history: directories whose preparation failed or was cut off
    outdated,  \* history: directories whose file came or changed once there was a .venv, or
               \* was not seen
    excused    \* history: calls that found another one preparing, or did not see the interpreter

disk    == <<venv, packages>>
asked   == <<req, env, workDir, python>>
process == <<exit, helpers>>
history == <<spoiled, outdated, excused>>
vars == <<disk, pc, asked, expired, process, result, restarts, history>>

NoEnv == [v \in {} |-> ""]
NoRequest == [name |-> "", given |-> NoEnv, agentDir |-> NoDir]

Init ==
    /\ venv = [d \in Dirs |-> "absent"]
    /\ packages = [d \in Dirs |-> "no file"]
    /\ pc = [k \in Callers |-> "idle"]
    /\ req = [k \in Callers |-> NoRequest]
    /\ env = [k \in Callers |-> NoEnv]
    /\ workDir = [k \in Callers |-> NoDir]
    /\ python = [k \in Callers |-> FALSE]
    /\ expired = [k \in Callers |-> FALSE]
    /\ exit = [k \in Callers |-> "none"]
    /\ helpers = [k \in Callers |-> {}]
    /\ result = [k \in Callers |-> "none"]
    /\ restarts = 0
    /\ spoiled = {} /\ outdated = {} /\ excused = {}

Cmd(k) == Registry[req[k].name]
Dir(k) == Cmd(k).dir
Preparing(k) == pc[k] \in {"creating", "created", "installing"}
NeedsVenv(c) == c.runtime = "python" /\ c.requirements # "none"

\* A program of a preparation runs: for a call, or left over from a server that has ended.
CreatesVenv(k) == pc[k] \in {"creating", "venv left"} /\ exit[k] = "none"
Installs(k) == pc[k] \in {"installing", "pip left"} /\ exit[k] = "none"

Goto(k, point) == pc' = [pc EXCEPT ![k] = point]

\* The call returns, and its context is cancelled.
Return(k, outcome) ==
    /\ Goto(k, "returned")
    /\ result' = [result EXCEPT ![k] = outcome]

-----------------------------------------------------------------------------
(* Execute, up to the script. *)

\* Registry.Get, validateArguments and buildEnv; the preview was made of the same request.
Resolve(k, r) ==
    /\ pc[k] = "idle"
    /\ req' = [req EXCEPT ![k] = r]
    /\ IF r.name \notin DOMAIN Registry
         THEN Return(k, "not found") /\ UNCHANGED <<env, workDir>>
         ELSE LET c == Registry[r.name]
                  resolved == ResolveArguments(c, r.given)
              IN IF ~ValidateArguments(c, resolved)
                   THEN Return(k, "missing argument") /\ UNCHANGED <<env, workDir>>
                   ELSE /\ \E e \in BuildEnv(resolved) : env' = [env EXCEPT ![k] = e]
                        /\ workDir' = [workDir EXCEPT ![k] = ResolveWorkDir(c, r.agentDir)]
                        /\ Goto(k, IF NeedsVenv(c) THEN "prepare" ELSE "choose")
                        /\ UNCHANGED result
    /\ UNCHANGED <<disk, python, expired, process, restarts, history>>

\* The call fails before its script; what is there of the .venv stays.
FailSetup(k) ==
    /\ Return(k, "setup failed")
    /\ spoiled' = IF venv[Dir(k)] = "absent" THEN spoiled ELSE spoiled \cup {Dir(k)}

\* ensureVenv: a .venv that is there is taken as it is.
TakeVenv(k) ==
    /\ pc[k] = "prepare"
    /\ venv[Dir(k)] # "absent"
    /\ Goto(k, "choose")
    /\ excused' = IF \E j \in Callers \ {k} : Preparing(j) /\ Dir(j) = Dir(k)
                    THEN excused \cup {k} ELSE excused
    /\ UNCHANGED <<disk, asked, expired, process, result, restarts, spoiled, outdated>>

\* If none is seen python3 -m venv makes one, and pip installs what the file of requirements
\* lists, if that is there.  Neither is started when the context is over.
StartSetup(k) ==
    /\ pc[k] = "prepare" \/ (pc[k] = "created" /\ packages[Dir(k)] # "no file")
    /\ IF expired[k]
         THEN FailSetup(k)
         ELSE /\ Goto(k, IF pc[k] = "prepare" THEN "creating" ELSE "installing")
              /\ UNCHANGED <<result, spoiled>>
    /\ UNCHANGED <<disk, asked, expired, process, restarts, outdated, excused>>

\* No file of requirements is seen, and that is no error.
NothingToInstall(k) ==
    /\ pc[k] = "created"
    /\ Goto(k, "choose")
    /\ outdated' = IF packages[Dir(k)] = "no file" THEN outdated ELSE outdated \cup {Dir(k)}
    /\ UNCHANGED <<disk, asked, expired, process, result, restarts, spoiled, excused>>

\* The program makes the directory, then the interpreter, then pip.
VenvGrows(k) ==
    /\ CreatesVenv(k)
    /\ LET d == Dir(k) IN
         /\ venv[d] # "pip"
         /\ venv' = [venv EXCEPT ![d] = CASE @ = "absent" -> "dir"
                                          [] @ = "dir" -> "python"
                                          [] @ = "python" -> "pip"]
    /\ UNCHANGED <<packages, pc, asked, expired, process, result, restarts, history>>

\* pip reads the file and installs what it lists.
PackagesArrive(k) ==
    /\ Installs(k) /\ packages[Dir(k)] = "missing"
    /\ packages' = [packages EXCEPT ![Dir(k)] = "installed"]
    /\ UNCHANGED <<venv, pc, asked, expired, process, result, restarts, history>>

\* The user writes the file, with packages that are not there, or removes it.
EditRequirements(d) ==
    /\ \E to \in {"no file", "missing"} \ {packages[d]} :
         /\ packages' = [packages EXCEPT ![d] = to]
         /\ outdated' = IF venv[d] # "absent" /\ to = "missing" THEN outdated \cup {d} ELSE outdated
    /\ UNCHANGED <<venv, pc, asked, expired, process, result, restarts, spoiled, excused>>

Working(k) == pc[k] \in {"creating", "installing"}

\* The program of a preparation ends by itself, or with the context; well only if it has
\* done what it was to do, and of a file that was removed behind it pip knows nothing.  A
\* process that pip has started may live on and hold the output.
SetupEnds(k) ==
    /\ Working(k) /\ exit[k] = "none"
    /\ \E how \in {"ok", "failed", "killed"} :
         /\ how = "ok" => IF pc[k] = "creating" THEN venv[Dir(k)] = "pip"
                                              ELSE packages[Dir(k)] # "missing"
         /\ how = "killed" => expired[k]
         /\ exit' = [exit EXCEPT ![k] = how]
    /\ \/ UNCHANGED helpers
       \/ pc[k] = "installing" /\ helpers' = [helpers EXCEPT ![k] = {"own"}]
    /\ UNCHANGED <<disk, pc, asked, expired, result, restarts, history>>

\* A failure of pip is only logged.
SetupReturnsFault(k) ==
    /\ Working(k) /\ exit[k] # "none"
    /\ helpers[k] = {}
    /\ exit' = [exit EXCEPT ![k] = "none"]
    /\ Goto(k, IF pc[k] = "creating" THEN "created" ELSE "choose")
    /\ UNCHANGED <<disk, asked, expired, helpers, result, restarts, history>>

\* CombinedOutput returns when nobody holds the output any more, however long that takes.
SetupReturns(k) ==
    /\ Working(k) /\ exit[k] # "none"
    /\ helpers[k] = {}
    /\ exit' = [exit EXCEPT ![k] = "none"]
    /\ IF exit[k] = "ok"
         THEN /\ Goto(k, IF pc[k] = "creating" THEN "created" ELSE "choose")
              /\ UNCHANGED <<result, spoiled>>
         ELSE FailSetup(k)
    /\ UNCHANGED <<disk, asked, expired, helpers, restarts, outdated, excused>>

\* One that was left over ends when it likes.
LeftEnds(k) ==
    /\ pc[k] \in {"venv left", "pip left"}
    /\ Goto(k, "gone")
    /\ UNCHANGED <<disk, asked, expired, process, result, restarts, history>>

\* interpreterAndScript: the .venv's interpreter if it is seen.
ChooseInterpreter(k) ==
    /\ pc[k] = "choose"
    /\ LET there == Cmd(k).runtime = "python" /\ venv[Dir(k)] \in {"python", "pip"} IN
         \/ python' = [python EXCEPT ![k] = there] /\ UNCHANGED excused
         \/ there /\ python' = [python EXCEPT ![k] = FALSE] /\ excused' = excused \cup {k}
    /\ Goto(k, "start")
    /\ UNCHANGED <<disk, req, env, workDir, expired, process, result, restarts, spoiled, outdated>>

-----------------------------------------------------------------------------
(* The script and its time limit. *)

\* The process is not started when the context is over, or when it cannot be.
StartScript(k) ==
    /\ pc[k] = "start"
    /\ \/ ~expired[k] /\ Goto(k, "running") /\ UNCHANGED result
       \/ Return(k, "failed")
    /\ UNCHANGED <<disk, asked, expired, process, restarts, history>>

\* The script starts a process that writes to its output: in its group, or in its own.
SpawnHelper(k) ==
    /\ pc[k] = "running" /\ exit[k] = "none"
    /\ Cardinality(helpers[k]) < MaxHelpers
    /\ \E h \in {"group", "own"} : helpers' = [helpers EXCEPT ![k] = @ \cup {h}]
    /\ UNCHANGED <<disk, pc, asked, expired, exit, result, restarts, history>>

HelperEnds(k) ==
    /\ \E h \in helpers[k] : helpers' = [helpers EXCEPT ![k] = @ \ {h}]
    /\ UNCHANGED <<disk, pc, asked, expired, exit, result, restarts, history>>

ScriptExits(k) ==
    /\ pc[k] = "running" /\ exit[k] = "none"
    /\ \E how \in {"ok", "failed"} : exit' = [exit EXCEPT ![k] = how]
    /\ UNCHANGED <<disk, pc, asked, expired, helpers, result, restarts, history>>

\* The two minutes of the call, or while the script runs the command's own limit, are over.
Expire(k) ==
    /\ pc[k] \notin {"idle", "waited", "cut", "returned", "gone", "venv left", "pip left"}
    /\ ~expired[k]
    /\ expired' = [expired EXCEPT ![k] = TRUE]
    /\ UNCHANGED <<disk, pc, asked, process, result, restarts, history>>

\* Cancel kills the process and nothing else.
KillGroupFault(k) ==
    /\ pc[k] = "running" /\ expired[k]
    /\ exit' = [exit EXCEPT ![k] = IF @ = "none" THEN "killed" ELSE @]
    /\ Goto(k, "cut")
    /\ UNCHANGED <<disk, asked, expired, helpers, result, restarts, history>>

\* Cancel: SIGKILL to the group, also of a process that has ended and is not waited for.
KillGroup(k) ==
    /\ pc[k] = "running" /\ expired[k]
    /\ exit' = [exit EXCEPT ![k] = IF @ = "none" THEN "killed" ELSE @]
    /\ helpers' = [helpers EXCEPT ![k] = @ \ {"group"}]
    /\ Goto(k, "cut")
    /\ UNCHANGED <<disk, asked, expired, result, restarts, history>>

\* Wait has the process's status; from here on the context changes nothing.
Reap(k) ==
    /\ pc[k] = "running" /\ exit[k] # "none"
    /\ Goto(k, "waited")
    /\ UNCHANGED <<disk, asked, expired, process, result, restarts, history>>

\* Wait returns when the output is at its end, with no regard to the delay.
ScriptReturnsFault(k) ==
    /\ pc[k] \in {"waited", "cut"} /\ helpers[k] = {}
    /\ Return(k, IF pc[k] = "waited" /\ exit[k] = "ok" THEN "ok" ELSE "failed")
    /\ UNCHANGED <<disk, asked, expired, process, restarts, history>>

\* Wait returns when the output is at its end, or after WaitDelay with an error.
ScriptReturns(k) ==
    /\ pc[k] \in {"waited", "cut"}
    /\ Return(k, IF pc[k] = "waited" /\ exit[k] = "ok" /\ helpers[k] = {} THEN "ok" ELSE "failed")
    /\ UNCHANGED <<disk, asked, expired, process, restarts, history>>

\* The server is restarted.  Its calls are gone; the programs that prepare a .venv go on,
\* and nobody goes on with the preparation.
Restart ==
    LET goesOn == {k \in Callers : Working(k) /\ exit[k] = "none"}
        cutOff == {k \in Callers : Preparing(k) /\ (venv[Dir(k)] # "absent" \/ k \in goesOn)}
    IN /\ restarts < MaxRestarts
       /\ restarts' = restarts + 1
       /\ pc' = [k \in Callers |->
                   CASE k \in goesOn -> IF pc[k] = "creating" THEN "venv left" ELSE "pip left"
                     [] pc[k] \in {"idle", "returned", "venv left", "pip left"} -> pc[k]
                     [] OTHER -> "gone"]
       /\ spoiled' = spoiled \cup {Dir(k) : k \in cutOff}
       /\ UNCHANGED <<disk, asked, expired, process, result, outdated, excused>>

-----------------------------------------------------------------------------
\* What the code and the operating system do of a call that was begun.
Proceeds(k) ==
    \/ TakeVenv(k) \/ StartSetup(k) \/ NothingToInstall(k) \/ SetupReturns(k)
    \/ ChooseInterpreter(k)
    \/ StartScript(k) \/ KillGroup(k) \/ Reap(k) \/ ScriptReturns(k)

\* What the programs do.
Programs(k) ==
    VenvGrows(k) \/ PackagesArrive(k) \/ SetupEnds(k) \/ LeftEnds(k) \/ SpawnHelper(k)
    \/ HelperEnds(k) \/ ScriptExits(k)

Next ==
    \/ \E k \in Callers : Proceeds(k) \/ Programs(k) \/ Expire(k)
    \/ \E k \in Callers, r \in Requests : Resolve(k, r)
    \/ \E n \in DOMAIN Registry : NeedsVenv(Registry[n]) /\ EditRequirements(Registry[n].dir)
    \/ Restart

Spec == Init /\ [][Next]_vars

\* Goroutines run, timers fire, a killed program of a preparation is gone, and what pip has
\* started ends.  Nothing is said of scripts and of what they start.
Fairness ==
    \A k \in Callers :
        /\ WF_vars(Proceeds(k)) /\ WF_vars(Expire(k))
        /\ WF_vars(expired[k] /\ SetupEnds(k))
        /\ WF_vars(Working(k) /\ exit[k] # "none" /\ HelperEnds(k))

LiveSpec == Spec /\ Fairness

-----------------------------------------------------------------------------
(* Properties. *)

TypeOK ==
    /\ venv \in [Dirs -> Stages]
    /\ packages \in [Dirs -> Listings]
    /\ pc \in [Callers -> {"idle", "prepare", "creating", "created", "installing", "choose",
                           "start", "running", "waited", "cut", "returned", "gone",
                           "venv left", "pip left"}]
    /\ req \in [Callers -> Requests \cup {NoRequest}]
    /\ python \in [Callers -> BOOLEAN] /\ expired \in [Callers -> BOOLEAN]
    /\ exit \in [Callers -> {"none", "ok", "failed", "killed"}]
    /\ helpers \in [Callers -> SUBSET {"group", "own"}]
    /\ result \in [Callers -> {"none", "not found", "missing argument", "setup failed", "failed", "ok"}]
    /\ restarts \in 0 .. MaxRestarts
    /\ spoiled \subseteq Dirs /\ outdated \subseteq Dirs /\ excused \subseteq Callers

\* A script of a command with a file of requirements runs without what that lists, or with
\* another interpreter than that of its .venv, only if a preparation of it failed or was cut
\* off by a restart, another call was preparing it when this one looked at it, or the file
\* came or changed when there was a .venv already; or one of the two was not seen.
UnpreparedHasCause ==
    \A k \in Callers :
        pc[k] = "running" /\ NeedsVenv(Cmd(k)) =>
            \/ python[k] /\ packages[Dir(k)] # "missing"
            \/ Dir(k) \in spoiled \cup outdated
            \/ k \in excused

\* The environment of a script has the variables the user was shown, each with a value
\* that was shown for it, every required argument among them, and the directory is the
\* one that was shown.  Names that differ only in case share a variable.
RunsAsShown ==
    \A k \in Callers :
        pc[k] \in {"running", "waited", "cut"} =>
            LET shown == Preview(Cmd(k), req[k].given, req[k].agentDir) IN
            /\ {p[1] : p \in shown.env} = DOMAIN env[k]
            /\ \A v \in DOMAIN env[k] : <<v, env[k][v]>> \in shown.env
            /\ \A a \in Cmd(k).arguments : a.required => VarOf[a.name] \in DOMAIN env[k]
            /\ workDir[k] = shown.workDir

\* A call that reports success leaves nothing behind that could still write to its
\* output, and one whose script was killed leaves nothing of its process group.
LeavesNothing ==
    \A k \in Callers :
        /\ result[k] = "ok" => exit[k] = "ok" /\ helpers[k] = {}
        /\ pc[k] = "returned" /\ exit[k] = "killed" => "group" \notin helpers[k]

\* Every call returns, also when the script or something it started never ends.
CallReturns ==
    \A k \in Callers :
        pc[k] = "prepare" \/ pc[k] = "choose"
            ~> pc[k] \in {"returned", "gone", "venv left", "pip left"}
=============================================================================
