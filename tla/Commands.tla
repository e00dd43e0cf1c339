------------------------------- MODULE Commands -------------------------------
(***************************************************************************)
(* User-defined commands (internal/command): what the registry makes of    *)
(* the manifests it finds at the start of the server, and what the         *)
(* run_command tool (internal/tool/builtin/command.go) makes of the        *)
(* arguments of a call: the preview the user is shown, and the environment *)
(* of the script.                                                          *)
(***************************************************************************)
EXTENDS Integers, Sequences, FiniteSets, FiniteSetsExt, TLC

CONSTANTS
    Manifests,  \* the directories of commands, in the order of their names
    VarOf       \* the variable of each argument name: the name in upper case

\* A directory is a number: that of a command its place in Manifests.
NoDir == 0

\* A sequence.
ASSUME ManifestsAssumption ==
    Len(Manifests) \in Nat /\ DOMAIN Manifests = 1 .. Len(Manifests)

\* The operators named ...Fault are faults a change of the code could bring in;
\* no specification uses them.

-----------------------------------------------------------------------------
(* Loading. *)

Normalized(m) ==
    [m EXCEPT !.workingDir = IF @ = "" THEN "command" ELSE @,
              !.timeout = IF @ <= 0 THEN 60 ELSE IF @ > 300 THEN 300 ELSE @]

Validates(c) ==
    /\ c.name # ""
    /\ c.runtime \in {"bash", "python"}
    /\ c.workingDir \in {"command", "agent"}
    /\ c.requirements \in {"none", "inside"}
    /\ \A a \in c.arguments : a.name # "" /\ a.type = "string"

\* A directory without a manifest, without the script or with an invalid command is skipped.
Loads(m) == m.parses /\ m.script /\ Validates(Normalized(m))

\* The command knows its directory.
CommandIn(d) ==
    LET c == Normalized(Manifests[d])
    IN [f \in DOMAIN c \cup {"dir"} |-> IF f = "dir" THEN d ELSE c[f]]

\* Of two directories that claim a name the later one has it.
Registry ==
    LET Claims(n) == {i \in DOMAIN Manifests : Loads(Manifests[i]) /\ Manifests[i].name = n}
    IN [n \in {Manifests[i].name : i \in {i \in DOMAIN Manifests : Loads(Manifests[i])}} |->
           CommandIn(Max(Claims(n)))]

-----------------------------------------------------------------------------
(* The arguments of a call: given is a partial function from names to values; a value  *)
(* that is not a string is dropped.                                                    *)

NotString == "<not a string>"

ExtractArgumentMap(given) == {<<n, given[n]>> : n \in {n \in DOMAIN given : given[n] # NotString}}

ResolveArguments(c, given) ==
    LET provided == ExtractArgumentMap(given)
    IN {p \in provided : \E a \in c.arguments : a.name = p[1]}
       \cup {<<a.name, a.default>> :
               a \in {a \in c.arguments : a.default # "" /\ \A p \in provided : p[1] # a.name}}

ValidateArguments(c, resolved) ==
    \A a \in c.arguments : a.required => \E p \in resolved : p[1] = a.name

\* The tool's working directory, if the call has one and the command wants it.
ResolveWorkDir(c, agentDir) ==
    IF c.workingDir = "agent" /\ agentDir # NoDir THEN agentDir ELSE c.dir

\* What the user is shown of the environment.
Preview(c, given, agentDir) ==
    [workDir |-> ResolveWorkDir(c, agentDir),
     env     |-> {<<VarOf[p[1]], p[2]>> : p \in ResolveArguments(c, given)}]

\* The names are not put into upper case.
BuildEnvFault(resolved) ==
    LET vars == {p[1] : p \in resolved}
    IN {env \in [vars -> {p[2] : p \in resolved}] : \A v \in vars : <<v, env[v]>> \in resolved}

\* The variables of the script.  They are collected in the random order of a Go map, and
\* of two values for a variable the later one counts.
BuildEnv(resolved) ==
    LET vars == {VarOf[p[1]] : p \in resolved}
    IN {env \in [vars -> {p[2] : p \in resolved}] :
          \A v \in vars : \E p \in resolved : VarOf[p[1]] = v /\ p[2] = env[v]}
=============================================================================
