---------------------------- MODULE MCCommandTool ----------------------------
(* A small instance of CommandTool for TLC. *)
EXTENDS CommandTool

Arg(name, required, default) ==
    [name |-> name, type |-> "string", required |-> required, default |-> default]

Manifest(name, runtime, requirements, arguments) ==
    [parses |-> TRUE, script |-> TRUE, name |-> name, runtime |-> runtime, workingDir |-> "",
     timeout |-> 0, requirements |-> requirements, arguments |-> arguments]

\* A Python command with a file of requirements, one without, a shell command whose
\* arguments share a variable, an older claimant of its name, and directories that are
\* skipped.
MCManifests == <<
    [Manifest("say", "bash", "none", {}) EXCEPT !.timeout = 400],
    Manifest("fetch", "python", "inside", {}),
    Manifest("plain", "python", "none", {Arg("n", TRUE, "")}),
    [Manifest("fetch", "bash", "none", {}) EXCEPT !.script = FALSE],
    [Manifest("plain", "bash", "outside", {}) EXCEPT !.workingDir = "agent"],
    [Manifest("say", "bash", "none", {Arg("n", TRUE, "x"), Arg("N", FALSE, "y"), Arg("m", FALSE, "")})
        EXCEPT !.workingDir = "agent", !.timeout = 400] >>

MCVarOf == [n |-> "N", N |-> "N", m |-> "M"]

\* The working directory of the run, which is no command's.
Project == Len(MCManifests) + 1

Ask(name, given, agentDir) == [name |-> name, given |-> given, agentDir |-> agentDir]

MCRequests == {
    Ask("fetch", NoEnv, NoDir),
    Ask("plain", [n |-> NotString], NoDir),
    Ask("say", [n |-> "1", m |-> "2"], Project),
    Ask("none", NoEnv, NoDir) }
=============================================================================
