--------------------------- MODULE BuiltinToolProofs ---------------------------
(***************************************************************************)
(* What a call of run_command leaves behind, for any commands, any number  *)
(* of calls at once and any number of restarts; that the edits of          *)
(* edit_file do what they mean, for any texts and any number of edits; and *)
(* that its preview and that of write_file show what will be written.      *)
(***************************************************************************)
EXTENDS CommandTool, EditFile, SequenceTheorems, WellFoundedInduction, TLAPS

-----------------------------------------------------------------------------
(* Induction over a set, which the provers can instantiate. *)

LEMMA HasLeast ==
  ASSUME NEW T \in SUBSET Nat, T # {}
  PROVE  \E t \in T : \A y \in T : t <= y
<1>1. \E t \in T : \A y \in T : <<y, t>> \notin OpToRel(<, Nat)
  BY WFMin, NatLessThanWellFounded, Zenon
<1>2. PICK t \in T : \A y \in T : <<y, t>> \notin OpToRel(<, Nat)
  BY <1>1
<1>3. \A y \in T : ~ (y < t)
  BY <1>2, Zenon DEF OpToRel
<1>4. QED
  BY <1>3

LEMMA Induction ==
  ASSUME NEW P \in SUBSET Nat, 0 \in P, \A n \in P : n + 1 \in P
  PROVE  P = Nat
<1> DEFINE T == Nat \ P
<1> SUFFICES ASSUME T # {} PROVE FALSE
  OBVIOUS
<1>1. PICK t \in T : \A y \in T : t <= y
  BY HasLeast
<1>2. t # 0 /\ t - 1 \in Nat /\ t - 1 \notin T
  BY <1>1
<1>3. t - 1 + 1 \in P
  BY <1>2
<1>4. QED
  BY <1>1, <1>3

-----------------------------------------------------------------------------
(* Calls of run_command. *)

\* The variables that follow the process of a call, and where each of them is at home.
FlowType ==
    /\ pc \in [Callers -> {"idle", "prepare", "creating", "created", "installing", "choose",
                           "start", "running", "waited", "cut", "returned", "gone",
                           "venv left", "pip left"}]
    /\ exit \in [Callers -> {"none", "ok", "failed", "killed"}]
    /\ helpers \in [Callers -> SUBSET {"group", "own"}]
    /\ result \in [Callers -> {"none", "not found", "missing argument", "setup failed",
                               "failed", "ok"}]

\* A killed process is one that was being waited for when its time was over; once the wait
\* for a script is cut short its group is gone.  Success is the last thing a call says.
CallInv(k) ==
    /\ exit[k] = "killed" => pc[k] \in {"creating", "installing", "cut", "returned", "gone"}
    /\ exit[k] = "killed" /\ pc[k] \in {"cut", "returned"} => "group" \notin helpers[k]
    /\ result[k] = "ok" => pc[k] = "returned" /\ exit[k] = "ok" /\ helpers[k] = {}

EndInv == FlowType /\ \A k \in Callers : CallInv(k)

LEMMA InitEndInv == Init => EndInv
<1> SUFFICES ASSUME Init PROVE EndInv
  OBVIOUS
<1>1. pc = [k \in Callers |-> "idle"] /\ exit = [k \in Callers |-> "none"]
      /\ result = [k \in Callers |-> "none"]
  BY DEF Init
<1>2. helpers = [k \in Callers |-> {}] /\ {} \in SUBSET {"group", "own"}
  BY DEF Init
<1>3. helpers \in [Callers -> SUBSET {"group", "own"}]
  BY <1>2
<1>4. FlowType
  BY <1>1, <1>3 DEF FlowType
<1>5. \A k \in Callers : CallInv(k)
  BY <1>1 DEF CallInv
<1>6. QED
  BY <1>4, <1>5 DEF EndInv

\* Where a restart leaves a call.
LEMMA RestartPoints ==
  ASSUME Restart
  PROVE  /\ pc' = [k \in Callers |-> pc'[k]]
         /\ \A k \in Callers :
              \/ pc'[k] = pc[k] /\ pc[k] \in {"idle", "returned", "venv left", "pip left"}
              \/ /\ pc[k] \in {"creating", "installing"} /\ exit[k] = "none"
                 /\ pc'[k] \in {"venv left", "pip left"}
              \/ pc'[k] = "gone" /\ pc[k] # "returned"
<1> DEFINE goesOn == {k \in Callers : Working(k) /\ exit[k] = "none"}
           At(k) == CASE k \in goesOn -> IF pc[k] = "creating" THEN "venv left" ELSE "pip left"
                      [] pc[k] \in {"idle", "returned", "venv left", "pip left"} -> pc[k]
                      [] OTHER -> "gone"
<1>1. pc' = [k \in Callers |-> At(k)]
  BY DEF Restart
<1>2. \A k \in Callers : k \in goesOn => pc[k] \in {"creating", "installing"} /\ exit[k] = "none"
  BY DEF Working
<1> HIDE DEF goesOn
<1>3. ASSUME NEW k \in Callers
      PROVE  \/ At(k) = pc[k] /\ pc[k] \in {"idle", "returned", "venv left", "pip left"}
             \/ /\ pc[k] \in {"creating", "installing"} /\ exit[k] = "none"
                /\ At(k) \in {"venv left", "pip left"}
             \/ At(k) = "gone" /\ pc[k] # "returned"
  <2>1. CASE k \in goesOn
    BY <1>2, <2>1
  <2>2. CASE k \notin goesOn
    BY <2>2
  <2>3. QED
    BY <2>1, <2>2
<1> HIDE DEF At
<1>4. QED
  BY <1>1, <1>3

\* A step of one call does not touch what the invariant says of the others.
LEMMA OneCall ==
  ASSUME EndInv, FlowType', NEW k \in Callers, CallInv(k)',
         \A j \in Callers \ {k} : UNCHANGED <<pc[j], exit[j], helpers[j], result[j]>>
  PROVE  EndInv'
<1>1. \A j \in Callers \ {k} : CallInv(j)'
  BY DEF EndInv, CallInv
<1>2. QED
  BY <1>1 DEF EndInv

\* What one call's helpers may become.
LEMMA OneHelpers ==
  ASSUME helpers \in [Callers -> SUBSET {"group", "own"}], NEW k \in Callers,
         NEW S \in SUBSET {"group", "own"}, helpers' = [helpers EXCEPT ![k] = S]
  PROVE  helpers' \in [Callers -> SUBSET {"group", "own"}]
OBVIOUS

\* The steps before the script.
LEMMA SetupEndInv ==
  ASSUME EndInv, NEW k \in Callers,
         \/ \E r \in Requests : Resolve(k, r)
         \/ TakeVenv(k) \/ StartSetup(k) \/ NothingToInstall(k) \/ VenvGrows(k)
         \/ PackagesArrive(k) \/ SetupEnds(k) \/ SetupReturns(k) \/ ChooseInterpreter(k)
  PROVE  EndInv'
<1> USE DEF Goto, Return, FailSetup, disk, asked, process, history
<1>0. FlowType /\ CallInv(k)
  BY DEF EndInv
<1>1. CASE VenvGrows(k) \/ PackagesArrive(k)
  BY <1>1 DEF VenvGrows, PackagesArrive, EndInv, FlowType, CallInv
<1>2. CASE TakeVenv(k) \/ NothingToInstall(k) \/ ChooseInterpreter(k)
  <2>1. /\ pc[k] \in {"prepare", "created", "choose"} /\ UNCHANGED <<exit, helpers, result>>
        /\ \E at \in {"choose", "start"} : pc' = [pc EXCEPT ![k] = at]
    BY <1>2 DEF TakeVenv, NothingToInstall, ChooseInterpreter
  <2>2. FlowType' /\ CallInv(k)'
    BY <1>0, <2>1 DEF FlowType, CallInv
  <2>3. \A j \in Callers \ {k} : UNCHANGED <<pc[j], exit[j], helpers[j], result[j]>>
    BY <1>0, <2>1 DEF FlowType
  <2>4. QED
    BY <2>2, <2>3, OneCall
<1>3. CASE \E r \in Requests : Resolve(k, r)
  <2>1. /\ pc[k] = "idle" /\ UNCHANGED <<exit, helpers>>
        /\ \/ /\ \E at \in {"prepare", "choose"} : pc' = [pc EXCEPT ![k] = at]
              /\ result' = result
           \/ /\ pc' = [pc EXCEPT ![k] = "returned"]
              /\ \E how \in {"not found", "missing argument"} : result' = [result EXCEPT ![k] = how]
    BY <1>3 DEF Resolve
  <2>2. FlowType' /\ CallInv(k)'
    <3>1. FlowType'
      BY <1>0, <2>1 DEF FlowType
    <3>2. exit[k] # "killed" /\ result'[k] # "ok"
      BY <1>0, <2>1 DEF FlowType, CallInv
    <3>3. QED
      BY <2>1, <3>1, <3>2 DEF CallInv
  <2>3. \A j \in Callers \ {k} : UNCHANGED <<pc[j], exit[j], helpers[j], result[j]>>
    BY <1>0, <2>1 DEF FlowType
  <2>4. QED
    BY <2>2, <2>3, OneCall
<1>4. CASE StartSetup(k)
  <2>1. /\ pc[k] \in {"prepare", "created"} /\ UNCHANGED <<exit, helpers>>
        /\ \/ /\ \E at \in {"creating", "installing"} : pc' = [pc EXCEPT ![k] = at]
              /\ result' = result
           \/ /\ pc' = [pc EXCEPT ![k] = "returned"]
              /\ result' = [result EXCEPT ![k] = "setup failed"]
    BY <1>4 DEF StartSetup
  <2>2. FlowType' /\ CallInv(k)'
    BY <1>0, <2>1 DEF FlowType, CallInv
  <2>3. \A j \in Callers \ {k} : UNCHANGED <<pc[j], exit[j], helpers[j], result[j]>>
    BY <1>0, <2>1 DEF FlowType
  <2>4. QED
    BY <2>2, <2>3, OneCall
<1>5. CASE SetupEnds(k)
  <2>1. /\ pc[k] \in {"creating", "installing"} /\ UNCHANGED <<pc, result>>
        /\ \E how \in {"ok", "failed", "killed"} : exit' = [exit EXCEPT ![k] = how]
        /\ helpers' = helpers \/ helpers' = [helpers EXCEPT ![k] = {"own"}]
    BY <1>5 DEF SetupEnds, Working
  <2>2. FlowType' /\ CallInv(k)'
    <3>1. {"own"} \in SUBSET {"group", "own"}
      OBVIOUS
    <3>2. helpers' \in [Callers -> SUBSET {"group", "own"}]
      BY <1>0, <2>1, <3>1 DEF FlowType
    <3>3. exit' \in [Callers -> {"none", "ok", "failed", "killed"}]
      BY <1>0, <2>1 DEF FlowType
    <3>4. CallInv(k)'
      BY <1>0, <2>1 DEF FlowType, CallInv
    <3>5. QED
      BY <1>0, <2>1, <3>2, <3>3, <3>4 DEF FlowType
  <2>3. \A j \in Callers \ {k} : UNCHANGED <<pc[j], exit[j], helpers[j], result[j]>>
    BY <1>0, <2>1 DEF FlowType
  <2>4. QED
    BY <2>2, <2>3, OneCall
<1>6. CASE SetupReturns(k)
  <2>1. /\ pc[k] \in {"creating", "installing"} /\ helpers' = helpers
        /\ exit' = [exit EXCEPT ![k] = "none"]
        /\ \/ /\ \E at \in {"created", "choose"} : pc' = [pc EXCEPT ![k] = at]
              /\ result' = result
           \/ /\ pc' = [pc EXCEPT ![k] = "returned"]
              /\ result' = [result EXCEPT ![k] = "setup failed"]
    BY <1>6 DEF SetupReturns, Working
  <2>2. FlowType' /\ CallInv(k)'
    BY <1>0, <2>1 DEF FlowType, CallInv
  <2>3. \A j \in Callers \ {k} : UNCHANGED <<pc[j], exit[j], helpers[j], result[j]>>
    BY <1>0, <2>1 DEF FlowType
  <2>4. QED
    BY <2>2, <2>3, OneCall
<1>7. QED
  BY <1>1, <1>2, <1>3, <1>4, <1>5, <1>6

\* The script and its end.
LEMMA ScriptEndInv ==
  ASSUME EndInv, NEW k \in Callers,
         \/ StartScript(k) \/ SpawnHelper(k) \/ HelperEnds(k) \/ ScriptExits(k) \/ Expire(k)
         \/ KillGroup(k) \/ Reap(k) \/ ScriptReturns(k) \/ LeftEnds(k)
  PROVE  EndInv'
<1> USE DEF Goto, Return, disk, asked, process, history
<1>0. FlowType /\ CallInv(k)
  BY DEF EndInv
<1>1. CASE StartScript(k)
  <2>1. /\ pc[k] = "start" /\ UNCHANGED <<exit, helpers>>
        /\ \/ pc' = [pc EXCEPT ![k] = "running"] /\ result' = result
           \/ /\ pc' = [pc EXCEPT ![k] = "returned"]
              /\ result' = [result EXCEPT ![k] = "failed"]
    BY <1>1 DEF StartScript
  <2>2. FlowType' /\ CallInv(k)'
    BY <1>0, <2>1 DEF FlowType, CallInv
  <2>3. \A j \in Callers \ {k} : UNCHANGED <<pc[j], exit[j], helpers[j], result[j]>>
    BY <1>0, <2>1 DEF FlowType
  <2>4. QED
    BY <2>2, <2>3, OneCall
<1>2. CASE SpawnHelper(k)
  <2>1. /\ pc[k] = "running" /\ UNCHANGED <<pc, exit, result>>
        /\ \E h \in {"group", "own"} : helpers' = [helpers EXCEPT ![k] = helpers[k] \cup {h}]
    BY <1>2 DEF SpawnHelper
  <2>2. FlowType' /\ CallInv(k)'
    <3>1. \A h \in {"group", "own"} : helpers[k] \cup {h} \in SUBSET {"group", "own"}
      BY <1>0 DEF FlowType
    <3>2. helpers' \in [Callers -> SUBSET {"group", "own"}]
      <4>1. PICK h \in {"group", "own"} : helpers' = [helpers EXCEPT ![k] = helpers[k] \cup {h}]
        BY <2>1
      <4>2. QED
        BY <1>0, <3>1, <4>1, OneHelpers DEF FlowType
    <3>3. CallInv(k)'
      BY <1>0, <2>1 DEF CallInv
    <3>4. QED
      BY <1>0, <2>1, <3>2, <3>3 DEF FlowType
  <2>3. \A j \in Callers \ {k} : UNCHANGED <<pc[j], exit[j], helpers[j], result[j]>>
    BY <1>0, <2>1 DEF FlowType
  <2>4. QED
    BY <2>2, <2>3, OneCall
<1>3. CASE HelperEnds(k)
  <2>1. /\ UNCHANGED <<pc, exit, result>>
        /\ \E h \in helpers[k] : helpers' = [helpers EXCEPT ![k] = helpers[k] \ {h}]
    BY <1>3 DEF HelperEnds
  <2>2. FlowType' /\ CallInv(k)'
    <3>1. \A h : helpers[k] \ {h} \in SUBSET {"group", "own"}
      BY <1>0 DEF FlowType
    <3>2. helpers' \in [Callers -> SUBSET {"group", "own"}]
      <4>1. PICK h \in helpers[k] : helpers' = [helpers EXCEPT ![k] = helpers[k] \ {h}]
        BY <2>1
      <4>2. QED
        BY <1>0, <3>1, <4>1, OneHelpers DEF FlowType
    <3>3. helpers'[k] \subseteq helpers[k]
      BY <1>0, <2>1 DEF FlowType
    <3>4. CallInv(k)'
      BY <1>0, <2>1, <3>3 DEF CallInv
    <3>5. QED
      BY <1>0, <2>1, <3>2, <3>4 DEF FlowType
  <2>3. \A j \in Callers \ {k} : UNCHANGED <<pc[j], exit[j], helpers[j], result[j]>>
    BY <1>0, <2>1 DEF FlowType
  <2>4. QED
    BY <2>2, <2>3, OneCall
<1>4. CASE ScriptExits(k)
  <2>1. /\ pc[k] = "running" /\ UNCHANGED <<pc, helpers, result>>
        /\ \E how \in {"ok", "failed"} : exit' = [exit EXCEPT ![k] = how]
    BY <1>4 DEF ScriptExits
  <2>2. FlowType' /\ CallInv(k)'
    BY <1>0, <2>1 DEF FlowType, CallInv
  <2>3. \A j \in Callers \ {k} : UNCHANGED <<pc[j], exit[j], helpers[j], result[j]>>
    BY <1>0, <2>1 DEF FlowType
  <2>4. QED
    BY <2>2, <2>3, OneCall
<1>5. CASE Expire(k)
  BY <1>5 DEF Expire, EndInv, FlowType, CallInv
<1>6. CASE KillGroup(k)
  <2>1. /\ pc[k] = "running" /\ result' = result /\ pc' = [pc EXCEPT ![k] = "cut"]
        /\ exit' = [exit EXCEPT ![k] = IF exit[k] = "none" THEN "killed" ELSE exit[k]]
        /\ helpers' = [helpers EXCEPT ![k] = helpers[k] \ {"group"}]
    BY <1>6 DEF KillGroup
  <2>2. FlowType' /\ CallInv(k)'
    <3>1. helpers[k] \ {"group"} \in SUBSET {"group", "own"}
      BY <1>0 DEF FlowType
    <3>2. helpers' \in [Callers -> SUBSET {"group", "own"}]
      BY <1>0, <2>1, <3>1 DEF FlowType
    <3>3. exit' \in [Callers -> {"none", "ok", "failed", "killed"}]
      BY <1>0, <2>1 DEF FlowType
    <3>4. pc' \in [Callers -> {"idle", "prepare", "creating", "created", "installing",
                              "choose", "start", "running", "waited", "cut", "returned", "gone",
                              "venv left", "pip left"}]
      BY <1>0, <2>1 DEF FlowType
    <3>5. /\ pc'[k] = "cut" /\ "group" \notin helpers'[k]
          /\ result'[k] = result[k] /\ result[k] # "ok"
      BY <1>0, <2>1 DEF FlowType, CallInv
    <3>6. CallInv(k)'
      BY <3>5 DEF CallInv
    <3>7. QED
      BY <1>0, <2>1, <3>2, <3>3, <3>4, <3>6 DEF FlowType
  <2>3. \A j \in Callers \ {k} : UNCHANGED <<pc[j], exit[j], helpers[j], result[j]>>
    BY <1>0, <2>1 DEF FlowType
  <2>4. QED
    BY <2>2, <2>3, OneCall
<1>7. CASE Reap(k)
  <2>1. /\ pc[k] = "running" /\ pc' = [pc EXCEPT ![k] = "waited"]
        /\ UNCHANGED <<exit, helpers, result>>
    BY <1>7 DEF Reap
  <2>2. FlowType' /\ CallInv(k)'
    BY <1>0, <2>1 DEF FlowType, CallInv
  <2>3. \A j \in Callers \ {k} : UNCHANGED <<pc[j], exit[j], helpers[j], result[j]>>
    BY <1>0, <2>1 DEF FlowType
  <2>4. QED
    BY <2>2, <2>3, OneCall
<1>8. CASE ScriptReturns(k)
  <2>1. /\ pc[k] \in {"waited", "cut"} /\ UNCHANGED <<exit, helpers>>
        /\ pc' = [pc EXCEPT ![k] = "returned"]
        /\ \/ result' = [result EXCEPT ![k] = "failed"]
           \/ /\ pc[k] = "waited" /\ exit[k] = "ok" /\ helpers[k] = {}
              /\ result' = [result EXCEPT ![k] = "ok"]
    BY <1>8 DEF ScriptReturns
  <2>2. FlowType' /\ CallInv(k)'
    BY <1>0, <2>1 DEF FlowType, CallInv
  <2>3. \A j \in Callers \ {k} : UNCHANGED <<pc[j], exit[j], helpers[j], result[j]>>
    BY <1>0, <2>1 DEF FlowType
  <2>4. QED
    BY <2>2, <2>3, OneCall
<1>9. CASE LeftEnds(k)
  <2>1. /\ pc[k] \in {"venv left", "pip left"} /\ pc' = [pc EXCEPT ![k] = "gone"]
        /\ UNCHANGED <<exit, helpers, result>>
    BY <1>9 DEF LeftEnds
  <2>2. FlowType' /\ CallInv(k)'
    BY <1>0, <2>1 DEF FlowType, CallInv
  <2>3. \A j \in Callers \ {k} : UNCHANGED <<pc[j], exit[j], helpers[j], result[j]>>
    BY <1>0, <2>1 DEF FlowType
  <2>4. QED
    BY <2>2, <2>3, OneCall
<1>10. QED
  BY <1>1, <1>2, <1>3, <1>4, <1>5, <1>6, <1>7, <1>8, <1>9

LEMMA NextEndInv == EndInv /\ [Next]_vars => EndInv'
<1> SUFFICES ASSUME EndInv, [Next]_vars PROVE EndInv'
  OBVIOUS
<1>1. ASSUME NEW k \in Callers, Proceeds(k) \/ Programs(k) \/ Expire(k) PROVE EndInv'
  BY <1>1, SetupEndInv, ScriptEndInv DEF Proceeds, Programs
<1>2. ASSUME NEW k \in Callers, NEW r \in Requests, Resolve(k, r) PROVE EndInv'
  BY <1>2, SetupEndInv
<1>3. CASE Restart
  <2>1. UNCHANGED <<exit, helpers, result>>
    BY <1>3 DEF Restart, process
  <2>2. FlowType'
    BY <1>3, <2>1, RestartPoints DEF EndInv, FlowType
  <2>3. ASSUME NEW k \in Callers PROVE CallInv(k)'
    <3>1. /\ exit'[k] = exit[k] /\ helpers'[k] = helpers[k] /\ result'[k] = result[k]
          /\ CallInv(k)
      BY <2>1 DEF EndInv
    <3>2. \/ pc'[k] = pc[k] /\ pc[k] \in {"idle", "returned", "venv left", "pip left"}
          \/ /\ pc[k] \in {"creating", "installing"} /\ exit[k] = "none"
             /\ pc'[k] \in {"venv left", "pip left"}
          \/ pc'[k] = "gone" /\ pc[k] # "returned"
      BY <1>3, RestartPoints
    <3>3. QED
      BY <3>1, <3>2 DEF CallInv
  <2>4. QED
    BY <2>2, <2>3 DEF EndInv
<1>4. CASE UNCHANGED <<pc, exit, helpers, result>>
  BY <1>4 DEF EndInv, FlowType, CallInv
<1>5. ASSUME NEW d, EditRequirements(d) PROVE UNCHANGED <<pc, exit, helpers, result>>
  BY <1>5 DEF EditRequirements, process
<1>6. QED
  BY <1>1, <1>2, <1>3, <1>4, <1>5 DEF Next, vars, process

\* A call of run_command (builtin/command.go) that reports success leaves nothing that could
\* still write to its output; one whose script was killed leaves nothing of its process group.
THEOREM NothingLeftBehind == Spec => []LeavesNothing
<1>1. EndInv => LeavesNothing
  BY DEF EndInv, CallInv, LeavesNothing
<1>2. QED
  BY <1>1, InitEndInv, NextEndInv, PTL DEF Spec

-----------------------------------------------------------------------------
(* A script gets what the user was shown. *)

\* From the resolution of its arguments until it returns.
Resolved(k) == pc[k] \notin {"idle", "returned", "gone"}

Shows(k) ==
    LET shown == Preview(Cmd(k), req[k].given, req[k].agentDir) IN
    /\ {p[1] : p \in shown.env} = DOMAIN env[k]
    /\ \A v \in DOMAIN env[k] : <<v, env[k][v]>> \in shown.env
    /\ \A a \in Cmd(k).arguments : a.required => VarOf[a.name] \in DOMAIN env[k]
    /\ workDir[k] = shown.workDir

ShownInv ==
    /\ req = [k \in Callers |-> req[k]]
    /\ env = [k \in Callers |-> env[k]]
    /\ workDir = [k \in Callers |-> workDir[k]]
    /\ pc = [k \in Callers |-> pc[k]]
    /\ \A k \in Callers : Resolved(k) => Shows(k)

\* The variables of a script are those of the resolved arguments, whatever the order is
\* in which the code meets them.
LEMMA EnvironmentShown ==
  ASSUME NEW c, NEW given, NEW agentDir, ValidateArguments(c, ResolveArguments(c, given)),
         NEW e \in BuildEnv(ResolveArguments(c, given))
  PROVE  /\ {p[1] : p \in Preview(c, given, agentDir).env} = DOMAIN e
         /\ \A v \in DOMAIN e : <<v, e[v]>> \in Preview(c, given, agentDir).env
         /\ \A a \in c.arguments : a.required => VarOf[a.name] \in DOMAIN e
<1> DEFINE resolved == ResolveArguments(c, given)
           names == {VarOf[p[1]] : p \in resolved}
<1>1. /\ DOMAIN e = names
      /\ \A v \in names : \E p \in resolved : VarOf[p[1]] = v /\ p[2] = e[v]
  BY DEF BuildEnv
<1>2. Preview(c, given, agentDir).env = {<<VarOf[p[1]], p[2]>> : p \in resolved}
  BY DEF Preview
<1>3. \A a \in c.arguments : a.required => \E p \in resolved : p[1] = a.name
  BY DEF ValidateArguments
<1> HIDE DEF resolved
<1> DEFINE shown == {<<VarOf[p[1]], p[2]>> : p \in resolved}
<1>4. {q[1] : q \in shown} = names
  <2>1. ASSUME NEW q \in shown PROVE q[1] \in names
    OBVIOUS
  <2>2. ASSUME NEW p \in resolved PROVE \E q \in shown : q[1] = VarOf[p[1]]
    <3>1. <<VarOf[p[1]], p[2]>> \in shown
      OBVIOUS
    <3>2. QED
      BY <3>1
  <2>3. QED
    BY <2>1, <2>2
<1>5. \A v \in names : <<v, e[v]>> \in shown
  BY <1>1
<1>6. \A a \in c.arguments : a.required => VarOf[a.name] \in names
  BY <1>3
<1>7. QED
  BY <1>1, <1>2, <1>4, <1>5, <1>6

LEMMA ResolveShown ==
  ASSUME ShownInv, NEW k \in Callers, NEW r \in Requests, Resolve(k, r)
  PROVE  ShownInv'
<1>1. /\ req' = [req EXCEPT ![k] = r]
      /\ pc[k] = "idle"
  BY DEF Resolve
<1>2. CASE pc' = [pc EXCEPT ![k] = "returned"] /\ UNCHANGED <<env, workDir>>
  <2>1. \A j \in Callers : Resolved(j)' => Resolved(j) /\ (Shows(j)' <=> Shows(j))
    BY <1>1, <1>2 DEF ShownInv, Resolved, Shows, Cmd
  <2>2. QED
    BY <1>1, <1>2, <2>1 DEF ShownInv
<1>3. CASE /\ r.name \in DOMAIN Registry
           /\ ValidateArguments(Registry[r.name], ResolveArguments(Registry[r.name], r.given))
  <2>1. PICK e \in BuildEnv(ResolveArguments(Registry[r.name], r.given)) :
          env' = [env EXCEPT ![k] = e]
    BY <1>3 DEF Resolve
  <2>2. /\ workDir' = [workDir EXCEPT ![k] = ResolveWorkDir(Registry[r.name], r.agentDir)]
        /\ \E at \in {"prepare", "choose"} : pc' = [pc EXCEPT ![k] = at]
    BY <1>3 DEF Resolve, Goto
  <2>3. req'[k] = r /\ env'[k] = e /\ workDir'[k] = ResolveWorkDir(Registry[r.name], r.agentDir)
    BY <1>1, <2>1, <2>2 DEF ShownInv
  <2>4. Preview(Registry[r.name], r.given, r.agentDir).workDir
          = ResolveWorkDir(Registry[r.name], r.agentDir)
    BY DEF Preview
  <2>5. Shows(k)'
    <3>1. PICK c, a : c = Registry[r.name] /\ a = r.agentDir
      OBVIOUS
    <3>2. Cmd(k)' = c /\ req'[k].given = r.given /\ req'[k].agentDir = a
      BY <2>3, <3>1 DEF Cmd
    <3>3. /\ {p[1] : p \in Preview(c, r.given, a).env} = DOMAIN e
          /\ \A v \in DOMAIN e : <<v, e[v]>> \in Preview(c, r.given, a).env
          /\ \A b \in c.arguments : b.required => VarOf[b.name] \in DOMAIN e
      BY <1>3, <3>1, EnvironmentShown
    <3>4. workDir'[k] = Preview(c, r.given, a).workDir
      BY <2>3, <2>4, <3>1
    <3>5. QED
      BY <2>3, <3>2, <3>3, <3>4 DEF Shows
  <2>6. \A j \in Callers \ {k} : Resolved(j)' => Resolved(j) /\ (Shows(j)' <=> Shows(j))
    BY <1>1, <2>1, <2>2 DEF ShownInv, Resolved, Shows, Cmd
  <2>7. QED
    BY <1>1, <2>1, <2>2, <2>5, <2>6 DEF ShownInv
<1>4. QED
  BY <1>2, <1>3 DEF Resolve, Return, Goto

\* No other step touches the request, the environment or the directory of a call.
LEMMA ShownKept ==
  ASSUME ShownInv, UNCHANGED <<req, env, workDir>>, pc' = [k \in Callers |-> pc'[k]],
         \A k \in Callers : Resolved(k)' => Resolved(k)
  PROVE  ShownInv'
<1>1. \A k \in Callers : Shows(k)' <=> Shows(k)
  BY DEF Shows, Cmd
<1>2. QED
  BY <1>1 DEF ShownInv

LEMMA NextShownInv == ShownInv /\ [Next]_vars => ShownInv'
<1> SUFFICES ASSUME ShownInv, [Next]_vars PROVE ShownInv'
  OBVIOUS
<1> USE DEF ShownInv, Resolved, asked, Goto, Return
<1>1. ASSUME NEW k \in Callers, Proceeds(k) PROVE ShownInv'
  <2>1. CASE TakeVenv(k) \/ NothingToInstall(k) \/ ChooseInterpreter(k)
    BY <2>1, ShownKept DEF TakeVenv, NothingToInstall, ChooseInterpreter
  <2>2. CASE StartSetup(k) \/ SetupReturns(k)
    BY <2>2, ShownKept DEF StartSetup, SetupReturns, FailSetup, Working
  <2>3. CASE StartScript(k) \/ KillGroup(k) \/ Reap(k) \/ ScriptReturns(k)
    BY <2>3, ShownKept DEF StartScript, KillGroup, Reap, ScriptReturns
  <2>4. QED
    BY <1>1, <2>1, <2>2, <2>3 DEF Proceeds
<1>2. ASSUME NEW k \in Callers, Programs(k) \/ Expire(k) PROVE ShownInv'
  BY <1>2, ShownKept
  DEF Programs, Expire, VenvGrows, PackagesArrive, SetupEnds, LeftEnds, SpawnHelper, HelperEnds,
      ScriptExits
<1>3. ASSUME NEW k \in Callers, NEW r \in Requests, Resolve(k, r) PROVE ShownInv'
  BY <1>3, ResolveShown
<1>4. CASE Restart
  <2>1. UNCHANGED <<req, env, workDir>>
    BY <1>4 DEF Restart
  <2>2. QED
    BY <1>4, <2>1, ShownKept, RestartPoints
<1>5. CASE UNCHANGED <<pc, req, env, workDir>>
  BY <1>5, ShownKept
<1>6. ASSUME NEW d, EditRequirements(d) PROVE UNCHANGED <<pc, req, env, workDir>>
  BY <1>6 DEF EditRequirements
<1>7. QED
  BY <1>1, <1>2, <1>3, <1>4, <1>5, <1>6 DEF Next, vars

\* A script of run_command runs with the variables, the values and the directory of the
\* preview, every required argument among them: for any commands and any arguments, also
\* when names that differ only in case share a variable.
THEOREM ShownIsRun == Spec => []RunsAsShown
<1>1. Init => ShownInv
  BY DEF Init, ShownInv, Resolved
<1>2. ShownInv => RunsAsShown
  BY DEF ShownInv, Resolved, Shows, RunsAsShown
<1>3. QED
  BY <1>1, <1>2, NextShownInv, PTL DEF Spec

-----------------------------------------------------------------------------
(* The directory of a command. *)

\* A set of places in a sequence has a last one.
LEMMA LastPlace ==
  ASSUME NEW n \in Nat, NEW S \in SUBSET (1 .. n), S # {}
  PROVE  Max(S) \in S
<1> DEFINE T == {n - i : i \in S}
<1>1. T \subseteq Nat
  <2>1. \A i \in S : i \in 1 .. n
    OBVIOUS
  <2>2. \A i \in 1 .. n : n - i \in Nat
    OBVIOUS
  <2>3. QED
    BY <2>1, <2>2
<1>2. T # {}
  <2>1. PICK i : i \in S
    OBVIOUS
  <2>2. n - i \in T
    BY <2>1
  <2>3. QED
    BY <2>2
<1>3. \E t \in T : \A y \in T : t <= y
  <2> HIDE DEF T
  <2>1. QED
    BY <1>1, <1>2, HasLeast
<1>4. PICK t \in T : \A y \in T : t <= y
  BY <1>3
<1>5. \A y \in T : ~ (y < t)
  <2> HIDE DEF T
  <2>1. QED
    BY <1>1, <1>4
<1>6. PICK i \in S : t = n - i
  OBVIOUS
<1>7. \A j \in S : i >= j
  <2>1. \A j \in S : j \in 1 .. n /\ ~ (n - j < n - i)
    BY <1>5, <1>6
  <2>2. QED
    BY <2>1
<1>8. QED
  BY <1>7 DEF Max

\* A command has the directory of the manifest that names it, so no two have the same.
LEMMA DirectoryOfCommand ==
  ASSUME NEW n \in DOMAIN Registry
  PROVE  Registry[n].dir \in Dirs /\ Manifests[Registry[n].dir].name = n
<1> DEFINE Claims == {i \in DOMAIN Manifests : Loads(Manifests[i]) /\ Manifests[i].name = n}
<1>1. Claims # {}
  BY DEF Registry
<1>2. Max(Claims) \in Claims
  BY <1>1, LastPlace, ManifestsAssumption
<1>3. Registry[n] = CommandIn(Max(Claims))
  BY DEF Registry
<1>4. \A d : CommandIn(d).dir = d
  BY DEF CommandIn
<1>5. QED
  BY <1>2, <1>3, <1>4 DEF Dirs

-----------------------------------------------------------------------------
(* A .venv that is not ready has a cause. *)

Lists(k) == NeedsVenv(Cmd(k))

Ready(d) == venv[d] = "pip" /\ packages[d] # "missing"

Excuse(k) == Dir(k) \in spoiled \cup outdated \/ k \in excused

PrepareType ==
    /\ venv \in [Dirs -> Stages] /\ packages \in [Dirs -> Listings]
    /\ pc = [k \in Callers |-> pc[k]] /\ req = [k \in Callers |-> req[k]]
    /\ python = [k \in Callers |-> python[k]]
    /\ exit = [k \in Callers |-> exit[k]]

\* What a call may rely on of its .venv: a preparation has done all before its control
\* point, and where the script is next either all is done or there is a cause.
StageInv(k) ==
    /\ Resolved(k) => req[k].name \in DOMAIN Registry
    /\ pc[k] \in {"idle", "prepare", "created"} => exit[k] = "none"
    /\ pc[k] = "creating" /\ exit[k] = "ok" => venv[Dir(k)] = "pip"
    /\ pc[k] \in {"created", "installing"} => venv[Dir(k)] = "pip"
    /\ pc[k] = "installing" /\ exit[k] = "ok" => Ready(Dir(k)) \/ Dir(k) \in outdated
    /\ pc[k] = "choose" /\ Lists(k) => Ready(Dir(k)) \/ Excuse(k)
    /\ pc[k] \in {"start", "running"} /\ Lists(k) => (python[k] /\ Ready(Dir(k))) \/ Excuse(k)
    /\ pc[k] \in {"venv left", "pip left"} => Dir(k) \in spoiled

\* A .venv that is there and not ready is being prepared, its preparation was not finished,
\* or its requirements are newer.
StartedInv(n) ==
    NeedsVenv(Registry[n]) =>
        LET d == Registry[n].dir IN
        \/ venv[d] = "absent" \/ Ready(d) \/ d \in spoiled \cup outdated
        \/ \E k \in Callers : Preparing(k) /\ req[k].name = n

PreparedInv ==
    /\ PrepareType
    /\ \A k \in Callers : StageInv(k)
    /\ \A n \in DOMAIN Registry : StartedInv(n)

LEMMA InitPreparedInv == Init => PreparedInv
<1> SUFFICES ASSUME Init PROVE PreparedInv
  OBVIOUS
<1>1. PrepareType
  BY DEF Init, PrepareType, Stages, Listings
<1>2. \A k \in Callers : StageInv(k)
  BY DEF Init, StageInv, Resolved
<1>3. \A n \in DOMAIN Registry : StartedInv(n)
  BY DirectoryOfCommand DEF Init, StartedInv
<1>4. QED
  BY <1>1, <1>2, <1>3 DEF PreparedInv

\* What was done of any .venv stays done unless it is noted, and what was noted stays noted.
Grew ==
    /\ \A d \in Dirs : venv[d] = "pip" => venv'[d] = "pip"
    /\ \A d \in Dirs : Ready(d) => Ready(d)' \/ d \in outdated'
    /\ spoiled \subseteq spoiled' /\ outdated \subseteq outdated' /\ excused \subseteq excused'

\* A step that leaves the directories alone.
LEMMA DiskKept ==
  ASSUME UNCHANGED <<venv, packages>>,
         spoiled \subseteq spoiled', outdated \subseteq outdated', excused \subseteq excused'
  PROVE  Grew
BY DEF Grew, Ready

SameCall(k) == UNCHANGED <<pc[k], req[k], python[k], exit[k]>>

\* So a call that takes no step keeps what it may rely on.
LEMMA StageKept ==
  ASSUME NEW k \in Callers, StageInv(k), SameCall(k), Grew
  PROVE  StageInv(k)'
<1>1. CASE Resolved(k)
  <2>1. Dir(k) \in Dirs
    BY <1>1, DirectoryOfCommand DEF StageInv, Dir, Cmd
  <2>2. Cmd(k)' = Cmd(k) /\ Dir(k)' = Dir(k) /\ (Lists(k)' <=> Lists(k))
    BY DEF SameCall, Cmd, Dir, Lists
  <2>3. Excuse(k) => Excuse(k)'
    BY <2>2 DEF Grew, Excuse
  <2>4. /\ Ready(Dir(k)) => Ready(Dir(k))' \/ Dir(k)' \in outdated'
        /\ Resolved(k)' <=> Resolved(k)
    <3>1. Ready(Dir(k))' <=> venv'[Dir(k)] = "pip" /\ packages'[Dir(k)] # "missing"
      BY <2>2 DEF Ready
    <3>2. \A d \in Dirs : Ready(d) =>
            (venv'[d] = "pip" /\ packages'[d] # "missing") \/ d \in outdated'
      BY DEF Grew, Ready
    <3>3. QED
      BY <2>1, <2>2, <3>1, <3>2 DEF SameCall, Resolved
  <2>5. /\ venv[Dir(k)] = "pip" => venv'[Dir(k)'] = "pip"
        /\ Dir(k) \in spoiled => Dir(k)' \in spoiled'
        /\ Dir(k) \in outdated => Dir(k)' \in outdated'
    BY <2>1, <2>2 DEF Grew
  <2>6. Dir(k)' \in outdated' => Excuse(k)'
    BY DEF Excuse
  <2>7. UNCHANGED <<pc[k], req[k], python[k], exit[k]>>
    BY DEF SameCall
  <2>8. QED
    BY <2>2, <2>3, <2>4, <2>5, <2>6, <2>7 DEF StageInv
<1>2. CASE ~ Resolved(k)
  BY <1>2 DEF StageInv, Resolved, SameCall
<1>3. QED
  BY <1>1, <1>2

LEMMA PreparedStep ==
  ASSUME PreparedInv, NEW k \in Callers, PrepareType', Grew,
         \A j \in Callers \ {k} : SameCall(j),
         StageInv(k)', \A n \in DOMAIN Registry : StartedInv(n)'
  PROVE  PreparedInv'
<1>1. \A j \in Callers \ {k} : StageInv(j)'
  BY StageKept DEF PreparedInv
<1>2. QED
  BY <1>1 DEF PreparedInv

\* A call that stops preparing a .venv leaves it ready or has noted the cause.
LEMMA StartedKept ==
  ASSUME PreparedInv, NEW k \in Callers, Grew, venv' = venv,
         \A j \in Callers \ {k} : SameCall(j),
         Preparing(k) =>
           \/ Preparing(k)' /\ req'[k] = req[k]
           \/ ~ Lists(k) \/ venv[Dir(k)] = "absent" \/ Ready(Dir(k))
           \/ Dir(k) \in spoiled' \cup outdated',
         NEW n \in DOMAIN Registry
  PROVE  StartedInv(n)'
<1> SUFFICES ASSUME NeedsVenv(Registry[n]) PROVE StartedInv(n)'
  BY DEF StartedInv
<1>1. PICK d : d = Registry[n].dir
  OBVIOUS
<1>2. d \in Dirs
  BY <1>1, DirectoryOfCommand
<1>3. \/ venv[d] = "absent" \/ Ready(d) \/ d \in spoiled \cup outdated
      \/ \E j \in Callers : Preparing(j) /\ req[j].name = n
  BY <1>1 DEF PreparedInv, StartedInv
<1>4. ASSUME NEW j \in Callers \ {k}, Preparing(j), req[j].name = n
      PROVE  Preparing(j)' /\ req'[j].name = n
  BY <1>4 DEF SameCall, Preparing
<1>5. CASE venv[d] = "absent" \/ Ready(d) \/ d \in spoiled' \cup outdated'
  <2>1. Ready(d) => Ready(d)' \/ d \in outdated'
    BY <1>2 DEF Grew
  <2>2. venv[d] = "absent" => venv'[d] = "absent"
    OBVIOUS
  <2>3. QED
    BY <1>1, <1>5, <2>1, <2>2 DEF StartedInv, Ready
<1>6. CASE Preparing(k) /\ req[k].name = n
  <2>1. Dir(k) = d /\ Lists(k)
    BY <1>1, <1>6 DEF Dir, Cmd, Lists
  <2>2. QED
    BY <1>1, <1>5, <1>6, <2>1 DEF StartedInv
<1>7. d \in spoiled \cup outdated => d \in spoiled' \cup outdated'
  BY DEF Grew
<1>8. QED
  BY <1>3, <1>4, <1>5, <1>6, <1>7 DEF StartedInv

\* The command of a call that prepares is one the registry knows.
LEMMA DirOfCall ==
  ASSUME PreparedInv, NEW k \in Callers, Resolved(k)
  PROVE  req[k].name \in DOMAIN Registry /\ Dir(k) \in Dirs
BY DirectoryOfCommand DEF PreparedInv, StageInv, Dir, Cmd

LEMMA ResolvePrepared ==
  ASSUME PreparedInv, NEW k \in Callers, NEW r \in Requests, Resolve(k, r)
  PROVE  PreparedInv'
<1>1. /\ pc[k] = "idle" /\ exit[k] = "none" /\ req' = [req EXCEPT ![k] = r]
      /\ UNCHANGED <<venv, packages, spoiled, outdated, excused, python, exit>>
  BY DEF Resolve, PreparedInv, StageInv, disk, process, history
<1>2. \/ pc' = [pc EXCEPT ![k] = "returned"]
      \/ /\ r.name \in DOMAIN Registry
         /\ pc' = [pc EXCEPT ![k] = IF NeedsVenv(Registry[r.name]) THEN "prepare" ELSE "choose"]
  BY DEF Resolve, Goto, Return
<1>3. PrepareType' /\ Grew /\ \A j \in Callers \ {k} : SameCall(j)
  BY <1>1, <1>2, DiskKept DEF PreparedInv, PrepareType, SameCall
<1>4. req'[k] = r /\ exit'[k] = "none"
  BY <1>1 DEF PreparedInv, PrepareType
<1>5. StageInv(k)'
  <2>1. CASE pc' = [pc EXCEPT ![k] = "returned"]
    BY <1>4, <2>1 DEF PreparedInv, PrepareType, StageInv, Resolved
  <2>2. CASE /\ r.name \in DOMAIN Registry
             /\ pc' = [pc EXCEPT ![k] = IF NeedsVenv(Registry[r.name]) THEN "prepare" ELSE "choose"]
    <3>1. pc'[k] = IF NeedsVenv(Registry[r.name]) THEN "prepare" ELSE "choose"
      BY <2>2 DEF PreparedInv, PrepareType
    <3>2. Cmd(k)' = Registry[r.name]
      BY <1>4 DEF Cmd
    <3>3. Lists(k)' <=> NeedsVenv(Registry[r.name])
      BY <3>2 DEF Lists, NeedsVenv
    <3>4. pc'[k] = "prepare" \/ (pc'[k] = "choose" /\ ~ Lists(k)')
      BY <3>1, <3>3
    <3>5. QED
      BY <1>4, <2>2, <3>4 DEF StageInv
  <2>3. QED
    BY <1>2, <2>1, <2>2
<1>6. ~ Preparing(k)
  BY <1>1 DEF Preparing
<1>7. QED
  BY <1>1, <1>3, <1>5, <1>6, StartedKept, PreparedStep

\* The call looks at its .venv, and starts to prepare it or not.
LEMMA LookPrepared ==
  ASSUME PreparedInv, NEW k \in Callers, TakeVenv(k) \/ StartSetup(k) \/ NothingToInstall(k)
  PROVE  PreparedInv'
<1>1. /\ pc[k] \in {"prepare", "created"}
      /\ UNCHANGED <<venv, packages, req, python, exit>>
      /\ \E at \in {"choose", "creating", "installing", "returned"} : pc' = [pc EXCEPT ![k] = at]
  BY DEF TakeVenv, StartSetup, NothingToInstall, FailSetup, Goto, Return, disk, asked, process
<1>2. PrepareType' /\ \A j \in Callers \ {k} : SameCall(j)
  BY <1>1 DEF PreparedInv, PrepareType, SameCall
<1>3. Grew
  BY <1>1, DiskKept DEF TakeVenv, StartSetup, NothingToInstall, FailSetup, history
<1>4. /\ Cmd(k)' = Cmd(k) /\ Dir(k)' = Dir(k) /\ (Lists(k)' <=> Lists(k))
      /\ Ready(Dir(k))' <=> Ready(Dir(k))
  BY <1>1 DEF Cmd, Dir, Lists, Ready
<1>5. /\ req[k].name \in DOMAIN Registry /\ Dir(k) \in Dirs /\ exit'[k] = "none"
      /\ pc[k] = "created" => venv'[Dir(k)'] = "pip"
  BY <1>1, <1>4, DirOfCall DEF Resolved, PreparedInv, StageInv
<1>6. CASE TakeVenv(k)
  <2>1. pc'[k] = "choose" /\ ~ Preparing(k) /\ venv[Dir(k)] # "absent"
    BY <1>6 DEF TakeVenv, Goto, Preparing, PreparedInv, PrepareType
  <2>2. Lists(k) => Ready(Dir(k)) \/ Dir(k) \in spoiled \cup outdated
                    \/ \E j \in Callers : Preparing(j) /\ req[j].name = req[k].name
    BY <1>5, <2>1 DEF PreparedInv, StartedInv, Lists, Cmd, Dir
  <2>3. \A j \in Callers : req[j].name = req[k].name => Dir(j) = Dir(k)
    BY DEF Dir, Cmd
  <2>4. Lists(k) => Ready(Dir(k)) \/ Dir(k) \in spoiled \cup outdated \/ k \in excused'
    BY <1>6, <2>1, <2>2, <2>3 DEF TakeVenv
  <2>5. Lists(k)' => Ready(Dir(k))' \/ Excuse(k)'
    BY <1>3, <1>4, <2>4 DEF Excuse, Grew
  <2>6. StageInv(k)'
    BY <1>1, <1>5, <2>1, <2>5 DEF StageInv
  <2>7. QED
    BY <1>1, <1>2, <1>3, <2>1, <2>6, StartedKept, PreparedStep
<1>7. CASE NothingToInstall(k)
  <2>1. pc'[k] = "choose" /\ (Ready(Dir(k)) \/ Dir(k) \in outdated')
    BY <1>1, <1>4, <1>5, <1>7 DEF NothingToInstall, Goto, Ready, PreparedInv, PrepareType
  <2>2. StageInv(k)'
    BY <1>1, <1>4, <1>5, <2>1 DEF StageInv, Excuse
  <2>3. QED
    BY <1>1, <1>2, <1>3, <2>1, <2>2, StartedKept, PreparedStep
<1>8. CASE StartSetup(k)
  <2>1. \/ pc'[k] = "returned" /\ (venv[Dir(k)] = "absent" \/ Dir(k) \in spoiled')
        \/ pc[k] = "prepare" /\ pc'[k] = "creating"
        \/ pc[k] = "created" /\ pc'[k] = "installing"
    BY <1>8 DEF StartSetup, FailSetup, Return, Goto, PreparedInv, PrepareType
  <2>2. StageInv(k)'
    BY <1>1, <1>4, <1>5, <2>1 DEF StageInv, Resolved
  <2>3. Preparing(k) => \/ Preparing(k)' /\ req'[k] = req[k]
                        \/ venv[Dir(k)] = "absent" \/ Dir(k) \in spoiled' \cup outdated'
    BY <1>1, <2>1 DEF Preparing
  <2>4. QED
    BY <1>1, <1>2, <1>3, <2>2, <2>3, StartedKept, PreparedStep
<1>9. QED
  BY <1>6, <1>7, <1>8

\* The program that prepares a .venv, for a call or left over.
LEMMA GrowPrepared ==
  ASSUME PreparedInv, NEW k \in Callers, VenvGrows(k) \/ PackagesArrive(k)
  PROVE  PreparedInv'
<1>1. /\ pc[k] \in {"creating", "installing", "venv left", "pip left"}
      /\ UNCHANGED <<pc, req, python, exit, spoiled, outdated, excused>>
  BY DEF VenvGrows, PackagesArrive, CreatesVenv, Installs, asked, process, history
<1>2. /\ req[k].name \in DOMAIN Registry /\ Dir(k) \in Dirs
      /\ Preparing(k) \/ Dir(k) \in spoiled
  BY <1>1, DirOfCall DEF Resolved, Preparing, PreparedInv, StageInv
<1>3. \/ /\ venv[Dir(k)] # "pip" /\ packages' = packages
         /\ \E s \in Stages : venv' = [venv EXCEPT ![Dir(k)] = s]
      \/ /\ venv' = venv /\ packages[Dir(k)] = "missing"
         /\ packages' = [packages EXCEPT ![Dir(k)] = "installed"]
  BY <1>2 DEF VenvGrows, PackagesArrive, PreparedInv, PrepareType, Stages
<1>4. PrepareType' /\ \A j \in Callers : SameCall(j)
  BY <1>1, <1>2, <1>3 DEF PreparedInv, PrepareType, SameCall, Listings
<1>5. \A d \in Dirs : d # Dir(k) => venv'[d] = venv[d] /\ packages'[d] = packages[d]
  BY <1>2, <1>3 DEF PreparedInv, PrepareType
<1>6. Grew
  BY <1>1, <1>2, <1>3, <1>5 DEF Grew, Ready, PreparedInv, PrepareType
<1>7. \A j \in Callers : StageInv(j)'
  BY <1>4, <1>6, StageKept DEF PreparedInv
<1>8. ASSUME NEW n \in DOMAIN Registry PROVE StartedInv(n)'
  <2>1. PICK d : d = Registry[n].dir /\ d \in Dirs
    BY DirectoryOfCommand
  <2>2. CASE d = Dir(k) /\ Preparing(k)
    <3>1. req'[k].name = n /\ Preparing(k)'
      BY <1>1, <1>2, <2>1, <2>2, DirectoryOfCommand DEF Dir, Cmd, Preparing
    <3>2. QED
      BY <3>1 DEF StartedInv
  <2>3. CASE d \in spoiled
    BY <1>1, <2>1, <2>3 DEF StartedInv
  <2>4. CASE d # Dir(k)
    <3>1. venv'[d] = venv[d] /\ (Ready(d)' <=> Ready(d))
      BY <1>5, <2>1, <2>4 DEF Ready
    <3>2. \A j \in Callers : (Preparing(j)' <=> Preparing(j)) /\ req'[j] = req[j]
      BY <1>1 DEF Preparing
    <3>3. StartedInv(n)
      BY DEF PreparedInv
    <3>4. QED
      BY <1>1, <2>1, <3>1, <3>2, <3>3 DEF StartedInv, Ready
  <2>5. QED
    BY <1>2, <2>2, <2>3, <2>4
<1>9. QED
  BY <1>4, <1>7, <1>8 DEF PreparedInv

\* The user writes the file of requirements or removes it.
LEMMA EditPrepared ==
  ASSUME PreparedInv, NEW m \in DOMAIN Registry, EditRequirements(Registry[m].dir)
  PROVE  PreparedInv'
<1>1. PICK e : e = Registry[m].dir /\ e \in Dirs
  BY DirectoryOfCommand
<1>2. /\ UNCHANGED <<venv, pc, req, python, exit, spoiled, excused>>
      /\ outdated \subseteq outdated'
  BY DEF EditRequirements, asked, process
<1>3. PICK to \in {"no file", "missing"} :
        /\ packages' = [packages EXCEPT ![e] = to]
        /\ venv[e] # "absent" /\ to = "missing" => e \in outdated'
  BY <1>1 DEF EditRequirements
<1>4. PrepareType' /\ \A j \in Callers : SameCall(j)
  BY <1>1, <1>2, <1>3 DEF PreparedInv, PrepareType, SameCall, Listings
<1>5. ASSUME NEW d \in Dirs, Ready(d) PROVE Ready(d)' \/ d \in outdated'
  BY <1>1, <1>2, <1>3, <1>5 DEF Ready, PreparedInv, PrepareType
<1>6. Grew
  BY <1>2, <1>5 DEF Grew
<1>7. \A j \in Callers : StageInv(j)'
  BY <1>4, <1>6, StageKept DEF PreparedInv
<1>8. ASSUME NEW n \in DOMAIN Registry PROVE StartedInv(n)'
  <2>1. PICK d : d = Registry[n].dir /\ d \in Dirs
    BY DirectoryOfCommand
  <2>2. \A j \in Callers : (Preparing(j)' <=> Preparing(j)) /\ req'[j] = req[j]
    BY <1>2 DEF Preparing
  <2>3. Ready(d) => Ready(d)' \/ d \in outdated'
    BY <1>5, <2>1
  <2>4. StartedInv(n)
    BY DEF PreparedInv
  <2>5. QED
    BY <1>2, <2>1, <2>2, <2>3, <2>4 DEF StartedInv, Ready
<1>9. QED
  BY <1>4, <1>7, <1>8 DEF PreparedInv

LEMMA EndPrepared ==
  ASSUME PreparedInv, NEW k \in Callers, SetupEnds(k) \/ SetupReturns(k)
  PROVE  PreparedInv'
<1>1. /\ pc[k] \in {"creating", "installing"}
      /\ UNCHANGED <<venv, packages, req, python, outdated, excused>>
      /\ \E how \in {"none", "ok", "failed", "killed"} : exit' = [exit EXCEPT ![k] = how]
      /\ pc' = pc \/ \E at \in {"created", "choose", "returned"} : pc' = [pc EXCEPT ![k] = at]
  BY DEF SetupEnds, SetupReturns, FailSetup, Working, Goto, Return, disk, asked, history
<1>2. PrepareType' /\ \A j \in Callers \ {k} : SameCall(j)
  BY <1>1 DEF PreparedInv, PrepareType, SameCall
<1>3. Grew
  BY <1>1, DiskKept DEF SetupEnds, SetupReturns, FailSetup, history
<1>4. /\ Cmd(k)' = Cmd(k) /\ Dir(k)' = Dir(k) /\ (Lists(k)' <=> Lists(k))
      /\ Ready(Dir(k))' <=> Ready(Dir(k))
  BY <1>1 DEF Cmd, Dir, Lists, Ready
<1>5. /\ req[k].name \in DOMAIN Registry /\ Dir(k) \in Dirs /\ Preparing(k)
      /\ pc[k] = "installing" => venv[Dir(k)] = "pip"
      /\ pc[k] = "creating" /\ exit[k] = "ok" => venv[Dir(k)] = "pip"
      /\ pc[k] = "installing" /\ exit[k] = "ok" => Ready(Dir(k)) \/ Dir(k) \in outdated
  BY <1>1, DirOfCall DEF Resolved, Preparing, PreparedInv, StageInv
<1>6. CASE SetupEnds(k)
  <2>1. /\ pc'[k] = pc[k] /\ Preparing(k)'
        /\ exit'[k] = "ok" =>
             IF pc[k] = "creating" THEN venv[Dir(k)] = "pip" ELSE Ready(Dir(k))
    BY <1>1, <1>5, <1>6 DEF SetupEnds, PreparedInv, PrepareType, Preparing, Ready
  <2>2. StageInv(k)'
    BY <1>1, <1>4, <1>5, <2>1 DEF StageInv
  <2>3. QED
    BY <1>1, <1>2, <1>3, <2>1, <2>2, StartedKept, PreparedStep
<1>7. CASE SetupReturns(k)
  <2>1. /\ exit'[k] = "none"
        /\ \/ exit[k] = "ok" /\ pc[k] = "creating" /\ pc'[k] = "created"
           \/ exit[k] = "ok" /\ pc[k] = "installing" /\ pc'[k] = "choose"
           \/ pc'[k] = "returned" /\ (venv[Dir(k)] = "absent" \/ Dir(k) \in spoiled')
    BY <1>1, <1>7 DEF SetupReturns, FailSetup, Goto, Return, PreparedInv, PrepareType
  <2>2. pc'[k] = "choose" => Ready(Dir(k)) \/ Dir(k) \in outdated
    BY <1>5, <2>1
  <2>3. StageInv(k)'
    BY <1>1, <1>4, <1>5, <2>1, <2>2 DEF StageInv, Resolved, Excuse
  <2>4. \/ Preparing(k)' /\ req'[k] = req[k]
        \/ venv[Dir(k)] = "absent" \/ Ready(Dir(k)) \/ Dir(k) \in spoiled' \cup outdated'
    BY <1>1, <2>1, <2>2 DEF Preparing
  <2>5. QED
    BY <1>1, <1>2, <1>3, <2>3, <2>4, StartedKept, PreparedStep
<1>8. QED
  BY <1>6, <1>7

\* The script: the interpreter is chosen by what is there.
LEMMA ScriptPrepared ==
  ASSUME PreparedInv, NEW k \in Callers,
         \/ ChooseInterpreter(k) \/ StartScript(k) \/ SpawnHelper(k) \/ HelperEnds(k)
         \/ ScriptExits(k) \/ Expire(k) \/ KillGroup(k) \/ Reap(k) \/ ScriptReturns(k)
         \/ LeftEnds(k)
  PROVE  PreparedInv'
<1> USE DEF Goto, Return, disk, asked, process, history
<1>1. CASE SpawnHelper(k) \/ HelperEnds(k) \/ Expire(k)
  <2>1. UNCHANGED <<venv, packages, pc, req, python, exit, spoiled, outdated, excused>>
    BY <1>1 DEF SpawnHelper, HelperEnds, Expire
  <2>2. PrepareType' /\ Grew /\ \A j \in Callers : SameCall(j)
    BY <2>1, DiskKept DEF PreparedInv, PrepareType, SameCall
  <2>3. StageInv(k)'
    BY <2>2, StageKept DEF PreparedInv
  <2>4. Preparing(k) => Preparing(k)' /\ req'[k] = req[k]
    BY <2>1 DEF Preparing
  <2>5. QED
    BY <2>1, <2>2, <2>3, <2>4, StartedKept, PreparedStep
<1>2. CASE ChooseInterpreter(k)
  <2>1. /\ pc[k] = "choose" /\ pc' = [pc EXCEPT ![k] = "start"]
        /\ UNCHANGED <<venv, packages, req, exit, spoiled, outdated>> /\ excused \subseteq excused'
        /\ \/ python' = [python EXCEPT ![k] = Cmd(k).runtime = "python"
                                              /\ venv[Dir(k)] \in {"python", "pip"}]
           \/ python' = [python EXCEPT ![k] = FALSE] /\ k \in excused'
    BY <1>2 DEF ChooseInterpreter
  <2>2. PrepareType' /\ Grew /\ \A j \in Callers \ {k} : SameCall(j)
    BY <2>1, DiskKept DEF PreparedInv, PrepareType, SameCall
  <2>3. /\ Cmd(k)' = Cmd(k) /\ Dir(k)' = Dir(k) /\ (Lists(k)' <=> Lists(k))
        /\ Ready(Dir(k))' <=> Ready(Dir(k))
    BY <2>1 DEF Cmd, Dir, Lists, Ready
  <2>4. pc'[k] = "start" /\ ~ Preparing(k)
    BY <2>1 DEF PreparedInv, PrepareType, Preparing
  <2>5. req[k].name \in DOMAIN Registry /\ (Lists(k) => Ready(Dir(k)) \/ Excuse(k))
    BY <2>1 DEF PreparedInv, StageInv, Resolved
  <2>6. Lists(k)' => (python'[k] /\ Ready(Dir(k))') \/ Excuse(k)'
    <3>1. Excuse(k) => Excuse(k)'
      BY <2>1, <2>3 DEF Excuse
    <3>2. Lists(k) /\ Ready(Dir(k)) => python'[k] \/ Excuse(k)'
      BY <2>1, <2>3 DEF PreparedInv, PrepareType, Lists, Ready, NeedsVenv, Excuse
    <3>3. QED
      BY <2>3, <2>5, <3>1, <3>2
  <2>7. StageInv(k)'
    BY <2>1, <2>4, <2>5, <2>6 DEF StageInv
  <2>8. QED
    BY <2>1, <2>2, <2>4, <2>7, StartedKept, PreparedStep
<1>3. CASE StartScript(k)
  <2>1. /\ pc[k] = "start" /\ \E at \in {"running", "returned"} : pc' = [pc EXCEPT ![k] = at]
        /\ UNCHANGED <<venv, packages, req, python, exit, spoiled, outdated, excused>>
    BY <1>3 DEF StartScript
  <2>2. PrepareType' /\ Grew /\ \A j \in Callers \ {k} : SameCall(j)
    BY <2>1, DiskKept DEF PreparedInv, PrepareType, SameCall
  <2>3. /\ Cmd(k)' = Cmd(k) /\ Dir(k)' = Dir(k) /\ (Lists(k)' <=> Lists(k))
        /\ (Excuse(k)' <=> Excuse(k)) /\ (Ready(Dir(k))' <=> Ready(Dir(k)))
    BY <2>1 DEF Cmd, Dir, Lists, Excuse, Ready
  <2>4. pc'[k] \in {"running", "returned"} /\ ~ Preparing(k)
    BY <2>1 DEF PreparedInv, PrepareType, Preparing
  <2>5. /\ req[k].name \in DOMAIN Registry
        /\ Lists(k) => (python[k] /\ Ready(Dir(k))) \/ Excuse(k)
    BY <2>1 DEF PreparedInv, StageInv, Resolved
  <2>6. StageInv(k)'
    BY <2>1, <2>3, <2>4, <2>5 DEF StageInv
  <2>7. QED
    BY <2>1, <2>2, <2>4, <2>6, StartedKept, PreparedStep
<1>4. CASE ScriptExits(k)
  <2>1. /\ pc[k] = "running" /\ \E how \in {"ok", "failed"} : exit' = [exit EXCEPT ![k] = how]
        /\ UNCHANGED <<venv, packages, pc, req, python, spoiled, outdated, excused>>
    BY <1>4 DEF ScriptExits
  <2>2. PrepareType' /\ Grew /\ \A j \in Callers \ {k} : SameCall(j)
    BY <2>1, DiskKept DEF PreparedInv, PrepareType, SameCall
  <2>3. /\ Cmd(k)' = Cmd(k) /\ Dir(k)' = Dir(k) /\ (Lists(k)' <=> Lists(k))
        /\ (Excuse(k)' <=> Excuse(k)) /\ (Ready(Dir(k))' <=> Ready(Dir(k)))
    BY <2>1 DEF Cmd, Dir, Lists, Excuse, Ready
  <2>4. /\ req[k].name \in DOMAIN Registry
        /\ Lists(k) => (python[k] /\ Ready(Dir(k))) \/ Excuse(k)
    BY <2>1 DEF PreparedInv, StageInv, Resolved
  <2>5. StageInv(k)' /\ ~ Preparing(k)
    BY <2>1, <2>3, <2>4 DEF StageInv, Preparing
  <2>6. QED
    BY <2>1, <2>2, <2>5, StartedKept, PreparedStep
<1>5. CASE KillGroup(k) \/ Reap(k) \/ ScriptReturns(k)
  <2>1. /\ pc[k] \in {"running", "waited", "cut"}
        /\ \E at \in {"cut", "waited", "returned"} : pc' = [pc EXCEPT ![k] = at]
        /\ exit' = [exit EXCEPT ![k] = exit'[k]]
        /\ UNCHANGED <<venv, packages, req, python, spoiled, outdated, excused>>
    BY <1>5 DEF KillGroup, Reap, ScriptReturns, PreparedInv, PrepareType
  <2>2. PrepareType' /\ Grew /\ \A j \in Callers \ {k} : SameCall(j)
    BY <2>1, DiskKept DEF PreparedInv, PrepareType, SameCall
  <2>3. pc'[k] \in {"cut", "waited", "returned"} /\ req'[k].name \in DOMAIN Registry
    BY <2>1 DEF PreparedInv, PrepareType, StageInv, Resolved
  <2>4. StageInv(k)' /\ ~ Preparing(k)
    BY <2>1, <2>3 DEF StageInv, Preparing
  <2>5. QED
    BY <2>1, <2>2, <2>4, StartedKept, PreparedStep
<1>6. CASE LeftEnds(k)
  <2>1. /\ pc[k] \in {"venv left", "pip left"} /\ pc' = [pc EXCEPT ![k] = "gone"]
        /\ UNCHANGED <<venv, packages, req, python, exit, spoiled, outdated, excused>>
    BY <1>6 DEF LeftEnds
  <2>2. PrepareType' /\ Grew /\ \A j \in Callers \ {k} : SameCall(j)
    BY <2>1, DiskKept DEF PreparedInv, PrepareType, SameCall
  <2>3. pc'[k] = "gone" /\ ~ Preparing(k)
    BY <2>1 DEF PreparedInv, PrepareType, Preparing
  <2>4. StageInv(k)'
    BY <2>3 DEF StageInv, Resolved
  <2>5. QED
    BY <2>1, <2>2, <2>3, <2>4, StartedKept, PreparedStep
<1>7. QED
  BY <1>1, <1>2, <1>3, <1>4, <1>5, <1>6

\* A restart cuts preparations off and notes those that have made something or still do.
LEMMA RestartPrepared == ASSUME PreparedInv, Restart PROVE PreparedInv'
<1>1. /\ UNCHANGED <<venv, packages, req, python, exit, outdated, excused>>
      /\ spoiled \subseteq spoiled'
  BY DEF Restart, disk, asked, process
<1>2. \A k \in Callers :
        /\ Preparing(k) /\ venv[Dir(k)] # "absent" => Dir(k) \in spoiled'
        /\ Working(k) /\ exit[k] = "none" => Dir(k) \in spoiled'
  <2> DEFINE goesOn == {k \in Callers : Working(k) /\ exit[k] = "none"}
             cutOff == {k \in Callers : Preparing(k) /\ (venv[Dir(k)] # "absent" \/ k \in goesOn)}
  <2>1. spoiled' = spoiled \cup {Dir(k) : k \in cutOff}
    BY DEF Restart
  <2>2. ASSUME NEW k \in cutOff PROVE Dir(k) \in spoiled'
    BY <2>1
  <2>3. ASSUME NEW k \in Callers, Working(k), exit[k] = "none" PROVE k \in cutOff
    BY <2>3 DEF Working, Preparing
  <2>4. ASSUME NEW k \in Callers, Preparing(k), venv[Dir(k)] # "absent" PROVE k \in cutOff
    BY <2>4
  <2> HIDE DEF cutOff
  <2>5. QED
    BY <2>2, <2>3, <2>4
<1>3. PrepareType'
  BY <1>1, RestartPoints DEF PreparedInv, PrepareType
<1>4. ASSUME NEW k \in Callers PROVE StageInv(k)'
  <2>1. Dir(k)' = Dir(k) /\ req'[k] = req[k] /\ exit'[k] = exit[k]
    BY <1>1 DEF Dir, Cmd
  <2>2. CASE pc'[k] = pc[k] /\ pc[k] \in {"idle", "returned", "venv left", "pip left"}
    BY <1>1, <2>1, <2>2 DEF PreparedInv, StageInv, Resolved
  <2>3. CASE /\ pc[k] \in {"creating", "installing"} /\ exit[k] = "none"
             /\ pc'[k] \in {"venv left", "pip left"}
    BY <1>2, <2>1, <2>3 DEF PreparedInv, StageInv, Resolved, Working
  <2>4. CASE pc'[k] = "gone"
    BY <2>4 DEF StageInv, Resolved
  <2>5. QED
    BY <2>2, <2>3, <2>4, RestartPoints
<1>5. ASSUME NEW n \in DOMAIN Registry PROVE StartedInv(n)'
  <2>1. \A k \in Callers : req[k].name = n => Dir(k) = Registry[n].dir
    BY DEF Dir, Cmd
  <2>2. StartedInv(n)
    BY DEF PreparedInv
  <2>3. QED
    BY <1>1, <1>2, <2>1, <2>2 DEF StartedInv, Ready
<1>6. QED
  BY <1>3, <1>4, <1>5 DEF PreparedInv

LEMMA NextPreparedInv == PreparedInv /\ [Next]_vars => PreparedInv'
<1> SUFFICES ASSUME PreparedInv, [Next]_vars PROVE PreparedInv'
  OBVIOUS
<1>1. ASSUME NEW k \in Callers, Proceeds(k) PROVE PreparedInv'
  BY <1>1, LookPrepared, EndPrepared, ScriptPrepared DEF Proceeds
<1>2. ASSUME NEW k \in Callers, Programs(k) \/ Expire(k) PROVE PreparedInv'
  BY <1>2, GrowPrepared, EndPrepared, ScriptPrepared DEF Programs
<1>3. ASSUME NEW k \in Callers, NEW r \in Requests, Resolve(k, r) PROVE PreparedInv'
  BY <1>3, ResolvePrepared
<1>4. CASE UNCHANGED vars
  <2>1. /\ UNCHANGED <<venv, packages, pc, req, python, exit, spoiled, outdated, excused>>
    BY <1>4 DEF vars, disk, asked, process, history
  <2>2. PrepareType' /\ Grew /\ \A j \in Callers : SameCall(j)
    BY <2>1, DiskKept DEF PreparedInv, PrepareType, SameCall
  <2>3. \A j \in Callers : StageInv(j)'
    BY <2>2, StageKept DEF PreparedInv
  <2>4. \A n \in DOMAIN Registry : StartedInv(n)'
    BY <2>1 DEF PreparedInv, StartedInv, Ready, Preparing
  <2>5. QED
    BY <2>2, <2>3, <2>4 DEF PreparedInv
<1>5. ASSUME NEW n \in DOMAIN Registry, EditRequirements(Registry[n].dir) PROVE PreparedInv'
  BY <1>5, EditPrepared
<1>6. QED
  BY <1>1, <1>2, <1>3, <1>4, <1>5, RestartPrepared DEF Next

\* A script of a Python command with requirements (ensureVenv and interpreterAndScript of
\* builtin/command.go) runs without what its file of requirements lists, or without the
\* interpreter of the .venv, only after a preparation that failed or was cut off by a restart,
\* when another call was at work in the .venv, when the file came or changed after the .venv
\* was begun, or when the one or the other was not seen: for any commands, any number of
\* calls at once and any number of restarts.
THEOREM UnpreparedOnlyForCause == Spec => []UnpreparedHasCause
<1>1. PreparedInv => UnpreparedHasCause
  BY DEF PreparedInv, StageInv, Lists, Ready, Excuse, UnpreparedHasCause
<1>2. QED
  BY <1>1, InitPreparedInv, NextPreparedInv, PTL DEF Spec

-----------------------------------------------------------------------------
(* Edits. What the edits make of a text is joined from what they make of each   *)
(* line, from the last line to the first in ApplyEdits and from the first to the *)
(* last in FlattenSeq.                                                           *)

\* Concatenation, as an operator the provers leave alone.
Cat(s, t) == s \o t

LEMMA CatFacts ==
  ASSUME NEW A
  PROVE  /\ \A x, y \in Seq(A) : Cat(x, y) \in Seq(A)
         /\ \A x, y, z \in Seq(A) : Cat(Cat(x, y), z) = Cat(x, Cat(y, z))
         /\ \A x \in Seq(A) : Cat(x, <<>>) = x /\ Cat(<<>>, x) = x
<1>1. \A x, y \in Seq(A) : x \o y \in Seq(A)
  BY ConcatProperties
<1>2. \A x, y, z \in Seq(A) : (x \o y) \o z = x \o (y \o z)
  BY ConcatAssociative
<1>3. \A x \in Seq(A) : x \o <<>> = x /\ <<>> \o x = x
  BY ConcatEmptySeq
<1>4. QED
  BY <1>1, <1>2, <1>3 DEF Cat

\* What is behind place n of the entries, joined.
Joins(R, O, N) == R[N + 1] = <<>> /\ \A i \in 1 .. N : R[i] = Cat(O[i], R[i + 1])

LEMMA JoinsExist ==
  ASSUME NEW A, NEW N \in Nat, NEW O \in [1 .. N -> Seq(A)]
  PROVE  \E R \in [1 .. N + 1 -> Seq(A)] : Joins(R, O, N)
<1> DEFINE EndRuns(n) == {R \in [N + 1 - n .. N + 1 -> Seq(A)] :
                             /\ R[N + 1] = <<>>
                             /\ \A i \in N + 1 - n .. N : R[i] = Cat(O[i], R[i + 1])}
           P == {n \in Nat : n <= N => EndRuns(n) # {}}
<1>1. 0 \in P
  <2>1. <<>> \in Seq(A)
    BY EmptySeq
  <2> DEFINE R == [i \in N + 1 .. N + 1 |-> <<>>]
  <2>2. N + 1 - 0 = N + 1 /\ R[N + 1] = <<>> /\ R \in [N + 1 .. N + 1 -> Seq(A)]
    BY <2>1
  <2> HIDE DEF R
  <2>3. R \in EndRuns(0)
    BY <2>2
  <2>4. QED
    BY <2>3
<1>2. ASSUME NEW n \in P PROVE n + 1 \in P
  <2> HIDE DEF EndRuns
  <2> SUFFICES ASSUME n + 1 <= N PROVE EndRuns(n + 1) # {}
    OBVIOUS
  <2> USE DEF EndRuns
  <2>1. n \in Nat /\ n <= N
    OBVIOUS
  <2>2. PICK R : R \in EndRuns(n)
    BY <2>1
  <2>3. /\ R \in [N + 1 - n .. N + 1 -> Seq(A)] /\ R[N + 1] = <<>>
        /\ \A i \in N + 1 - n .. N : R[i] = Cat(O[i], R[i + 1])
    BY <2>2
  <2> DEFINE m == N - n
             Q == [i \in m .. N + 1 |-> IF i = m THEN Cat(O[m], R[m + 1]) ELSE R[i]]
  <2>4. m \in 1 .. N /\ m + 1 \in N + 1 - n .. N + 1 /\ N + 1 - (n + 1) = m
    BY <2>1
  <2>5. Cat(O[m], R[m + 1]) \in Seq(A)
    BY <2>3, <2>4, CatFacts
  <2>6. Q \in [m .. N + 1 -> Seq(A)]
    <3>1. \A i \in m .. N + 1 : i # m => i \in N + 1 - n .. N + 1
      BY <2>1
    <3>2. QED
      BY <2>3, <2>5, <3>1
  <2>7. Q[N + 1] = <<>>
    BY <2>3, <2>4
  <2>8. ASSUME NEW i \in m .. N PROVE Q[i] = Cat(O[i], Q[i + 1])
    <3>1. i + 1 \in m .. N + 1 /\ i + 1 # m /\ Q[i + 1] = R[i + 1]
      BY <2>4
    <3>2. CASE i = m
      BY <3>1, <3>2
    <3>3. CASE i # m
      <4>1. i \in N + 1 - n .. N /\ i \in m .. N + 1
        BY <2>1, <2>4, <3>3
      <4>2. Q[i] = R[i]
        BY <3>3, <4>1
      <4>3. QED
        BY <2>3, <3>1, <4>1, <4>2
    <3>4. QED
      BY <3>2, <3>3
  <2> HIDE DEF Q
  <2>9. Q \in EndRuns(n + 1)
    BY <2>4, <2>6, <2>7, <2>8
  <2>10. QED
    BY <2>9
<1> HIDE DEF P
<1>4. P = Nat
  <2>1. P \in SUBSET Nat
    BY DEF P
  <2>2. QED
    BY <1>1, <1>2, <2>1, Induction
<1>5. EndRuns(N) # {}
  <2> HIDE DEF EndRuns
  <2>1. QED
    BY <1>4 DEF P
<1>6. PICK R : R \in EndRuns(N)
  BY <1>5
<1>7. N + 1 - N = 1
  OBVIOUS
<1>8. R \in [1 .. N + 1 -> Seq(A)] /\ Joins(R, O, N)
  BY <1>6, <1>7 DEF Joins
<1>9. QED
  BY <1>8

LEMMA FlattenIsJoin ==
  ASSUME NEW A, NEW O \in Seq(Seq(A)), NEW R \in [1 .. Len(O) + 1 -> Seq(A)], Joins(R, O, Len(O))
  PROVE  FlattenSeq(O) = R[1]
<1> DEFINE N == Len(O)
           Round(f) == [i \in 1 .. N |-> IF i = 1 THEN O[i] ELSE Cat(f[i - 1], O[i])]
           h == CHOOSE f : f = Round(f)
<1>1. N \in Nat /\ \A i \in 1 .. N : O[i] \in Seq(A)
  BY LenProperties, ElementOfSeq
<1>2. /\ R[N + 1] = <<>> /\ R \in [1 .. N + 1 -> Seq(A)]
      /\ \A i \in 1 .. N : R[i] = Cat(O[i], R[i + 1])
  BY DEF Joins
<1>3. CASE N = 0
  <2>1. O = <<>>
    BY <1>3, EmptySeq
  <2>2. QED
    BY <1>2, <1>3, <2>1 DEF FlattenSeq
<1>4. CASE N # 0
  <2>1. FlattenSeq(O) = h[N]
    BY <1>4 DEF FlattenSeq, Cat
  <2> HIDE DEF N
  <2> DEFINE Runs(n) == {f \in [1 .. n -> Seq(A)] :
                               \A i \in 1 .. n : f[i] = IF i = 1 THEN O[i] ELSE Cat(f[i - 1], O[i])}
             P == {n \in Nat : n <= N => Runs(n) # {}}
  <2>2. 0 \in P
    <3> DEFINE f == [i \in 1 .. 0 |-> <<>>]
    <3>1. f \in [1 .. 0 -> Seq(A)]
      OBVIOUS
    <3> HIDE DEF f
    <3>2. f \in Runs(0)
      BY <3>1
    <3>3. QED
      BY <3>2
  <2>3. ASSUME NEW n \in P PROVE n + 1 \in P
    <3> HIDE DEF Runs
    <3> SUFFICES ASSUME n + 1 <= N PROVE Runs(n + 1) # {}
      OBVIOUS
    <3> USE DEF Runs
    <3>1. n \in Nat /\ n <= N /\ n + 1 \in 1 .. N
      BY <1>1
    <3>2. PICK f : f \in Runs(n)
      BY <3>1
    <3>3. /\ f \in [1 .. n -> Seq(A)]
          /\ \A i \in 1 .. n : f[i] = IF i = 1 THEN O[i] ELSE Cat(f[i - 1], O[i])
      BY <3>2
    <3> DEFINE last == IF n = 0 THEN O[n + 1] ELSE Cat(f[n], O[n + 1])
               k == [i \in 1 .. n + 1 |-> IF i = n + 1 THEN last ELSE f[i]]
    <3>4. last \in Seq(A)
      BY <1>1, <3>1, <3>3, CatFacts
    <3> HIDE DEF last
    <3>5. k \in [1 .. n + 1 -> Seq(A)]
      BY <3>1, <3>3, <3>4
    <3>6. ASSUME NEW i \in 1 .. n + 1 PROVE k[i] = IF i = 1 THEN O[i] ELSE Cat(k[i - 1], O[i])
      <4>1. CASE i = n + 1
        <5>1. k[i] = last
          BY <4>1
        <5>2. i # 1 => k[i - 1] = f[n] /\ n # 0
          BY <3>1, <4>1
        <5>3. i = 1 => n = 0
          BY <3>1, <4>1
        <5>4. QED
          BY <4>1, <5>1, <5>2, <5>3 DEF last
      <4>2. CASE i # n + 1
        <5>1. i \in 1 .. n /\ k[i] = f[i] /\ (i # 1 => k[i - 1] = f[i - 1])
          BY <3>1, <4>2
        <5>2. QED
          BY <3>3, <5>1
      <4>3. QED
        BY <4>1, <4>2
    <3> HIDE DEF k
    <3>7. k \in Runs(n + 1)
      BY <3>5, <3>6
    <3>8. QED
      BY <3>7
  <2> HIDE DEF P
  <2>4. P = Nat
    <3>1. P \in SUBSET Nat
      BY DEF P
    <3>2. QED
      BY <2>2, <2>3, <3>1, Induction
  <2>5. Runs(N) # {}
    <3> HIDE DEF Runs
    <3>1. QED
      <4>1. N \in P /\ N <= N
        BY <1>1, <2>4
      <4>2. QED
        BY <4>1 DEF P
  <2>6. PICK g : g \in Runs(N)
    BY <2>5
  <2>7. g = Round(g)
    BY <2>6
  <2>8. h = Round(h)
    BY <2>7
  <2> HIDE DEF h
  <2>9. h[1] = O[1] /\ \A i \in 1 .. N : i # 1 => h[i] = Cat(h[i - 1], O[i])
    BY <1>1, <1>4, <2>8
  <2> DEFINE Q == {n \in Nat : n + 1 <= N => h[n + 1] \in Seq(A) /\ Cat(h[n + 1], R[n + 2]) = R[1]}
  <2>10. 0 \in Q
    BY <1>1, <1>2, <1>4, <2>9
  <2>11. ASSUME NEW n \in Q PROVE n + 1 \in Q
    <3> SUFFICES ASSUME n + 2 <= N
                 PROVE  h[n + 2] \in Seq(A) /\ Cat(h[n + 2], R[n + 3]) = R[1]
      OBVIOUS
    <3>1. n \in Nat /\ n + 2 \in 1 .. N /\ n + 3 \in 1 .. N + 1 /\ n + 2 # 1 /\ n + 2 - 1 = n + 1
          /\ n + 2 + 1 = n + 3
      BY <1>1
    <3>2. h[n + 1] \in Seq(A) /\ Cat(h[n + 1], R[n + 2]) = R[1]
      BY <1>1, <3>1
    <3>3. h[n + 2] = Cat(h[n + 1], O[n + 2]) /\ O[n + 2] \in Seq(A)
      BY <1>1, <2>9, <3>1
    <3>4. R[n + 2] = Cat(O[n + 2], R[n + 3]) /\ R[n + 3] \in Seq(A)
      BY <1>2, <3>1
    <3>5. Cat(Cat(h[n + 1], O[n + 2]), R[n + 3]) = Cat(h[n + 1], Cat(O[n + 2], R[n + 3]))
      <4>1. \A x, y, z \in Seq(A) : Cat(Cat(x, y), z) = Cat(x, Cat(y, z))
        BY CatFacts
      <4>2. QED
        BY <3>2, <3>3, <3>4, <4>1
    <3>6. Cat(h[n + 1], O[n + 2]) \in Seq(A)
      BY <3>2, <3>3, CatFacts
    <3>7. QED
      BY <3>2, <3>3, <3>4, <3>5, <3>6
  <2> HIDE DEF Q
  <2>13. Q = Nat
    <3>1. Q \in SUBSET Nat
      BY DEF Q
    <3>2. QED
      BY <2>10, <2>11, <3>1, Induction
  <2>14. N - 1 \in Nat /\ N - 1 + 1 = N /\ N - 1 + 2 = N + 1 /\ N <= N
    BY <1>1, <1>4
  <2>15. h[N] \in Seq(A) /\ Cat(h[N], R[N + 1]) = R[1]
    BY <1>1, <2>13, <2>14 DEF Q
  <2>16. QED
    BY <1>2, <2>1, <2>15, CatFacts
<1>5. QED
  BY <1>3, <1>4

LEMMA OneElement ==
  ASSUME NEW A, NEW a \in A
  PROVE  <<a>> \in Seq(A) /\ Len(<<a>>) = 1
OBVIOUS

LEMMA PutBehind ==
  ASSUME NEW A, NEW p \in Seq(A), NEW r \in Seq(A), NEW c \in A
  PROVE  InsertAt(Cat(p, r), Len(p) + 1, c) = Cat(p, Cat(<<c>>, r))
<1> DEFINE s == p \o r
           n == Len(p) + 1
<1>1. Len(p) \in Nat /\ n - 1 = Len(p)
  BY LenProperties
<1>2. s \in Seq(A) /\ Len(s) = Len(p) + Len(r)
  BY ConcatProperties
<1>3. SubSeq(s, 1, Len(p)) = p
  BY SubSeqOfConcat1, SubSeqFull, <1>1
<1>4. SubSeq(s, n, Len(s)) = r
  BY SubSeqOfConcat2, SubSeqFull, <1>1, <1>2
<1>5. <<c>> \in Seq(A)
  BY OneElement
<1> HIDE DEF n, s
<1>6. InsertAt(s, n, c) = (SubSeq(s, 1, n - 1) \o <<c>>) \o SubSeq(s, n, Len(s))
  BY DEF InsertAt
<1>7. InsertAt(s, n, c) = (p \o <<c>>) \o r
  BY <1>1, <1>3, <1>4, <1>6, Zenon
<1>8. Cat(Cat(p, <<c>>), r) = Cat(p, Cat(<<c>>, r))
  <2>1. \A x, y, w \in Seq(A) : Cat(Cat(x, y), w) = Cat(x, Cat(y, w))
    BY CatFacts
  <2>2. QED
    BY <1>5, <2>1, Zenon
<1>9. InsertAt(s, n, c) = Cat(Cat(p, <<c>>), r) /\ s = Cat(p, r)
  BY <1>7, Zenon DEF Cat, s
<1>10. QED
  BY <1>8, <1>9, Zenon DEF n

LEMMA TakeBehind ==
  ASSUME NEW A, NEW p \in Seq(A), NEW r \in Seq(A), NEW a \in A
  PROVE  RemoveAt(Cat(Cat(p, <<a>>), r), Len(p) + 1) = Cat(p, r)
<1> DEFINE q == p \o <<a>>
           s == q \o r
           n == Len(p) + 1
<1>1. Len(p) \in Nat /\ n - 1 = Len(p) /\ Len(r) \in Nat
  BY LenProperties
<1>2. <<a>> \in Seq(A) /\ Len(<<a>>) = 1
  BY OneElement
<1>3. q \in Seq(A) /\ Len(q) = n
  BY <1>2, ConcatProperties
<1>4. SubSeq(q, 1, Len(p)) = p
  <2>1. SubSeq(p \o <<a>>, 1, Len(p)) = SubSeq(p, 1, Len(p))
    BY <1>1, <1>2, SubSeqOfConcat1
  <2>2. QED
    BY <2>1, SubSeqFull
<1> HIDE DEF q
<1>5. s \in Seq(A) /\ Len(s) = Len(q) + Len(r)
  BY <1>3, ConcatProperties
<1>6. SubSeq(s, n + 1, Len(s)) = r
  BY <1>1, <1>3, <1>5, SubSeqOfConcat2, SubSeqFull
<1>7. SubSeq(s, 1, Len(p)) = SubSeq(q, 1, Len(p))
  BY <1>1, <1>3, SubSeqOfConcat1
<1> HIDE DEF s, n
<1>8. RemoveAt(s, n) = SubSeq(s, 1, n - 1) \o SubSeq(s, n + 1, Len(s))
  BY DEF RemoveAt
<1>9. RemoveAt(s, n) = p \o r
  BY <1>1, <1>4, <1>6, <1>7, <1>8, Zenon
<1>10. QED
  BY <1>9 DEF s, q, n, Cat

\* What one edit makes of the line it is of.
Does(e, text) ==
    CASE e.operation = "replace" -> <<e.content>>
      [] e.operation = "delete" -> <<>>
      [] e.operation = "insert_after" -> Cat(<<text>>, <<e.content>>)
      [] e.operation = "insert_before" -> Cat(<<e.content>>, <<text>>)

IsEdit(e, A) == e.operation \in Operations /\ e.content \in A

LEMMA DoesType ==
  ASSUME NEW A, NEW e, IsEdit(e, A), NEW text \in A
  PROVE  Does(e, text) \in Seq(A)
<1>1. <<text>> \in Seq(A) /\ <<e.content>> \in Seq(A)
  BY OneElement DEF IsEdit
<1>2. Cat(<<text>>, <<e.content>>) \in Seq(A) /\ Cat(<<e.content>>, <<text>>) \in Seq(A)
  BY <1>1, CatFacts
<1>3. <<>> \in Seq(A)
  BY EmptySeq
<1>4. QED
  BY <1>1, <1>2, <1>3 DEF Does, IsEdit, Operations

\* It changes nothing before and nothing behind it.
LEMMA AppliesToOne ==
  ASSUME NEW A, NEW p \in Seq(A), NEW text \in A, NEW r \in Seq(A),
         NEW e, IsEdit(e, A), e.line = Len(p) + 1
  PROVE  Apply(Cat(Cat(p, <<text>>), r), e) = Cat(p, Cat(Does(e, text), r))
<1> DEFINE q == Cat(p, <<text>>)
           s == Cat(q, r)
           l == <<text>>
           c == <<e.content>>
<1>1. e.content \in A /\ e.operation \in Operations
  BY DEF IsEdit
<1>2. l \in Seq(A) /\ c \in Seq(A)
  BY <1>1, OneElement
<1>3. q \in Seq(A) /\ Len(q) = Len(p) + 1 /\ Cat(l, r) \in Seq(A)
  <2>1. Len(l) = 1
    OBVIOUS
  <2>2. QED
    BY <1>2, <2>1, ConcatProperties, CatFacts DEF Cat
<1>4. \A x, y, z \in Seq(A) : Cat(Cat(x, y), z) = Cat(x, Cat(y, z))
  BY CatFacts
<1>5. s = Cat(p, Cat(l, r))
  BY <1>2, <1>4
<1>6. RemoveAt(s, e.line) = Cat(p, r)
  BY TakeBehind
<1>7. InsertAt(RemoveAt(s, e.line), e.line, e.content) = Cat(p, Cat(c, r))
  BY <1>1, <1>6, PutBehind
<1>8. InsertAt(s, e.line, e.content) = Cat(p, Cat(c, Cat(l, r)))
  BY <1>1, <1>3, <1>5, PutBehind
<1>9. InsertAt(s, e.line + 1, e.content) = Cat(q, Cat(c, r))
  BY <1>1, <1>3, PutBehind
<1>10. Cat(c, r) \in Seq(A)
  BY <1>2, CatFacts
<1> HIDE DEF q, s, l, c
<1>11. Cat(c, Cat(l, r)) = Cat(Cat(c, l), r)
  BY <1>2, <1>4
<1>12. Cat(q, Cat(c, r)) = Cat(p, Cat(l, Cat(c, r)))
  BY <1>2, <1>4, <1>10 DEF q, l
<1>13. Cat(l, Cat(c, r)) = Cat(Cat(l, c), r)
  BY <1>2, <1>4
<1>14. Cat(<<>>, r) = r
  BY CatFacts
<1>15. CASE e.operation = "replace"
  BY <1>7, <1>15 DEF Apply, Does, s, q, c
<1>16. CASE e.operation = "delete"
  BY <1>6, <1>14, <1>16 DEF Apply, Does, s, q
<1>17. CASE e.operation = "insert_after"
  BY <1>9, <1>12, <1>13, <1>17 DEF Apply, Does, s, q, c, l
<1>18. CASE e.operation = "insert_before"
  BY <1>8, <1>11, <1>18 DEF Apply, Does, s, q, c, l
<1>19. QED
  BY <1>1, <1>15, <1>16, <1>17, <1>18 DEF Operations

\* What the edits make of each line.
Makes(O, texts, es) ==
    \A n \in 1 .. Len(texts) :
        O[n] = IF \E k \in DOMAIN es : es[k].line = n
                 THEN Does(es[CHOOSE k \in DOMAIN es : es[k].line = n], texts[n])
                 ELSE <<texts[n]>>

\* All edits make what each of them makes of its line, joined.
LEMMA AppliesToAll ==
  ASSUME NEW A, NEW texts \in Seq(A), NEW es, \A k \in DOMAIN es : IsEdit(es[k], A),
         NEW O \in [1 .. Len(texts) -> Seq(A)],
         Makes(O, texts, es),
         NEW R \in [1 .. Len(texts) + 1 -> Seq(A)], Joins(R, O, Len(texts))
  PROVE  ApplyEdits(texts, es) = R[1]
<1> DEFINE N == Len(texts)
           Edited(n) == \E k \in DOMAIN es : es[k].line = n
           Of(n) == es[CHOOSE k \in DOMAIN es : es[k].line = n]
           Round(f) == [n \in 1 .. N + 1 |->
                           IF n > N THEN texts
                           ELSE IF Edited(n) THEN Apply(f[n + 1], Of(n)) ELSE f[n + 1]]
           h == CHOOSE f : f = Round(f)
           Before(n) == SubSeq(texts, 1, n - 1)
           g == [n \in 1 .. N + 1 |-> Cat(Before(n), R[n])]
<1>1. N \in Nat /\ \A n \in 1 .. N : texts[n] \in A
  BY LenProperties, ElementOfSeq
<1>2. /\ R[N + 1] = <<>> /\ R \in [1 .. N + 1 -> Seq(A)]
      /\ \A n \in 1 .. N : R[n] = Cat(O[n], R[n + 1])
  BY DEF Joins
<1>3. ASSUME NEW n \in 1 .. N, Edited(n) PROVE IsEdit(Of(n), A) /\ Of(n).line = n
  BY <1>3
<1>4. \A n \in 1 .. N : O[n] = IF Edited(n) THEN Does(Of(n), texts[n]) ELSE <<texts[n]>>
  BY DEF Makes
<1>5. ApplyEdits(texts, es) = h[1]
  BY DEF ApplyEdits
<1>6. ASSUME NEW n \in 1 .. N + 1 PROVE Before(n) \in Seq(A) /\ Len(Before(n)) = n - 1
  <2>1. n - 1 \in 0 .. N
    BY <1>1
  <2>2. \A i \in 1 .. n - 1 : texts[i] \in A
    BY <1>1, <2>1
  <2>3. QED
    BY <2>1, <2>2, SubSeqProperties
<1>7. Before(N + 1) = texts /\ Before(1) = <<>>
  <2>1. N + 1 - 1 = N /\ 1 - 1 = 0
    BY <1>1
  <2>2. SubSeq(texts, 1, N) = texts
    BY SubSeqFull
  <2>3. SubSeq(texts, 1, 0) = <<>>
    OBVIOUS
  <2>4. QED
    BY <2>1, <2>2, <2>3
<1>8. ASSUME NEW n \in 1 .. N PROVE Before(n + 1) = Cat(Before(n), <<texts[n]>>)
  <2>1. n \in Nat /\ n + 1 - 1 = n /\ n \in 1 .. N + 1 /\ n + 1 \in 1 .. N + 1
    BY <1>1
  <2>2. <<texts[n]>> \in Seq(A) /\ Len(<<texts[n]>>) = 1 /\ <<texts[n]>>[1] = texts[n]
    BY <1>1
  <2> DEFINE s == Before(n) \o <<texts[n]>>
  <2>3. /\ s \in Seq(A) /\ Len(s) = n
        /\ \A i \in 1 .. n : s[i] = IF i <= n - 1 THEN Before(n)[i] ELSE texts[n]
    <3> HIDE DEF Before
    <3>1. QED
      BY <1>6, <2>1, <2>2, ConcatProperties
  <2>4. \A i \in 1 .. n : s[i] = texts[i]
    <3>1. \A i \in 1 .. n - 1 : Before(n)[i] = texts[i]
      BY <1>1, <2>1
    <3> HIDE DEF s, Before
    <3>2. ASSUME NEW i \in 1 .. n PROVE s[i] = texts[i]
      <4>1. CASE i \in 1 .. n - 1
        BY <2>1, <2>3, <3>1, <4>1
      <4>2. CASE i = n
        BY <2>1, <2>3, <4>2
      <4>3. QED
        BY <2>1, <4>1, <4>2
    <3>3. QED
      BY <3>2
  <2>5. \A i \in 1 .. n : Before(n + 1)[i] = texts[i]
    BY <1>1, <2>1
  <2>6. Before(n + 1) \in Seq(A) /\ Len(Before(n + 1)) = n
    <3>1. Before(n + 1) \in Seq(A) /\ Len(Before(n + 1)) = n + 1 - 1
      <4> HIDE DEF Before
      <4>1. QED
        BY <1>6, <2>1
    <3>2. QED
      BY <2>1, <3>1
  <2> HIDE DEF s, Before
  <2>7. s = Before(n + 1)
    BY <2>3, <2>4, <2>5, <2>6, SeqEqual
  <2>8. QED
    BY <2>7 DEF s, Cat
<1> HIDE DEF Edited, Of, Before, N
<1>9. \A n \in 1 .. N + 1 : g[n] = Cat(Before(n), R[n])
  OBVIOUS
<1>10. g[N + 1] = texts /\ g[1] = R[1]
  <2>1. N + 1 \in 1 .. N + 1 /\ 1 \in 1 .. N + 1
    BY <1>1
  <2>2. Cat(texts, <<>>) = texts /\ Cat(<<>>, R[1]) = R[1]
    BY <1>2, <2>1, CatFacts
  <2>3. QED
    BY <1>2, <1>7, <1>9, <2>1, <2>2
<1>11. ASSUME NEW n \in 1 .. N
       PROVE  g[n] = IF Edited(n) THEN Apply(g[n + 1], Of(n)) ELSE g[n + 1]
  <2> DEFINE p == Before(n)
             t == texts[n]
             r == R[n + 1]
  <2>1. n \in 1 .. N + 1 /\ n + 1 \in 1 .. N + 1 /\ n - 1 + 1 = n
    BY <1>1
  <2>2. p \in Seq(A) /\ Len(p) = n - 1 /\ t \in A /\ r \in Seq(A) /\ <<t>> \in Seq(A)
    <3>1. p \in Seq(A) /\ Len(p) = n - 1
      BY <1>6, <2>1
    <3>2. t \in A
      BY <1>1
    <3>3. r \in Seq(A)
      BY <1>2, <2>1
    <3>4. <<t>> \in Seq(A)
      <4> HIDE DEF t
      <4>1. QED
        BY <3>2, OneElement
    <3>5. QED
      BY <3>1, <3>2, <3>3, <3>4
  <2>3. g[n + 1] = Cat(Cat(p, <<t>>), r)
    BY <1>8, <1>9, <2>1
  <2>4. g[n] = Cat(p, Cat(O[n], r))
    BY <1>2, <1>9, <2>1
  <2>5. CASE Edited(n)
    <3>1. IsEdit(Of(n), A) /\ Of(n).line = Len(p) + 1
      BY <1>3, <2>1, <2>2, <2>5
    <3> HIDE DEF p, t, r
    <3>2. Apply(Cat(Cat(p, <<t>>), r), Of(n)) = Cat(p, Cat(Does(Of(n), t), r))
      BY <2>2, <3>1, AppliesToOne
    <3>3. QED
      BY <1>4, <2>3, <2>4, <2>5, <3>2 DEF t
  <2>6. CASE ~Edited(n)
    <3>1. Cat(Cat(p, <<t>>), r) = Cat(p, Cat(<<t>>, r))
      <4>1. \A x, y, z \in Seq(A) : Cat(Cat(x, y), z) = Cat(x, Cat(y, z))
        BY CatFacts
      <4> HIDE DEF p, t, r
      <4>2. QED
        BY <2>2, <4>1
    <3>2. QED
      BY <1>4, <2>3, <2>4, <2>6, <3>1
  <2>7. QED
    BY <2>5, <2>6
<1> HIDE DEF g
<1>12. g = Round(g)
  <2>1. g = [n \in 1 .. N + 1 |-> g[n]]
    BY DEF g
  <2>2. ASSUME NEW n \in 1 .. N + 1
        PROVE  g[n] = IF n > N THEN texts
                      ELSE IF Edited(n) THEN Apply(g[n + 1], Of(n)) ELSE g[n + 1]
    <3>1. n = N + 1 \/ n \in 1 .. N
      BY <1>1
    <3>2. n = N + 1 => n > N
      BY <1>1
    <3>3. n \in 1 .. N => ~(n > N)
      BY <1>1
    <3>4. QED
      BY <1>10, <1>11, <3>1, <3>2, <3>3
  <2>3. QED
    BY <2>1, <2>2
<1>13. h = Round(h)
  BY <1>12
<1> HIDE DEF h
<1>14. /\ h[N + 1] = texts
       /\ \A n \in 1 .. N : h[n] = IF Edited(n) THEN Apply(h[n + 1], Of(n)) ELSE h[n + 1]
  <2>1. N + 1 \in 1 .. N + 1 /\ N + 1 > N
    BY <1>1
  <2>2. \A n \in 1 .. N : n \in 1 .. N + 1 /\ ~(n > N)
    BY <1>1
  <2>3. \A n \in 1 .. N + 1 : h[n] = IF n > N THEN texts
                      ELSE IF Edited(n) THEN Apply(h[n + 1], Of(n)) ELSE h[n + 1]
    BY <1>13
  <2>4. QED
    BY <2>1, <2>2, <2>3
<1> DEFINE P == {n \in Nat : n <= N => h[N + 1 - n] = g[N + 1 - n]}
<1>15. 0 \in P
  BY <1>1, <1>10, <1>14
<1>16. ASSUME NEW n \in P PROVE n + 1 \in P
  <2> SUFFICES ASSUME n + 1 <= N PROVE h[N - n] = g[N - n]
    BY <1>1
  <2>1. N - n \in 1 .. N /\ N - n + 1 = N + 1 - n /\ n <= N
    BY <1>1
  <2>2. h[N - n + 1] = g[N - n + 1]
    BY <2>1
  <2> HIDE DEF P
  <2>3. QED
    BY <1>11, <1>14, <2>1, <2>2
<1> HIDE DEF P
<1>17. P = Nat
  <2>1. P \in SUBSET Nat
    BY DEF P
  <2>2. QED
    BY <1>15, <1>16, <2>1, Induction
<1>18. h[1] = g[1]
  <2>1. N + 1 - N = 1 /\ N \in P /\ N <= N
    BY <1>1, <1>17
  <2>2. QED
    BY <2>1 DEF P
<1>19. QED
  BY <1>5, <1>10, <1>18

-----------------------------------------------------------------------------
(* The call of edit_file. *)

Line == DOMAIN Hash

\* The texts are of lines, the edits those of a model that saw what it was shown, and what
\* is about to be written is what they make of the text that was read.
EditInv ==
    /\ stage \in {"idle", "read", "proposed", "planned", "written", "failed", "unread"}
    /\ seen \in Seq(Line) /\ source \in Seq(Line)
    /\ stage \notin {"written", "failed"} => file \in Seq(Line)
    /\ edits \in Seq(Edit) /\ (stage = "idle" => edits = <<>>)
    /\ stage = "planned" => /\ ~Refuses(edits, source)
                            /\ lines = ApplyEdits(Texts(SplitLines(source)), edits)

LEMMA SplitLinesLines ==
  ASSUME NEW text \in Seq(Line)
  PROVE  SplitLines(text) \in Seq(Line)
<1>1. Len(text) \in Nat /\ \A i \in 1 .. Len(text) : text[i] \in Line
  BY LenProperties, ElementOfSeq
<1>2. SubSeq(text, 1, Len(text) - 1) \in Seq(Line)
  BY <1>1, SubSeqProperties
<1>3. QED
  BY <1>2 DEF SplitLines, Front

\* The lines as texts of their own, and their hashes.
LEMMA LinesOfText ==
  ASSUME NEW old \in Seq(Line)
  PROVE  /\ Texts(old) \in Seq(Seq(Line)) /\ Len(Texts(old)) = Len(old)
         /\ DOMAIN Texts(old) = DOMAIN old
         /\ \A i \in DOMAIN old : /\ Texts(old)[i] = <<old[i]>>
                                  /\ GenerateHashMap(Texts(old))[i] = Hash[old[i]]
<1>1. Len(old) \in Nat /\ DOMAIN old = 1 .. Len(old) /\ \A i \in DOMAIN old : old[i] \in Line
  BY LenProperties, ElementOfSeq
<1> DEFINE t == [i \in DOMAIN old |-> <<old[i]>>]
<1>2. \A i \in DOMAIN old : <<old[i]>> \in Seq(Line)
  BY <1>1, OneElement
<1>3. t \in [1 .. Len(old) -> Seq(Line)]
  BY <1>1, <1>2
<1>4. t \in Seq(Seq(Line)) /\ Len(t) = Len(old)
  <2> HIDE DEF t
  <2>1. QED
    BY <1>1, <1>3
<1>5. Texts(old) = t
  BY DEF Texts
<1>6. \A i \in DOMAIN old : t[i] = <<old[i]>> /\ ComputeLineHash(t[i]) = Hash[old[i]]
  BY DEF ComputeLineHash
<1>7. DOMAIN t = DOMAIN old
  OBVIOUS
<1> HIDE DEF t
<1>8. \A i \in DOMAIN old : GenerateHashMap(t)[i] = Hash[old[i]]
  BY <1>6, <1>7 DEF GenerateHashMap
<1>9. QED
  BY <1>4, <1>5, <1>6, <1>7, <1>8

\* What an edit of the model looks like.
LEMMA EditFields ==
  ASSUME seen \in Seq(Line), NEW e \in Edit
  PROVE  /\ IsEdit(e, Seq(Line)) /\ e.line \in Nat \ {0}
         /\ e.hash = IF e.line \in DOMAIN seen THEN Hash[seen[e.line]] ELSE "none"
<1>1. Len(seen) \in Nat
  BY LenProperties
<1>2. PICK op \in Operations, n \in 1 .. Len(seen) + 1, t \in Contents :
         e = [operation |-> op, line |-> n, content |-> IF op = "delete" THEN <<Empty>> ELSE t,
              hash |-> IF n \in DOMAIN seen THEN Hash[seen[n]] ELSE "none"]
  BY DEF Edit
<1>3. <<Empty>> \in Seq(Line) /\ t \in Seq(Line)
  <2>1. Empty \in Line /\ t \in Seq(Line)
    BY LinesAssumption DEF Line
  <2>2. QED
    BY <2>1, OneElement
<1>4. QED
  BY <1>1, <1>2, <1>3 DEF IsEdit

LEMMA EditInvInit == EditInit => EditInv
<1> SUFFICES ASSUME EditInit PROVE EditInv
  OBVIOUS
<1>1. file \in Seq(Line)
  BY LinesAssumption DEF EditInit, Line
<1>2. <<Empty>> \in Seq(Line)
  <2>1. Empty \in Line
    BY LinesAssumption DEF Line
  <2>2. QED
    BY <2>1, OneElement
<1>3. <<>> \in Seq(Line) /\ <<>> \in Seq(Edit)
  BY EmptySeq
<1>4. stage = "idle" /\ seen = <<>> /\ edits = <<>> /\ source = <<Empty>>
  BY DEF EditInit
<1>5. QED
  BY <1>1, <1>2, <1>3, <1>4 DEF EditInv

\* Whatever another writer makes of the file.
LEMMA OthersWriteLines ==
  ASSUME EditInv, OtherWrite
  PROVE  file' \in Seq(Line)
<1>1. file \in Seq(Line) /\ Len(file) \in Nat
  BY LenProperties DEF EditInv, OtherWrite
<1>2. CASE file # Absent /\ file' = Tail(file)
  BY <1>1, <1>2, HeadTailProperties DEF Absent
<1>3. CASE \E x \in DOMAIN Hash : file' = <<x>> \o file
  <2>1. PICK x \in Line : file' = <<x>> \o file
    BY <1>3 DEF Line
  <2>2. <<x>> \in Seq(Line)
    BY OneElement
  <2>3. QED
    BY <1>1, <2>1, <2>2, ConcatProperties
<1>4. CASE \E x \in DOMAIN Hash : file # Absent /\ file' = [file EXCEPT ![1] = x]
  <2>1. PICK x \in Line : file # <<>> /\ file' = [file EXCEPT ![1] = x]
    BY <1>4 DEF Line, Absent
  <2>2. 1 \in 1 .. Len(file)
    BY <1>1, <2>1, EmptySeq
  <2>3. [file EXCEPT ![1] = x] \in Seq(Line)
    BY <1>1, <2>2, ExceptSeq
  <2>4. QED
    BY <2>1, <2>3
<1>5. QED
  BY <1>2, <1>3, <1>4 DEF OtherWrite

LEMMA EditInvStep == EditInv /\ [EditNext]_editVars => EditInv'
<1> SUFFICES ASSUME EditInv, [EditNext]_editVars PROVE EditInv'
  OBVIOUS
<1>0. /\ seen \in Seq(Line) /\ source \in Seq(Line) /\ edits \in Seq(Edit)
      /\ stage \in {"idle", "read", "proposed", "planned", "written", "failed", "unread"}
      /\ stage \notin {"written", "failed"} => file \in Seq(Line)
  BY DEF EditInv
<1>1. CASE ReadFile
  <2>1. /\ stage = "idle" /\ stage' = "read" /\ UNCHANGED <<file, edits, source>>
        /\ seen' = Shown(file)
    BY <1>1 DEF ReadFile
  <2>2. SplitLines(file) \in Seq(Line)
    BY <1>0, <2>1, SplitLinesLines
  <2>3. Shown(file) \in Seq(Line)
    <3> DEFINE split == SplitLines(file)
    <3>1. \A i \in DOMAIN split : Bare[split[i]] \in Line
      <4>1. \A x \in Line : Bare[x] \in Line
        BY LinesAssumption DEF Line
      <4>2. \A i \in DOMAIN split : split[i] \in Line
        BY <2>2, ElementOfSeq, LenProperties
      <4>3. QED
        BY <4>1, <4>2
    <3>2. DOMAIN split = 1 .. Len(split) /\ Len(split) \in Nat
      BY <2>2, LenProperties
    <3> HIDE DEF split
    <3>3. [i \in DOMAIN split |-> Bare[split[i]]] \in Seq(Line)
      BY <3>1, <3>2
    <3>4. QED
      BY <3>3 DEF Shown, split
  <2>4. edits' = <<>> /\ edits' \in Seq(Edit)'
    BY <2>1, EmptySeq DEF EditInv
  <2>5. QED
    BY <1>0, <2>1, <2>3, <2>4 DEF EditInv
<1>2. ASSUME NEW n \in 0 .. MaxEdits, NEW es \in [1 .. n -> Edit], ProposeEdits(es) PROVE EditInv'
  <2>1. /\ edits' = es /\ stage = "read" /\ stage' = "proposed" /\ UNCHANGED <<file, seen, source>>
    BY <1>2 DEF ProposeEdits
  <2>2. es \in Seq(Edit)
    BY BoundsAssumption
  <2>3. Edit' = Edit
    BY <2>1 DEF Edit
  <2>4. QED
    BY <1>0, <2>1, <2>2, <2>3 DEF EditInv
<1>3. ASSUME NEW text \in Files \ {Absent}, ProposeWrite(text) PROVE EditInv'
  <2>1. /\ stage = "idle" /\ stage' = "proposed" /\ UNCHANGED <<file, seen, source, edits>>
    BY <1>3 DEF ProposeWrite
  <2>2. Edit' = Edit
    BY <2>1 DEF Edit
  <2>3. QED
    BY <1>0, <2>1, <2>2 DEF EditInv
<1>4. CASE Execute
  <2>1. /\ stage = "proposed" /\ source' = file /\ UNCHANGED <<file, seen, edits>>
        /\ \/ stage' = "failed"
           \/ /\ stage' = "planned" /\ ~Refuses(edits, file)
              /\ lines' = ApplyEdits(Texts(SplitLines(file)), edits)
    BY <1>4 DEF Execute
  <2>2. Edit' = Edit
    BY <2>1 DEF Edit
  <2>3. stage' = "planned" => /\ ~Refuses(edits', source')
                              /\ lines' = ApplyEdits(Texts(SplitLines(source')), edits')
    BY <2>1
  <2>4. QED
    BY <1>0, <2>1, <2>2, <2>3 DEF EditInv
<1>9. CASE CannotRead
  <2>1. stage = "proposed" /\ stage' = "unread" /\ UNCHANGED <<file, seen, edits, source>>
    BY <1>9 DEF CannotRead
  <2>2. Edit' = Edit
    BY <2>1 DEF Edit
  <2>3. QED
    BY <1>0, <2>1, <2>2 DEF EditInv
<1>5. CASE WriteEdits \/ WriteFile
  <2>1. /\ stage' \in {"written", "failed"} /\ UNCHANGED <<seen, edits>>
        /\ source' = source \/ (stage = "proposed" /\ source' = file)
    BY <1>5 DEF WriteEdits, WriteFile, Written
  <2>2. Edit' = Edit
    BY <2>1 DEF Edit
  <2>3. QED
    BY <1>0, <2>1, <2>2 DEF EditInv
<1>6. CASE OtherWrite
  <2>1. UNCHANGED <<stage, seen, edits, source, lines>>
    BY <1>6 DEF OtherWrite, callVars
  <2>2. file' \in Seq(Line)
    BY <1>6, OthersWriteLines
  <2>3. Edit' = Edit
    BY <2>1 DEF Edit
  <2>4. stage' = "planned" => /\ ~Refuses(edits', source')
                              /\ lines' = ApplyEdits(Texts(SplitLines(source')), edits')
    BY <2>1 DEF EditInv
  <2>5. QED
    BY <1>0, <2>1, <2>2, <2>3, <2>4 DEF EditInv
<1>7. CASE UNCHANGED editVars
  <2>1. UNCHANGED <<file, stage, seen, edits, source, lines>>
    BY <1>7 DEF editVars, callVars
  <2>2. Edit' = Edit
    BY <2>1 DEF Edit
  <2>3. stage' = "planned" => /\ ~Refuses(edits', source')
                              /\ lines' = ApplyEdits(Texts(SplitLines(source')), edits')
    BY <2>1 DEF EditInv
  <2>4. QED
    BY <1>0, <2>1, <2>2, <2>3 DEF EditInv
<1>8. QED
  BY <1>1, <1>2, <1>3, <1>4, <1>5, <1>6, <1>7, <1>9 DEF EditNext

\* Edits that were accepted are of different lines, of lines that are there and have the
\* hash of the line the model was shown.
LEMMA Accepted ==
  ASSUME EditInv, ~Refuses(edits, source)
  PROVE  LET old == SplitLines(source)
         IN \A k \in DOMAIN edits :
               /\ edits[k].line \in DOMAIN old
               /\ \A j \in DOMAIN edits : edits[j].line = edits[k].line => j = k
               /\ Hash[old[edits[k].line]] = Hash[seen[edits[k].line]]
<1> DEFINE old == SplitLines(source)
<1>1. old \in Seq(Line)
  BY SplitLinesLines DEF EditInv
<1>2. ValidateEdits(edits, Texts(old))
  BY DEF Refuses
<1>3. /\ edits \in Seq(Edit) /\ DOMAIN edits \in SUBSET Nat
      /\ \A k \in DOMAIN edits : edits[k] \in Edit
      /\ \A k \in DOMAIN edits, j \in DOMAIN edits : j < k => j \in 1 .. k - 1
  <2>1. edits \in Seq(Edit)
    BY DEF EditInv
  <2>2. Len(edits) \in Nat /\ DOMAIN edits = 1 .. Len(edits)
    BY <2>1, LenProperties
  <2>3. QED
    BY <2>1, <2>2, ElementOfSeq
<1> HIDE DEF old
<1>4. /\ DOMAIN Texts(old) = DOMAIN old
      /\ \A i \in DOMAIN old : GenerateHashMap(Texts(old))[i] = Hash[old[i]]
  BY <1>1, LinesOfText
<1>5. ASSUME NEW k \in DOMAIN edits
      PROVE  /\ edits[k].line \in DOMAIN old
             /\ GenerateHashMap(Texts(old))[edits[k].line] = edits[k].hash
             /\ \A j \in 1 .. k - 1 : edits[j].line # edits[k].line
  BY <1>2, <1>4 DEF ValidateEdits
<1>6. ASSUME NEW k \in DOMAIN edits PROVE Hash[old[edits[k].line]] = Hash[seen[edits[k].line]]
  <2> DEFINE n == edits[k].line
  <2>1. edits[k].hash = IF n \in DOMAIN seen THEN Hash[seen[n]] ELSE "none"
    BY <1>3, EditFields DEF EditInv
  <2>2. n \in DOMAIN old /\ edits[k].hash = Hash[old[n]]
    BY <1>4, <1>5
  <2>3. old[n] \in Line
    <3> HIDE DEF n
    <3>1. QED
      BY <1>1, <2>2, ElementOfSeq, LenProperties
  <2>4. Hash[old[n]] # "none"
    BY <2>3, LinesAssumption DEF Line
  <2>5. QED
    BY <2>1, <2>2, <2>4
<1>7. ASSUME NEW k \in DOMAIN edits, NEW j \in DOMAIN edits, edits[j].line = edits[k].line
      PROVE  j = k
  <2>1. j \in Nat /\ k \in Nat
    BY <1>3
  <2>2. ~(j < k) /\ ~(k < j)
    BY <1>3, <1>5, <1>7
  <2>3. QED
    BY <2>1, <2>2
<1>8. QED
  BY <1>5, <1>6, <1>7 DEF old

\* What is written is, line by line, what the edits mean.
LEMMA PlannedIsMeant ==
  ASSUME EditInv, stage = "planned"
  PROVE  CarriedOut
<1> DEFINE old == SplitLines(source)
           A == Seq(Line)
           texts == Texts(old)
           N == Len(old)
           Edited(n) == \E k \in DOMAIN edits : edits[k].line = n
           Of(n) == edits[CHOOSE k \in DOMAIN edits : edits[k].line = n]
           O == [n \in 1 .. N |-> IF Edited(n) THEN Does(Of(n), texts[n]) ELSE <<texts[n]>>]
           EditOf(i) == {edits[k] : k \in {k \in DOMAIN edits : edits[k].line = i}}
           Out(i) == LET line == <<<<old[i]>>>>
                         e == CHOOSE x \in EditOf(i) : TRUE
                     IN IF EditOf(i) = {} THEN line
                        ELSE CASE e.operation = "replace" -> <<e.content>>
                               [] e.operation = "delete" -> <<>>
                               [] e.operation = "insert_after" -> line \o <<e.content>>
                               [] e.operation = "insert_before" -> <<e.content>> \o line
<1>1. ~Refuses(edits, source) /\ lines = ApplyEdits(texts, edits)
  BY DEF EditInv
<1>2. old \in Seq(Line) /\ N \in Nat /\ DOMAIN old = 1 .. N
  BY SplitLinesLines, LenProperties DEF EditInv
<1>3. \A k \in DOMAIN edits :
         /\ edits[k].line \in DOMAIN old
         /\ \A j \in DOMAIN edits : edits[j].line = edits[k].line => j = k
         /\ Hash[old[edits[k].line]] = Hash[seen[edits[k].line]]
  BY <1>1, Accepted
<1>4. \A k \in DOMAIN edits : IsEdit(edits[k], A)
  <2>1. edits \in Seq(Edit) /\ seen \in Seq(Line)
    BY DEF EditInv
  <2>2. \A k \in DOMAIN edits : edits[k] \in Edit
    BY <2>1, ElementOfSeq, LenProperties
  <2>3. QED
    BY <2>1, <2>2, EditFields
<1> HIDE DEF old
<1>5. /\ texts \in Seq(A) /\ Len(texts) = N
      /\ \A i \in 1 .. N : texts[i] = <<old[i]>> /\ texts[i] \in A
  <2>1. texts \in Seq(A) /\ Len(texts) = N /\ \A i \in 1 .. N : texts[i] = <<old[i]>>
    BY <1>2, LinesOfText
  <2>2. QED
    BY <2>1, ElementOfSeq
<1> HIDE DEF texts, A
<1>6. ASSUME NEW n \in 1 .. N, Edited(n)
      PROVE  IsEdit(Of(n), A) /\ EditOf(n) = {Of(n)}
  <2>1. PICK k \in DOMAIN edits : edits[k].line = n
    BY <1>6
  <2>2. \A j \in DOMAIN edits : edits[j].line = n => j = k
    BY <1>3, <2>1
  <2>3. (CHOOSE j \in DOMAIN edits : edits[j].line = n) = k
    BY <2>1, <2>2
  <2>4. Of(n) = edits[k]
    BY <2>3
  <2>5. EditOf(n) = {edits[k]}
    BY <2>1, <2>2
  <2>6. QED
    BY <1>4, <2>4, <2>5
<1>7. ASSUME NEW n \in 1 .. N, ~Edited(n) PROVE EditOf(n) = {}
  BY <1>7
<1>8. ASSUME NEW n \in 1 .. N
      PROVE  O[n] = IF Edited(n) THEN Does(Of(n), texts[n]) ELSE <<texts[n]>>
  OBVIOUS
<1>9. O \in Seq(Seq(A)) /\ Len(O) = N /\ O \in [1 .. N -> Seq(A)]
  <2> HIDE DEF Edited, Of, N
  <2>1. ASSUME NEW n \in 1 .. N
        PROVE  (IF Edited(n) THEN Does(Of(n), texts[n]) ELSE <<texts[n]>>) \in Seq(A)
    <3>1. texts[n] \in A
      BY <1>5
    <3>2. CASE Edited(n)
      BY <1>6, <3>1, <3>2, DoesType
    <3>3. CASE ~Edited(n)
      BY <3>1, <3>3, OneElement
    <3>4. QED
      BY <3>2, <3>3
  <2>2. O \in [1 .. N -> Seq(A)]
    BY <2>1
  <2> HIDE DEF O
  <2>3. QED
    BY <1>2, <2>2
<1>10. ASSUME NEW n \in 1 .. N PROVE Out(n) = O[n]
  <2>1. texts[n] = <<old[n]>>
    BY <1>5
  <2>2. CASE Edited(n)
    <3>1. EditOf(n) = {Of(n)} /\ IsEdit(Of(n), A) /\ O[n] = Does(Of(n), texts[n])
      BY <1>6, <1>8, <2>2
    <3> HIDE DEF EditOf, Of, O
    <3>2. (CHOOSE x \in EditOf(n) : TRUE) = Of(n) /\ EditOf(n) # {}
      BY <3>1
    <3>3. QED
      BY <2>1, <3>1, <3>2 DEF Does, Cat, IsEdit, Operations
  <2>3. CASE ~Edited(n)
    <3>1. EditOf(n) = {} /\ O[n] = <<texts[n]>>
      BY <1>7, <1>8, <2>3
    <3> HIDE DEF EditOf, O
    <3>2. QED
      BY <2>1, <3>1
  <2>4. QED
    BY <2>2, <2>3
<1>11. PICK R \in [1 .. N + 1 -> Seq(A)] : Joins(R, O, N)
  BY <1>2, <1>9, JoinsExist
<1>12. ApplyEdits(texts, edits) = R[1]
  <2> HIDE DEF O, N
  <2>1. Makes(O, texts, edits)
    BY <1>5, <1>8 DEF Makes
  <2>2. /\ O \in [1 .. Len(texts) -> Seq(A)] /\ R \in [1 .. Len(texts) + 1 -> Seq(A)]
        /\ Joins(R, O, Len(texts)) /\ texts \in Seq(A)
    BY <1>5, <1>9, <1>11
  <2> HIDE DEF Edited, Of
  <2>3. QED
    BY <1>4, <2>1, <2>2, AppliesToAll
<1>13. FlattenSeq(O) = R[1]
  <2> HIDE DEF O
  <2>1. QED
    BY <1>9, <1>11, FlattenIsJoin
<1>14. [i \in DOMAIN old |-> Out(i)] = O
  <2> HIDE DEF Out
  <2>1. DOMAIN O = 1 .. N /\ O = [i \in 1 .. N |-> O[i]]
    OBVIOUS
  <2> HIDE DEF O
  <2>2. QED
    BY <1>2, <1>10, <2>1
<1>15. lines = FlattenSeq([i \in DOMAIN old |-> Out(i)])
  BY <1>1, <1>12, <1>13, <1>14
<1>16. QED
  BY <1>3, <1>15 DEF CarriedOut, old

\* Edits of a text the model has seen as it is are refused for a reason only.
LEMMA RefusedForReason ==
  ASSUME EditInv, Refuses(edits, source), Shown(source) = seen
  PROVE  Refusable
<1> DEFINE old == SplitLines(source)
<1>1. SUFFICES ASSUME ~ValidateEdits(edits, Texts(old)) PROVE Refusable
  BY DEF Refuses, Refusable
<1>2. old \in Seq(Line)
  BY SplitLinesLines DEF EditInv
<1>3. DOMAIN seen = DOMAIN old
  BY DEF Shown
<1>4. /\ edits \in Seq(Edit) /\ Len(edits) \in Nat /\ DOMAIN edits = 1 .. Len(edits)
      /\ \A k \in DOMAIN edits : edits[k] \in Edit
  <2>1. edits \in Seq(Edit)
    BY DEF EditInv
  <2>2. QED
    BY <2>1, ElementOfSeq, LenProperties
<1>5. SUFFICES Refusable
  OBVIOUS
<1> HIDE DEF old
<1>6. PICK i \in DOMAIN edits :
         \/ \E j \in 1 .. i - 1 : edits[j].line = edits[i].line
         \/ edits[i].line \notin DOMAIN Texts(old)
         \/ GenerateHashMap(Texts(old))[edits[i].line] # edits[i].hash
  BY <1>1 DEF ValidateEdits
<1>7. CASE \E j \in 1 .. i - 1 : edits[j].line = edits[i].line
  <2>1. PICK j \in 1 .. i - 1 : edits[j].line = edits[i].line
    BY <1>7
  <2>2. j \in DOMAIN edits /\ i # j
    BY <1>4
  <2>3. QED
    BY <2>1, <2>2 DEF Refusable
<1>8. CASE edits[i].line \notin DOMAIN Texts(old)
  <2>1. edits[i].line \notin DOMAIN seen
    BY <1>2, <1>3, <1>8, LinesOfText
  <2>2. QED
    BY <2>1 DEF Refusable
<1>9. CASE /\ edits[i].line \in DOMAIN old
           /\ GenerateHashMap(Texts(old))[edits[i].line] # edits[i].hash
  <2> DEFINE n == edits[i].line
  <2>1. edits[i].hash = Hash[seen[n]]
    BY <1>3, <1>4, <1>9, EditFields DEF EditInv
  <2>2. GenerateHashMap(Texts(old))[n] = Hash[old[n]]
    BY <1>2, <1>9, LinesOfText
  <2>3. old[n] # seen[n]
    BY <1>9, <2>1, <2>2
  <2>4. QED
    BY <2>3 DEF Refusable, old
<1>10. QED
  <2>1. DOMAIN Texts(old) = DOMAIN old
    BY <1>2, LinesOfText
  <2>2. QED
    BY <1>6, <1>7, <1>8, <1>9, <2>1

\* The texts and edits of a call stay of their types, and between the two reads and the
\* write of edit_file's Execute nothing comes between the edits and what they make.
THEOREM EditTypes == EditSpec => []EditInv
<1>1. QED
  BY EditInvInit, EditInvStep, PTL DEF EditSpec

\* For any texts, hashes and edits: a call of edit_file that is carried out does to each
\* line what its edit means, in whatever order they are listed and whatever others wrote,
\* and one that is refused though the model saw the text as it is gave a reason.
THEOREM EditsDoWhatTheyMean == EditSpec => []EditsAsMeant
<1>1. EditInv => EditsAsMeant
  BY PlannedIsMeant, RefusedForReason DEF EditsAsMeant
<1>2. QED
  BY <1>1, EditTypes, PTL

-----------------------------------------------------------------------------
(* Loops. *)

\* The states of a loop over 1 .. N: round k makes F[k][d] of d.
Course(g, N, D, base, F) ==
    /\ g = [k \in 0 .. N |-> g[k]]
    /\ g[0] = base
    /\ \A k \in 0 .. N : g[k] \in D[k]
    /\ \A k \in 1 .. N : g[k] = F[k][g[k - 1]]

\* A loop is defined round by round, as the recursive functions of the modules are.
LEMMA Loop ==
  ASSUME NEW N \in Nat, NEW D, NEW base \in D[0], NEW F,
         \A k \in 1 .. N : \A d \in D[k - 1] : F[k][d] \in D[k]
  PROVE  \E g : Course(g, N, D, base, F)
<1> DEFINE P == {n \in Nat : n <= N => \E g : Course(g, n, D, base, F)}
<1>1. 0 \in P
  <2> DEFINE g == [k \in 0 .. 0 |-> base]
  <2>1. Course(g, 0, D, base, F)
    BY DEF Course
  <2>2. QED
    BY <2>1
<1>2. ASSUME NEW n \in P PROVE n + 1 \in P
  <2> SUFFICES ASSUME n + 1 <= N PROVE \E g : Course(g, n + 1, D, base, F)
    OBVIOUS
  <2>1. n \in Nat /\ n <= N /\ n + 1 \in 1 .. N
    OBVIOUS
  <2>2. PICK g : Course(g, n, D, base, F)
    BY <2>1
  <2>3. /\ g[0] = base
        /\ \A k \in 0 .. n : g[k] \in D[k]
        /\ \A k \in 1 .. n : g[k] = F[k][g[k - 1]]
    BY <2>2 DEF Course
  <2> DEFINE next == F[n + 1][g[n]]
             h == [k \in 0 .. n + 1 |-> IF k = n + 1 THEN next ELSE g[k]]
  <2>4. next \in D[n + 1]
    <3>1. n + 1 - 1 = n /\ n \in 0 .. n
      BY <2>1
    <3>2. \A d \in D[n + 1 - 1] : F[n + 1][d] \in D[n + 1]
      BY <2>1
    <3>3. QED
      BY <2>3, <3>1, <3>2
  <2> HIDE DEF next
  <2>5. h[n + 1] = next /\ \A k \in 0 .. n : h[k] = g[k]
    BY <2>1
  <2>6. h = [k \in 0 .. n + 1 |-> h[k]]
    OBVIOUS
  <2> HIDE DEF h
  <2>7. h[0] = base
    BY <2>1, <2>3, <2>5
  <2>8. ASSUME NEW k \in 0 .. n + 1 PROVE h[k] \in D[k]
    BY <2>1, <2>3, <2>4, <2>5
  <2>9. ASSUME NEW k \in 1 .. n + 1 PROVE h[k] = F[k][h[k - 1]]
    <3>1. k - 1 \in 0 .. n /\ h[k - 1] = g[k - 1]
      BY <2>1, <2>5
    <3>2. CASE k = n + 1
      <4>1. k - 1 = n
        BY <2>1, <3>2
      <4>2. QED
        BY <2>5, <3>1, <3>2, <4>1 DEF next
    <3>3. CASE k # n + 1
      <4>1. k \in 1 .. n /\ k \in 0 .. n
        BY <2>1, <3>3
      <4>2. QED
        BY <2>3, <2>5, <3>1, <4>1
    <3>4. QED
      BY <3>2, <3>3
  <2>10. Course(h, n + 1, D, base, F)
    BY <2>6, <2>7, <2>8, <2>9 DEF Course
  <2>11. QED
    BY <2>10
<1> HIDE DEF P
<1>3. P = Nat
  <2>1. P \in SUBSET Nat
    BY DEF P
  <2>2. QED
    BY <1>1, <1>2, <2>1, Induction
<1>4. PICK g : Course(g, N, D, base, F)
  <2>1. N \in P /\ N <= N
    BY <1>3
  <2>2. QED
    BY <2>1 DEF P
<1>5. QED
  BY <1>4

\* What every round keeps holds in the end.
LEMMA LoopKeeps ==
  ASSUME NEW N \in Nat, NEW T \in SUBSET (0 .. N), 0 \in T,
         \A k \in 1 .. N : k - 1 \in T => k \in T
  PROVE  \A k \in 0 .. N : k \in T
<1> DEFINE P == {n \in Nat : n <= N => n \in T}
<1>1. 0 \in P
  OBVIOUS
<1>2. ASSUME NEW n \in P PROVE n + 1 \in P
  <2> SUFFICES ASSUME n + 1 <= N PROVE n + 1 \in T
    OBVIOUS
  <2>1. n \in Nat /\ n + 1 \in 1 .. N /\ n + 1 - 1 = n /\ n \in T
    OBVIOUS
  <2>2. QED
    BY <2>1
<1>3. P \in SUBSET Nat
  OBVIOUS
<1> HIDE DEF P
<1>4. P = Nat
  BY <1>1, <1>2, <1>3, Induction
<1>5. ASSUME NEW k \in 0 .. N PROVE k \in T
  BY <1>4 DEF P
<1>6. QED
  BY <1>5

-----------------------------------------------------------------------------
(* Segments of a text. *)

\* The lines after place x up to place y.
Seg(s, x, y) == SubSeq(s, x + 1, y)

\* A segment has the lines between its ends.
LEMMA SegFacts ==
  ASSUME NEW A, NEW s \in Seq(A)
  PROVE  /\ \A x \in 0 .. Len(s) : Seg(s, x, x) = <<>>
         /\ \A x, y \in 0 .. Len(s) : x <= y =>
               /\ Seg(s, x, y) \in Seq(A) /\ Len(Seg(s, x, y)) = y - x
               /\ \A i \in 1 .. y - x : Seg(s, x, y)[i] = s[x + i]
         /\ \A x, y, z \in 0 .. Len(s) : x <= y /\ y <= z =>
               Cat(Seg(s, x, y), Seg(s, y, z)) = Seg(s, x, z)
         /\ Seg(s, 0, Len(s)) = s
<1>1. Len(s) \in Nat /\ \A i \in 1 .. Len(s) : s[i] \in A
  BY LenProperties, ElementOfSeq
<1>2. ASSUME NEW x \in 0 .. Len(s) PROVE Seg(s, x, x) = <<>>
  BY <1>1, SubSeqEmpty DEF Seg
<1>3. ASSUME NEW x \in 0 .. Len(s), NEW y \in 0 .. Len(s), x <= y
      PROVE  /\ Seg(s, x, y) \in Seq(A) /\ Len(Seg(s, x, y)) = y - x
             /\ \A i \in 1 .. y - x : Seg(s, x, y)[i] = s[x + i]
  <2>1. /\ x + 1 \in Int /\ y \in Int /\ \A i \in x + 1 .. y : s[i] \in A
        /\ y - (x + 1) + 1 = y - x /\ (~(x + 1 <= y) => y - x = 0)
    BY <1>1, <1>3
  <2>2. /\ SubSeq(s, x + 1, y) \in Seq(A)
        /\ Len(SubSeq(s, x + 1, y)) = IF x + 1 <= y THEN y - (x + 1) + 1 ELSE 0
        /\ \A i \in 1 .. y - (x + 1) + 1 : SubSeq(s, x + 1, y)[i] = s[x + 1 + i - 1]
    BY <2>1, SubSeqProperties
  <2>3. \A i \in 1 .. y - x : x + 1 + i - 1 = x + i
    BY <1>1
  <2>4. QED
    BY <2>1, <2>2, <2>3 DEF Seg
<1>4. ASSUME NEW x \in 0 .. Len(s), NEW y \in 0 .. Len(s), NEW z \in 0 .. Len(s), x <= y, y <= z
      PROVE  Cat(Seg(s, x, y), Seg(s, y, z)) = Seg(s, x, z)
  <2>1. x + 1 \in 1 .. Len(s) + 1 /\ y \in x + 1 - 1 .. Len(s) /\ z \in y .. Len(s)
    BY <1>1, <1>4
  <2>2. SubSeq(s, x + 1, y) \o SubSeq(s, y + 1, z) = SubSeq(s, x + 1, z)
    BY <2>1, ConcatAdjacentSubSeq
  <2>3. QED
    BY <2>2 DEF Seg, Cat
<1>5. Seg(s, 0, Len(s)) = s
  BY SubSeqFull DEF Seg
<1>6. QED
  BY <1>2, <1>3, <1>4, <1>5

\* The old lines from x to u are the new ones from y to v.
Level(old, new, x, y, u, v) ==
    /\ x \in 0 .. Len(old) /\ u \in 0 .. Len(old) /\ y \in 0 .. Len(new) /\ v \in 0 .. Len(new)
    /\ x <= u /\ u - x = v - y
    /\ \A i \in x + 1 .. u : old[i] = new[i + (y - x)]

\* Level stretches read the same.
LEMMA LevelSeg ==
  ASSUME NEW A, NEW old \in Seq(A), NEW new \in Seq(A), NEW x, NEW y, NEW u, NEW v,
         Level(old, new, x, y, u, v)
  PROVE  Seg(old, x, u) = Seg(new, y, v) /\ y <= v
<1>1. /\ x \in 0 .. Len(old) /\ u \in 0 .. Len(old) /\ y \in 0 .. Len(new) /\ v \in 0 .. Len(new)
      /\ x <= u /\ u - x = v - y /\ y <= v
      /\ \A i \in x + 1 .. u : old[i] = new[i + (y - x)]
  BY DEF Level
<1>2. Len(old) \in Nat /\ Len(new) \in Nat
  BY LenProperties
<1>3. /\ Seg(old, x, u) \in Seq(A) /\ Len(Seg(old, x, u)) = u - x
      /\ \A i \in 1 .. u - x : Seg(old, x, u)[i] = old[x + i]
  BY <1>1, SegFacts
<1>4. /\ Seg(new, y, v) \in Seq(A) /\ Len(Seg(new, y, v)) = v - y
      /\ \A i \in 1 .. v - y : Seg(new, y, v)[i] = new[y + i]
  BY <1>1, SegFacts
<1>5. ASSUME NEW i \in 1 .. u - x PROVE old[x + i] = new[y + i]
  <2>1. x + i \in x + 1 .. u /\ x + i + (y - x) = y + i
    BY <1>1, <1>2
  <2>2. QED
    BY <1>1, <2>1
<1> DEFINE a == Seg(old, x, u)
           b == Seg(new, y, v)
<1>6. a \in Seq(A) /\ b \in Seq(A) /\ Len(a) = Len(b) /\ \A i \in 1 .. Len(a) : a[i] = b[i]
  BY <1>1, <1>3, <1>4, <1>5
<1> HIDE DEF a, b
<1>7. a = b
  BY <1>6, SeqEqual
<1>8. QED
  BY <1>1, <1>7 DEF a, b

\* Level stretches join, and may be cut.
LEMMA LevelCut ==
  ASSUME NEW A, NEW old \in Seq(A), NEW new \in Seq(A), NEW x, NEW y, NEW u, NEW v,
         Level(old, new, x, y, u, v), NEW p \in x .. u
  PROVE  /\ p + (y - x) \in 0 .. Len(new)
         /\ Level(old, new, x, y, p, p + (y - x)) /\ Level(old, new, p, p + (y - x), u, v)
<1>1. Len(old) \in Nat /\ Len(new) \in Nat
  BY LenProperties
<1>2. QED
  <2> DEFINE q == p + (y - x)
  <2>1. /\ x \in 0 .. Len(old) /\ u \in 0 .. Len(old) /\ y \in 0 .. Len(new) /\ v \in 0 .. Len(new)
        /\ x <= u /\ u - x = v - y
        /\ \A i \in x + 1 .. u : old[i] = new[i + (y - x)]
    BY DEF Level
  <2>2. q \in 0 .. Len(new) /\ p \in 0 .. Len(old) /\ x <= p /\ p <= u /\ q - p = y - x
        /\ p - x = q - y /\ u - p = v - q
    BY <1>1, <2>1
  <2>3. /\ \A i \in x + 1 .. p : i \in x + 1 .. u
        /\ \A i \in p + 1 .. u : i \in x + 1 .. u
    BY <1>1, <2>1, <2>2
  <2> HIDE DEF q
  <2>4. Level(old, new, x, y, p, q)
    BY <2>1, <2>2, <2>3 DEF Level
  <2>5. Level(old, new, p, q, u, v)
    BY <2>1, <2>2, <2>3 DEF Level
  <2>6. QED
    BY <2>2, <2>4, <2>5 DEF q

-----------------------------------------------------------------------------
(* What the lines of a block say. *)

\* One more line.
LEMMA SegGrows ==
  ASSUME NEW A, NEW s \in Seq(A), NEW c \in Seq(A), NEW i \in 1 .. Len(c)
  PROVE  Append(Cat(s, Seg(c, 0, i - 1)), c[i]) = Cat(s, Seg(c, 0, i))
<1>1. Len(c) \in Nat /\ c[i] \in A /\ i - 1 \in 0 .. Len(c) /\ 0 \in 0 .. Len(c) /\ 0 <= i - 1
  BY LenProperties, ElementOfSeq
<1>2. Seg(c, 0, i - 1) \in Seq(A) /\ <<c[i]>> \in Seq(A)
  <2>1. Seg(c, 0, i - 1) \in Seq(A)
    BY <1>1, SegFacts
  <2>2. QED
    BY <1>1, <2>1, OneElement
<1>3. Seg(c, 0, i) = Cat(Seg(c, 0, i - 1), <<c[i]>>)
  <2>1. 1 \in 1 .. Len(c) /\ i \in 1 .. Len(c)
    BY <1>1
  <2>2. SubSeq(c, 1, i) = SubSeq(c, 1, i - 1) \o <<c[i]>>
    BY <2>1, SubSeqRecursiveSecond
  <2>3. QED
    BY <2>2 DEF Seg, Cat
<1> DEFINE b == Seg(c, 0, i - 1)
<1>4. Cat(s, b) \in Seq(A) /\ Cat(Cat(s, b), <<c[i]>>) = Cat(s, Cat(b, <<c[i]>>))
  <2>1. Cat(s, b) \in Seq(A)
    BY <1>2, CatFacts
  <2>2. \A x, y, w \in Seq(A) : Cat(Cat(x, y), w) = Cat(x, Cat(y, w))
    BY CatFacts
  <2>3. b \in Seq(A) /\ <<c[i]>> \in Seq(A)
    BY <1>2
  <2> HIDE DEF b
  <2>4. QED
    BY <2>1, <2>2, <2>3, Zenon
<1> HIDE DEF b
<1>5. Append(Cat(s, b), c[i]) = Cat(Cat(s, b), <<c[i]>>)
  BY <1>1, <1>4, AppendIsConcat DEF Cat
<1>6. QED
  BY <1>3, <1>4, <1>5 DEF b

\* What the first i lines say.
SaidSoFar(f, ls, types) ==
    /\ f[0] = <<>>
    /\ \A i \in 1 .. Len(ls) :
          f[i] = IF ls[i].type \in types THEN Append(f[i - 1], ls[i].content) ELSE f[i - 1]

\* What the first i lines say, line by line.
LEMMA SaidLoop ==
  ASSUME NEW A, NEW E, \A e \in E : e.content \in A, NEW ls \in Seq(E), NEW types
  PROVE  \E f \in [0 .. Len(ls) -> Seq(A)] :
            Said(ls, types) = f[Len(ls)] /\ SaidSoFar(f, ls, types)
<1> DEFINE N == Len(ls)
           Round(f) == [i \in 0 .. N |->
                          IF i = 0 THEN <<>>
                          ELSE IF ls[i].type \in types THEN Append(f[i - 1], ls[i].content)
                          ELSE f[i - 1]]
           h == CHOOSE f : f = Round(f)
           D == [k \in 0 .. N |-> Seq(A)]
           F == [k \in 1 .. N |-> [d \in Seq(A) |->
                   IF ls[k].type \in types THEN Append(d, ls[k].content) ELSE d]]
<1>1. Said(ls, types) = h[N]
  BY DEF Said
<1>2. N \in Nat /\ \A i \in 1 .. N : ls[i].content \in A
  BY LenProperties, ElementOfSeq
<1> HIDE DEF N
<1>3. ASSUME NEW k \in 1 .. N, NEW d \in Seq(A)
      PROVE  /\ F[k][d] = IF ls[k].type \in types THEN Append(d, ls[k].content) ELSE d
             /\ F[k][d] \in Seq(A)
  <2>1. Append(d, ls[k].content) \in Seq(A)
    BY <1>2, AppendProperties
  <2>2. QED
    BY <2>1
<1>4. \A k \in 0 .. N : D[k] = Seq(A)
  OBVIOUS
<1> HIDE DEF F, D
<1>5. PICK g : Course(g, N, D, <<>>, F)
  <2>1. <<>> \in D[0]
    <3>1. 0 \in 0 .. N /\ <<>> \in Seq(A)
      BY <1>2, EmptySeq
    <3>2. QED
      BY <1>4, <3>1
  <2>2. \A k \in 1 .. N : k - 1 \in 0 .. N /\ k \in 0 .. N
    BY <1>2
  <2>3. \A k \in 1 .. N : \A d \in D[k - 1] : F[k][d] \in D[k]
    BY <1>3, <1>4, <2>2
  <2>4. QED
    BY <1>2, <2>1, <2>3, Loop
<1>6. /\ g = [k \in 0 .. N |-> g[k]] /\ g[0] = <<>>
      /\ \A k \in 0 .. N : g[k] \in D[k]
      /\ \A k \in 1 .. N : g[k] = F[k][g[k - 1]]
  BY <1>5 DEF Course
<1>7. \A k \in 1 .. N : k - 1 \in 0 .. N /\ g[k - 1] \in Seq(A)
  BY <1>2, <1>4, <1>6
<1>8. \A k \in 1 .. N :
         g[k] = IF ls[k].type \in types THEN Append(g[k - 1], ls[k].content) ELSE g[k - 1]
  BY <1>3, <1>6, <1>7
<1>9. g = Round(g)
  <2>1. \A k \in 0 .. N : k = 0 \/ (k \in 1 .. N /\ k # 0)
    BY <1>2
  <2>2. \A k \in 0 .. N :
           g[k] = IF k = 0 THEN <<>>
                  ELSE IF ls[k].type \in types THEN Append(g[k - 1], ls[k].content) ELSE g[k - 1]
    BY <1>6, <1>8, <2>1
  <2>3. QED
    BY <1>6, <2>2
<1>10. h = Round(h)
  BY <1>9
<1> HIDE DEF h
<1>11. h[0] = <<>> /\ \A k \in 1 .. N :
         h[k] = IF ls[k].type \in types THEN Append(h[k - 1], ls[k].content) ELSE h[k - 1]
  <2>1. 0 \in 0 .. N /\ \A k \in 1 .. N : k \in 0 .. N /\ k # 0
    BY <1>2
  <2>2. \A k \in 0 .. N :
           h[k] = IF k = 0 THEN <<>>
                  ELSE IF ls[k].type \in types THEN Append(h[k - 1], ls[k].content) ELSE h[k - 1]
    BY <1>10
  <2>3. QED
    BY <2>1, <2>2
<1> DEFINE T == {k \in 0 .. N : h[k] \in Seq(A)}
<1>12. \A k \in 0 .. N : k \in T
  <2>1. 0 \in T
    <3>1. 0 \in 0 .. N /\ h[0] \in Seq(A)
      BY <1>2, <1>11, EmptySeq
    <3>2. QED
      BY <3>1
  <2>2. ASSUME NEW k \in 1 .. N, k - 1 \in T PROVE k \in T
    <3>1. h[k - 1] \in Seq(A) /\ k \in 0 .. N
      BY <1>2, <2>2
    <3>2. Append(h[k - 1], ls[k].content) \in Seq(A)
      BY <1>2, <3>1, AppendProperties
    <3>3. h[k] \in Seq(A)
      BY <1>11, <3>1, <3>2
    <3>4. QED
      BY <3>1, <3>3
  <2>3. T \in SUBSET (0 .. N)
    OBVIOUS
  <2> HIDE DEF T
  <2>4. QED
    BY <1>2, <2>1, <2>2, <2>3, LoopKeeps
<1>13. h \in [0 .. N -> Seq(A)]
  <2>1. \A k \in 0 .. N : h[k] \in Seq(A)
    BY <1>12
  <2>2. h = [k \in 0 .. N |-> h[k]]
    BY <1>10
  <2>3. QED
    BY <2>1, <2>2
<1>14. QED
  BY <1>1, <1>11, <1>13 DEF SaidSoFar, N

\* Lines that read like a text, and whether they are of some types.
Reads(ls, c) == Len(c) = Len(ls) /\ \A i \in 1 .. Len(ls) : ls[i].content = c[i]
AllOf(ls, types) == \A i \in 1 .. Len(ls) : ls[i].type \in types
NoneOf(ls, types) == \A i \in 1 .. Len(ls) : ls[i].type \notin types
ReadIn(E, A) == \A e \in E : e.content \in A
SaysAfter(ls, more, types, c) ==
    /\ AllOf(more, types) => Said(Cat(ls, more), types) = Cat(Said(ls, types), c)
    /\ NoneOf(more, types) => Said(Cat(ls, more), types) = Said(ls, types)

\* More lines, all of the types asked for or none of them.
LEMMA SaidMore ==
  ASSUME NEW A, NEW E, ReadIn(E, A), NEW ls \in Seq(E), NEW more \in Seq(E),
         NEW types, NEW c \in Seq(A), Reads(more, c)
  PROVE  SaysAfter(ls, more, types, c)
<1>a. /\ \A e \in E : e.content \in A
      /\ Len(c) = Len(more) /\ \A i \in 1 .. Len(more) : more[i].content = c[i]
  BY DEF ReadIn, Reads
<1> DEFINE N == Len(ls)
           M == Len(more)
           all == Cat(ls, more)
<1>1. N \in Nat /\ M \in Nat
  BY LenProperties
<1>2. /\ all \in Seq(E) /\ Len(all) = N + M
      /\ \A i \in 1 .. N : all[i] = ls[i]
      /\ \A i \in 1 .. M : all[N + i] = more[i]
  <2>1. /\ ls \o more \in Seq(E) /\ Len(ls \o more) = N + M
        /\ \A i \in 1 .. N + M : (ls \o more)[i] = IF i <= N THEN ls[i] ELSE more[i - N]
    BY ConcatProperties
  <2>2. ASSUME NEW i \in 1 .. N PROVE (ls \o more)[i] = ls[i]
    BY <1>1, <2>1
  <2>3. ASSUME NEW i \in 1 .. M PROVE (ls \o more)[N + i] = more[i]
    <3>1. N + i \in 1 .. N + M /\ ~(N + i <= N) /\ N + i - N = i
      BY <1>1
    <3>2. QED
      BY <2>1, <3>1
  <2>4. QED
    BY <2>1, <2>2, <2>3 DEF Cat
<1>3. PICK f \in [0 .. Len(ls) -> Seq(A)] : Said(ls, types) = f[Len(ls)] /\ SaidSoFar(f, ls, types)
  BY <1>a, SaidLoop
<1> HIDE DEF all
<1>4. PICK g \in [0 .. Len(all) -> Seq(A)] : Said(all, types) = g[Len(all)] /\ SaidSoFar(g, all, types)
  BY <1>a, <1>2, SaidLoop
<1>5. /\ f[0] = <<>> /\ g[0] = <<>>
      /\ \A i \in 1 .. N :
            f[i] = IF ls[i].type \in types THEN Append(f[i - 1], ls[i].content) ELSE f[i - 1]
      /\ \A i \in 1 .. N + M :
            g[i] = IF all[i].type \in types THEN Append(g[i - 1], all[i].content) ELSE g[i - 1]
  BY <1>2, <1>3, <1>4 DEF SaidSoFar
<1> DEFINE said == Said(ls, types)
<1>6. said = f[N] /\ said \in Seq(A)
  BY <1>1, <1>3
<1> HIDE DEF N, M, said
<1>7. g[N] = said
  <2> DEFINE T == {k \in 0 .. N : f[k] = g[k]}
  <2>1. 0 \in T
    BY <1>1, <1>5
  <2>2. ASSUME NEW k \in 1 .. N, k - 1 \in T PROVE k \in T
    <3>1. k \in 0 .. N /\ k \in 1 .. N + M /\ f[k - 1] = g[k - 1] /\ all[k] = ls[k]
      BY <1>1, <1>2, <2>2 DEF N
    <3>2. f[k] = g[k]
      BY <1>5, <3>1
    <3>3. QED
      BY <3>1, <3>2
  <2>3. T \in SUBSET (0 .. N)
    OBVIOUS
  <2> HIDE DEF T
  <2>4. \A k \in 0 .. N : k \in T
    BY <1>1, <2>1, <2>2, <2>3, LoopKeeps
  <2>5. N \in 0 .. N
    BY <1>1
  <2>6. QED
    BY <1>6, <2>4, <2>5 DEF T
<1>8. ASSUME NEW k \in 1 .. M
      PROVE  /\ N + k \in 1 .. N + M /\ N + k - 1 = N + (k - 1) /\ all[N + k] = more[k]
             /\ g[N + k] = IF more[k].type \in types THEN Append(g[N + (k - 1)], c[k])
                           ELSE g[N + (k - 1)]
  <2>1. N + k \in 1 .. N + M /\ N + k - 1 = N + (k - 1) /\ all[N + k] = more[k]
    BY <1>1, <1>2 DEF N, M
  <2>2. more[k].content = c[k]
    BY <1>a DEF M
  <2>3. PICK i \in 1 .. N + M : i = N + k
    BY <2>1
  <2>4. g[i] = IF all[i].type \in types THEN Append(g[i - 1], all[i].content) ELSE g[i - 1]
    BY <1>5
  <2>5. i - 1 = N + (k - 1) /\ all[i] = more[k]
    <3>1. i - 1 = N + (k - 1)
      BY <1>1, <2>3
    <3>2. all[i] = more[k]
      BY <2>1, <2>3
    <3>3. QED
      BY <3>1, <3>2
  <2>6. QED
    BY <2>1, <2>2, <2>3, <2>4, <2>5
<1>9. ASSUME \A i \in 1 .. M : more[i].type \in types PROVE g[N + M] = Cat(said, c)
  <2> DEFINE T == {k \in 0 .. M : g[N + k] = Cat(said, Seg(c, 0, k))}
  <2>0. Len(c) = M /\ M \in 0 .. M /\ 0 \in 0 .. M
    BY <1>a, <1>1 DEF M
  <2>1. 0 \in T
    <3>1. Seg(c, 0, 0) = <<>> /\ N + 0 = N /\ 0 \in 0 .. M
      BY <1>1, <2>0, SegFacts
    <3>2. Cat(said, <<>>) = said
      BY <1>6, CatFacts
    <3>3. QED
      BY <1>7, <3>1, <3>2
  <2>2. ASSUME NEW k \in 1 .. M, k - 1 \in T PROVE k \in T
    <3>1. g[N + (k - 1)] = Cat(said, Seg(c, 0, k - 1)) /\ k \in 0 .. M /\ k \in 1 .. Len(c)
      BY <1>1, <2>0, <2>2
    <3>2. g[N + k] = Append(g[N + (k - 1)], c[k])
      BY <1>8, <1>9
    <3>3. Append(Cat(said, Seg(c, 0, k - 1)), c[k]) = Cat(said, Seg(c, 0, k))
      BY <1>6, <3>1, SegGrows
    <3>4. QED
      BY <3>1, <3>2, <3>3
  <2>3. T \in SUBSET (0 .. M)
    OBVIOUS
  <2> HIDE DEF T
  <2>4. \A k \in 0 .. M : k \in T
    BY <1>1, <2>1, <2>2, <2>3, LoopKeeps
  <2>5. g[N + M] = Cat(said, Seg(c, 0, M))
    BY <2>0, <2>4 DEF T
  <2>6. Seg(c, 0, M) = c
    BY <2>0, SegFacts
  <2>7. QED
    BY <2>5, <2>6
<1>10. ASSUME \A i \in 1 .. M : more[i].type \notin types PROVE g[N + M] = said
  <2> DEFINE T == {k \in 0 .. M : g[N + k] = said}
  <2>1. 0 \in T
    BY <1>1, <1>7
  <2>2. ASSUME NEW k \in 1 .. M, k - 1 \in T PROVE k \in T
    <3>1. g[N + (k - 1)] = said /\ k \in 0 .. M
      BY <1>1, <2>2
    <3>2. g[N + k] = g[N + (k - 1)]
      BY <1>8, <1>10
    <3>3. QED
      BY <3>1, <3>2
  <2>3. T \in SUBSET (0 .. M)
    OBVIOUS
  <2> HIDE DEF T
  <2>4. \A k \in 0 .. M : k \in T
    BY <1>1, <2>1, <2>2, <2>3, LoopKeeps
  <2>5. M \in 0 .. M
    BY <1>1
  <2>6. QED
    BY <2>4, <2>5 DEF T
<1>11. Said(all, types) = g[N + M]
  BY <1>2, <1>4 DEF N, M
<1>12. QED
  BY <1>6, <1>9, <1>10, <1>11 DEF all, said, M, AllOf, NoneOf, SaysAfter

\* No lines say nothing.
LEMMA SaidNothing == \A types : Said(<<>>, types) = <<>>
<1> SUFFICES ASSUME NEW types PROVE Said(<<>>, types) = <<>>
  OBVIOUS
<1>1. <<>> \in Seq({}) /\ Len(<<>>) = 0 /\ \A e \in {} : e.content \in {}
  BY EmptySeq
<1>2. PICK f \in [0 .. Len(<<>>) -> Seq({})] :
         Said(<<>>, types) = f[Len(<<>>)] /\ SaidSoFar(f, <<>>, types)
  <2> DEFINE none == <<>>
  <2>1. none \in Seq({})
    BY <1>1
  <2> HIDE DEF none
  <2>2. \E f \in [0 .. Len(none) -> Seq({})] :
           Said(none, types) = f[Len(none)] /\ SaidSoFar(f, none, types)
    BY <1>1, <2>1, SaidLoop
  <2>3. QED
    BY <2>2 DEF none
<1>3. QED
  BY <1>1, <1>2 DEF SaidSoFar

-----------------------------------------------------------------------------
(* The matches. *)

\* Matches of the first i old with the first j new lines, in their order in both.
Chain(s, old, new, i, j) ==
    /\ s \in Seq((1 .. i) \X (1 .. j))
    /\ \A k \in 1 .. Len(s) : old[s[k][1]] = new[s[k][2]]
    /\ \A k \in 1 .. Len(s) - 1 : s[k][1] < s[k + 1][1] /\ s[k][2] < s[k + 1][2]

\* A chain stays one for longer texts.
LEMMA ChainWidens ==
  ASSUME NEW old, NEW new, NEW i \in Nat, NEW j \in Nat, NEW u \in Nat, NEW v \in Nat,
         i <= u, j <= v, NEW s, Chain(s, old, new, i, j)
  PROVE  Chain(s, old, new, u, v)
<1>1. (1 .. i) \X (1 .. j) \subseteq (1 .. u) \X (1 .. v)
  <2>1. 1 .. i \subseteq 1 .. u /\ 1 .. j \subseteq 1 .. v
    OBVIOUS
  <2>2. QED
    BY <2>1
<1>2. s \in Seq((1 .. u) \X (1 .. v))
  <2>1. s \in Seq((1 .. i) \X (1 .. j))
    BY DEF Chain
  <2>2. QED
    BY <1>1, <2>1, SeqMonotonic
<1>3. QED
  BY <1>2 DEF Chain

\* One more match behind the others.
LEMMA ChainGrows ==
  ASSUME NEW old, NEW new, NEW i \in Nat \ {0}, NEW j \in Nat \ {0}, old[i] = new[j],
         NEW s, Chain(s, old, new, i - 1, j - 1)
  PROVE  Chain(Append(s, <<i, j>>), old, new, i, j)
<1> DEFINE A == (1 .. i) \X (1 .. j)
           p == <<i, j>>
           t == Append(s, p)
<1>1. Chain(s, old, new, i, j)
  BY ChainWidens
<1>2. s \in Seq(A) /\ p \in A /\ Len(s) \in Nat
  <2>1. s \in Seq(A)
    BY <1>1 DEF Chain
  <2>2. p \in A
    OBVIOUS
  <2>3. QED
    BY <2>1, <2>2, LenProperties
<1>3. /\ t \in Seq(A) /\ Len(t) = Len(s) + 1 /\ t[Len(s) + 1] = p
      /\ \A k \in 1 .. Len(s) : t[k] = s[k]
  <2> HIDE DEF A, p
  <2>1. QED
    BY <1>2, AppendProperties
<1>4. \A k \in 1 .. Len(s) : s[k][1] < i /\ s[k][2] < j
  <2>1. s \in Seq((1 .. i - 1) \X (1 .. j - 1))
    BY DEF Chain
  <2>2. ASSUME NEW k \in 1 .. Len(s) PROVE s[k][1] < i /\ s[k][2] < j
    <3>1. s[k] \in (1 .. i - 1) \X (1 .. j - 1)
      BY <2>1, ElementOfSeq
    <3>2. QED
      BY <3>1
  <2>3. QED
    BY <2>2
<1>5. p[1] = i /\ p[2] = j
  OBVIOUS
<1> HIDE DEF t, p, A
<1>6. ASSUME NEW k \in 1 .. Len(t) PROVE old[t[k][1]] = new[t[k][2]]
  <2>1. CASE k = Len(s) + 1
    BY <1>3, <1>5, <2>1
  <2>2. CASE k # Len(s) + 1
    <3>1. k \in 1 .. Len(s)
      BY <1>2, <1>3, <2>2
    <3>2. QED
      BY <1>1, <1>3, <3>1 DEF Chain
  <2>3. QED
    BY <2>1, <2>2
<1>7. ASSUME NEW k \in 1 .. Len(t) - 1 PROVE t[k][1] < t[k + 1][1] /\ t[k][2] < t[k + 1][2]
  <2>1. k \in 1 .. Len(s) /\ t[k] = s[k]
    BY <1>2, <1>3
  <2>2. CASE k = Len(s)
    <3>1. t[k + 1] = p
      BY <1>3, <2>2
    <3>2. QED
      BY <1>4, <1>5, <2>1, <3>1
  <2>3. CASE k # Len(s)
    <3>1. k \in 1 .. Len(s) - 1 /\ k + 1 \in 1 .. Len(s)
      BY <1>2, <2>1, <2>3
    <3>2. t[k + 1] = s[k + 1]
      BY <1>3, <3>1
    <3>3. QED
      BY <1>1, <2>1, <3>1, <3>2 DEF Chain
  <2>4. QED
    BY <2>2, <2>3
<1>8. QED
  BY <1>3, <1>6, <1>7 DEF Chain, t, p, A

\* Whatever the table says, walking back along it collects matches in their order.
LEMMA LCSIsChain ==
  ASSUME NEW A, NEW old \in Seq(A), NEW new \in Seq(A)
  PROVE  Chain(ComputeLCS(old, new), old, new, Len(old), Len(new))
<1> DEFINE n == Len(old)
           m == Len(new)
           X == (0 .. n) \X (0 .. m)
           Up(p) == Table(old, new)[p[1]][p[2] + 1] > Table(old, new)[p[1] + 1][p[2]]
           Step(f, p) == IF p[1] = 0 \/ p[2] = 0 THEN <<>>
                         ELSE IF old[p[1]] = new[p[2]] THEN Append(f[<<p[1] - 1, p[2] - 1>>], p)
                         ELSE IF Up(p) THEN f[<<p[1] - 1, p[2]>>]
                         ELSE f[<<p[1], p[2] - 1>>]
           h == CHOOSE f : f = [p \in X |-> Step(f, p)]
<1>1. ComputeLCS(old, new) = h[<<n, m>>]
  BY DEF ComputeLCS
<1>2. n \in Nat /\ m \in Nat
  BY LenProperties
<1> HIDE DEF n, m, Up
<1> DEFINE Low(s) == {p \in X : p[1] + p[2] <= s}
           Solves(g, s) == /\ g = [p \in Low(s) |-> g[p]]
                           /\ \A p \in Low(s) : g[p] = Step(g, p)
           P == {s \in Nat : \E g : Solves(g, s)}
<1>3. ASSUME NEW p \in X, p[1] # 0, p[2] # 0
      PROVE  /\ <<p[1] - 1, p[2] - 1>> \in X /\ <<p[1] - 1, p[2]>> \in X /\ <<p[1], p[2] - 1>> \in X
             /\ p[1] \in Nat /\ p[2] \in Nat /\ p = <<p[1], p[2]>>
  BY <1>2, <1>3
<1>4. ASSUME NEW s \in Nat, NEW p \in Low(s + 1), p[1] # 0, p[2] # 0
      PROVE  /\ <<p[1] - 1, p[2] - 1>> \in Low(s) /\ <<p[1] - 1, p[2]>> \in Low(s)
             /\ <<p[1], p[2] - 1>> \in Low(s)
  <2>1. /\ <<p[1] - 1, p[2] - 1>> \in X /\ <<p[1] - 1, p[2]>> \in X /\ <<p[1], p[2] - 1>> \in X
        /\ p[1] \in Nat /\ p[2] \in Nat /\ p[1] + p[2] <= s + 1
    BY <1>3, <1>4
  <2> HIDE DEF X
  <2>2. QED
    BY <2>1
<1>5. 0 \in P
  <2> DEFINE g == [p \in Low(0) |-> <<>>]
  <2>1. \A p \in Low(0) : Step(g, p) = <<>>
    <3>1. ASSUME NEW p \in Low(0) PROVE p[1] = 0 \/ p[2] = 0
      BY <1>2
    <3>2. QED
      BY <3>1
  <2> HIDE DEF Step, Low
  <2>2. g = [p \in Low(0) |-> g[p]] /\ \A p \in Low(0) : g[p] = <<>>
    OBVIOUS
  <2>3. Solves(g, 0)
    BY <2>1, <2>2
  <2>4. QED
    BY <2>3
<1>6. ASSUME NEW s \in P PROVE s + 1 \in P
  <2>1. s \in Nat
    OBVIOUS
  <2>2. PICK g : Solves(g, s)
    OBVIOUS
  <2> DEFINE k == [p \in Low(s + 1) |-> IF p \in Low(s) THEN g[p] ELSE Step(g, p)]
  <2>3. Low(s) \subseteq Low(s + 1)
    BY <1>2, <2>1
  <2>4. \A p \in Low(s) : k[p] = g[p] /\ g[p] = Step(g, p)
    <3> HIDE DEF Low, Step
    <3>1. QED
      BY <2>2, <2>3
  <2>5. ASSUME NEW p \in Low(s + 1) PROVE k[p] = Step(g, p)
    <3> HIDE DEF Low, Step
    <3>1. QED
      BY <2>4
  <2>6. k = [p \in Low(s + 1) |-> k[p]]
    OBVIOUS
  <2>7. ASSUME NEW p \in Low(s + 1) PROVE Step(k, p) = Step(g, p)
    <3>1. CASE p[1] = 0 \/ p[2] = 0
      <4> HIDE DEF k
      <4>1. QED
        BY <3>1
    <3>2. CASE p[1] # 0 /\ p[2] # 0
      <4>1. /\ <<p[1] - 1, p[2] - 1>> \in Low(s) /\ <<p[1] - 1, p[2]>> \in Low(s)
            /\ <<p[1], p[2] - 1>> \in Low(s)
        BY <1>4, <2>1, <3>2
      <4>2. /\ k[<<p[1] - 1, p[2] - 1>>] = g[<<p[1] - 1, p[2] - 1>>]
            /\ k[<<p[1] - 1, p[2]>>] = g[<<p[1] - 1, p[2]>>]
            /\ k[<<p[1], p[2] - 1>>] = g[<<p[1], p[2] - 1>>]
        <5> HIDE DEF k, Low
        <5>1. QED
          BY <2>4, <4>1
      <4> HIDE DEF k
      <4>3. QED
        BY <4>2
    <3>3. QED
      BY <3>1, <3>2
  <2> HIDE DEF k, Low, Step
  <2>8. Solves(k, s + 1)
    BY <2>5, <2>6, <2>7
  <2>9. s + 1 \in Nat
    BY <2>1
  <2> HIDE DEF Solves
  <2>10. QED
    BY <2>8, <2>9
<1>7. P = Nat
  <2>1. P \in SUBSET Nat
    OBVIOUS
  <2> HIDE DEF P
  <2>2. QED
    BY <1>5, <1>6, <2>1, Induction
<1>8. PICK g : Solves(g, n + m)
  <2>1. n + m \in P
    <3> HIDE DEF P
    <3>1. QED
      BY <1>2, <1>7
  <2> HIDE DEF Solves
  <2>2. QED
    BY <2>1
<1>9. Low(n + m) = X
  BY <1>2
<1>10. g = [p \in X |-> Step(g, p)]
  <2> HIDE DEF Low, X, Step
  <2>1. QED
    BY <1>8, <1>9
<1>11. h = [p \in X |-> Step(h, p)]
  <2> HIDE DEF Step, X
  <2>1. QED
    BY <1>10
<1> HIDE DEF h
<1>12. \A p \in X : h[p] = Step(h, p)
  <2> HIDE DEF Step, X
  <2>1. QED
    BY <1>11
<1> DEFINE Q == {s \in Nat : \A p \in Low(s) : Chain(h[p], old, new, p[1], p[2])}
<1>13. ASSUME NEW p \in X, p[1] = 0 \/ p[2] = 0 PROVE Chain(h[p], old, new, p[1], p[2])
  <2>1. h[p] = <<>>
    BY <1>12, <1>13
  <2>2. Chain(<<>>, old, new, p[1], p[2])
    <3>1. <<>> \in Seq((1 .. p[1]) \X (1 .. p[2])) /\ Len(<<>>) = 0
      BY EmptySeq
    <3>2. QED
      BY <3>1 DEF Chain
  <2>3. QED
    BY <2>1, <2>2
<1>14. 0 \in Q
  <2>1. ASSUME NEW p \in Low(0) PROVE Chain(h[p], old, new, p[1], p[2])
    <3>1. p \in X /\ (p[1] = 0 \/ p[2] = 0)
      BY <1>2
    <3>2. QED
      BY <1>13, <3>1
  <2>2. QED
    BY <2>1
<1>15. ASSUME NEW s \in Q PROVE s + 1 \in Q
  <2>1. s \in Nat
    OBVIOUS
  <2>2. ASSUME NEW p \in Low(s + 1) PROVE Chain(h[p], old, new, p[1], p[2])
    <3>0. p \in X
      OBVIOUS
    <3>1. CASE p[1] = 0 \/ p[2] = 0
      BY <1>13, <3>0, <3>1
    <3>2. CASE p[1] # 0 /\ p[2] # 0
      <4> DEFINE i == p[1]
                 j == p[2]
      <4>1. /\ <<i - 1, j - 1>> \in Low(s) /\ <<i - 1, j>> \in Low(s) /\ <<i, j - 1>> \in Low(s)
        BY <1>4, <2>1, <3>2
      <4>2. i \in Nat \ {0} /\ j \in Nat \ {0} /\ p = <<i, j>>
        BY <1>3, <3>0, <3>2
      <4>3. i - 1 \in Nat /\ j - 1 \in Nat /\ i - 1 <= i /\ j - 1 <= j /\ i <= i /\ j <= j
        BY <4>2
      <4>4. /\ Chain(h[<<i - 1, j - 1>>], old, new, i - 1, j - 1)
            /\ Chain(h[<<i - 1, j>>], old, new, i - 1, j)
            /\ Chain(h[<<i, j - 1>>], old, new, i, j - 1)
        <5>1. \A q \in Low(s) : Chain(h[q], old, new, q[1], q[2])
          OBVIOUS
        <5> HIDE DEF Low, i, j
        <5>2. QED
          BY <4>1, <5>1
      <4>5. h[p] = IF old[i] = new[j] THEN Append(h[<<i - 1, j - 1>>], p)
                   ELSE IF Up(p) THEN h[<<i - 1, j>>] ELSE h[<<i, j - 1>>]
        BY <1>12, <3>0, <3>2
      <4> HIDE DEF i, j
      <4>6. CASE old[i] = new[j]
        <5>1. Chain(Append(h[<<i - 1, j - 1>>], <<i, j>>), old, new, i, j)
          BY <4>2, <4>4, <4>6, ChainGrows
        <5>2. QED
          BY <4>2, <4>5, <4>6, <5>1 DEF i, j
      <4>7. CASE old[i] # new[j] /\ Up(p)
        <5>1. Chain(h[<<i - 1, j>>], old, new, i, j)
          BY <4>2, <4>3, <4>4, ChainWidens
        <5>2. QED
          BY <4>5, <4>7, <5>1 DEF i, j
      <4>8. CASE old[i] # new[j] /\ ~Up(p)
        <5>1. Chain(h[<<i, j - 1>>], old, new, i, j)
          BY <4>2, <4>3, <4>4, ChainWidens
        <5>2. QED
          BY <4>5, <4>8, <5>1 DEF i, j
      <4>9. QED
        BY <4>6, <4>7, <4>8
    <3>3. QED
      BY <3>1, <3>2
  <2> HIDE DEF Low
  <2>3. QED
    BY <2>1, <2>2
<1>16. Q = Nat
  <2>1. Q \in SUBSET Nat
    OBVIOUS
  <2> HIDE DEF Q
  <2>2. QED
    BY <1>14, <1>15, <2>1, Induction
<1>17. Chain(h[<<n, m>>], old, new, n, m)
  <2>1. n + m \in Q
    <3> HIDE DEF Q
    <3>1. QED
      BY <1>2, <1>16
  <2>0. <<n, m>> \in Low(n + m)
    BY <1>2
  <2> HIDE DEF Low
  <2>2. \A p \in Low(n + m) : Chain(h[p], old, new, p[1], p[2])
    BY <2>1
  <2>3. QED
    BY <2>0, <2>2
<1>18. QED
  BY <1>1, <1>17 DEF n, m

-----------------------------------------------------------------------------
(* The changes. *)

\* A change takes the old lines from oldStart to oldEnd, and gives new ones.
Changes == [oldStart : Nat, oldEnd : Nat, newStart : Nat, newEnd : Nat]

\* Where the first k changes end.
OldEnd(s, k) == IF k = 0 THEN 0 ELSE s[k].oldEnd
NewEnd(s, k) == IF k = 0 THEN 0 ELSE s[k].newEnd

\* Changes that make the first y new lines of the first x old ones: between them the lines
\* are the same.
Script(s, old, new, x, y) ==
    /\ s \in Seq(Changes)
    /\ \A k \in 1 .. Len(s) :
          /\ Level(old, new, OldEnd(s, k - 1), NewEnd(s, k - 1), s[k].oldStart, s[k].newStart)
          /\ s[k].oldStart <= s[k].oldEnd /\ s[k].oldEnd <= x
          /\ s[k].newStart <= s[k].newEnd /\ s[k].newEnd <= y
    /\ \A j, k \in 1 .. Len(s) : j < k => s[j].oldEnd <= s[k].oldStart
    /\ Level(old, new, OldEnd(s, Len(s)), NewEnd(s, Len(s)), x, y)

\* No changes make nothing of nothing.
LEMMA ScriptStarts ==
  ASSUME NEW A, NEW old \in Seq(A), NEW new \in Seq(A)
  PROVE  Script(<<>>, old, new, 0, 0)
<1>1. Len(old) \in Nat /\ Len(new) \in Nat
  BY LenProperties
<1>2. Level(old, new, 0, 0, 0, 0)
  BY <1>1 DEF Level
<1>3. <<>> \in Seq(Changes) /\ Len(<<>>) = 0
  BY EmptySeq
<1>4. OldEnd(<<>>, Len(<<>>)) = 0 /\ NewEnd(<<>>, Len(<<>>)) = 0
  BY <1>3 DEF OldEnd, NewEnd
<1>5. QED
  BY <1>2, <1>3, <1>4 DEF Script

\* A match behind the changes, with nothing before it.
LEMMA ScriptMatches ==
  ASSUME NEW A, NEW old \in Seq(A), NEW new \in Seq(A), NEW s, NEW x, NEW y,
         Script(s, old, new, x, y), x < Len(old), y < Len(new), old[x + 1] = new[y + 1]
  PROVE  Script(s, old, new, x + 1, y + 1)
<1> DEFINE p == OldEnd(s, Len(s))
           q == NewEnd(s, Len(s))
<1>1. Len(old) \in Nat /\ Len(new) \in Nat
  BY LenProperties
<1>2. Level(old, new, p, q, x, y)
  BY DEF Script
<1> HIDE DEF p, q
<1>3. x \in Nat /\ y \in Nat /\ Level(old, new, p, q, x + 1, y + 1)
  <2>1. /\ p \in 0 .. Len(old) /\ x \in 0 .. Len(old) /\ q \in 0 .. Len(new) /\ y \in 0 .. Len(new)
        /\ p <= x /\ x - p = y - q /\ \A i \in p + 1 .. x : old[i] = new[i + (q - p)]
    BY <1>2 DEF Level
  <2>2. x + 1 \in 0 .. Len(old) /\ y + 1 \in 0 .. Len(new) /\ p <= x + 1 /\ x + 1 - p = y + 1 - q
        /\ x \in Nat /\ y \in Nat
    BY <1>1, <2>1
  <2>3. ASSUME NEW i \in p + 1 .. x + 1 PROVE old[i] = new[i + (q - p)]
    <3>1. CASE i = x + 1
      <4>1. i + (q - p) = y + 1
        BY <1>1, <2>1, <3>1
      <4>2. QED
        BY <3>1, <4>1
    <3>2. CASE i # x + 1
      <4>1. i \in p + 1 .. x
        BY <1>1, <2>1, <3>2
      <4>2. QED
        BY <2>1, <4>1
    <3>3. QED
      BY <3>1, <3>2
  <2>4. QED
    BY <2>1, <2>2, <2>3 DEF Level
<1>4. ASSUME NEW k \in 1 .. Len(s)
      PROVE  /\ Level(old, new, OldEnd(s, k - 1), NewEnd(s, k - 1), s[k].oldStart, s[k].newStart)
             /\ s[k].oldStart <= s[k].oldEnd /\ s[k].oldEnd <= x + 1
             /\ s[k].newStart <= s[k].newEnd /\ s[k].newEnd <= y + 1
  <2>1. /\ Level(old, new, OldEnd(s, k - 1), NewEnd(s, k - 1), s[k].oldStart, s[k].newStart)
        /\ s[k].oldStart <= s[k].oldEnd /\ s[k].oldEnd <= x
        /\ s[k].newStart <= s[k].newEnd /\ s[k].newEnd <= y
    BY DEF Script
  <2>2. s[k] \in Changes
    BY ElementOfSeq DEF Script
  <2>3. s[k].oldEnd \in Nat /\ s[k].newEnd \in Nat
    BY <2>2 DEF Changes
  <2>4. QED
    BY <1>3, <2>1, <2>3
<1>5. s \in Seq(Changes) /\ \A j, k \in 1 .. Len(s) : j < k => s[j].oldEnd <= s[k].oldStart
  BY DEF Script
<1>6. QED
  BY <1>3, <1>4, <1>5 DEF Script, p, q

\* A match behind the changes, with one more change before it.
LEMMA ScriptGrows ==
  ASSUME NEW A, NEW old \in Seq(A), NEW new \in Seq(A), NEW s, NEW x, NEW y,
         Script(s, old, new, x, y), NEW u \in x .. Len(old), NEW v \in y .. Len(new),
         NEW c, c = [oldStart |-> x, oldEnd |-> u, newStart |-> y, newEnd |-> v]
  PROVE  Script(Append(s, c), old, new, u, v)
<1> DEFINE t == Append(s, c)
           N == Len(s)
<1>1. Len(old) \in Nat /\ Len(new) \in Nat
  BY LenProperties
<1>2. /\ s \in Seq(Changes) /\ Level(old, new, OldEnd(s, N), NewEnd(s, N), x, y)
      /\ \A j, k \in 1 .. N : j < k => s[j].oldEnd <= s[k].oldStart
      /\ \A k \in 1 .. N :
          /\ Level(old, new, OldEnd(s, k - 1), NewEnd(s, k - 1), s[k].oldStart, s[k].newStart)
          /\ s[k].oldStart <= s[k].oldEnd /\ s[k].oldEnd <= x
          /\ s[k].newStart <= s[k].newEnd /\ s[k].newEnd <= y
  BY DEF Script
<1>3. x \in 0 .. Len(old) /\ y \in 0 .. Len(new)
  BY <1>2 DEF Level
<1>4. x \in Nat /\ y \in Nat /\ u \in Nat /\ v \in Nat /\ x <= u /\ y <= v
      /\ u \in 0 .. Len(old) /\ v \in 0 .. Len(new)
  BY <1>1, <1>3
<1>5. c \in Changes /\ c.oldStart = x /\ c.oldEnd = u /\ c.newStart = y /\ c.newEnd = v
  BY <1>4 DEF Changes
<1>6. /\ t \in Seq(Changes) /\ Len(t) = N + 1 /\ t[N + 1] = c
      /\ \A k \in 1 .. N : t[k] = s[k]
  BY <1>2, <1>5, AppendProperties
<1>7. N \in Nat
  BY <1>2, LenProperties
<1> HIDE DEF t, N
<1>8. \A k \in 0 .. N : OldEnd(t, k) = OldEnd(s, k) /\ NewEnd(t, k) = NewEnd(s, k)
  BY <1>6, <1>7 DEF OldEnd, NewEnd
<1>9. OldEnd(t, N + 1) = u /\ NewEnd(t, N + 1) = v
  BY <1>5, <1>6, <1>7 DEF OldEnd, NewEnd
<1>10. \A k \in 1 .. N : /\ s[k].oldEnd \in Nat /\ s[k].newEnd \in Nat
                         /\ s[k].oldEnd <= x /\ s[k].newEnd <= y
  <2>1. ASSUME NEW k \in 1 .. N PROVE s[k] \in Changes
    BY <1>2, ElementOfSeq DEF N
  <2>2. QED
    BY <1>2, <2>1 DEF Changes
<1>11. ASSUME NEW k \in 1 .. N + 1
       PROVE  /\ Level(old, new, OldEnd(t, k - 1), NewEnd(t, k - 1), t[k].oldStart, t[k].newStart)
              /\ t[k].oldStart <= t[k].oldEnd /\ t[k].oldEnd <= u
              /\ t[k].newStart <= t[k].newEnd /\ t[k].newEnd <= v
  <2>1. k - 1 \in 0 .. N /\ OldEnd(t, k - 1) = OldEnd(s, k - 1) /\ NewEnd(t, k - 1) = NewEnd(s, k - 1)
    BY <1>7, <1>8
  <2>2. CASE k = N + 1
    <3>1. k - 1 = N /\ t[k] = c
      BY <1>6, <1>7, <2>2
    <3>2. Level(old, new, OldEnd(t, k - 1), NewEnd(t, k - 1), x, y)
      BY <1>2, <2>1, <3>1
    <3>3. QED
      BY <1>4, <1>5, <3>1, <3>2
  <2>3. CASE k # N + 1
    <3>1. k \in 1 .. N /\ t[k] = s[k]
      BY <1>6, <1>7, <2>3
    <3>2. Level(old, new, OldEnd(t, k - 1), NewEnd(t, k - 1), t[k].oldStart, t[k].newStart)
      BY <1>2, <2>1, <3>1
    <3>3. t[k].oldEnd <= u /\ t[k].newEnd <= v
      BY <1>4, <1>10, <3>1
    <3>4. QED
      BY <1>2, <3>1, <3>2, <3>3
  <2>4. QED
    BY <2>2, <2>3
<1>12. ASSUME NEW j \in 1 .. N + 1, NEW k \in 1 .. N + 1, j < k PROVE t[j].oldEnd <= t[k].oldStart
  <2>1. j \in 1 .. N /\ t[j] = s[j]
    BY <1>6, <1>7, <1>12
  <2>2. CASE k = N + 1
    BY <1>5, <1>6, <1>10, <2>1, <2>2
  <2>3. CASE k # N + 1
    <3>1. k \in 1 .. N /\ t[k] = s[k]
      BY <1>6, <1>7, <2>3
    <3>2. QED
      BY <1>2, <1>12, <2>1, <3>1
  <2>4. QED
    BY <2>2, <2>3
<1>13. Level(old, new, OldEnd(t, N + 1), NewEnd(t, N + 1), u, v)
  BY <1>1, <1>4, <1>9 DEF Level
<1>14. QED
  BY <1>6, <1>11, <1>12, <1>13 DEF Script, t

\* Whatever the matches are, what is between them are the changes.
LEMMA ChangesAreScript ==
  ASSUME NEW A, NEW old \in Seq(A), NEW new \in Seq(A)
  PROVE  Script(FindChanges(old, new), old, new, Len(old), Len(new))
<1> DEFINE n == Len(old)
           m == Len(new)
           lcs == ComputeLCS(old, new)
           ends == Append(lcs, <<n + 1, m + 1>>)
           M == Len(ends)
           Before(k) == IF k = 1 THEN <<0, 0>> ELSE ends[k - 1]
           Gap(k) == [oldStart |-> Before(k)[1], oldEnd |-> ends[k][1] - 1,
                      newStart |-> Before(k)[2], newEnd |-> ends[k][2] - 1]
           Step(k, s) == IF Gap(k).oldStart < Gap(k).oldEnd \/ Gap(k).newStart < Gap(k).newEnd
                           THEN Append(s, Gap(k)) ELSE s
           h == CHOOSE f : f = [k \in 0 .. M |-> IF k = 0 THEN <<>> ELSE Step(k, f[k - 1])]
           X(k) == IF k = 0 THEN 0 ELSE IF k = M THEN n ELSE ends[k][1]
           Y(k) == IF k = 0 THEN 0 ELSE IF k = M THEN m ELSE ends[k][2]
           D == [k \in 0 .. M |-> {s \in Seq(Changes) : Script(s, old, new, X(k), Y(k))}]
           F == [k \in 1 .. M |-> [s \in Seq(Changes) |-> Step(k, s)]]
<1>1. FindChanges(old, new) = h[M]
  BY DEF FindChanges, Gaps
<1>2. n \in Nat /\ m \in Nat
  BY LenProperties
<1>3. Chain(lcs, old, new, n, m)
  BY LCSIsChain
<1> HIDE DEF lcs, n, m
<1>4. /\ lcs \in Seq((1 .. n) \X (1 .. m)) /\ Len(lcs) \in Nat
      /\ \A k \in 1 .. Len(lcs) : lcs[k] \in (1 .. n) \X (1 .. m) /\ old[lcs[k][1]] = new[lcs[k][2]]
      /\ \A k \in 1 .. Len(lcs) - 1 : lcs[k][1] < lcs[k + 1][1] /\ lcs[k][2] < lcs[k + 1][2]
  <2>1. lcs \in Seq((1 .. n) \X (1 .. m))
    BY <1>3 DEF Chain
  <2>2. QED
    BY <1>3, <2>1, LenProperties, ElementOfSeq DEF Chain
<1>5. /\ M = Len(lcs) + 1 /\ ends[M] = <<n + 1, m + 1>>
      /\ \A k \in 1 .. Len(lcs) : ends[k] = lcs[k]
  <2> DEFINE Z == (1 .. n + 1) \X (1 .. m + 1)
             last == <<n + 1, m + 1>>
  <2>1. lcs \in Seq(Z)
    <3>1. (1 .. n) \X (1 .. m) \subseteq Z
      <4>1. 1 .. n \subseteq 1 .. n + 1 /\ 1 .. m \subseteq 1 .. m + 1
        BY <1>2
      <4>2. QED
        BY <4>1
    <3>2. QED
      BY <1>4, <3>1, SeqMonotonic
  <2>2. last \in Z
    BY <1>2
  <2> HIDE DEF Z, last
  <2>3. /\ Len(Append(lcs, last)) = Len(lcs) + 1 /\ Append(lcs, last)[Len(lcs) + 1] = last
        /\ \A k \in 1 .. Len(lcs) : Append(lcs, last)[k] = lcs[k]
    BY <2>1, <2>2, AppendProperties
  <2>4. QED
    BY <2>3 DEF last
<1>6. M \in Nat /\ M # 0
  BY <1>4, <1>5
<1> HIDE DEF ends, M
\* Positions.
<1>7. ASSUME NEW k \in 1 .. M
      PROVE  /\ Before(k)[1] = X(k - 1) /\ Before(k)[2] = Y(k - 1)
             /\ X(k - 1) \in 0 .. n /\ Y(k - 1) \in 0 .. m
             /\ ends[k][1] - 1 \in X(k - 1) .. n /\ ends[k][2] - 1 \in Y(k - 1) .. m
             /\ ends[k][1] \in Nat /\ ends[k][2] \in Nat
  <2>1. /\ k # M => k \in 1 .. Len(lcs) /\ ends[k] = lcs[k]
        /\ k # 1 => /\ k - 1 \in 1 .. Len(lcs) /\ ends[k - 1] = lcs[k - 1] /\ k - 1 # M /\ k - 1 # 0
    BY <1>4, <1>5, <1>6, SMTT(30)
  <2>2. ends[k] = <<ends[k][1], ends[k][2]>> /\ ends[k][1] \in 1 .. n + 1 /\ ends[k][2] \in 1 .. m + 1
    <3>1. CASE k = M
      BY <1>2, <1>5, <3>1
    <3>2. CASE k # M
      <4>1. lcs[k] \in (1 .. n) \X (1 .. m)
        BY <1>4, <2>1, <3>2
      <4>2. QED
        BY <1>2, <2>1, <3>2, <4>1
    <3>3. QED
      BY <3>1, <3>2
  <2>3. CASE k = 1
    <3>1. X(k - 1) = 0 /\ Y(k - 1) = 0 /\ Before(k) = <<0, 0>>
      BY <2>3
    <3>2. QED
      BY <1>2, <2>2, <3>1
  <2>4. CASE k # 1
    <3>1. lcs[k - 1] \in (1 .. n) \X (1 .. m) /\ ends[k - 1] = lcs[k - 1]
      BY <1>4, <2>1, <2>4
    <3>2. X(k - 1) = lcs[k - 1][1] /\ Y(k - 1) = lcs[k - 1][2] /\ Before(k) = lcs[k - 1]
      BY <2>1, <2>4
    <3>3. lcs[k - 1][1] < ends[k][1] /\ lcs[k - 1][2] < ends[k][2]
      <4>1. CASE k = M
        BY <1>2, <1>5, <3>1, <4>1
      <4>2. CASE k # M
        <5>1. k - 1 \in 1 .. Len(lcs) - 1 /\ k - 1 + 1 = k
          <6>1. Len(lcs) \in Nat /\ k \in 1 .. Len(lcs)
            BY <1>4, <2>1, <4>2
          <6>2. QED
            BY <2>4, <6>1
        <5>2. QED
          BY <1>4, <2>1, <4>2, <5>1
      <4>3. QED
        BY <4>1, <4>2
    <3>4. /\ lcs[k - 1][1] \in 1 .. n /\ lcs[k - 1][2] \in 1 .. m
      BY <3>1
    <3> DEFINE a == lcs[k - 1][1]
               b == lcs[k - 1][2]
               c == ends[k][1]
               d == ends[k][2]
    <3>5. /\ a \in 1 .. n /\ b \in 1 .. m /\ c \in 1 .. n + 1 /\ d \in 1 .. m + 1 /\ a < c /\ b < d
      BY <2>2, <3>3, <3>4
    <3> HIDE DEF a, b, c, d
    <3>6. a \in 0 .. n /\ b \in 0 .. m /\ c - 1 \in a .. n /\ d - 1 \in b .. m /\ c \in Nat /\ d \in Nat
      BY <1>2, <3>5
    <3>7. QED
      BY <3>2, <3>6 DEF a, b, c, d
  <2>5. QED
    BY <2>3, <2>4
<1>8. ASSUME NEW k \in 1 .. M
      PROVE  \/ k = M /\ X(k) = n /\ Y(k) = m /\ ends[k][1] - 1 = n /\ ends[k][2] - 1 = m
             \/ /\ k # M /\ X(k) = ends[k][1] /\ Y(k) = ends[k][2]
                /\ ends[k][1] <= n /\ ends[k][2] <= m /\ old[ends[k][1]] = new[ends[k][2]]
  <2>0. k # 0
    OBVIOUS
  <2>1. CASE k = M
    <3>1. X(k) = n /\ Y(k) = m
      BY <2>0, <2>1
    <3>2. ends[k][1] = n + 1 /\ ends[k][2] = m + 1
      BY <1>5, <2>1
    <3>3. QED
      BY <1>2, <2>1, <3>1, <3>2
  <2>2. CASE k # M
    <3>1. k \in 1 .. Len(lcs) /\ ends[k] = lcs[k] /\ X(k) = ends[k][1] /\ Y(k) = ends[k][2]
      BY <1>4, <1>5, <1>6, <2>0, <2>2
    <3>2. lcs[k] \in (1 .. n) \X (1 .. m) /\ old[lcs[k][1]] = new[lcs[k][2]]
      BY <1>4, <3>1
    <3>3. QED
      BY <2>2, <3>1, <3>2
  <2>3. QED
    BY <2>1, <2>2
<1>9. ASSUME NEW k \in 1 .. M, NEW s, Script(s, old, new, X(k - 1), Y(k - 1))
      PROVE  Script(Step(k, s), old, new, X(k), Y(k))
  <2> DEFINE x == X(k - 1)
             y == Y(k - 1)
             u == ends[k][1] - 1
             v == ends[k][2] - 1
             t == Step(k, s)
  <2>1. /\ x \in 0 .. n /\ y \in 0 .. m /\ u \in x .. n /\ v \in y .. m
        /\ Gap(k) = [oldStart |-> x, oldEnd |-> u, newStart |-> y, newEnd |-> v]
    BY <1>7
  <2>2. t = IF x < u \/ y < v THEN Append(s, Gap(k)) ELSE s
    BY <2>1
  <2>3. Script(s, old, new, x, y)
    BY <1>9
  <2>4. /\ u + 1 = ends[k][1] /\ v + 1 = ends[k][2]
    BY <1>7
  <2>5. /\ k = M => X(k) = n /\ Y(k) = m /\ u = n /\ v = m
        /\ k # M => /\ X(k) = u + 1 /\ Y(k) = v + 1 /\ u + 1 <= n /\ v + 1 <= m
                    /\ old[u + 1] = new[v + 1]
    BY <1>8, <2>4
  <2> HIDE DEF x, y, u, v, t, Gap, Step, X, Y
  <2>6. Script(t, old, new, u, v)
    <3>1. CASE x < u \/ y < v
      <4>1. Script(Append(s, Gap(k)), old, new, u, v)
        BY <2>1, <2>3, ScriptGrows DEF n, m
      <4>2. QED
        BY <2>2, <3>1, <4>1
    <3>2. CASE ~(x < u \/ y < v)
      <4>1. x = u /\ y = v
        BY <1>2, <2>1, <3>2
      <4>2. QED
        BY <2>2, <2>3, <3>2, <4>1
    <3>3. QED
      BY <3>1, <3>2
  <2>7. CASE k = M
    BY <2>5, <2>6, <2>7 DEF t
  <2>8. CASE k # M
    <3>1. u < n /\ v < m
      BY <1>2, <2>1, <2>5, <2>8
    <3>2. Script(t, old, new, u + 1, v + 1)
      BY <2>5, <2>6, <2>8, <3>1, ScriptMatches DEF n, m
    <3>3. QED
      BY <2>5, <2>8, <3>2 DEF t
  <2>9. QED
    BY <2>7, <2>8
<1>10. Script(<<>>, old, new, X(0), Y(0))
  BY ScriptStarts
<1>11. \A s, x, y : Script(s, old, new, x, y) => s \in Seq(Changes)
  BY DEF Script
<1> HIDE DEF X, Y, Step, Gap, Before
<1>12. PICK g : Course(g, M, D, <<>>, F)
  <2>1. <<>> \in D[0]
    BY <1>6, <1>10, <1>11
  <2>2. ASSUME NEW k \in 1 .. M, NEW s \in D[k - 1] PROVE F[k][s] \in D[k]
    <3>1. k - 1 \in 0 .. M /\ k \in 0 .. M
      BY <1>6
    <3>2. s \in Seq(Changes) /\ Script(s, old, new, X(k - 1), Y(k - 1))
      BY <3>1
    <3>3. F[k][s] = Step(k, s)
      BY <3>2
    <3>4. Script(Step(k, s), old, new, X(k), Y(k)) /\ Step(k, s) \in Seq(Changes)
      BY <1>9, <1>11, <3>2
    <3>5. QED
      BY <3>1, <3>3, <3>4
  <2> HIDE DEF D, F
  <2>3. QED
    BY <1>6, <2>1, <2>2, Loop
<1>13. /\ g = [k \in 0 .. M |-> g[k]] /\ g[0] = <<>>
       /\ \A k \in 0 .. M : g[k] \in D[k]
       /\ \A k \in 1 .. M : g[k] = F[k][g[k - 1]]
  <2> HIDE DEF D, F
  <2>1. QED
    BY <1>12 DEF Course
<1>14. ASSUME NEW k \in 1 .. M PROVE g[k] = Step(k, g[k - 1])
  <2>1. k - 1 \in 0 .. M /\ g[k - 1] \in Seq(Changes)
    BY <1>6, <1>13
  <2>2. QED
    BY <1>13, <2>1
<1>15. g = [k \in 0 .. M |-> IF k = 0 THEN <<>> ELSE Step(k, g[k - 1])]
  <2>1. \A k \in 0 .. M : k = 0 \/ k \in 1 .. M
    BY <1>6
  <2>2. \A k \in 0 .. M : g[k] = IF k = 0 THEN <<>> ELSE Step(k, g[k - 1])
    BY <1>13, <1>14, <2>1
  <2>3. QED
    BY <1>13, <2>2
<1>16. h = [k \in 0 .. M |-> IF k = 0 THEN <<>> ELSE Step(k, h[k - 1])]
  BY <1>15
<1> HIDE DEF h, D, F
<1> DEFINE T == {k \in 0 .. M : Script(h[k], old, new, X(k), Y(k))}
<1>17. 0 \in T
  BY <1>6, <1>10, <1>16
<1>18. ASSUME NEW k \in 1 .. M, k - 1 \in T PROVE k \in T
  <2>1. k \in 0 .. M /\ k # 0 /\ Script(h[k - 1], old, new, X(k - 1), Y(k - 1))
    BY <1>6, <1>18
  <2>2. h[k] = Step(k, h[k - 1])
    BY <1>16, <2>1
  <2>3. QED
    BY <1>9, <2>1, <2>2
<1>19. T \in SUBSET (0 .. M)
  OBVIOUS
<1> HIDE DEF T
<1>20. \A k \in 0 .. M : k \in T
  BY <1>6, <1>17, <1>18, <1>19, LoopKeeps
<1>21. Script(h[M], old, new, X(M), Y(M))
  BY <1>6, <1>20 DEF T
<1>22. X(M) = n /\ Y(M) = m
  BY <1>6 DEF X, Y
<1>23. QED
  BY <1>1, <1>21, <1>22 DEF n, m

-----------------------------------------------------------------------------
(* The hunks. *)

\* A hunk covers the old lines after start up to end.
HunkSet == [start : Int, end : Int]

\* The hunks are runs of the first k changes: those after place r[b - 1] up to r[b] are in
\* hunk b, and their contexts do not reach the next one.
Runs(hs, r, old, ch, k) ==
    /\ r \in [0 .. Len(hs) -> 0 .. k] /\ r[0] = 0 /\ r[Len(hs)] = k
    /\ \A b \in 1 .. Len(hs) :
          /\ r[b - 1] < r[b]
          /\ hs[b] = [start |-> Around(old, ch[r[b - 1] + 1]).start,
                      end   |-> Around(old, ch[r[b]]).end]
    /\ \A b \in 1 .. Len(hs) - 1 : hs[b].end < ch[r[b] + 1].oldStart - ContextLines

\* A change with its context is a hunk.
LEMMA AroundType ==
  ASSUME NEW A, NEW old \in Seq(A), NEW c \in Changes
  PROVE  /\ Around(old, c) \in HunkSet
         /\ Around(old, c) = [start |-> Around(old, c).start, end |-> Around(old, c).end]
<1>1. c.oldStart \in Nat /\ c.oldEnd \in Nat
  BY DEF Changes
<1>2. Len(old) \in Nat /\ ContextLines \in Nat
  BY LenProperties, ContextAssumption
<1>3. QED
  BY <1>1, <1>2 DEF Around, HunkSet, Larger, Smaller

\* A change whose context meets the last hunk joins its run.
LEMMA RunExtends ==
  ASSUME NEW A, NEW old \in Seq(A), NEW ch \in Seq(Changes), NEW k \in 1 .. Len(ch),
         NEW hs \in Seq(HunkSet), hs # <<>>, NEW r, Runs(hs, r, old, ch, k - 1),
         NEW new, new = Append(Front(hs), [Last(hs) EXCEPT !.end = Around(old, ch[k]).end])
  PROVE  new \in Seq(HunkSet) /\ \E q : Runs(new, q, old, ch, k)
<1> DEFINE L == Len(hs)
           e == Around(old, ch[k]).end
           last == [hs[L] EXCEPT !.end = e]
<1>1. L \in Nat \ {0} /\ L \in 1 .. L /\ k \in Nat \ {0}
  BY EmptySeq, LenProperties
<1>2. hs[L] \in HunkSet /\ e \in Int
  <2>1. ch[k] \in Changes
    BY ElementOfSeq
  <2>2. Around(old, ch[k]) \in HunkSet
    BY <2>1, AroundType
  <2>3. hs[L] \in HunkSet
    BY <1>1, ElementOfSeq
  <2>4. QED
    BY <2>2, <2>3 DEF HunkSet
<1> HIDE DEF e
<1>3. last \in HunkSet /\ last = [start |-> hs[L].start, end |-> e]
  <2>1. ASSUME NEW x \in HunkSet
        PROVE  /\ [x EXCEPT !.end = e] = [start |-> x.start, end |-> e]
               /\ [start |-> x.start, end |-> e] \in HunkSet
    BY <1>2 DEF HunkSet
  <2>2. QED
    BY <1>2, <2>1
<1>4. /\ Front(hs) \in Seq(HunkSet) /\ Len(Front(hs)) = L - 1
      /\ \A b \in 1 .. L - 1 : Front(hs)[b] = hs[b]
  <2>1. \A b \in 1 .. L - 1 : hs[b] \in HunkSet
    BY ElementOfSeq
  <2>2. /\ SubSeq(hs, 1, L - 1) \in Seq(HunkSet)
        /\ Len(SubSeq(hs, 1, L - 1)) = IF 1 <= L - 1 THEN L - 1 - 1 + 1 ELSE 0
        /\ \A b \in 1 .. L - 1 - 1 + 1 : SubSeq(hs, 1, L - 1)[b] = hs[1 + b - 1]
    BY <1>1, <2>1, SubSeqProperties
  <2>3. L - 1 - 1 + 1 = L - 1 /\ (~(1 <= L - 1) => L - 1 = 0) /\ \A b \in 1 .. L - 1 : 1 + b - 1 = b
    <3> HIDE DEF L
    <3>1. QED
      BY <1>1
  <2>4. QED
    BY <2>2, <2>3 DEF Front
<1>5. new = Append(Front(hs), last)
  BY DEF Last, e
<1> HIDE DEF last
<1>6. /\ new \in Seq(HunkSet) /\ Len(new) = L /\ new[L] = last
      /\ \A b \in 1 .. L - 1 : new[b] = hs[b]
  <2>1. /\ Append(Front(hs), last) \in Seq(HunkSet)
        /\ Len(Append(Front(hs), last)) = L - 1 + 1
        /\ \A b \in 1 .. L - 1 : Append(Front(hs), last)[b] = Front(hs)[b]
        /\ Append(Front(hs), last)[L - 1 + 1] = last
    BY <1>3, <1>4, AppendProperties
  <2>2. L - 1 + 1 = L
    BY <1>1
  <2>3. QED
    BY <1>4, <1>5, <2>1, <2>2
<1>7. /\ r \in [0 .. L -> 0 .. k - 1] /\ r[0] = 0 /\ r[L] = k - 1
      /\ \A b \in 1 .. L : /\ r[b - 1] < r[b]
                           /\ hs[b] = [start |-> Around(old, ch[r[b - 1] + 1]).start,
                                       end   |-> Around(old, ch[r[b]]).end]
      /\ \A b \in 1 .. L - 1 : hs[b].end < ch[r[b] + 1].oldStart - ContextLines
  BY DEF Runs
<1> HIDE DEF L
<1> DEFINE q == [b \in 0 .. L |-> IF b = L THEN k ELSE r[b]]
<1>8. q \in [0 .. L -> 0 .. k] /\ q[L] = k /\ \A b \in 0 .. L - 1 : q[b] = r[b]
  BY <1>1, <1>7
<1> HIDE DEF q
<1>9. q[0] = 0
  BY <1>1, <1>7, <1>8
<1>10. ASSUME NEW b \in 1 .. L
       PROVE  /\ q[b - 1] < q[b]
              /\ new[b] = [start |-> Around(old, ch[q[b - 1] + 1]).start,
                           end   |-> Around(old, ch[q[b]]).end]
  <2>1. b - 1 \in 0 .. L - 1 /\ q[b - 1] = r[b - 1]
    BY <1>1, <1>8
  <2>2. r[b - 1] < r[b] /\ r[b - 1] \in Nat /\ r[b] \in Nat
        /\ hs[b] = [start |-> Around(old, ch[r[b - 1] + 1]).start,
                    end   |-> Around(old, ch[r[b]]).end]
    BY <1>1, <1>7, <2>1, SMTT(30)
  <2>3. CASE b = L
    <3>1. q[b] = k /\ new[b] = last /\ r[b] = k - 1
      BY <1>6, <1>7, <1>8, <2>3
    <3>2. last = [start |-> Around(old, ch[q[b - 1] + 1]).start, end |-> Around(old, ch[q[b]]).end]
      BY <1>3, <2>1, <2>2, <2>3, <3>1 DEF e
    <3>3. r[b - 1] < k
      BY <1>1, <2>2, <3>1
    <3>4. QED
      BY <2>1, <3>1, <3>2, <3>3
  <2>4. CASE b # L
    <3>1. b \in 1 .. L - 1 /\ b \in 0 .. L - 1 /\ q[b] = r[b] /\ new[b] = hs[b]
      BY <1>1, <1>6, <1>8, <2>4
    <3>2. QED
      BY <2>1, <2>2, <3>1
  <2>5. QED
    BY <2>3, <2>4
<1>11. ASSUME NEW b \in 1 .. L - 1 PROVE new[b].end < ch[q[b] + 1].oldStart - ContextLines
  <2>1. b \in 0 .. L - 1 /\ q[b] = r[b] /\ new[b] = hs[b]
    BY <1>1, <1>6, <1>8
  <2>2. QED
    BY <1>7, <2>1
<1>12. Runs(new, q, old, ch, k)
  BY <1>6, <1>8, <1>9, <1>10, <1>11 DEF Runs
<1>13. QED
  BY <1>6, <1>12

\* Another one begins a run.
LEMMA RunOpens ==
  ASSUME NEW A, NEW old \in Seq(A), NEW ch \in Seq(Changes), NEW k \in 1 .. Len(ch),
         NEW hs \in Seq(HunkSet), NEW r, Runs(hs, r, old, ch, k - 1),
         hs = <<>> \/ ~(ch[k].oldStart - ContextLines <= Last(hs).end),
         NEW new, new = Append(hs, Around(old, ch[k]))
  PROVE  new \in Seq(HunkSet) /\ \E q : Runs(new, q, old, ch, k)
<1> DEFINE L == Len(hs)
           last == Around(old, ch[k])
<1>1. L \in Nat /\ k \in Nat \ {0}
  BY LenProperties
<1>2. ch[k] \in Changes
  BY ElementOfSeq
<1>3. last \in HunkSet /\ last = [start |-> last.start, end |-> last.end]
  BY <1>2, AroundType
<1>4. /\ new \in Seq(HunkSet) /\ Len(new) = L + 1 /\ new[L + 1] = last
      /\ \A b \in 1 .. L : new[b] = hs[b]
  <2> HIDE DEF last
  <2>1. /\ Append(hs, last) \in Seq(HunkSet) /\ Len(Append(hs, last)) = L + 1
        /\ Append(hs, last)[L + 1] = last /\ \A b \in 1 .. L : Append(hs, last)[b] = hs[b]
    BY <1>3, AppendProperties
  <2>2. QED
    BY <2>1 DEF last
<1>5. /\ r \in [0 .. L -> 0 .. k - 1] /\ r[0] = 0 /\ r[L] = k - 1
      /\ \A b \in 1 .. L : /\ r[b - 1] < r[b]
                           /\ hs[b] = [start |-> Around(old, ch[r[b - 1] + 1]).start,
                                       end   |-> Around(old, ch[r[b]]).end]
      /\ \A b \in 1 .. L - 1 : hs[b].end < ch[r[b] + 1].oldStart - ContextLines
  BY DEF Runs
<1>6. L # 0 => hs[L].end < ch[k].oldStart - ContextLines
  <2> SUFFICES ASSUME L # 0 PROVE hs[L].end < ch[k].oldStart - ContextLines
    OBVIOUS
  <2>1. hs # <<>> /\ L \in 1 .. L
    BY <1>1, EmptySeq
  <2>2. ~(ch[k].oldStart - ContextLines <= hs[L].end)
    BY <2>1 DEF Last
  <2>3. hs[L] \in HunkSet
    BY <2>1, ElementOfSeq
  <2>4. hs[L].end \in Int /\ ch[k].oldStart \in Nat /\ ContextLines \in Nat
    BY <1>2, <2>3, ContextAssumption DEF HunkSet, Changes
  <2>5. QED
    BY <2>2, <2>4
<1> HIDE DEF L
<1> DEFINE q == [b \in 0 .. L + 1 |-> IF b = L + 1 THEN k ELSE r[b]]
<1>7. q \in [0 .. L + 1 -> 0 .. k] /\ q[L + 1] = k /\ \A b \in 0 .. L : q[b] = r[b]
  <2>1. \A b \in 0 .. L + 1 : b # L + 1 => b \in 0 .. L /\ r[b] \in 0 .. k
    BY <1>1, <1>5
  <2>2. \A b \in 0 .. L : b # L + 1 /\ b \in 0 .. L + 1
    BY <1>1
  <2>3. QED
    BY <1>1, <2>1, <2>2
<1> HIDE DEF q
<1>8. q[0] = 0
  BY <1>1, <1>5, <1>7
<1>9. ASSUME NEW b \in 1 .. L + 1
      PROVE  /\ q[b - 1] < q[b]
             /\ new[b] = [start |-> Around(old, ch[q[b - 1] + 1]).start,
                          end   |-> Around(old, ch[q[b]]).end]
  <2>1. b - 1 \in 0 .. L /\ q[b - 1] = r[b - 1]
    BY <1>1, <1>7
  <2>2. CASE b = L + 1
    <3>1. b - 1 = L /\ q[b] = k /\ q[b - 1] = k - 1 /\ new[b] = last
      BY <1>1, <1>4, <1>5, <1>7, <2>1, <2>2
    <3>2. k - 1 < k /\ k - 1 + 1 = k
      BY <1>1
    <3>3. QED
      BY <1>3, <3>1, <3>2
  <2>3. CASE b # L + 1
    <3>1. b \in 1 .. L /\ b \in 0 .. L /\ q[b] = r[b] /\ new[b] = hs[b]
      BY <1>1, <1>4, <1>7, <2>3
    <3>2. QED
      BY <1>5, <2>1, <3>1
  <2>4. QED
    BY <2>2, <2>3
<1>10. ASSUME NEW b \in 1 .. Len(new) - 1 PROVE new[b].end < ch[q[b] + 1].oldStart - ContextLines
  <2>0. b \in 1 .. L /\ b \in 0 .. L
    BY <1>1, <1>4
  <2>1. b \in 1 .. L /\ b \in 0 .. L /\ q[b] = r[b] /\ new[b] = hs[b]
    BY <1>4, <1>7, <2>0
  <2>2. CASE b = L
    <3>1. q[b] + 1 = k
      BY <1>1, <1>5, <2>1, <2>2
    <3>2. hs[L].end < ch[k].oldStart - ContextLines
      BY <1>6, <2>1, <2>2
    <3>3. QED
      BY <2>1, <2>2, <3>1, <3>2
  <2>3. CASE b # L
    <3>1. b \in 1 .. L - 1
      BY <1>1, <2>1, <2>3
    <3>2. QED
      BY <1>5, <2>1, <3>1
  <2>4. QED
    BY <2>2, <2>3
<1>11. Runs(new, q, old, ch, k)
  <2>1. Len(new) = L + 1
    BY <1>4
  <2>3. q \in [0 .. Len(new) -> 0 .. k] /\ q[0] = 0 /\ q[Len(new)] = k
    BY <1>7, <1>8, <2>1
  <2>4. \A b \in 1 .. Len(new) :
          /\ q[b - 1] < q[b]
          /\ new[b] = [start |-> Around(old, ch[q[b - 1] + 1]).start,
                       end   |-> Around(old, ch[q[b]]).end]
    BY <1>9, <2>1
  <2>5. QED
    BY <1>10, <2>3, <2>4 DEF Runs
<1>12. QED
  BY <1>4, <1>11

\* The hunks of all changes.
LEMMA HunksAreRuns ==
  ASSUME NEW A, NEW old \in Seq(A), NEW ch \in Seq(Changes)
  PROVE  /\ Hunks(old, ch) \in Seq(HunkSet)
         /\ \E r : Runs(Hunks(old, ch), r, old, ch, Len(ch))
<1> DEFINE N == Len(ch)
           Step(k, hs) ==
              IF hs # <<>> /\ ch[k].oldStart - ContextLines <= Last(hs).end
                THEN Append(Front(hs), [Last(hs) EXCEPT !.end = Around(old, ch[k]).end])
                ELSE Append(hs, Around(old, ch[k]))
           h == CHOOSE f : f = [k \in 0 .. N |-> IF k = 0 THEN <<>> ELSE Step(k, f[k - 1])]
           Fine(k, hs) == hs \in Seq(HunkSet) /\ \E r : Runs(hs, r, old, ch, k)
           D == [k \in 0 .. N |-> {hs \in Seq(HunkSet) : Fine(k, hs)}]
           F == [k \in 1 .. N |-> [hs \in Seq(HunkSet) |-> Step(k, hs)]]
<1>1. Hunks(old, ch) = h[N]
  BY DEF Hunks
<1>2. N \in Nat
  BY LenProperties
<1>3. Fine(0, <<>>)
  <2> DEFINE r == [b \in 0 .. 0 |-> 0]
  <2>1. <<>> \in Seq(HunkSet) /\ Len(<<>>) = 0
    BY EmptySeq
  <2>2. r \in [0 .. 0 -> 0 .. 0] /\ r[0] = 0
    OBVIOUS
  <2> HIDE DEF r
  <2>3. Runs(<<>>, r, old, ch, 0)
    BY <2>1, <2>2 DEF Runs
  <2>4. QED
    BY <2>1, <2>3
<1>4. ASSUME NEW k \in 1 .. N, NEW hs, Fine(k - 1, hs) PROVE Fine(k, Step(k, hs))
  <2>1. PICK r : Runs(hs, r, old, ch, k - 1)
    BY <1>4
  <2>2. CASE hs # <<>> /\ ch[k].oldStart - ContextLines <= Last(hs).end
    BY <1>4, <2>1, <2>2, RunExtends
  <2>3. CASE ~(hs # <<>> /\ ch[k].oldStart - ContextLines <= Last(hs).end)
    BY <1>4, <2>1, <2>3, RunOpens
  <2>4. QED
    BY <2>2, <2>3
<1>5. \A k, hs : Fine(k, hs) => hs \in Seq(HunkSet)
  OBVIOUS
<1> HIDE DEF N, Step, Fine
<1>6. PICK g : Course(g, N, D, <<>>, F)
  <2>1. <<>> \in D[0]
    BY <1>2, <1>3, <1>5
  <2>2. ASSUME NEW k \in 1 .. N, NEW hs \in D[k - 1] PROVE F[k][hs] \in D[k]
    <3>1. k - 1 \in 0 .. N /\ k \in 0 .. N
      BY <1>2
    <3>2. hs \in Seq(HunkSet) /\ Fine(k - 1, hs)
      BY <3>1
    <3>3. F[k][hs] = Step(k, hs)
      BY <3>2
    <3>4. Fine(k, Step(k, hs)) /\ Step(k, hs) \in Seq(HunkSet)
      BY <1>4, <1>5, <3>2
    <3>5. QED
      BY <3>1, <3>3, <3>4
  <2> HIDE DEF D, F
  <2>3. QED
    BY <1>2, <2>1, <2>2, Loop
<1>7. /\ g = [k \in 0 .. N |-> g[k]] /\ g[0] = <<>>
      /\ \A k \in 0 .. N : g[k] \in D[k]
      /\ \A k \in 1 .. N : g[k] = F[k][g[k - 1]]
  <2> HIDE DEF D, F
  <2>1. QED
    BY <1>6 DEF Course
<1>8. ASSUME NEW k \in 1 .. N PROVE g[k] = Step(k, g[k - 1])
  <2>1. k - 1 \in 0 .. N /\ g[k - 1] \in Seq(HunkSet)
    BY <1>2, <1>7
  <2>2. QED
    BY <1>7, <2>1
<1>9. g = [k \in 0 .. N |-> IF k = 0 THEN <<>> ELSE Step(k, g[k - 1])]
  <2>1. \A k \in 0 .. N : k = 0 \/ k \in 1 .. N
    BY <1>2
  <2>2. \A k \in 0 .. N : g[k] = IF k = 0 THEN <<>> ELSE Step(k, g[k - 1])
    BY <1>7, <1>8, <2>1
  <2>3. QED
    BY <1>7, <2>2
<1>10. h = [k \in 0 .. N |-> IF k = 0 THEN <<>> ELSE Step(k, h[k - 1])]
  BY <1>9
<1> HIDE DEF h, D, F
<1> DEFINE T == {k \in 0 .. N : Fine(k, h[k])}
<1>11. 0 \in T
  BY <1>2, <1>3, <1>10
<1>12. ASSUME NEW k \in 1 .. N, k - 1 \in T PROVE k \in T
  <2>1. k \in 0 .. N /\ k # 0 /\ Fine(k - 1, h[k - 1])
    BY <1>2, <1>12
  <2>2. h[k] = Step(k, h[k - 1])
    BY <1>10, <2>1
  <2>3. QED
    BY <1>4, <2>1, <2>2
<1>13. T \in SUBSET (0 .. N)
  OBVIOUS
<1> HIDE DEF T
<1>14. \A k \in 0 .. N : k \in T
  BY <1>2, <1>11, <1>12, <1>13, LoopKeeps
<1>15. Fine(N, h[N])
  BY <1>2, <1>14 DEF T
<1>16. QED
  BY <1>1, <1>15 DEF Fine, N

-----------------------------------------------------------------------------
(* The lines of a hunk. *)

\* The types of the lines that are in the old text, and in the new one.
OldTypes == {"context", "delete"}
NewTypes == {"context", "insert"}

\* Lines with their true numbers, those of the new text short by d, and hashes.
Labeled(old, new, oh, nh, d) ==
    {Entry("context", old[p[1]], p[1], p[2] - d, HashAt(oh, p[1])) :
        p \in {q \in (1 .. Len(old)) \X (1 .. Len(new)) : old[q[1]] = new[q[2]]}}
    \cup {Entry("delete", old[i], i, 0, HashAt(oh, i)) : i \in 1 .. Len(old)}
    \cup {Entry("insert", new[j], 0, j - d, HashAt(nh, j)) : j \in 1 .. Len(new)}

\* They are lines of the texts.
LEMMA LabeledContent ==
  ASSUME NEW A, NEW old \in Seq(A), NEW new \in Seq(A), NEW oh, NEW nh, NEW d
  PROVE  \A e \in Labeled(old, new, oh, nh, d) : e.content \in A
<1> SUFFICES ASSUME NEW e \in Labeled(old, new, oh, nh, d) PROVE e.content \in A
  OBVIOUS
<1>1. /\ \A i \in 1 .. Len(old) : old[i] \in A
      /\ \A j \in 1 .. Len(new) : new[j] \in A
  BY ElementOfSeq
<1>2. ASSUME NEW p \in {q \in (1 .. Len(old)) \X (1 .. Len(new)) : old[q[1]] = new[q[2]]},
             e = Entry("context", old[p[1]], p[1], p[2] - d, HashAt(oh, p[1]))
      PROVE  e.content \in A
  BY <1>1, <1>2 DEF Entry
<1>3. ASSUME NEW i \in 1 .. Len(old), e = Entry("delete", old[i], i, 0, HashAt(oh, i))
      PROVE  e.content \in A
  BY <1>1, <1>3 DEF Entry
<1>4. ASSUME NEW j \in 1 .. Len(new), e = Entry("insert", new[j], 0, j - d, HashAt(nh, j))
      PROVE  e.content \in A
  BY <1>1, <1>4 DEF Entry
<1>5. QED
  BY <1>2, <1>3, <1>4, Zenon DEF Labeled

\* A walk that began after old line s shows the old and the new lines up to x and y.
Walked(w, E, old, new, d, s, x, y) ==
    /\ w = [oldPos |-> x, newPos |-> y - d, lines |-> w.lines]
    /\ w.lines \in Seq(E)
    /\ Said(w.lines, OldTypes) = Seg(old, s, x)
    /\ Said(w.lines, NewTypes) = Seg(new, s + d, y)

\* A walk sees its two positions and its lines, and no more.
LEMMA WalkSet ==
  ASSUME NEW w, NEW a, NEW b, NEW ls, w = [oldPos |-> a, newPos |-> b, lines |-> ls],
         NEW a2, NEW b2, NEW ls2
  PROVE  [w EXCEPT !.oldPos = a2, !.newPos = b2, !.lines = ls2]
            = [oldPos |-> a2, newPos |-> b2, lines |-> ls2]
<1> DEFINE F == {"oldPos", "newPos", "lines"}
           x == [w EXCEPT !.oldPos = a2, !.newPos = b2, !.lines = ls2]
           y == [oldPos |-> a2, newPos |-> b2, lines |-> ls2]
<1>1. DOMAIN w = F
  OBVIOUS
<1>2. x = [f \in F |-> IF f = "oldPos" THEN a2 ELSE IF f = "newPos" THEN b2
                       ELSE IF f = "lines" THEN ls2 ELSE w[f]]
  BY <1>1
<1>3. QED
  BY <1>2

\* Context takes a walk further along a level stretch.
LEMMA ContextWalked ==
  ASSUME NEW A, NEW old \in Seq(A), NEW new \in Seq(A), NEW oh, NEW nh, NEW d \in Int,
         NEW x, NEW y, NEW u, NEW v, Level(old, new, x, y, u, v),
         NEW s \in 0 .. x, s + d \in 0 .. y,
         NEW w, Walked(w, Labeled(old, new, oh, nh, d), old, new, d, s, x, y)
  PROVE  Walked(WithContext(w, old, u, oh), Labeled(old, new, oh, nh, d), old, new, d, s, u, v)
<1> DEFINE E == Labeled(old, new, oh, nh, d)
           more == [i \in 1 .. u - x |->
                      Entry("context", old[x + i], x + i, y - d + i, HashAt(oh, x + i))]
           c == Seg(old, x, u)
           w2 == WithContext(w, old, u, oh)
<1>1. Len(old) \in Nat /\ Len(new) \in Nat
  BY LenProperties
<1>2. /\ x \in 0 .. Len(old) /\ u \in 0 .. Len(old) /\ y \in 0 .. Len(new) /\ v \in 0 .. Len(new)
      /\ x <= u /\ u - x = v - y
      /\ \A i \in x + 1 .. u : old[i] = new[i + (y - x)]
  BY DEF Level
<1>3. /\ w = [oldPos |-> x, newPos |-> y - d, lines |-> w.lines] /\ w.lines \in Seq(E)
      /\ Said(w.lines, OldTypes) = Seg(old, s, x) /\ Said(w.lines, NewTypes) = Seg(new, s + d, y)
  BY DEF Walked
<1>4. ASSUME NEW i \in 1 .. u - x
      PROVE  /\ Entry("context", old[x + i], x + i, y - d + i, HashAt(oh, x + i)) \in E
             /\ Entry("context", old[x + i], x + i, y - d + i, HashAt(oh, x + i)).type = "context"
             /\ Entry("context", old[x + i], x + i, y - d + i, HashAt(oh, x + i)).content = old[x + i]
  <2>1. x + i \in 1 .. Len(old) /\ y + i \in 1 .. Len(new) /\ y + i - d = y - d + i
        /\ x + i \in x + 1 .. u /\ x + i + (y - x) = y + i
    BY <1>1, <1>2, SMTT(30)
  <2>2. old[x + i] = new[y + i]
    BY <1>2, <2>1
  <2>3. PICK p \in (1 .. Len(old)) \X (1 .. Len(new)) : p[1] = x + i /\ p[2] = y + i
    <3>1. <<x + i, y + i>> \in (1 .. Len(old)) \X (1 .. Len(new))
      BY <2>1
    <3>2. <<x + i, y + i>>[1] = x + i /\ <<x + i, y + i>>[2] = y + i
      OBVIOUS
    <3>3. QED
      BY <3>1, <3>2, Zenon
  <2>b. p \in {q \in (1 .. Len(old)) \X (1 .. Len(new)) : old[q[1]] = new[q[2]]}
    BY <2>2, <2>3
  <2>c. p[2] - d = y - d + i
    <3>1. PICK q \in 1 .. Len(new) : q = p[2]
      OBVIOUS
    <3>2. q = y + i
      BY <2>3, <3>1
    <3>3. q - d = y - d + i
      BY <1>1, <1>2, <3>2
    <3>4. QED
      BY <3>1, <3>3
  <2>4. Entry("context", old[p[1]], p[1], p[2] - d, HashAt(oh, p[1])) \in E
    BY <2>b DEF Labeled
  <2>5. QED
    BY <2>c, <2>3, <2>4 DEF Entry
<1> HIDE DEF E
<1>5. more \in [1 .. u - x -> E] /\ u - x \in Nat
  BY <1>1, <1>2, <1>4
<1>6. \A i \in 1 .. u - x : more[i].type = "context" /\ more[i].content = old[x + i]
  BY <1>4
<1>7. w2 = [oldPos |-> u, newPos |-> y - d + (u - x), lines |-> Cat(w.lines, more)]
  <2>1. w.oldPos = x /\ w.newPos = y - d
    BY <1>3
  <2>2. w2 = [w EXCEPT !.oldPos = u, !.newPos = w.newPos + (u - w.oldPos),
                       !.lines = Cat(w.lines, more)]
    BY <2>1 DEF WithContext, Cat
  <2> HIDE DEF more, w2
  <2>3. QED
    BY <1>3, <2>1, <2>2, WalkSet
<1> HIDE DEF more, w2
<1>8. more \in Seq(E) /\ Len(more) = u - x
  BY <1>5, SMTT(30)
<1>9. c \in Seq(A) /\ Len(c) = u - x /\ \A i \in 1 .. u - x : c[i] = old[x + i]
  BY <1>2, SegFacts
<1>10. c = Seg(new, y, v) /\ y <= v
  BY LevelSeg
<1> HIDE DEF c
<1>11. ReadIn(E, A)
  BY LabeledContent DEF E, ReadIn
<1>12. /\ Said(Cat(w.lines, more), OldTypes) = Cat(Said(w.lines, OldTypes), c)
       /\ Said(Cat(w.lines, more), NewTypes) = Cat(Said(w.lines, NewTypes), c)
  <2>1. "context" \in OldTypes /\ "context" \in NewTypes
    BY DEF OldTypes, NewTypes
  <2>2. ASSUME NEW types, "context" \in types
        PROVE  Said(Cat(w.lines, more), types) = Cat(Said(w.lines, types), c)
    <3>1. Reads(more, c) /\ AllOf(more, types)
      BY <1>6, <1>8, <1>9, <2>2 DEF Reads, AllOf
    <3>2. SaysAfter(w.lines, more, types, c)
      BY <1>3, <1>8, <1>9, <1>11, <3>1, SaidMore
    <3>3. QED
      BY <3>1, <3>2 DEF SaysAfter
  <2>3. QED
    BY <2>1, <2>2
<1>13. Cat(Seg(old, s, x), Seg(old, x, u)) = Seg(old, s, u)
  <2>1. s \in 0 .. Len(old) /\ s <= x
    BY <1>1, <1>2
  <2>2. QED
    BY <1>2, <2>1, SegFacts
<1>14. Cat(Seg(new, s + d, y), Seg(new, y, v)) = Seg(new, s + d, v)
  <2>1. s + d \in 0 .. Len(new) /\ s + d <= y
    BY <1>1, <1>2
  <2>2. QED
    <3> DEFINE t == s + d
    <3>1. t \in 0 .. Len(new) /\ t <= y /\ y \in 0 .. Len(new) /\ v \in 0 .. Len(new) /\ y <= v
      BY <1>2, <1>10, <2>1
    <3> HIDE DEF t
    <3>2. Cat(Seg(new, t, y), Seg(new, y, v)) = Seg(new, t, v)
      BY <3>1, SegFacts
    <3>3. QED
      BY <3>2 DEF t
<1>15. Cat(w.lines, more) \in Seq(E)
  BY <1>3, <1>8, CatFacts
<1>16. y - d + (u - x) = v - d
  BY <1>1, <1>2
<1>17. w2.lines = Cat(w.lines, more) /\ w2 = [oldPos |-> u, newPos |-> v - d, lines |-> w2.lines]
  BY <1>7, <1>16
<1>18. Said(w2.lines, OldTypes) = Seg(old, s, u) /\ Said(w2.lines, NewTypes) = Seg(new, s + d, v)
  BY <1>3, <1>10, <1>12, <1>13, <1>14, <1>17 DEF c
<1>19. QED
  BY <1>15, <1>17, <1>18 DEF Walked, w2, E

\* A change takes it further: the removed lines are old ones, the added new ones.
LEMMA ChangeWalked ==
  ASSUME NEW A, NEW old \in Seq(A), NEW new \in Seq(A), NEW oh, NEW nh, NEW d \in Int,
         NEW x \in 0 .. Len(old), NEW u \in x .. Len(old),
         NEW y \in 0 .. Len(new), NEW v \in y .. Len(new),
         NEW c, c.oldStart = x, c.oldEnd = u, c.newStart = y, c.newEnd = v,
         NEW s \in 0 .. x, s + d \in 0 .. y,
         NEW w, Walked(w, Labeled(old, new, oh, nh, d), old, new, d, s, x, y)
  PROVE  Walked(WithChange(w, old, new, c, oh, nh), Labeled(old, new, oh, nh, d), old, new, d, s, u, v)
<1> DEFINE E == Labeled(old, new, oh, nh, d)
           gone == [i \in 1 .. u - x |-> Entry("delete", old[x + i], x + i, 0, HashAt(oh, x + i))]
           come == [i \in 1 .. v - y |-> Entry("insert", new[y + i], 0, y - d + i, HashAt(nh, y + i))]
           a == Seg(old, x, u)
           b == Seg(new, y, v)
           w2 == WithChange(w, old, new, c, oh, nh)
<1>1. Len(old) \in Nat /\ Len(new) \in Nat
  BY LenProperties
<1>2. /\ u \in 0 .. Len(old) /\ v \in 0 .. Len(new) /\ x <= u /\ y <= v /\ u - x \in Nat /\ v - y \in Nat
  BY <1>1
<1>3. /\ w = [oldPos |-> x, newPos |-> y - d, lines |-> w.lines] /\ w.lines \in Seq(E)
      /\ Said(w.lines, OldTypes) = Seg(old, s, x) /\ Said(w.lines, NewTypes) = Seg(new, s + d, y)
  BY DEF Walked
<1>4. ASSUME NEW i \in 1 .. u - x
      PROVE  /\ Entry("delete", old[x + i], x + i, 0, HashAt(oh, x + i)) \in E
             /\ Entry("delete", old[x + i], x + i, 0, HashAt(oh, x + i)).type = "delete"
             /\ Entry("delete", old[x + i], x + i, 0, HashAt(oh, x + i)).content = old[x + i]
  <2>1. PICK k \in 1 .. Len(old) : k = x + i
    BY <1>1
  <2>2. Entry("delete", old[k], k, 0, HashAt(oh, k)) \in E
    BY DEF Labeled
  <2>3. QED
    BY <2>1, <2>2 DEF Entry
<1>5. ASSUME NEW i \in 1 .. v - y
      PROVE  /\ Entry("insert", new[y + i], 0, y - d + i, HashAt(nh, y + i)) \in E
             /\ Entry("insert", new[y + i], 0, y - d + i, HashAt(nh, y + i)).type = "insert"
             /\ Entry("insert", new[y + i], 0, y - d + i, HashAt(nh, y + i)).content = new[y + i]
  <2>1. PICK k \in 1 .. Len(new) : k = y + i
    BY <1>1
  <2>2. Entry("insert", new[k], 0, k - d, HashAt(nh, k)) \in E
    BY DEF Labeled
  <2>3. k - d = y - d + i
    BY <1>1, <2>1
  <2>4. QED
    BY <2>1, <2>2, <2>3 DEF Entry
<1> HIDE DEF E
<1>6. gone \in [1 .. u - x -> E] /\ \A i \in 1 .. u - x : gone[i].type = "delete" /\ gone[i].content = old[x + i]
  BY <1>4
<1>7. come \in [1 .. v - y -> E] /\ \A i \in 1 .. v - y : come[i].type = "insert" /\ come[i].content = new[y + i]
  BY <1>5
<1>8. w2 = [oldPos |-> u, newPos |-> y - d + (v - y), lines |-> Cat(Cat(w.lines, gone), come)]
  <2>1. w.newPos = y - d
    BY <1>3
  <2>2. w2 = [w EXCEPT !.oldPos = u, !.newPos = w.newPos + (v - y),
                       !.lines = Cat(Cat(w.lines, gone), come)]
    BY <2>1 DEF WithChange, Cat
  <2> HIDE DEF gone, come, w2
  <2>3. QED
    BY <1>3, <2>1, <2>2, WalkSet
<1> HIDE DEF gone, come, w2
<1>9. gone \in Seq(E) /\ Len(gone) = u - x /\ come \in Seq(E) /\ Len(come) = v - y
  <2>1. gone \in Seq(E) /\ Len(gone) = u - x
    <3>1. PICK n \in Nat : n = u - x
      BY <1>2
    <3>2. gone \in [1 .. n -> E]
      BY <1>6, <3>1
    <3>3. gone \in Seq(E) /\ Len(gone) = n
      BY <3>2
    <3>4. QED
      BY <3>1, <3>3
  <2>2. come \in Seq(E) /\ Len(come) = v - y
    <3>1. PICK n \in Nat : n = v - y
      BY <1>2
    <3>2. come \in [1 .. n -> E]
      BY <1>7, <3>1
    <3>3. come \in Seq(E) /\ Len(come) = n
      BY <3>2
    <3>4. QED
      BY <3>1, <3>3
  <2>3. QED
    BY <2>1, <2>2
<1>10. /\ a \in Seq(A) /\ Len(a) = u - x /\ \A i \in 1 .. u - x : a[i] = old[x + i]
       /\ b \in Seq(A) /\ Len(b) = v - y /\ \A i \in 1 .. v - y : b[i] = new[y + i]
  <2>1. a \in Seq(A) /\ Len(a) = u - x /\ \A i \in 1 .. u - x : a[i] = old[x + i]
    BY <1>2, SegFacts
  <2>2. b \in Seq(A) /\ Len(b) = v - y /\ \A i \in 1 .. v - y : b[i] = new[y + i]
    BY <1>2, SegFacts
  <2>3. QED
    BY <2>1, <2>2
<1> HIDE DEF a, b
<1>11. ReadIn(E, A)
  BY LabeledContent DEF E, ReadIn
<1> DEFINE l1 == Cat(w.lines, gone)
           l2 == Cat(l1, come)
<1>12. l1 \in Seq(E) /\ l2 \in Seq(E)
  BY <1>3, <1>9, CatFacts
<1>13. /\ Said(l1, OldTypes) = Cat(Said(w.lines, OldTypes), a)
       /\ Said(l1, NewTypes) = Said(w.lines, NewTypes)
  <2>1. AllOf(gone, OldTypes) /\ NoneOf(gone, NewTypes)
    BY <1>6, <1>9 DEF OldTypes, NewTypes, AllOf, NoneOf
  <2>2. Reads(gone, a)
    BY <1>6, <1>9, <1>10 DEF Reads
  <2>3. \A types : SaysAfter(w.lines, gone, types, a)
    BY <1>3, <1>9, <1>10, <1>11, <2>2, SaidMore
  <2>4. QED
    BY <2>1, <2>3 DEF SaysAfter
<1> HIDE DEF l1
<1>14. /\ Said(l2, OldTypes) = Said(l1, OldTypes)
       /\ Said(l2, NewTypes) = Cat(Said(l1, NewTypes), b)
  <2>1. NoneOf(come, OldTypes) /\ AllOf(come, NewTypes)
    BY <1>7, <1>9 DEF OldTypes, NewTypes, AllOf, NoneOf
  <2>2. Reads(come, b)
    BY <1>7, <1>9, <1>10 DEF Reads
  <2>3. \A types : SaysAfter(l1, come, types, b)
    BY <1>12, <1>9, <1>10, <1>11, <2>2, SaidMore
  <2>4. QED
    BY <2>1, <2>3 DEF SaysAfter
<1>15. Cat(Seg(old, s, x), a) = Seg(old, s, u)
  <2>1. s \in 0 .. Len(old) /\ s <= x
    BY <1>1, <1>2
  <2>2. QED
    BY <1>2, <2>1, SegFacts DEF a
<1>16. Cat(Seg(new, s + d, y), b) = Seg(new, s + d, v)
  <2>1. s + d \in 0 .. Len(new) /\ s + d <= y
    BY <1>1, <1>2
  <2>2. QED
    <3> DEFINE t == s + d
    <3>1. t \in 0 .. Len(new) /\ t <= y /\ y \in 0 .. Len(new) /\ v \in 0 .. Len(new) /\ y <= v
      BY <1>2, <2>1
    <3> HIDE DEF t
    <3>2. Cat(Seg(new, t, y), Seg(new, y, v)) = Seg(new, t, v)
      BY <3>1, SegFacts
    <3>3. QED
      BY <3>2 DEF t, b
<1>17. y - d + (v - y) = v - d
  BY <1>1, <1>2
<1>18. w2.lines = l2 /\ w2 = [oldPos |-> u, newPos |-> v - d, lines |-> w2.lines]
  BY <1>8, <1>17 DEF l1
<1> HIDE DEF l2
<1>19. Said(w2.lines, OldTypes) = Seg(old, s, u) /\ Said(w2.lines, NewTypes) = Seg(new, s + d, v)
  BY <1>3, <1>13, <1>14, <1>15, <1>16, <1>18
<1>20. QED
  BY <1>12, <1>18, <1>19 DEF Walked, w2, E

-----------------------------------------------------------------------------
(* The changes of a hunk. *)

\* Hunk h has the changes from place p to place q, and reaches no other.
Framed(h, old, ch, p, q) ==
    /\ p \in 1 .. Len(ch) /\ q \in p .. Len(ch)
    /\ h.start \in 0 .. Len(old) /\ h.end \in h.start .. Len(old)
    /\ OldEnd(ch, p - 1) <= h.start /\ h.start <= ch[p].oldStart
    /\ ch[q].oldEnd <= h.end
    /\ \A k \in 1 .. p - 1 : ch[k].oldEnd < h.start
    /\ \A k \in q + 1 .. Len(ch) : h.end < ch[k].oldStart

\* A hunk has the changes of its run and no others.
LEMMA HunkFramed ==
  ASSUME NEW A, NEW old \in Seq(A), NEW new \in Seq(A), NEW ch,
         Script(ch, old, new, Len(old), Len(new)),
         NEW hs, NEW r, Runs(hs, r, old, ch, Len(ch)), Len(hs) \in Nat, NEW b \in 1 .. Len(hs)
  PROVE  /\ Framed(hs[b], old, ch, r[b - 1] + 1, r[b])
         /\ b \in 1 .. Len(hs) - 1 => hs[b].end < hs[b + 1].start
<1> DEFINE N == Len(ch)
           p == r[b - 1] + 1
           q == r[b]
           h == hs[b]
<1>1. /\ ch \in Seq(Changes) /\ N \in Nat /\ Len(old) \in Nat /\ ContextLines \in Nat
      /\ \A k \in 1 .. N : ch[k] \in Changes
  BY LenProperties, ContextAssumption, ElementOfSeq DEF Script
<1>2. \A k \in 1 .. N :
         /\ ch[k].oldStart \in Nat /\ ch[k].oldEnd \in Nat
         /\ ch[k].oldStart <= ch[k].oldEnd /\ ch[k].oldEnd <= Len(old)
  BY <1>1 DEF Script, Changes
<1>3. \A j, k \in 1 .. N : j < k => ch[j].oldEnd <= ch[k].oldStart
  BY DEF Script
<1>4. /\ r \in [0 .. Len(hs) -> 0 .. N] /\ r[0] = 0 /\ r[Len(hs)] = N
      /\ \A c \in 1 .. Len(hs) :
          /\ r[c - 1] < r[c]
          /\ hs[c] = [start |-> Around(old, ch[r[c - 1] + 1]).start,
                      end   |-> Around(old, ch[r[c]]).end]
      /\ \A c \in 1 .. Len(hs) - 1 : hs[c].end < ch[r[c] + 1].oldStart - ContextLines
  BY DEF Runs
<1> HIDE DEF N
<1>5. ASSUME NEW c \in 1 .. Len(hs)
      PROVE  /\ r[c - 1] \in 0 .. N /\ r[c] \in 0 .. N /\ r[c - 1] + 1 \in 1 .. N /\ r[c] \in r[c - 1] + 1 .. N
             /\ hs[c].start = Larger(0, ch[r[c - 1] + 1].oldStart - ContextLines)
             /\ hs[c].end = Smaller(Len(old), ch[r[c]].oldEnd + ContextLines)
  <2>1. c - 1 \in 0 .. Len(hs) /\ c \in 0 .. Len(hs)
    OBVIOUS
  <2>2. r[c - 1] \in 0 .. N /\ r[c] \in 0 .. N /\ r[c - 1] < r[c]
    BY <1>4, <2>1
  <2>3. r[c - 1] + 1 \in 1 .. N /\ r[c] \in r[c - 1] + 1 .. N
    BY <1>1, <2>2
  <2>4. /\ hs[c].start = Around(old, ch[r[c - 1] + 1]).start
        /\ hs[c].end = Around(old, ch[r[c]]).end
    <3>1. hs[c] = [start |-> Around(old, ch[r[c - 1] + 1]).start,
                   end   |-> Around(old, ch[r[c]]).end]
      BY <1>4
    <3>2. QED
      BY <3>1
  <2>5. QED
    BY <2>2, <2>3, <2>4 DEF Around
<1>6. /\ p \in 1 .. N /\ q \in p .. N /\ q \in 1 .. N
      /\ h.start = Larger(0, ch[p].oldStart - ContextLines)
      /\ h.end = Smaller(Len(old), ch[q].oldEnd + ContextLines)
  <2>1. p \in 1 .. N /\ q \in p .. N /\ r[b - 1] \in 0 .. N
    BY <1>5
  <2>2. q \in 1 .. N
    BY <1>1, <2>1
  <2>3. QED
    BY <1>5, <2>1, <2>2
<1> DEFINE S(k) == ch[k].oldStart
           T(k) == ch[k].oldEnd
<1>7. /\ \A k \in 1 .. N : S(k) \in Nat /\ T(k) \in Nat /\ S(k) <= T(k) /\ T(k) <= Len(old)
      /\ \A j, k \in 1 .. N : j < k => T(j) <= S(k)
  BY <1>2, <1>3 DEF N
<1>8. ASSUME NEW c \in 1 .. Len(hs) - 1
      PROVE  /\ r[c] \in 1 .. N /\ r[c] + 1 \in 1 .. N
             /\ T(r[c]) <= hs[c].end /\ hs[c].end < S(r[c] + 1) - ContextLines
             /\ hs[c].end < hs[c + 1].start /\ T(r[c]) < hs[c + 1].start
             /\ hs[c].end \in Int
  <2>1. c \in 1 .. Len(hs) /\ c + 1 \in 1 .. Len(hs) /\ c + 1 - 1 = c
    OBVIOUS
  <2>2. r[c] + 1 \in 1 .. N /\ hs[c + 1].start = Larger(0, S(r[c] + 1) - ContextLines)
    BY <1>5, <2>1
  <2>3. /\ r[c - 1] + 1 \in 1 .. N /\ r[c] \in r[c - 1] + 1 .. N
        /\ hs[c].end = Smaller(Len(old), T(r[c]) + ContextLines)
    BY <1>5, <2>1
  <2>4. r[c] \in 1 .. N
    BY <1>1, <2>3
  <2>5. hs[c].end < S(r[c] + 1) - ContextLines
    BY <1>4
  <2>6. PICK t \in Nat : t = T(r[c]) /\ t <= Len(old)
    BY <1>7, <2>4
  <2>7. PICK s \in Nat : s = S(r[c] + 1)
    BY <1>7, <2>2
  <2> HIDE DEF S, T
  <2>8. hs[c].end = Smaller(Len(old), t + ContextLines) /\ hs[c].end < s - ContextLines
        /\ hs[c + 1].start = Larger(0, s - ContextLines)
    BY <2>2, <2>3, <2>5, <2>6, <2>7
  <2>9. hs[c].end \in Int /\ t <= hs[c].end /\ hs[c].end < hs[c + 1].start /\ t < hs[c + 1].start
    BY <1>1, <2>6, <2>8 DEF Larger, Smaller
  <2>10. QED
    BY <2>2, <2>4, <2>5, <2>6, <2>9
<1>9. /\ h.start \in 0 .. Len(old) /\ h.end \in h.start .. Len(old)
      /\ h.start <= S(p) /\ T(q) <= h.end
  <2>1. PICK s \in Nat : s = S(p)
    BY <1>6, <1>7
  <2>2. PICK t \in Nat : t = T(q) /\ t <= Len(old)
    BY <1>6, <1>7
  <2>3. s <= t
    <3>1. S(p) <= T(p) /\ T(p) \in Nat /\ S(q) \in Nat /\ S(q) <= T(q)
      BY <1>6, <1>7
    <3>2. p = q \/ T(p) <= S(q)
      <4>1. p = q \/ p < q
        BY <1>1, <1>6
      <4>2. QED
        BY <1>6, <1>7, <4>1
    <3>3. QED
      BY <2>1, <2>2, <3>1, <3>2, SMTT(30)
  <2>4. h.start = Larger(0, s - ContextLines) /\ h.end = Smaller(Len(old), t + ContextLines)
    BY <1>6, <2>1, <2>2
  <2>5. /\ h.start \in 0 .. Len(old) /\ h.end \in h.start .. Len(old)
        /\ h.start <= s /\ t <= h.end
    BY <1>1, <2>2, <2>3, <2>4, SMTT(30) DEF Larger, Smaller
  <2>6. QED
    BY <2>1, <2>2, <2>5
<1> HIDE DEF S, T, p, q, h
<1>10. p - 1 \in Nat /\ q \in Nat
  BY <1>1, <1>6
<1>11. ASSUME NEW k \in 1 .. p - 1 PROVE T(k) < h.start
  <2>1. b # 1
    BY <1>4, <1>10 DEF p
  <2>2. b - 1 \in 1 .. Len(hs) - 1 /\ b - 1 + 1 = b
    BY <2>1
  <2>3. p - 1 = r[b - 1]
    <3>1. r[b - 1] \in 0 .. N
      BY <1>5
    <3>2. QED
      BY <3>1, <1>1 DEF p
  <2>4. p - 1 \in 1 .. N /\ T(p - 1) < h.start
    BY <1>8, <2>2, <2>3 DEF h
  <2>5. k \in 1 .. N /\ (k = p - 1 \/ k < p - 1)
    BY <1>1, <1>6, <1>10
  <2>6. CASE k = p - 1
    BY <2>4, <2>6
  <2>7. CASE k < p - 1
    <3>1. T(k) <= S(p - 1) /\ S(p - 1) <= T(p - 1) /\ T(k) \in Nat /\ S(p - 1) \in Nat /\ T(p - 1) \in Nat
      BY <1>7, <2>4, <2>5, <2>7
    <3>2. QED
      BY <1>9, <1>1, <2>4, <3>1
  <2>8. QED
    BY <2>5, <2>6, <2>7
<1>12. ASSUME NEW k \in q + 1 .. N PROVE h.end < S(k)
  <2>1. b # Len(hs)
    BY <1>1, <1>4, <1>10 DEF q
  <2>2. b \in 1 .. Len(hs) - 1
    BY <2>1
  <2>3. q + 1 \in 1 .. N /\ h.end < S(q + 1) - ContextLines
    BY <1>8, <2>2 DEF h, q
  <2>4. k \in 1 .. N /\ (k = q + 1 \/ q + 1 < k)
    BY <1>1, <1>10, <2>3
  <2>5. S(q + 1) \in Nat /\ T(q + 1) \in Nat /\ S(q + 1) <= T(q + 1) /\ S(k) \in Nat
    BY <1>7, <2>3, <2>4
  <2>6. S(q + 1) <= S(k)
    <3>1. CASE k = q + 1
      BY <2>5, <3>1
    <3>2. CASE q + 1 < k
      <4>1. T(q + 1) <= S(k)
        BY <1>7, <2>3, <2>4, <3>2
      <4>2. QED
        BY <2>5, <4>1
    <3>3. QED
      BY <2>4, <3>1, <3>2
  <2>7. QED
    BY <1>1, <1>9, <2>3, <2>5, <2>6
<1>13. OldEnd(ch, p - 1) <= h.start
  <2>1. CASE p - 1 = 0
    BY <1>1, <1>9, <2>1 DEF OldEnd
  <2>2. CASE p - 1 # 0
    <3>1. p - 1 \in 1 .. p - 1 /\ p - 1 \in 1 .. N
      BY <1>1, <1>6, <1>10, <2>2
    <3>2. T(p - 1) < h.start /\ T(p - 1) \in Nat
      BY <1>7, <1>11, <3>1
    <3>3. QED
      BY <1>1, <1>9, <2>2, <3>2 DEF OldEnd, T
  <2>3. QED
    BY <2>1, <2>2
<1>14. Framed(h, old, ch, p, q)
  BY <1>6, <1>9, <1>11, <1>12, <1>13 DEF Framed, S, T, N
<1>15. QED
  BY <1>8, <1>14 DEF h, p, q

\* How much longer the new text is than the old one after k changes.
Offset(ch, k) == NewEnd(ch, k) - OldEnd(ch, k)

\* The changes lie one behind the other in both texts.
LEMMA ScriptPlaces ==
  ASSUME NEW A, NEW old \in Seq(A), NEW new \in Seq(A), NEW ch,
         Script(ch, old, new, Len(old), Len(new))
  PROVE  /\ Len(ch) \in Nat /\ Len(old) \in Nat /\ Len(new) \in Nat
         /\ \A k \in 0 .. Len(ch) : OldEnd(ch, k) \in 0 .. Len(old) /\ NewEnd(ch, k) \in 0 .. Len(new)
                                    /\ Offset(ch, k) \in Int
         /\ \A k \in 1 .. Len(ch) :
               /\ ch[k].oldStart \in Nat /\ ch[k].oldEnd \in Nat
               /\ ch[k].newStart \in Nat /\ ch[k].newEnd \in Nat
               /\ OldEnd(ch, k) = ch[k].oldEnd /\ NewEnd(ch, k) = ch[k].newEnd
               /\ Offset(ch, k) = Offset(ch, k - 1) + ((ch[k].newEnd - ch[k].newStart)
                                                       - (ch[k].oldEnd - ch[k].oldStart))
<1>1. ch \in Seq(Changes) /\ Len(ch) \in Nat /\ Len(old) \in Nat /\ Len(new) \in Nat
  BY LenProperties DEF Script
<1>2. ASSUME NEW k \in 1 .. Len(ch)
      PROVE  /\ ch[k].oldStart \in Nat /\ ch[k].oldEnd \in Nat
             /\ ch[k].newStart \in Nat /\ ch[k].newEnd \in Nat
             /\ ch[k].oldEnd <= Len(old) /\ ch[k].newEnd <= Len(new)
             /\ OldEnd(ch, k) = ch[k].oldEnd /\ NewEnd(ch, k) = ch[k].newEnd
  <2>1. ch[k] \in Changes
    BY <1>1, ElementOfSeq
  <2>2. ch[k].oldEnd <= Len(old) /\ ch[k].newEnd <= Len(new)
    BY DEF Script
  <2>3. QED
    BY <2>1, <2>2 DEF Changes, OldEnd, NewEnd
<1>3. ASSUME NEW k \in 0 .. Len(ch)
      PROVE  OldEnd(ch, k) \in 0 .. Len(old) /\ NewEnd(ch, k) \in 0 .. Len(new)
             /\ Offset(ch, k) \in Int
  <2>1. OldEnd(ch, k) \in 0 .. Len(old) /\ NewEnd(ch, k) \in 0 .. Len(new)
    <3>1. CASE k = 0
      BY <1>1, <3>1 DEF OldEnd, NewEnd
    <3>2. CASE k # 0
      <4>1. k \in 1 .. Len(ch)
        BY <1>1, <3>2
      <4>2. QED
        BY <1>1, <1>2, <4>1
    <3>3. QED
      BY <3>1, <3>2
  <2>2. QED
    BY <1>1, <2>1 DEF Offset
<1>4. ASSUME NEW k \in 1 .. Len(ch)
      PROVE  Offset(ch, k) = Offset(ch, k - 1) + ((ch[k].newEnd - ch[k].newStart)
                                                  - (ch[k].oldEnd - ch[k].oldStart))
  <2>1. ch[k].oldStart - OldEnd(ch, k - 1) = ch[k].newStart - NewEnd(ch, k - 1)
    BY DEF Script, Level
  <2>2. k - 1 \in 0 .. Len(ch)
    BY <1>1
  <2> DEFINE a == OldEnd(ch, k - 1)
             b == NewEnd(ch, k - 1)
  <2>3. a \in Int /\ b \in Int
    BY <1>1, <1>3, <2>2
  <2>4. Offset(ch, k) = ch[k].newEnd - ch[k].oldEnd /\ Offset(ch, k - 1) = b - a
    BY <1>2 DEF Offset
  <2>5. ch[k].oldStart - a = ch[k].newStart - b
    BY <2>1
  <2> HIDE DEF a, b
  <2>6. PICK s \in Nat, t \in Nat, u \in Nat, v \in Nat :
           s = ch[k].oldStart /\ t = ch[k].oldEnd /\ u = ch[k].newStart /\ v = ch[k].newEnd
    BY <1>2
  <2>7. v - t = (b - a) + ((v - u) - (t - s))
    <3>1. s - a = u - b
      BY <2>5, <2>6
    <3>2. QED
      BY <2>3, <3>1
  <2>8. QED
    BY <2>4, <2>6, <2>7
<1>5. QED
  BY <1>1, <1>2, <1>3, <1>4

\* What the sum of Net is after k changes.
NetSums(f, ch, places) ==
    /\ f \in [0 .. Len(ch) -> Int] /\ Net(ch, places) = f[Len(ch)] /\ f[0] = 0
    /\ \A k \in 1 .. Len(ch) :
          f[k] = f[k - 1] + IF k \in places THEN Offset(ch, k) - Offset(ch, k - 1) ELSE 0

\* The sum of Net, change by change.
LEMMA NetLoop ==
  ASSUME NEW A, NEW old \in Seq(A), NEW new \in Seq(A), NEW ch,
         Script(ch, old, new, Len(old), Len(new)), NEW places
  PROVE  \E f : NetSums(f, ch, places)
<1> DEFINE N == Len(ch)
           W(k) == (ch[k].newEnd - ch[k].newStart) - (ch[k].oldEnd - ch[k].oldStart)
           h == CHOOSE f : f = [k \in 0 .. N |->
                    IF k = 0 THEN 0
                    ELSE LET c == ch[k]
                         IN f[k - 1] + IF k \in places
                                         THEN (c.newEnd - c.newStart) - (c.oldEnd - c.oldStart) ELSE 0]
           D == [k \in 0 .. N |-> Int]
           F == [k \in 1 .. N |-> [d \in Int |-> d + IF k \in places THEN W(k) ELSE 0]]
<1>1. Net(ch, places) = h[N]
  BY DEF Net
<1>2. /\ N \in Nat
      /\ \A k \in 0 .. N : Offset(ch, k) \in Int
      /\ \A k \in 1 .. N : W(k) \in Int /\ Offset(ch, k) = Offset(ch, k - 1) + W(k)
  <2>1. N \in Nat /\ \A k \in 0 .. N : Offset(ch, k) \in Int
    BY ScriptPlaces
  <2>2. ASSUME NEW k \in 1 .. N
        PROVE  W(k) \in Int /\ Offset(ch, k) = Offset(ch, k - 1) + W(k)
    <3>1. /\ ch[k].oldStart \in Nat /\ ch[k].oldEnd \in Nat
          /\ ch[k].newStart \in Nat /\ ch[k].newEnd \in Nat
      BY ScriptPlaces
    <3>2. Offset(ch, k) = Offset(ch, k - 1) + W(k)
      BY ScriptPlaces
    <3>3. QED
      BY <3>1, <3>2
  <2> HIDE DEF W
  <2>3. QED
    BY <2>1, <2>2
<1> HIDE DEF N, W
<1>3. PICK g : Course(g, N, D, 0, F)
  <2>1. 0 \in D[0]
    BY <1>2
  <2>2. ASSUME NEW k \in 1 .. N, NEW d \in D[k - 1] PROVE F[k][d] \in D[k]
    <3>1. k - 1 \in 0 .. N /\ k \in 0 .. N /\ d \in Int
      BY <1>2
    <3>2. F[k][d] = d + IF k \in places THEN W(k) ELSE 0
      BY <3>1
    <3>3. W(k) \in Int
      BY <1>2
    <3>4. F[k][d] \in Int
      BY <3>1, <3>2, <3>3
    <3>5. QED
      BY <3>1, <3>4
  <2> HIDE DEF D, F
  <2>3. QED
    BY <1>2, <2>1, <2>2, Loop
<1>4. /\ g = [k \in 0 .. N |-> g[k]] /\ g[0] = 0
      /\ \A k \in 0 .. N : g[k] \in D[k]
      /\ \A k \in 1 .. N : g[k] = F[k][g[k - 1]]
  <2> HIDE DEF D, F
  <2>1. QED
    BY <1>3 DEF Course
<1>5. ASSUME NEW k \in 1 .. N PROVE g[k] = g[k - 1] + IF k \in places THEN W(k) ELSE 0
  <2>1. k - 1 \in 0 .. N /\ g[k - 1] \in Int
    BY <1>2, <1>4
  <2>2. QED
    BY <1>4, <2>1
<1>6. g = [k \in 0 .. N |-> IF k = 0 THEN 0 ELSE g[k - 1] + IF k \in places THEN W(k) ELSE 0]
  <2>1. \A k \in 0 .. N : k = 0 \/ k \in 1 .. N
    BY <1>2
  <2>2. \A k \in 0 .. N : g[k] = IF k = 0 THEN 0 ELSE g[k - 1] + IF k \in places THEN W(k) ELSE 0
    BY <1>4, <1>5, <2>1
  <2>3. QED
    BY <1>4, <2>2
<1>7. h = [k \in 0 .. N |-> IF k = 0 THEN 0 ELSE h[k - 1] + IF k \in places THEN W(k) ELSE 0]
  BY <1>6 DEF W
<1> HIDE DEF h, D, F
<1>8. /\ h[0] = 0
      /\ \A k \in 1 .. N : h[k] = h[k - 1] + IF k \in places THEN W(k) ELSE 0
  <2>1. 0 \in 0 .. N /\ \A k \in 1 .. N : k \in 0 .. N /\ k # 0
    BY <1>2
  <2>2. \A k \in 0 .. N : h[k] = IF k = 0 THEN 0 ELSE h[k - 1] + IF k \in places THEN W(k) ELSE 0
    BY <1>7
  <2>3. QED
    BY <2>1, <2>2
<1> DEFINE T == {k \in 0 .. N : h[k] \in Int}
<1>9. \A k \in 0 .. N : k \in T
  <2>1. 0 \in T
    BY <1>2, <1>8
  <2>2. ASSUME NEW k \in 1 .. N, k - 1 \in T PROVE k \in T
    <3>1. k \in 0 .. N /\ h[k - 1] \in Int /\ W(k) \in Int
      BY <1>2, <2>2
    <3>2. h[k] \in Int
      BY <1>8, <3>1
    <3>3. QED
      BY <3>1, <3>2
  <2>3. T \in SUBSET (0 .. N)
    OBVIOUS
  <2> HIDE DEF T
  <2>4. QED
    BY <1>2, <2>1, <2>2, <2>3, LoopKeeps
<1>10. h \in [0 .. N -> Int]
  <2>1. \A k \in 0 .. N : h[k] \in Int
    BY <1>9
  <2>2. h = [k \in 0 .. N |-> h[k]]
    BY <1>7
  <2>3. QED
    BY <2>1, <2>2
<1>11. ASSUME NEW k \in 1 .. N
       PROVE  h[k] = h[k - 1] + IF k \in places THEN Offset(ch, k) - Offset(ch, k - 1) ELSE 0
  <2>1. k - 1 \in 0 .. N /\ k \in 0 .. N
    BY <1>2
  <2>2. Offset(ch, k) \in Int /\ Offset(ch, k - 1) \in Int /\ W(k) \in Int
        /\ Offset(ch, k) = Offset(ch, k - 1) + W(k)
    BY <1>2, <2>1
  <2>3. W(k) = Offset(ch, k) - Offset(ch, k - 1)
    BY <2>2
  <2>4. QED
    BY <1>8, <2>3
<1>12. QED
  BY <1>1, <1>8, <1>10, <1>11 DEF N, NetSums

\* Over the changes of a hunk, and over none.
LEMMA NetOfHunk ==
  ASSUME NEW A, NEW old \in Seq(A), NEW new \in Seq(A), NEW ch,
         Script(ch, old, new, Len(old), Len(new))
  PROVE  /\ Net(ch, {}) = 0
         /\ \A p \in 1 .. Len(ch) : \A q \in p .. Len(ch) :
               Net(ch, p .. q) = Offset(ch, q) - Offset(ch, p - 1)
<1>1. Len(ch) \in Nat /\ \A k \in 0 .. Len(ch) : Offset(ch, k) \in Int
  BY ScriptPlaces
<1> DEFINE N == Len(ch)
<1>2. Net(ch, {}) = 0
  <2>a. PICK f : NetSums(f, ch, {})
    BY NetLoop
  <2>1. /\ Net(ch, {}) = f[N] /\ f[0] = 0
        /\ \A k \in 1 .. N : f[k] = f[k - 1] + 0
    BY <2>a DEF NetSums
  <2> DEFINE T == {k \in 0 .. N : f[k] = 0}
  <2>2. 0 \in T
    BY <1>1, <2>1
  <2>3. ASSUME NEW k \in 1 .. N, k - 1 \in T PROVE k \in T
    BY <1>1, <2>1, <2>3
  <2>4. T \in SUBSET (0 .. N)
    OBVIOUS
  <2> HIDE DEF T
  <2>5. \A k \in 0 .. N : k \in T
    BY <1>1, <2>2, <2>3, <2>4, LoopKeeps
  <2>6. N \in 0 .. N
    BY <1>1
  <2>7. QED
    BY <2>1, <2>5, <2>6 DEF T
<1>3. ASSUME NEW p \in 1 .. N, NEW q \in p .. N
      PROVE  Net(ch, p .. q) = Offset(ch, q) - Offset(ch, p - 1)
  <2>a. PICK f : NetSums(f, ch, p .. q)
    BY NetLoop
  <2>1. /\ Net(ch, p .. q) = f[N] /\ f[0] = 0
        /\ \A k \in 1 .. N :
              f[k] = f[k - 1] + IF k \in p .. q THEN Offset(ch, k) - Offset(ch, k - 1) ELSE 0
    BY <2>a DEF NetSums
  <2> DEFINE R(k) == IF k < p THEN 0 ELSE IF k <= q THEN Offset(ch, k) - Offset(ch, p - 1)
                                                     ELSE Offset(ch, q) - Offset(ch, p - 1)
             T == {k \in 0 .. N : f[k] = R(k)}
  <2>2. 0 \in T
    BY <1>1, <2>1
  <2>3. ASSUME NEW k \in 1 .. N, k - 1 \in T PROVE k \in T
    <3>1. k \in 0 .. N /\ k - 1 \in 0 .. N /\ p - 1 \in 0 .. N /\ q \in 0 .. N /\ p \in Int /\ q \in Int
      BY <1>1
    <3>2. f[k - 1] = R(k - 1)
      BY <2>3
    <3>3. PICK u \in Int, v \in Int, w \in Int, z \in Int :
             u = Offset(ch, k) /\ v = Offset(ch, k - 1) /\ w = Offset(ch, p - 1) /\ z = Offset(ch, q)
      BY <1>1, <3>1
    <3>4. f[k] = f[k - 1] + IF k \in p .. q THEN u - v ELSE 0
      BY <2>1, <3>3
    <3>5. k = p => v = w
      BY <3>3
    <3>6. k - 1 = q => v = z
      BY <3>3
    <3>7. f[k - 1] = IF k - 1 < p THEN 0 ELSE IF k - 1 <= q THEN v - w ELSE z - w
      BY <3>2, <3>3
    <3>8. f[k] = IF k < p THEN 0 ELSE IF k <= q THEN u - w ELSE z - w
      BY <3>1, <3>4, <3>5, <3>6, <3>7
    <3>9. f[k] = R(k)
      BY <3>3, <3>8
    <3>10. QED
      BY <3>1, <3>9
  <2>4. T \in SUBSET (0 .. N)
    OBVIOUS
  <2> HIDE DEF T
  <2>5. \A k \in 0 .. N : k \in T
    BY <1>1, <2>2, <2>3, <2>4, LoopKeeps
  <2>6. N \in 0 .. N
    BY <1>1
  <2>7. f[N] = R(N)
    BY <2>5, <2>6 DEF T
  <2>8. R(N) = Offset(ch, q) - Offset(ch, p - 1)
    BY <1>1
  <2>9. QED
    BY <2>1, <2>7, <2>8
<1>4. QED
  BY <1>2, <1>3

\* FilterChangesInRange finds the changes from place p to place q.
LEMMA HunkChanges ==
  ASSUME NEW A, NEW old \in Seq(A), NEW new \in Seq(A), NEW ch,
         Script(ch, old, new, Len(old), Len(new)),
         NEW h, NEW p, NEW q, Framed(h, old, ch, p, q)
  PROVE  /\ FilterChangesInRange(ch, h) = p .. q
         /\ ComputeNewStart(ch, p .. q, h) = h.start
         /\ Net(ch, p .. q) = Offset(ch, q) - Offset(ch, p - 1)
<1> DEFINE N == Len(ch)
           S(k) == ch[k].oldStart
           T(k) == ch[k].oldEnd
           x == h.start
           z == h.end
<1>1. /\ ch \in Seq(Changes) /\ DOMAIN ch = 1 .. N
      /\ \A k \in 1 .. N : S(k) <= T(k)
      /\ \A j, k \in 1 .. N : j < k => T(j) <= S(k)
  BY LenProperties DEF Script
<1>2. N \in Nat /\ Len(old) \in Nat /\ \A k \in 1 .. N : S(k) \in Nat /\ T(k) \in Nat
  BY ScriptPlaces
<1>3. /\ p \in 1 .. N /\ q \in p .. N
      /\ x \in 0 .. Len(old) /\ z \in x .. Len(old)
      /\ x <= S(p) /\ T(q) <= z
      /\ \A k \in 1 .. p - 1 : T(k) < x
      /\ \A k \in q + 1 .. N : z < S(k)
  BY DEF Framed
<1>4. FilterChangesInRange(ch, h) = {k \in 1 .. N : T(k) >= x /\ S(k) <= z}
  BY <1>1 DEF FilterChangesInRange
<1> HIDE DEF N, S, T, x, z
<1>5. p \in Int /\ q \in Int /\ q \in 1 .. N /\ x \in Int /\ z \in Int
  BY <1>2, <1>3
<1>6. ASSUME NEW k \in 1 .. N PROVE (T(k) >= x /\ S(k) <= z) <=> k \in p .. q
  <2>1. S(k) \in Nat /\ T(k) \in Nat /\ S(k) <= T(k)
    BY <1>1, <1>2
  <2>2. CASE k < p
    <3>1. k \in 1 .. p - 1
      BY <1>5, <2>2
    <3>2. T(k) < x
      BY <1>3, <3>1
    <3>3. QED
      BY <1>5, <2>1, <2>2, <3>2
  <2>3. CASE k > q
    <3>1. k \in q + 1 .. N
      BY <1>2, <1>5, <2>3
    <3>2. z < S(k)
      BY <1>3, <3>1
    <3>3. QED
      BY <1>5, <2>1, <2>3, <3>2
  <2>4. CASE p <= k /\ k <= q
    <3>1. S(p) \in Nat /\ T(p) \in Nat /\ S(p) <= T(p) /\ S(q) \in Nat /\ T(q) \in Nat /\ S(q) <= T(q)
      BY <1>1, <1>2, <1>3, <1>5
    <3>2. k = p \/ T(p) <= S(k)
      <4>1. k = p \/ p < k
        BY <1>5, <2>4
      <4>2. QED
        BY <1>1, <1>3, <4>1
    <3>3. k = q \/ T(k) <= S(q)
      <4>1. k = q \/ k < q
        BY <1>5, <2>4
      <4>2. QED
        BY <1>1, <1>5, <4>1
    <3>4. S(p) <= T(k)
      BY <2>1, <3>1, <3>2
    <3>5. S(k) <= T(q)
      BY <2>1, <3>1, <3>3
    <3>6. T(k) >= x /\ S(k) <= z
      BY <1>3, <1>5, <2>1, <3>1, <3>4, <3>5
    <3>7. QED
      BY <1>5, <2>4, <3>6
  <2>5. QED
    BY <1>5, <2>2, <2>3, <2>4
<1>7. FilterChangesInRange(ch, h) = p .. q
  <2>1. \A k \in p .. q : k \in 1 .. N
    BY <1>2, <1>3, <1>5
  <2>2. QED
    BY <1>4, <1>6, <2>1
<1>8. ComputeNewStart(ch, p .. q, h) = x
  <2>1. ASSUME NEW k \in p .. q, S(k) < x PROVE FALSE
    <3>1. k \in 1 .. N /\ S(k) \in Nat /\ S(p) \in Nat /\ T(p) \in Nat /\ S(p) <= T(p) /\ x <= S(p)
      BY <1>1, <1>2, <1>3, <1>5
    <3>2. k = p \/ T(p) <= S(k)
      <4>1. k = p \/ p < k
        BY <1>5
      <4>2. QED
        BY <1>1, <1>3, <3>1, <4>1
    <3>3. QED
      BY <1>5, <2>1, <3>1, <3>2
  <2>2. {k \in p .. q : ch[k].oldStart < h.start} = {}
    BY <2>1 DEF S, x
  <2>3. Net(ch, {}) = 0
    BY NetOfHunk
  <2>4. ComputeNewStart(ch, p .. q, h) = x + 0
    BY <2>2, <2>3 DEF ComputeNewStart, x
  <2>5. QED
    BY <1>5, <2>4
<1>9. Net(ch, p .. q) = Offset(ch, q) - Offset(ch, p - 1)
  BY <1>3, NetOfHunk DEF N
<1>10. QED
  BY <1>7, <1>8, <1>9 DEF x

-----------------------------------------------------------------------------
(* The walk through a hunk. *)

\* After round k: nothing before place p, and nothing more after place q.
WalkOld(h, ch, p, q, k) == IF k < p THEN h.start ELSE OldEnd(ch, Smaller(k, q))
WalkNew(h, ch, p, q, k) ==
    IF k < p THEN h.start + Offset(ch, p - 1) ELSE NewEnd(ch, Smaller(k, q))

\* Where the hunk's changes lie.
LEMMA WalkPlaces ==
  ASSUME NEW A, NEW old \in Seq(A), NEW new \in Seq(A), NEW ch,
         Script(ch, old, new, Len(old), Len(new)),
         NEW h, NEW p, NEW q, Framed(h, old, ch, p, q)
  PROVE  /\ Offset(ch, p - 1) \in Int /\ h.start + Offset(ch, p - 1) \in 0 .. Len(new)
         /\ \A k \in p .. q :
               /\ Level(old, new, WalkOld(h, ch, p, q, k - 1), WalkNew(h, ch, p, q, k - 1),
                        ch[k].oldStart, ch[k].newStart)
               /\ h.start <= WalkOld(h, ch, p, q, k - 1)
               /\ h.start + Offset(ch, p - 1) <= WalkNew(h, ch, p, q, k - 1)
               /\ ch[k].oldStart \in 0 .. Len(old) /\ ch[k].oldEnd \in ch[k].oldStart .. Len(old)
               /\ ch[k].newStart \in 0 .. Len(new) /\ ch[k].newEnd \in ch[k].newStart .. Len(new)
               /\ WalkOld(h, ch, p, q, k) = ch[k].oldEnd /\ WalkNew(h, ch, p, q, k) = ch[k].newEnd
<1> DEFINE N == Len(ch)
           d == Offset(ch, p - 1)
           s == h.start
<1>1. /\ N \in Nat /\ Len(old) \in Nat /\ Len(new) \in Nat
      /\ \A k \in 0 .. N : OldEnd(ch, k) \in 0 .. Len(old) /\ NewEnd(ch, k) \in 0 .. Len(new)
                           /\ Offset(ch, k) \in Int
  BY ScriptPlaces
<1>2. /\ p \in 1 .. N /\ q \in p .. N /\ s \in 0 .. Len(old) /\ s <= ch[p].oldStart
      /\ OldEnd(ch, p - 1) <= s
  BY DEF Framed
<1> HIDE DEF N
<1>3. p - 1 \in 0 .. N /\ p \in Int /\ q \in Int /\ d \in Int /\ s \in Int
  <2>1. p - 1 \in 0 .. N /\ p \in Int /\ q \in Int /\ s \in Int
    BY <1>1, <1>2
  <2>2. QED
    BY <1>1, <2>1
<1>4. ASSUME NEW k \in 1 .. N
      PROVE  /\ Level(old, new, OldEnd(ch, k - 1), NewEnd(ch, k - 1), ch[k].oldStart, ch[k].newStart)
             /\ ch[k].oldStart \in 0 .. Len(old) /\ ch[k].oldEnd \in ch[k].oldStart .. Len(old)
             /\ ch[k].newStart \in 0 .. Len(new) /\ ch[k].newEnd \in ch[k].newStart .. Len(new)
             /\ OldEnd(ch, k) = ch[k].oldEnd /\ NewEnd(ch, k) = ch[k].newEnd
  <2>1. /\ Level(old, new, OldEnd(ch, k - 1), NewEnd(ch, k - 1), ch[k].oldStart, ch[k].newStart)
        /\ ch[k].oldStart <= ch[k].oldEnd /\ ch[k].oldEnd <= Len(old)
        /\ ch[k].newStart <= ch[k].newEnd /\ ch[k].newEnd <= Len(new)
    BY DEF Script, N
  <2>2. /\ ch[k].oldStart \in Nat /\ ch[k].oldEnd \in Nat
        /\ ch[k].newStart \in Nat /\ ch[k].newEnd \in Nat
        /\ OldEnd(ch, k) = ch[k].oldEnd /\ NewEnd(ch, k) = ch[k].newEnd
    <3>1. \A l \in 1 .. Len(ch) :
             /\ ch[l].oldStart \in Nat /\ ch[l].oldEnd \in Nat
             /\ ch[l].newStart \in Nat /\ ch[l].newEnd \in Nat
             /\ OldEnd(ch, l) = ch[l].oldEnd /\ NewEnd(ch, l) = ch[l].newEnd
      BY ScriptPlaces
    <3>2. QED
      BY <3>1 DEF N
  <2>3. PICK t \in Nat, u \in Nat, v \in Nat, w \in Nat :
           t = ch[k].oldStart /\ u = ch[k].oldEnd /\ v = ch[k].newStart /\ w = ch[k].newEnd
    BY <2>2
  <2>4. t <= u /\ u <= Len(old) /\ v <= w /\ w <= Len(new)
    BY <2>1, <2>3
  <2>5. t \in 0 .. Len(old) /\ u \in t .. Len(old) /\ v \in 0 .. Len(new) /\ w \in v .. Len(new)
    <3>1. Len(old) \in Nat /\ Len(new) \in Nat
      BY <1>1
    <3>2. QED
      BY <2>4, <3>1
  <2>6. QED
    BY <2>1, <2>2, <2>3, <2>5
<1> DEFINE a == OldEnd(ch, p - 1)
           b == NewEnd(ch, p - 1)
<1>5. /\ s + d \in 0 .. Len(new)
      /\ Level(old, new, s, s + d, ch[p].oldStart, ch[p].newStart)
  <2>1. Level(old, new, a, b, ch[p].oldStart, ch[p].newStart) /\ ch[p].oldStart \in 0 .. Len(old)
    BY <1>2, <1>4
  <2>2. a \in 0 .. Len(old) /\ b \in 0 .. Len(new) /\ d = b - a
    BY <1>1, <1>3 DEF Offset
  <2>3. s \in a .. ch[p].oldStart
    BY <1>1, <1>2, <2>1, <2>2
  <2> HIDE DEF a, b
  <2>4. s + (b - a) \in 0 .. Len(new) /\ Level(old, new, s, s + (b - a), ch[p].oldStart, ch[p].newStart)
    BY <2>1, <2>3, LevelCut
  <2>5. QED
    BY <2>2, <2>4
<1> HIDE DEF d, s, a, b
<1>a. ASSUME NEW k \in 1 .. N, NEW x \in Int, NEW y \in Int,
             Level(old, new, x, y, ch[k].oldStart, ch[k].newStart), s <= x, s + d <= y
      PROVE  s <= OldEnd(ch, k) /\ s + d <= NewEnd(ch, k)
  <2>1. PICK t \in Int, u \in Int, v \in Int, w \in Int :
           /\ t = ch[k].oldStart /\ u = OldEnd(ch, k) /\ v = ch[k].newStart /\ w = NewEnd(ch, k)
           /\ t <= u /\ v <= w
    <3>1. /\ ch[k].oldStart \in 0 .. Len(old) /\ ch[k].oldEnd \in ch[k].oldStart .. Len(old)
          /\ ch[k].newStart \in 0 .. Len(new) /\ ch[k].newEnd \in ch[k].newStart .. Len(new)
          /\ OldEnd(ch, k) = ch[k].oldEnd /\ NewEnd(ch, k) = ch[k].newEnd
      BY <1>4
    <3>2. Len(old) \in Nat /\ Len(new) \in Nat
      BY <1>1
    <3>3. QED
      BY <3>1, <3>2
  <2>2. x <= t /\ t - x = v - y
    BY <1>a, <2>1 DEF Level
  <2>3. s <= u /\ s + d <= w
    <3>1. s \in Int /\ d \in Int /\ s <= x /\ s + d <= y /\ t <= u /\ v <= w
      BY <1>3, <1>a, <2>1
    <3>2. QED
      BY <2>2, <3>1
  <2>4. QED
    BY <2>1, <2>3
<1>b. \A k \in p .. q : s <= OldEnd(ch, k) /\ s + d <= NewEnd(ch, k)
  <2> DEFINE T == {k \in 0 .. N : k \in p .. q => s <= OldEnd(ch, k) /\ s + d <= NewEnd(ch, k)}
  <2>1. 0 \in T
    BY <1>1, <1>2, <1>3
  <2>2. ASSUME NEW k \in 1 .. N, k - 1 \in T PROVE k \in T
    <3>1. k \in 0 .. N /\ k - 1 \in 0 .. N
      BY <1>1
    <3>2. CASE k = p
      <4>1. s \in Int /\ s + d \in Int /\ s <= s /\ s + d <= s + d
        BY <1>3
      <4>2. QED
        BY <1>5, <1>a, <3>1, <3>2, <4>1
    <3>3. CASE k \in p .. q /\ k # p
      <4>1. k - 1 \in p .. q
        BY <1>3, <3>3
      <4>2. s <= OldEnd(ch, k - 1) /\ s + d <= NewEnd(ch, k - 1)
        BY <2>2, <4>1
      <4>3. OldEnd(ch, k - 1) \in Int /\ NewEnd(ch, k - 1) \in Int
        BY <1>1, <3>1
      <4>4. Level(old, new, OldEnd(ch, k - 1), NewEnd(ch, k - 1), ch[k].oldStart, ch[k].newStart)
        BY <1>4
      <4>5. s <= OldEnd(ch, k) /\ s + d <= NewEnd(ch, k)
        BY <1>a, <4>2, <4>3, <4>4
      <4>6. QED
        BY <3>1, <4>5
    <3>4. CASE k \notin p .. q
      BY <3>1, <3>4
    <3>5. QED
      BY <3>2, <3>3, <3>4
  <2>3. T \in SUBSET (0 .. N)
    OBVIOUS
  <2> HIDE DEF T
  <2>4. \A k \in 0 .. N : k \in T
    BY <1>1, <2>1, <2>2, <2>3, LoopKeeps
  <2>5. \A k \in p .. q : k \in 0 .. N
    <3>1. N \in Nat /\ p \in 1 .. N /\ q \in p .. N
      BY <1>1, <1>2
    <3>2. QED
      BY <3>1
  <2>6. QED
    BY <2>4, <2>5 DEF T
<1>6. ASSUME NEW k \in p .. q
      PROVE  /\ k \in 1 .. N
             /\ WalkOld(h, ch, p, q, k) = OldEnd(ch, k) /\ WalkNew(h, ch, p, q, k) = NewEnd(ch, k)
  BY <1>1, <1>2, <1>3, SMTT(30) DEF WalkOld, WalkNew, Smaller
<1>7. ASSUME NEW k \in p .. q
      PROVE  /\ Level(old, new, WalkOld(h, ch, p, q, k - 1), WalkNew(h, ch, p, q, k - 1),
                      ch[k].oldStart, ch[k].newStart)
             /\ s <= WalkOld(h, ch, p, q, k - 1)
             /\ s + d <= WalkNew(h, ch, p, q, k - 1)
  <2>1. CASE k = p
    <3>1. WalkOld(h, ch, p, q, k - 1) = s /\ WalkNew(h, ch, p, q, k - 1) = s + d
      BY <1>3, <2>1 DEF WalkOld, WalkNew, s, d
    <3>2. QED
      BY <1>3, <1>5, <2>1, <3>1
  <2>2. CASE k # p
    <3>1. k - 1 \in p .. q /\ k - 1 \in 1 .. N /\ k \in 1 .. N
      BY <1>1, <1>2, <1>3, <2>2
    <3>2. WalkOld(h, ch, p, q, k - 1) = OldEnd(ch, k - 1) /\ WalkNew(h, ch, p, q, k - 1) = NewEnd(ch, k - 1)
      BY <1>6, <3>1
    <3>3. Level(old, new, OldEnd(ch, k - 1), NewEnd(ch, k - 1), ch[k].oldStart, ch[k].newStart)
      BY <1>4, <3>1
    <3>4. s <= OldEnd(ch, k - 1) /\ s + d <= NewEnd(ch, k - 1)
      BY <1>b, <3>1
    <3>5. QED
      BY <3>1, <3>2, <3>3, <3>4
  <2>3. QED
    BY <2>1, <2>2
<1>8. QED
  BY <1>3, <1>4, <1>5, <1>6, <1>7 DEF s, d

\* A block shows old lines x to z as new lines x + d to z + e, and counts them.
BlockShows(blk, old, new, oh, nh, x, z, d, e) ==
    /\ Larger(blk.oldStart - 1, 0) = x /\ blk.oldCount = z - x
    /\ blk.newCount - blk.oldCount = e - d
    /\ blk.lines \in Seq(Labeled(old, new, oh, nh, d))
    /\ Said(blk.lines, OldTypes) = Seg(old, x, z)
    /\ Said(blk.lines, NewTypes) = Seg(new, x + d, z + e)

\* A hunk shows the lines it covers and what becomes of them.
LEMMA HunkShows ==
  ASSUME NEW A, NEW old \in Seq(A), NEW new \in Seq(A), NEW oh, NEW nh, NEW ch,
         Script(ch, old, new, Len(old), Len(new)),
         NEW h, NEW p, NEW q, Framed(h, old, ch, p, q)
  PROVE  /\ BlockShows(FormatStructuredHunk(old, new, ch, h, oh, nh), old, new, oh, nh,
                  h.start, h.end, Offset(ch, p - 1), Offset(ch, q))
         /\ h.start + Offset(ch, p - 1) \in 0 .. Len(new)
         /\ h.end + Offset(ch, q) \in h.start + Offset(ch, p - 1) .. Len(new)
<1> DEFINE N == Len(ch)
           d == Offset(ch, p - 1)
           s == h.start
           z == h.end
           E == Labeled(old, new, oh, nh, d)
           X(k) == WalkOld(h, ch, p, q, k)
           Y(k) == WalkNew(h, ch, p, q, k)
           mine == p .. q
           base == [oldPos |-> s, newPos |-> s, lines |-> <<>>]
           Step(k, w) == IF k \notin mine THEN w
                         ELSE WithChange(WithContext(w, old, ch[k].oldStart, oh),
                                         old, new, ch[k], oh, nh)
           walk == CHOOSE f : f = [k \in 0 .. N |-> IF k = 0 THEN base ELSE Step(k, f[k - 1])]
           Fine(k, w) == Walked(w, E, old, new, d, s, X(k), Y(k))
           R == [oldPos : Int, newPos : Int, lines : Seq(E)]
           D == [k \in 0 .. N |-> {w \in R : Fine(k, w)}]
           F == [k \in 1 .. N |-> [w \in R |-> Step(k, w)]]
           blk == FormatStructuredHunk(old, new, ch, h, oh, nh)
<1>1. /\ FilterChangesInRange(ch, h) = mine
      /\ ComputeNewStart(ch, mine, h) = s
      /\ Net(ch, mine) = Offset(ch, q) - d
  BY HunkChanges
<1>2. blk = [oldStart |-> s + 1, oldCount |-> z - s, newStart |-> s + 1,
             newCount |-> (z - s) + (Offset(ch, q) - d),
             lines |-> WithContext(walk[N], old, z, oh).lines]
  BY <1>1, ZenonT(30) DEF FormatStructuredHunk
<1>3. /\ N \in Nat /\ Len(old) \in Nat /\ Len(new) \in Nat
      /\ p \in 1 .. N /\ q \in p .. N /\ s \in 0 .. Len(old) /\ z \in s .. Len(old)
      /\ ch[q].oldEnd <= z /\ \A k \in q + 1 .. N : z < ch[k].oldStart
  BY ScriptPlaces DEF Framed
<1>4. d \in Int /\ s + d \in 0 .. Len(new)
  BY WalkPlaces
<1>5. ASSUME NEW k \in p .. q
      PROVE  /\ Level(old, new, X(k - 1), Y(k - 1), ch[k].oldStart, ch[k].newStart)
             /\ s <= X(k - 1) /\ s + d <= Y(k - 1)
             /\ ch[k].oldStart \in 0 .. Len(old) /\ ch[k].oldEnd \in ch[k].oldStart .. Len(old)
             /\ ch[k].newStart \in 0 .. Len(new) /\ ch[k].newEnd \in ch[k].newStart .. Len(new)
             /\ X(k) = ch[k].oldEnd /\ Y(k) = ch[k].newEnd
  BY WalkPlaces
<1>6. ASSUME NEW k \in 0 .. N
      PROVE  /\ X(k) \in Int /\ Y(k) \in Int
             /\ k < p => X(k) = s /\ Y(k) = s + d
             /\ k >= q => X(k) = ch[q].oldEnd /\ Y(k) = ch[q].newEnd
  <2>0. p \in Int /\ q \in Int /\ p <= q /\ q \in p .. q
    BY <1>3
  <2>1. CASE k < p
    <3>1. X(k) = s /\ Y(k) = s + d
      BY <2>1 DEF WalkOld, WalkNew
    <3>2. s \in Int /\ s + d \in Int /\ ~(k >= q)
      BY <1>3, <1>4, <2>0, <2>1
    <3> HIDE DEF X, Y
    <3>3. QED
      BY <3>1, <3>2
  <2>2. CASE k \in p .. q
    <3>1. X(k) = ch[k].oldEnd /\ Y(k) = ch[k].newEnd /\ X(k) \in Int /\ Y(k) \in Int
      BY <1>3, <1>5, <2>2
    <3>2. ~(k < p) /\ (k >= q => k = q)
      BY <2>0, <2>2
    <3> HIDE DEF X, Y
    <3>3. QED
      BY <3>1, <3>2
  <2>3. CASE k > q
    <3>1. ~(k < p) /\ Smaller(k, q) = q /\ ~(q < p) /\ Smaller(q, q) = q
      BY <2>0, <2>3 DEF Smaller
    <3>2. X(k) = X(q) /\ Y(k) = Y(q)
      BY <3>1 DEF WalkOld, WalkNew
    <3>3. X(q) = ch[q].oldEnd /\ Y(q) = ch[q].newEnd /\ X(q) \in Int /\ Y(q) \in Int
      BY <1>3, <1>5, <2>0
    <3> HIDE DEF X, Y
    <3>4. QED
      BY <3>1, <3>2, <3>3
  <2>4. QED
    BY <2>0, <2>1, <2>2, <2>3
<1> HIDE DEF X, Y
<1>7. Fine(0, base)
  <2>1. X(0) = s /\ Y(0) = s + d /\ s + d - d = s
    BY <1>3, <1>4, <1>6
  <2>2. <<>> \in Seq(E) /\ base.lines = <<>>
    BY EmptySeq
  <2>3. \A types : Said(<<>>, types) = <<>>
    BY SaidNothing
  <2>4. Seg(old, s, s) = <<>> /\ Seg(new, s + d, s + d) = <<>>
    <3>1. Seg(old, s, s) = <<>>
      <4>1. s \in 0 .. Len(old)
        BY <1>3
      <4> HIDE DEF s, E, d, N
      <4>2. \A t \in 0 .. Len(old) : Seg(old, t, t) = <<>>
        BY SegFacts
      <4>3. QED
        BY <4>1, <4>2, Zenon
    <3>2. Seg(new, s + d, s + d) = <<>>
      <4> DEFINE t == s + d
      <4>1. t \in 0 .. Len(new)
        BY <1>4
      <4> HIDE DEF t
      <4>2. Seg(new, t, t) = <<>>
        BY <4>1, SegFacts
      <4>3. QED
        BY <4>2 DEF t
    <3>3. QED
      BY <3>1, <3>2
  <2> HIDE DEF E, d, s
  <2>5. base = [oldPos |-> X(0), newPos |-> Y(0) - d, lines |-> base.lines]
    <3>1. X(0) = s /\ Y(0) - d = s
      <4>1. s \in Int /\ d \in Int
        BY <1>3, <1>4 DEF s
      <4>2. QED
        BY <2>1, <4>1
    <3>2. base = [oldPos |-> s, newPos |-> s, lines |-> base.lines]
      BY <2>2
    <3> HIDE DEF base
    <3>3. QED
      BY <3>1, <3>2
  <2> HIDE DEF base
  <2>6. QED
    BY <2>1, <2>2, <2>3, <2>4, <2>5 DEF Walked
<1>8. ASSUME NEW k \in 1 .. N, NEW w, Fine(k - 1, w) PROVE Fine(k, Step(k, w))
  <2>0. k - 1 \in 0 .. N /\ k \in 0 .. N /\ p \in Int /\ q \in Int
    BY <1>3
  <2>1. CASE k \notin mine
    <3>1. k < p \/ k - 1 >= q
      BY <2>0, <2>1
    <3>2. CASE k < p
      <4>1. X(k) = s /\ Y(k) = s + d /\ X(k - 1) = s /\ Y(k - 1) = s + d
        BY <1>6, <2>0, <3>2
      <4>2. QED
        BY <1>8, <2>1, <4>1
    <3>3. CASE k - 1 >= q
      <4>1. X(k) = X(k - 1) /\ Y(k) = Y(k - 1)
        <5>1. k >= q
          BY <2>0, <3>3
        <5>2. QED
          BY <1>6, <2>0, <3>3, <5>1
      <4>2. QED
        BY <1>8, <2>1, <4>1
    <3>4. QED
      BY <3>1, <3>2, <3>3
  <2>2. CASE k \in mine
    <3> DEFINE x == X(k - 1)
               y == Y(k - 1)
               t == ch[k].oldStart
               u == ch[k].oldEnd
               v == ch[k].newStart
               n == ch[k].newEnd
               w1 == WithContext(w, old, t, oh)
    <3>1. /\ Level(old, new, x, y, t, v) /\ s <= x /\ s + d <= y
          /\ t \in 0 .. Len(old) /\ u \in t .. Len(old) /\ v \in 0 .. Len(new) /\ n \in v .. Len(new)
          /\ X(k) = u /\ Y(k) = n
      BY <1>5, <2>2
    <3>2. x \in Int /\ y \in Int
      BY <1>6, <2>0
    <3>3. Walked(w, E, old, new, d, s, x, y)
      BY <1>8
    <3> HIDE DEF x, y, s, d
    <3>4. s \in Nat /\ s + d \in Nat /\ d \in Int
      BY <1>3, <1>4
    <3>5. s \in 0 .. x /\ s + d \in 0 .. y
      BY <3>1, <3>2, <3>4
    <3>6. s \in 0 .. t /\ s + d \in 0 .. v
      <4>1. x <= t /\ t - x = v - y /\ t \in Int /\ v \in Int
        BY <1>3, <3>1 DEF Level
      <4>2. y <= v
        BY <3>2, <4>1
      <4>3. QED
        BY <3>2, <3>5, <4>1, <4>2, <3>4, SMTT(30)
    <3>7. Walked(w1, E, old, new, d, s, t, v)
      BY <3>1, <3>3, <3>4, <3>5, ContextWalked
    <3> HIDE DEF w1
    <3>8. Walked(WithChange(w1, old, new, ch[k], oh, nh), E, old, new, d, s, u, n)
      BY <3>1, <3>4, <3>6, <3>7, ChangeWalked
    <3>9. Step(k, w) = WithChange(w1, old, new, ch[k], oh, nh)
      BY <2>2 DEF w1
    <3>10. QED
      BY <3>1, <3>8, <3>9 DEF d, s
  <2>3. QED
    BY <2>1, <2>2
<1>9. \A k \in 0 .. N : \A w : Fine(k, w) => w \in R
  <2> SUFFICES ASSUME NEW k \in 0 .. N, NEW w, Fine(k, w) PROVE w \in R
    OBVIOUS
  <2>1. w = [oldPos |-> X(k), newPos |-> Y(k) - d, lines |-> w.lines] /\ w.lines \in Seq(E)
    BY DEF Walked
  <2>2. X(k) \in Int /\ Y(k) - d \in Int
    BY <1>4, <1>6
  <2> HIDE DEF E, d
  <2>3. QED
    BY <2>1, <2>2
<1> HIDE DEF Step, Fine, base, R, mine
<1>10. PICK g : Course(g, N, D, base, F)
  <2>1. base \in D[0]
    BY <1>3, <1>7, <1>9
  <2>2. ASSUME NEW k \in 1 .. N, NEW w \in D[k - 1] PROVE F[k][w] \in D[k]
    <3>1. k - 1 \in 0 .. N /\ k \in 0 .. N
      BY <1>3
    <3>2. w \in R /\ Fine(k - 1, w)
      BY <3>1
    <3>3. F[k][w] = Step(k, w)
      BY <3>2
    <3>4. Fine(k, Step(k, w)) /\ Step(k, w) \in R
      BY <1>8, <1>9, <3>1, <3>2
    <3>5. QED
      BY <3>1, <3>3, <3>4
  <2> HIDE DEF D, F, N
  <2>3. QED
    BY <1>3, <2>1, <2>2, Loop
<1>11. /\ g = [k \in 0 .. N |-> g[k]] /\ g[0] = base
       /\ \A k \in 0 .. N : g[k] \in D[k]
       /\ \A k \in 1 .. N : g[k] = F[k][g[k - 1]]
  <2> HIDE DEF D, F, N
  <2>1. QED
    BY <1>10 DEF Course
<1>12. ASSUME NEW k \in 1 .. N PROVE g[k] = Step(k, g[k - 1])
  <2>1. k - 1 \in 0 .. N /\ g[k - 1] \in R
    BY <1>3, <1>11
  <2>2. QED
    BY <1>11, <2>1
<1>13. g = [k \in 0 .. N |-> IF k = 0 THEN base ELSE Step(k, g[k - 1])]
  <2>1. \A k \in 0 .. N : k = 0 \/ k \in 1 .. N
    BY <1>3
  <2>2. \A k \in 0 .. N : g[k] = IF k = 0 THEN base ELSE Step(k, g[k - 1])
    BY <1>11, <1>12, <2>1
  <2> HIDE DEF N
  <2>3. QED
    BY <1>11, <2>2
<1>14. walk = [k \in 0 .. N |-> IF k = 0 THEN base ELSE Step(k, walk[k - 1])]
  BY <1>13
<1> HIDE DEF walk, D, F
<1> DEFINE T == {k \in 0 .. N : Fine(k, walk[k])}
<1>15. \A k \in 0 .. N : k \in T
  <2>1. 0 \in T
    BY <1>3, <1>7, <1>14
  <2>2. ASSUME NEW k \in 1 .. N, k - 1 \in T PROVE k \in T
    <3>1. k \in 0 .. N /\ k # 0 /\ Fine(k - 1, walk[k - 1])
      BY <1>3, <2>2
    <3>2. walk[k] = Step(k, walk[k - 1])
      BY <1>14, <3>1
    <3>3. QED
      BY <1>8, <3>1, <3>2
  <2>3. T \in SUBSET (0 .. N)
    OBVIOUS
  <2> HIDE DEF T, N
  <2>4. QED
    BY <1>3, <2>1, <2>2, <2>3, LoopKeeps
<1> DEFINE u == ch[q].oldEnd
           n == ch[q].newEnd
           e == Offset(ch, q)
           w2 == WithContext(walk[N], old, z, oh)
<1>16. /\ Walked(walk[N], E, old, new, d, s, u, n)
       /\ s \in 0 .. u /\ s + d \in 0 .. n
  <2>1. N \in 0 .. N /\ N >= q /\ q \in p .. q
    BY <1>3
  <2>2. X(N) = u /\ Y(N) = n
    BY <1>6, <2>1
  <2>3. Fine(N, walk[N])
    BY <1>15, <2>1 DEF T
  <2>4. /\ Level(old, new, X(q - 1), Y(q - 1), ch[q].oldStart, ch[q].newStart)
        /\ s <= X(q - 1) /\ s + d <= Y(q - 1)
        /\ ch[q].oldStart \in 0 .. Len(old) /\ u \in ch[q].oldStart .. Len(old)
        /\ ch[q].newStart \in 0 .. Len(new) /\ n \in ch[q].newStart .. Len(new)
    BY <1>5, <2>1
  <2>5. PICK a \in Int, b \in Int, t \in Int, v \in Int :
           /\ a = X(q - 1) /\ b = Y(q - 1) /\ t = ch[q].oldStart /\ v = ch[q].newStart
    <3>1. q - 1 \in 0 .. N
      BY <1>3
    <3>2. X(q - 1) \in Int /\ Y(q - 1) \in Int
      BY <1>6, <3>1
    <3>3. ch[q].oldStart \in Int /\ ch[q].newStart \in Int
      BY <1>3, <2>4
    <3>4. QED
      BY <3>2, <3>3
  <2>6. a <= t /\ t - a = v - b
    BY <2>4, <2>5 DEF Level
  <2> HIDE DEF u, n, s, d
  <2>7. /\ s \in Nat /\ s + d \in Nat /\ s <= a /\ s + d <= b /\ u \in Int /\ n \in Int
        /\ t <= u /\ v <= n
    BY <1>3, <1>4, <2>4, <2>5
  <2>8. s \in 0 .. u /\ s + d \in 0 .. n
    BY <2>6, <2>7
  <2>9. Walked(walk[N], E, old, new, d, s, u, n)
    BY <2>2, <2>3 DEF Fine
  <2>10. QED
    BY <2>8, <2>9
<1>17. e \in Int /\ Level(old, new, u, n, z, z + e)
  <2>1. q \in 0 .. N /\ q \in 1 .. N
    BY <1>3
  <2>2. e \in Int /\ u \in Nat /\ n \in Nat /\ e = n - u /\ OldEnd(ch, q) = u /\ NewEnd(ch, q) = n
    BY <2>1, ScriptPlaces DEF Offset
  <2>3. PICK t, v : Level(old, new, u, n, t, v) /\ z \in u .. t
    <3>1. CASE q = N
      <4>1. Level(old, new, u, n, Len(old), Len(new))
        BY <2>2, <3>1 DEF Script
      <4>2. z \in u .. Len(old)
        BY <1>3, <2>2
      <4>3. QED
        BY <4>1, <4>2
    <3>2. CASE q # N
      <4>1. q + 1 \in 1 .. N /\ q + 1 \in q + 1 .. N /\ q + 1 - 1 = q
        BY <1>3, <2>1, <3>2
      <4>2. Level(old, new, u, n, ch[q + 1].oldStart, ch[q + 1].newStart)
        <5>1. \A k \in 1 .. N :
                 Level(old, new, OldEnd(ch, k - 1), NewEnd(ch, k - 1), ch[k].oldStart, ch[k].newStart)
          BY DEF Script
        <5>2. PICK k \in 1 .. N : k = q + 1
          BY <4>1
        <5>3. k - 1 = q
          BY <1>3, <5>2
        <5>4. Level(old, new, OldEnd(ch, k - 1), NewEnd(ch, k - 1), ch[k].oldStart, ch[k].newStart)
          BY <5>1
        <5>5. Level(old, new, OldEnd(ch, q), NewEnd(ch, q), ch[k].oldStart, ch[k].newStart)
          BY <5>3, <5>4
        <5>6. QED
          BY <2>2, <5>2, <5>5
      <4>3. z < ch[q + 1].oldStart /\ ch[q + 1].oldStart \in Nat
        BY <1>3, <4>1, ScriptPlaces
      <4>4. z \in u .. ch[q + 1].oldStart
        BY <1>3, <2>2, <4>3, SMTT(30)
      <4>5. QED
        BY <4>2, <4>4
    <3>3. QED
      BY <3>1, <3>2
  <2> HIDE DEF u, n, z, e
  <2>4. Level(old, new, u, n, z, z + (n - u))
    BY <2>3, LevelCut
  <2>5. QED
    BY <2>2, <2>4
<1> HIDE DEF u, n
<1>18. Walked(w2, E, old, new, d, s, z, z + e)
  BY <1>4, <1>16, <1>17, ContextWalked
<1>19. /\ w2.lines \in Seq(E)
       /\ Said(w2.lines, OldTypes) = Seg(old, s, z)
       /\ Said(w2.lines, NewTypes) = Seg(new, s + d, z + e)
  BY <1>18 DEF Walked
<1>20. /\ Larger(blk.oldStart - 1, 0) = s /\ blk.oldCount = z - s
       /\ blk.newCount - blk.oldCount = e - d
       /\ blk.lines = w2.lines
  <2>1. /\ blk.oldStart = s + 1 /\ blk.oldCount = z - s
        /\ blk.newCount = (z - s) + (e - d) /\ blk.lines = w2.lines
    BY <1>2
  <2> HIDE DEF blk, w2, e, d, s, z
  <2>2. s \in Nat /\ z \in Int /\ e \in Int /\ d \in Int
    BY <1>3, <1>4, <1>17
  <2>3. s + 1 - 1 = s /\ Larger(s, 0) = s
    BY <2>2 DEF Larger
  <2>4. (z - s) + (e - d) - (z - s) = e - d
    BY <2>2
  <2>5. Larger(blk.oldStart - 1, 0) = s
    BY <2>1, <2>2 DEF Larger
  <2>6. blk.newCount - blk.oldCount = e - d
    BY <2>1, <2>2
  <2>7. QED
    BY <2>1, <2>5, <2>6
<1>21. s + d \in 0 .. Len(new) /\ z + e \in s + d .. Len(new)
  <2>1. u \in 0 .. Len(old) /\ n \in 0 .. Len(new) /\ u <= z /\ z - u = z + e - n /\ z + e \in 0 .. Len(new)
    BY <1>17 DEF Level
  <2> HIDE DEF s, d, z, e
  <2>2. s + d \in Nat /\ s + d <= n
    BY <1>4, <1>16, <2>1
  <2>3. z \in Int /\ e \in Int /\ Len(new) \in Nat /\ Len(old) \in Nat
    BY <1>3, <1>17
  <2>4. n <= z + e
    BY <2>1, <2>3
  <2>5. QED
    BY <1>4, <2>1, <2>2, <2>3, <2>4
<1>22. QED
  BY <1>19, <1>20, <1>21 DEF BlockShows

-----------------------------------------------------------------------------
(* The blocks of a diff. *)

\* Between two changes the lines are the same.
Reach(ch, old, c) == IF c = Len(ch) THEN Len(old) ELSE ch[c + 1].oldStart

\* They are: behind change c up to the next one, and behind the last up to the end.
LEMMA Unchanged ==
  ASSUME NEW A, NEW old \in Seq(A), NEW new \in Seq(A), NEW ch,
         Script(ch, old, new, Len(old), Len(new)), NEW c \in 0 .. Len(ch),
         NEW a \in Int, NEW b \in Int, OldEnd(ch, c) <= a, a <= b, b <= Reach(ch, old, c)
  PROVE  Level(old, new, a, a + Offset(ch, c), b, b + Offset(ch, c))
<1> DEFINE x == OldEnd(ch, c)
           y == NewEnd(ch, c)
           d == Offset(ch, c)
           u == Reach(ch, old, c)
<1>1. /\ Len(ch) \in Nat /\ Len(old) \in Nat /\ Len(new) \in Nat
      /\ x \in 0 .. Len(old) /\ y \in 0 .. Len(new) /\ d = y - x /\ d \in Int
  BY ScriptPlaces DEF Offset
<1>2. PICK v : Level(old, new, x, y, u, v)
  <2>1. CASE c = Len(ch)
    BY <2>1 DEF Script, Reach
  <2>2. CASE c # Len(ch)
    <3>1. PICK k \in 1 .. Len(ch) : k = c + 1 /\ k - 1 = c
      BY <1>1, <2>2
    <3>2. Level(old, new, OldEnd(ch, k - 1), NewEnd(ch, k - 1), ch[k].oldStart, ch[k].newStart)
      BY DEF Script
    <3>3. u = ch[k].oldStart
      BY <2>2, <3>1 DEF Reach
    <3> HIDE DEF u
    <3>4. Level(old, new, x, y, ch[k].oldStart, ch[k].newStart)
      BY <3>1, <3>2
    <3>5. QED
      BY <3>3, <3>4
  <2>3. QED
    BY <2>1, <2>2
<1> HIDE DEF x, y, d, u
<1>3. u \in 0 .. Len(old)
  BY <1>2 DEF Level
<1>4. a \in x .. u /\ b \in a .. u
  <2>1. x <= a /\ a <= b /\ b <= u
    BY DEF x, u
  <2>2. x \in Int /\ u \in Int
    BY <1>1, <1>3
  <2>3. QED
    BY <2>1, <2>2
<1>5. Level(old, new, a, a + d, u, v)
  <2>1. Level(old, new, a, a + (y - x), u, v)
    BY <1>2, <1>4, LevelCut
  <2>2. QED
    BY <1>1, <2>1
<1>6. Level(old, new, a, a + d, b, b + (a + d - a))
  <2>1. PICK t \in Int : t = a + d
    BY <1>1
  <2>2. Level(old, new, a, t, u, v)
    BY <1>5, <2>1
  <2>3. Level(old, new, a, t, b, b + (t - a))
    BY <1>4, <2>2, LevelCut
  <2>4. a + d - a = t - a
    BY <1>1, <2>1
  <2>5. QED
    BY <2>1, <2>3, <2>4
<1>7. b + (a + d - a) = b + d
  BY <1>1
<1>8. QED
  BY <1>6, <1>7 DEF d

\* The blocks show all that differs: block k old lines x[k] to z[k], which become d[k] lines
\* more after it; before, between and behind them the lines are the same.
Covers(blocks, old, new, oh, nh, K, x, z, d) ==
    /\ K \in Nat /\ blocks = [k \in 1 .. K |-> blocks[k]] /\ Len(blocks) = K
    /\ z[0] = 0 /\ d[0] = 0
    /\ \A k \in 0 .. K : z[k] \in 0 .. Len(old) /\ d[k] \in Int /\ z[k] + d[k] \in 0 .. Len(new)
    /\ \A k \in 1 .. K :
          /\ Level(old, new, z[k - 1], z[k - 1] + d[k - 1], x[k], x[k] + d[k - 1])
          /\ x[k] <= z[k] /\ x[k] + d[k - 1] <= z[k] + d[k]
          /\ BlockShows(blocks[k], old, new, oh, nh, x[k], z[k], d[k - 1], d[k])
    /\ Level(old, new, z[K], z[K] + d[K], Len(old), Len(new))

\* All hunks together.
LEMMA HunksCover ==
  ASSUME NEW A, NEW old \in Seq(A), NEW new \in Seq(A), NEW oh, NEW nh,
         NEW ch, ch = FindChanges(old, new), NEW hs, hs = Hunks(old, ch),
         NEW blocks,
         blocks = [k \in 1 .. Len(hs) |-> FormatStructuredHunk(old, new, ch, hs[k], oh, nh)]
  PROVE  \E K, x, z, d : Covers(blocks, old, new, oh, nh, K, x, z, d)
<1>1. Script(ch, old, new, Len(old), Len(new))
  BY ChangesAreScript
<1>2. PICK r : Runs(hs, r, old, ch, Len(ch))
  BY <1>1, HunksAreRuns DEF Script
<1> DEFINE N == Len(ch)
           K == Len(hs)
           x == [k \in 0 .. K |-> IF k = 0 THEN 0 ELSE hs[k].start]
           z == [k \in 0 .. K |-> IF k = 0 THEN 0 ELSE hs[k].end]
           d == [k \in 0 .. K |-> Offset(ch, r[k])]
<1>3. /\ hs \in Seq(HunkSet) /\ K \in Nat /\ N \in Nat /\ Len(old) \in Nat /\ Len(new) \in Nat
      /\ \A c \in 0 .. N : Offset(ch, c) \in Int /\ OldEnd(ch, c) \in 0 .. Len(old)
                           /\ NewEnd(ch, c) \in 0 .. Len(new)
  BY <1>1, ScriptPlaces, HunksAreRuns, LenProperties DEF Script
<1>4. r \in [0 .. K -> 0 .. N] /\ r[0] = 0 /\ r[K] = N
  BY <1>2 DEF Runs
<1>5. ASSUME NEW k \in 1 .. K
      PROVE  /\ Framed(hs[k], old, ch, r[k - 1] + 1, r[k])
             /\ k \in 1 .. K - 1 => hs[k].end < hs[k + 1].start
  BY <1>1, <1>2, <1>3, HunkFramed
<1> HIDE DEF K, N
<1>6. ASSUME NEW k \in 1 .. K
      PROVE  /\ r[k - 1] \in 0 .. N /\ r[k] \in 1 .. N /\ r[k] \in 0 .. N
             /\ r[k - 1] # N /\ r[k - 1] + 1 - 1 = r[k - 1]
             /\ hs[k].start \in 0 .. Len(old) /\ hs[k].end \in hs[k].start .. Len(old)
             /\ OldEnd(ch, r[k - 1]) <= hs[k].start /\ hs[k].start <= ch[r[k - 1] + 1].oldStart
             /\ OldEnd(ch, r[k]) <= hs[k].end
             /\ k \in 1 .. K - 1 => hs[k].end < hs[k + 1].start
  <2>1. k - 1 \in 0 .. K /\ k \in 0 .. K
    BY <1>3
  <2>2. r[k - 1] \in 0 .. N /\ r[k] \in 0 .. N
    BY <1>4, <2>1
  <2>3. r[k - 1] + 1 - 1 = r[k - 1]
    BY <2>2
  <2>4. /\ r[k - 1] + 1 \in 1 .. N /\ r[k] \in r[k - 1] + 1 .. N
        /\ hs[k].start \in 0 .. Len(old) /\ hs[k].end \in hs[k].start .. Len(old)
        /\ OldEnd(ch, r[k - 1]) <= hs[k].start /\ hs[k].start <= ch[r[k - 1] + 1].oldStart
        /\ ch[r[k]].oldEnd <= hs[k].end
    <3> DEFINE P == r[k - 1] + 1
               Q == r[k]
               H == hs[k]
    <3>1. Framed(H, old, ch, P, Q)
      BY <1>5
    <3> HIDE DEF P, Q, H
    <3>2. /\ P \in 1 .. N /\ Q \in P .. N
          /\ H.start \in 0 .. Len(old) /\ H.end \in H.start .. Len(old)
          /\ OldEnd(ch, P - 1) <= H.start /\ H.start <= ch[P].oldStart
          /\ ch[Q].oldEnd <= H.end
      BY <3>1 DEF Framed, N
    <3>3. P - 1 = r[k - 1]
      BY <2>2 DEF P
    <3>4. QED
      BY <3>2, <3>3 DEF P, Q, H
  <2>5. r[k] \in 1 .. N /\ r[k] # 0 /\ r[k - 1] # N
    <3>1. PICK a \in 0 .. N, b \in 0 .. N : a = r[k - 1] /\ b = r[k]
      BY <2>2
    <3>2. a + 1 \in 1 .. N /\ b \in a + 1 .. N
      BY <2>4, <3>1
    <3>3. b \in 1 .. N /\ b # 0 /\ a # N
      BY <1>3, <3>2
    <3>4. QED
      BY <3>1, <3>3
  <2>6. OldEnd(ch, r[k]) <= hs[k].end
    BY <2>4, <2>5 DEF OldEnd
  <2>7. QED
    BY <1>5, <2>2, <2>3, <2>4, <2>5, <2>6
<1>7. /\ \A k \in 1 .. K : x[k] = hs[k].start /\ z[k] = hs[k].end
      /\ z[0] = 0
      /\ \A k \in 0 .. K : d[k] = Offset(ch, r[k])
  BY <1>3
<1> HIDE DEF x, z, d
<1>8. d[0] = 0
  <2>1. Offset(ch, 0) = 0
    BY DEF Offset, OldEnd, NewEnd
  <2>2. QED
    BY <1>3, <1>4, <1>7, <2>1
<1>9. ASSUME NEW k \in 1 .. K
      PROVE  /\ BlockShows(blocks[k], old, new, oh, nh, x[k], z[k], d[k - 1], d[k])
             /\ x[k] + d[k - 1] \in 0 .. Len(new) /\ z[k] + d[k] \in x[k] + d[k - 1] .. Len(new)
  <2>1. k - 1 \in 0 .. K /\ k \in 0 .. K
    BY <1>3
  <2>2. Framed(hs[k], old, ch, r[k - 1] + 1, r[k])
    BY <1>5
  <2> DEFINE blk == FormatStructuredHunk(old, new, ch, hs[k], oh, nh)
  <2>3. /\ BlockShows(blk, old, new, oh, nh, hs[k].start, hs[k].end,
                 Offset(ch, r[k - 1]), Offset(ch, r[k]))
        /\ hs[k].start + Offset(ch, r[k - 1]) \in 0 .. Len(new)
        /\ hs[k].end + Offset(ch, r[k]) \in hs[k].start + Offset(ch, r[k - 1]) .. Len(new)
    <3> DEFINE P == r[k - 1] + 1
               Q == r[k]
               H == hs[k]
    <3>1. Framed(H, old, ch, P, Q)
      BY <2>2
    <3> HIDE DEF P, Q, H
    <3>2. /\ BlockShows(FormatStructuredHunk(old, new, ch, H, oh, nh), old, new, oh, nh, H.start, H.end,
                   Offset(ch, P - 1), Offset(ch, Q))
          /\ H.start + Offset(ch, P - 1) \in 0 .. Len(new)
          /\ H.end + Offset(ch, Q) \in H.start + Offset(ch, P - 1) .. Len(new)
      BY <1>1, <3>1, HunkShows
    <3>3. P - 1 = r[k - 1]
      BY <1>6 DEF P
    <3>4. QED
      BY <3>2, <3>3 DEF P, Q, H
  <2>4. blocks[k] = blk
    BY DEF K
  <2> HIDE DEF blk
  <2>5. /\ x[k] = hs[k].start /\ z[k] = hs[k].end
        /\ d[k - 1] = Offset(ch, r[k - 1]) /\ d[k] = Offset(ch, r[k])
    BY <1>6, <1>7, <2>1
  <2>6. QED
    BY <2>3, <2>4, <2>5
<1>10. ASSUME NEW k \in 0 .. K
       PROVE  /\ r[k] \in 0 .. N /\ OldEnd(ch, r[k]) <= z[k] /\ z[k] \in 0 .. Len(old)
              /\ d[k] \in Int /\ z[k] + d[k] \in 0 .. Len(new)
  <2>1. CASE k = 0
    <3>1. r[k] = 0 /\ z[k] = 0 /\ d[k] = 0 /\ OldEnd(ch, 0) = 0
      BY <1>4, <1>7, <1>8, <2>1 DEF OldEnd
    <3>2. QED
      BY <1>3, <3>1
  <2>2. CASE k # 0
    <3>1. k \in 1 .. K
      BY <1>3, <2>2
    <3>2. r[k] \in 0 .. N /\ OldEnd(ch, r[k]) <= z[k] /\ d[k] = Offset(ch, r[k])
      BY <1>6, <1>7, <3>1
    <3>3. d[k] \in Int
      BY <1>3, <3>2
    <3>4. z[k] \in 0 .. Len(old)
      <4>1. hs[k].start \in 0 .. Len(old) /\ hs[k].end \in hs[k].start .. Len(old) /\ z[k] = hs[k].end
        BY <1>6, <1>7, <3>1
      <4>2. QED
        BY <1>3, <4>1
    <3>5. z[k] + d[k] \in 0 .. Len(new)
      <4>1. x[k] + d[k - 1] \in 0 .. Len(new) /\ z[k] + d[k] \in x[k] + d[k - 1] .. Len(new)
        BY <1>9, <3>1
      <4>2. QED
        BY <1>3, <4>1
    <3>6. QED
      BY <3>2, <3>3, <3>4, <3>5
  <2>3. QED
    BY <2>1, <2>2
<1>11. ASSUME NEW k \in 1 .. K
       PROVE  /\ Level(old, new, z[k - 1], z[k - 1] + d[k - 1], x[k], x[k] + d[k - 1])
              /\ x[k] <= z[k] /\ x[k] + d[k - 1] <= z[k] + d[k]
  <2>1. k - 1 \in 0 .. K
    BY <1>3
  <2> DEFINE c == r[k - 1]
             a == z[k - 1]
             b == x[k]
  <2>2. /\ c \in 0 .. N /\ OldEnd(ch, c) <= a /\ a \in 0 .. Len(old) /\ d[k - 1] = Offset(ch, c)
    BY <1>7, <1>10, <2>1
  <2>3. /\ b = hs[k].start /\ b \in 0 .. Len(old) /\ c # N
        /\ b <= ch[c + 1].oldStart /\ z[k] = hs[k].end /\ hs[k].end \in hs[k].start .. Len(old)
    BY <1>6, <1>7
  <2>4. a <= b
    <3>1. CASE k = 1
      BY <1>7, <2>3, <3>1
    <3>2. CASE k # 1
      <4>1. PICK j \in 1 .. K - 1 : j = k - 1 /\ j + 1 = k /\ j \in 1 .. K
        BY <1>3, <3>2
      <4>2. hs[j].end < hs[j + 1].start /\ z[j] = hs[j].end
        BY <1>6, <1>7, <4>1
      <4>3. a < b
        BY <2>3, <4>1, <4>2
      <4>4. QED
        BY <2>2, <2>3, <4>3
    <3>3. QED
      BY <3>1, <3>2
  <2>5. b <= Reach(ch, old, c)
    BY <2>3 DEF Reach, N
  <2>6. a \in Int /\ b \in Int
    BY <2>2, <2>3
  <2> HIDE DEF a, b, c
  <2>7. Level(old, new, a, a + Offset(ch, c), b, b + Offset(ch, c))
    BY <1>1, <2>2, <2>4, <2>5, <2>6, Unchanged DEF N
  <2>8. x[k] <= z[k]
    <3>1. hs[k].start \in 0 .. Len(old) /\ hs[k].end \in hs[k].start .. Len(old)
      BY <1>6
    <3>2. hs[k].start <= hs[k].end
      BY <1>3, <3>1
    <3>3. QED
      BY <1>7, <3>2
  <2>9. x[k] + d[k - 1] <= z[k] + d[k]
    <3> DEFINE t == x[k] + d[k - 1]
               v == z[k] + d[k]
    <3>1. t \in 0 .. Len(new) /\ v \in t .. Len(new)
      BY <1>9
    <3> HIDE DEF t, v
    <3>2. t <= v
      BY <1>3, <3>1
    <3>3. QED
      BY <3>2 DEF t, v
  <2>10. QED
    BY <2>2, <2>7, <2>8, <2>9 DEF a, b
<1>12. Level(old, new, z[K], z[K] + d[K], Len(old), Len(new))
  <2>1. K \in 0 .. K /\ r[K] = N /\ N \in 0 .. N
    BY <1>3, <1>4
  <2>2. OldEnd(ch, N) <= z[K] /\ z[K] \in 0 .. Len(old) /\ d[K] = Offset(ch, N)
    BY <1>7, <1>10, <2>1
  <2>3. Len(old) <= Reach(ch, old, N) /\ z[K] <= Len(old) /\ z[K] \in Int
    BY <1>3, <2>2 DEF Reach, N
  <2>4. Level(old, new, z[K], z[K] + Offset(ch, N), Len(old), Len(old) + Offset(ch, N))
    <3> DEFINE a == z[K]
               b == Len(old)
    <3>1. OldEnd(ch, N) <= a /\ a <= b /\ b <= Reach(ch, old, N) /\ a \in Int /\ b \in Int
      BY <1>3, <2>2, <2>3
    <3>2. \A t \in Int, u \in Int : OldEnd(ch, N) <= t /\ t <= u /\ u <= Reach(ch, old, N) =>
             Level(old, new, t, t + Offset(ch, N), u, u + Offset(ch, N))
      BY <1>1, <2>1, Unchanged DEF N
    <3> HIDE DEF a, b
    <3>3. Level(old, new, a, a + Offset(ch, N), b, b + Offset(ch, N))
      BY <3>1, <3>2
    <3>4. QED
      BY <3>3 DEF a, b
  <2>5. Len(old) + Offset(ch, N) = Len(new)
    <3>1. Level(old, new, OldEnd(ch, N), NewEnd(ch, N), Len(old), Len(new))
      BY <1>1 DEF Script, N
    <3>2. Len(old) - OldEnd(ch, N) = Len(new) - NewEnd(ch, N)
      BY <3>1 DEF Level
    <3>3. PICK u \in Int, v \in Int : u = OldEnd(ch, N) /\ v = NewEnd(ch, N)
      BY <1>3, <2>1
    <3>4. Offset(ch, N) = v - u /\ Len(old) - u = Len(new) - v
      BY <3>2, <3>3 DEF Offset
    <3>5. Len(old) + (v - u) = Len(new)
      BY <1>3, <3>4
    <3>6. QED
      BY <3>4, <3>5
  <2>6. QED
    BY <2>2, <2>4, <2>5
<1>13. blocks = [k \in 1 .. K |-> blocks[k]] /\ Len(blocks) = K
  BY <1>3 DEF K
<1>14. Covers(blocks, old, new, oh, nh, K, x, z, d)
  BY <1>3, <1>7, <1>8, <1>9, <1>10, <1>11, <1>12, <1>13 DEF Covers
<1>15. QED
  BY <1>14

\* A new file is a block of its own.
Inserted(new, nh) == [i \in 1 .. Len(new) |-> Entry("insert", new[i], 0, i, HashAt(nh, i))]

\* The lines of a new file say the new text and nothing of an old one.
LEMMA NewLines ==
  ASSUME NEW A, NEW new \in Seq(A), NEW oh, NEW nh
  PROVE  /\ Inserted(new, nh) \in Seq(Labeled(<<>>, new, oh, nh, 0))
         /\ Len(Inserted(new, nh)) = Len(new)
         /\ Said(Inserted(new, nh), OldTypes) = <<>> /\ Said(Inserted(new, nh), NewTypes) = new
<1>0. PICK more : more = Inserted(new, nh)
  OBVIOUS
<1> DEFINE E == Labeled(<<>>, new, oh, nh, 0)
           n == Len(new)
<1>1. n \in Nat /\ <<>> \in Seq(A) /\ <<>> \in Seq(E)
  BY LenProperties, EmptySeq
<1>2. ASSUME NEW i \in 1 .. n
      PROVE  /\ Entry("insert", new[i], 0, i, HashAt(nh, i)) \in E
             /\ Entry("insert", new[i], 0, i, HashAt(nh, i)).type = "insert"
             /\ Entry("insert", new[i], 0, i, HashAt(nh, i)).content = new[i]
  <2>1. Entry("insert", new[i], 0, i - 0, HashAt(nh, i)) \in E
    BY DEF Labeled
  <2>2. i - 0 = i
    BY <1>1
  <2>3. QED
    BY <2>1, <2>2 DEF Entry
<1> HIDE DEF E
<1>3. more \in [1 .. n -> E] /\ \A i \in 1 .. n : more[i].type = "insert" /\ more[i].content = new[i]
  BY <1>0, <1>2 DEF Inserted
<1>4. more \in Seq(E) /\ Len(more) = n
  BY <1>1, <1>3
<1>5. ReadIn(E, A)
  BY <1>1, LabeledContent DEF E, ReadIn
<1>6. Reads(more, new) /\ AllOf(more, NewTypes) /\ NoneOf(more, OldTypes)
  BY <1>3, <1>4 DEF Reads, AllOf, NoneOf, OldTypes, NewTypes
<1>7. \A types : SaysAfter(<<>>, more, types, new)
  BY <1>1, <1>4, <1>5, <1>6, SaidMore
<1>8. Cat(<<>>, more) = more /\ Cat(<<>>, new) = new
  BY <1>4, CatFacts
<1>9. \A types : Said(<<>>, types) = <<>>
  BY SaidNothing
<1>10. QED
  BY <1>0, <1>4, <1>6, <1>7, <1>8, <1>9 DEF SaysAfter, E

\* Its block covers all of it.
LEMMA NewFileCovers ==
  ASSUME NEW A, NEW new \in Seq(A), NEW oh, NEW nh,
         NEW blocks, blocks = IF new = <<>> THEN <<>> ELSE <<NewFileBlock(new, nh)>>
  PROVE  \E K, x, z, d : Covers(blocks, <<>>, new, oh, nh, K, x, z, d)
<1> DEFINE n == Len(new)
           none == <<>>
<1>1. n \in Nat /\ none \in Seq(A) /\ Len(none) = 0
  BY LenProperties, EmptySeq
<1>2. CASE new = <<>>
  <2> DEFINE z == [k \in 0 .. 0 |-> 0]
  <2>1. z[0] = 0 /\ n = 0 /\ blocks = <<>>
    BY <1>2
  <2> HIDE DEF z
  <2>2. Level(none, new, z[0], z[0] + z[0], Len(none), Len(new))
    BY <1>1, <2>1 DEF Level
  <2>3. blocks = [k \in 1 .. 0 |-> blocks[k]] /\ Len(blocks) = 0
    BY <2>1
  <2>4. \A k \in 0 .. 0 : z[k] \in 0 .. Len(none) /\ z[k] \in Int /\ z[k] + z[k] \in 0 .. Len(new)
    BY <1>1, <2>1
  <2> HIDE DEF none
  <2>5. Covers(blocks, none, new, oh, nh, 0, z, z, z)
    BY <2>1, <2>2, <2>3, <2>4 DEF Covers
  <2>6. QED
    BY <2>5 DEF none
<1>3. CASE new # <<>>
  <2> DEFINE z == [k \in 0 .. 1 |-> 0]
             d == [k \in 0 .. 1 |-> IF k = 0 THEN 0 ELSE n]
             blk == NewFileBlock(new, nh)
             E == Labeled(none, new, oh, nh, 0)
  <2>0. PICK more : more = Inserted(new, nh)
    OBVIOUS
  <2>1. z[0] = 0 /\ z[1] = 0 /\ d[0] = 0 /\ d[1] = n /\ blocks = <<blk>>
    BY <1>3
  <2>2. /\ more \in Seq(E) /\ Len(more) = n
        /\ Said(more, OldTypes) = <<>> /\ Said(more, NewTypes) = new
    <3>1. /\ Inserted(new, nh) \in Seq(Labeled(<<>>, new, oh, nh, 0))
          /\ Len(Inserted(new, nh)) = Len(new)
          /\ Said(Inserted(new, nh), OldTypes) = <<>> /\ Said(Inserted(new, nh), NewTypes) = new
      BY NewLines
    <3>2. QED
      BY <2>0, <3>1
  <2>3. /\ blk.oldStart = 0 /\ blk.oldCount = 0 /\ blk.newCount = n /\ blk.lines = more
    BY <2>0 DEF NewFileBlock, Inserted
  <2> HIDE DEF z, d, blk, E
  <2>4. Seg(none, 0, 0) = <<>> /\ Seg(new, 0, n) = new
    BY <1>1, SegFacts
  <2>5. Larger(0 - 1, 0) = 0
    BY DEF Larger
  <2>6. BlockShows(blk, none, new, oh, nh, 0, 0, 0, n)
    BY <1>1, <2>2, <2>3, <2>4, <2>5 DEF BlockShows, E
  <2>7. blocks = [k \in 1 .. 1 |-> blocks[k]] /\ Len(blocks) = 1 /\ blocks[1] = blk
    <3>a. blocks = <<blk>>
      BY <2>1
    <3>b. Len(<<blk>>) = 1 /\ <<blk>>[1] = blk
      OBVIOUS
    <3>1. Len(blocks) = 1 /\ blocks[1] = blk
      BY <3>a, <3>b, Zenon
    <3>2. blocks \in Seq({blk})
      BY <2>1, OneElement
    <3>3. blocks = [k \in 1 .. Len(blocks) |-> blocks[k]]
      BY <3>2
    <3>4. QED
      BY <3>1, <3>3
  <2>8. Level(none, new, 0, 0, 0, 0) /\ Level(none, new, 0, n, 0, n)
    BY <1>1 DEF Level
  <2>9. \A k \in 0 .. 1 : z[k] \in 0 .. Len(none) /\ d[k] \in Int /\ z[k] + d[k] \in 0 .. Len(new)
    <3> HIDE DEF none, n
    <3>1. /\ z[0] \in 0 .. Len(none) /\ d[0] \in Int /\ z[0] + d[0] = 0
          /\ z[1] \in 0 .. Len(none) /\ d[1] \in Int /\ z[1] + d[1] = n
      BY <1>1, <2>1
    <3>2. 0 \in 0 .. Len(new) /\ n \in 0 .. Len(new)
      BY <1>1 DEF n
    <3>3. \A k \in 0 .. 1 : k = 0 \/ k = 1
      OBVIOUS
    <3>4. QED
      BY <3>1, <3>2, <3>3
  <2> HIDE DEF none, n
  <2>10. ASSUME NEW k \in 1 .. 1
         PROVE  /\ Level(none, new, z[k - 1], z[k - 1] + d[k - 1], z[k], z[k] + d[k - 1])
                /\ z[k] <= z[k] /\ z[k] + d[k - 1] <= z[k] + d[k]
                /\ BlockShows(blocks[k], none, new, oh, nh, z[k], z[k], d[k - 1], d[k])
    <3>1. k = 1 /\ k - 1 = 0
      OBVIOUS
    <3>2. /\ z[k - 1] = 0 /\ z[k] = 0 /\ d[k - 1] = 0 /\ d[k] = n /\ blocks[k] = blk
      BY <2>1, <2>7, <3>1
    <3>3. z[k - 1] + d[k - 1] = 0 /\ z[k] + d[k - 1] = 0
      BY <3>2
    <3>4. z[k] <= z[k] /\ z[k] + d[k - 1] <= z[k] + d[k]
      BY <1>1, <3>2
    <3>5. Level(none, new, z[k - 1], z[k - 1] + d[k - 1], z[k], z[k] + d[k - 1])
      BY <2>8, <3>2, <3>3
    <3>6. QED
      BY <2>6, <3>2, <3>4, <3>5
  <2>11. Level(none, new, z[1], z[1] + d[1], Len(none), Len(new))
    <3>1. z[1] + d[1] = n /\ z[1] = 0 /\ Len(none) = 0
      BY <1>1, <2>1
    <3>2. QED
      BY <2>8, <3>1 DEF n
  <2>12. Covers(blocks, none, new, oh, nh, 1, z, z, d)
    BY <2>1, <2>7, <2>9, <2>10, <2>11 DEF Covers
  <2>13. QED
    BY <2>12 DEF none
<1>4. QED
  BY <1>2, <1>3

\* Both diffs cover the texts they are of; the textual one up to the lines of a new file
\* that it may show.
LEMMA StructuredCovers ==
  ASSUME NEW A, NEW old \in Seq(A), NEW new \in Seq(A), NEW oh, NEW nh
  PROVE  \E K, x, z, d : Covers(StructuredDiff(old, new, oh, nh), old, new, oh, nh, K, x, z, d)
<1> DEFINE blocks == StructuredDiff(old, new, oh, nh)
           ch == FindChanges(old, new)
           hs == Hunks(old, ch)
<1>1. CASE old = <<>>
  <2>1. blocks = IF new = <<>> THEN <<>> ELSE <<NewFileBlock(new, nh)>>
    BY <1>1 DEF StructuredDiff
  <2> HIDE DEF blocks
  <2>2. QED
    BY <1>1, <2>1, NewFileCovers DEF blocks
<1>2. CASE old # <<>>
  <2>1. blocks = [k \in 1 .. Len(hs) |-> FormatStructuredHunk(old, new, ch, hs[k], oh, nh)]
    BY <1>2 DEF StructuredDiff
  <2> HIDE DEF blocks, ch, hs
  <2>2. ch = FindChanges(old, new) /\ hs = Hunks(old, ch)
    BY DEF ch, hs
  <2>3. \E K, x, z, d : Covers(blocks, old, new, oh, nh, K, x, z, d)
    BY <2>1, <2>2, HunksCover
  <2>4. QED
    BY <2>3 DEF blocks
<1>3. QED
  BY <1>1, <1>2

LEMMA UnifiedCovers ==
  ASSUME NEW A, NEW old \in Seq(A), NEW new \in Seq(A), old # <<>> \/ Len(new) <= 1000
  PROVE  \E K, x, z, d : Covers(UnifiedDiff(old, new), old, new, <<>>, <<>>, K, x, z, d)
<1> DEFINE blocks == UnifiedDiff(old, new)
           ch == FindChanges(old, new)
           hs == Hunks(old, ch)
<1>1. CASE old = <<>>
  <2>1. blocks = IF new = <<>> THEN <<>> ELSE <<NewFileBlock(new, <<>>)>>
    BY <1>1 DEF UnifiedDiff, NewFileDiff
  <2> HIDE DEF blocks
  <2>2. QED
    BY <1>1, <2>1, NewFileCovers DEF blocks
<1>2. CASE old # <<>>
  <2>0. DOMAIN hs = 1 .. Len(hs)
    <3>1. Script(ch, old, new, Len(old), Len(new))
      BY ChangesAreScript
    <3> HIDE DEF ch
    <3>2. hs \in Seq(HunkSet)
      BY <3>1, HunksAreRuns DEF Script
    <3>3. QED
      BY <3>2, LenProperties
  <2>1. blocks = [k \in 1 .. Len(hs) |-> FormatStructuredHunk(old, new, ch, hs[k], <<>>, <<>>)]
    BY <1>2, <2>0 DEF UnifiedDiff, FormatHunk
  <2> HIDE DEF blocks, ch, hs
  <2>2. ch = FindChanges(old, new) /\ hs = Hunks(old, ch)
    BY DEF ch, hs
  <2>3. \E K, x, z, d : Covers(blocks, old, new, <<>>, <<>>, K, x, z, d)
    BY <2>1, <2>2, HunksCover
  <2>4. QED
    BY <2>3 DEF blocks
<1>3. QED
  BY <1>1, <1>2

-----------------------------------------------------------------------------
(* The blocks put into the old text. *)

\* Blocks that cover two texts make the new one of the old one.
LEMMA CoversPatch ==
  ASSUME NEW A, NEW old \in Seq(A), NEW new \in Seq(A), NEW oh, NEW nh, NEW blocks,
         NEW K, NEW x, NEW z, NEW d, Covers(blocks, old, new, oh, nh, K, x, z, d)
  PROVE  Patched(old, blocks) = [fits |-> TRUE, text |-> new]
<1> DEFINE Put(k, w) ==
              LET b == blocks[k]
                  from == Larger(b.oldStart - 1, 0)
                  to == from + b.oldCount
              IN [at   |-> to,
                  text |-> w.text \o SubSeq(old, w.at + 1, from)
                                  \o Said(b.lines, {"context", "insert"}),
                  fits |-> /\ w.fits /\ w.at <= from
                           /\ Said(b.lines, {"context", "delete"}) = SubSeq(old, from + 1, to)]
           base == [at |-> 0, text |-> <<>>, fits |-> TRUE]
           part == CHOOSE f : f = [k \in 0 .. Len(blocks) |-> IF k = 0 THEN base ELSE Put(k, f[k - 1])]
           Want(k) == [at |-> z[k], text |-> Seg(new, 0, z[k] + d[k]), fits |-> TRUE]
           W == [k \in 0 .. K |-> Want(k)]
<1>1. Patched(old, blocks) = [fits |-> part[Len(blocks)].fits,
                              text |-> part[Len(blocks)].text
                                         \o SubSeq(old, part[Len(blocks)].at + 1, Len(old))]
  BY DEF Patched
<1>2. /\ K \in Nat /\ Len(blocks) = K /\ z[0] = 0 /\ d[0] = 0
      /\ \A k \in 0 .. K : z[k] \in 0 .. Len(old) /\ d[k] \in Int /\ z[k] + d[k] \in 0 .. Len(new)
      /\ Level(old, new, z[K], z[K] + d[K], Len(old), Len(new))
      /\ Len(old) \in Nat /\ Len(new) \in Nat
  BY LenProperties DEF Covers
<1>3. ASSUME NEW k \in 1 .. K PROVE Put(k, Want(k - 1)) = Want(k)
  <2> DEFINE z1 == z[k - 1]
             d1 == d[k - 1]
             z2 == z[k]
             d2 == d[k]
             u == x[k]
             b == blocks[k]
  <2>1. k - 1 \in 0 .. K /\ k \in 0 .. K
    BY <1>2
  <2>2. /\ z1 \in 0 .. Len(old) /\ d1 \in Int /\ z1 + d1 \in 0 .. Len(new)
        /\ z2 \in 0 .. Len(old) /\ d2 \in Int /\ z2 + d2 \in 0 .. Len(new)
    BY <1>2, <2>1
  <2>3. /\ Level(old, new, z1, z1 + d1, u, u + d1)
        /\ u <= z2 /\ u + d1 <= z2 + d2
        /\ BlockShows(b, old, new, oh, nh, u, z2, d1, d2)
    BY DEF Covers
  <2> HIDE DEF z1, d1, z2, d2, u, b
  <2>4. u \in 0 .. Len(old) /\ u + d1 \in 0 .. Len(new) /\ z1 <= u
    BY <2>3 DEF Level
  <2>5. Seg(old, z1, u) = Seg(new, z1 + d1, u + d1) /\ z1 + d1 <= u + d1
    BY <2>3, LevelSeg
  <2>6. /\ Larger(b.oldStart - 1, 0) = u /\ b.oldCount = z2 - u
        /\ Said(b.lines, {"context", "delete"}) = Seg(old, u, z2)
        /\ Said(b.lines, {"context", "insert"}) = Seg(new, u + d1, z2 + d2)
    BY <2>3 DEF BlockShows, OldTypes, NewTypes
  <2>7. u + (z2 - u) = z2
    BY <1>2, <2>2, <2>4
  <2>8. Cat(Cat(Seg(new, 0, z1 + d1), Seg(old, z1, u)), Seg(new, u + d1, z2 + d2)) = Seg(new, 0, z2 + d2)
    <3>1. PICK i \in 0 .. Len(new), j \in 0 .. Len(new), n \in 0 .. Len(new) :
             i = z1 + d1 /\ j = u + d1 /\ n = z2 + d2 /\ i <= j /\ j <= n
      BY <2>2, <2>3, <2>4, <2>5
    <3>2. 0 \in 0 .. Len(new) /\ 0 <= i /\ 0 <= j
      BY <1>2
    <3>3. Cat(Seg(new, 0, i), Seg(new, i, j)) = Seg(new, 0, j)
      BY <3>1, <3>2, SegFacts
    <3>4. Cat(Seg(new, 0, j), Seg(new, j, n)) = Seg(new, 0, n)
      BY <3>1, <3>2, SegFacts
    <3>5. Cat(Cat(Seg(new, 0, i), Seg(new, i, j)), Seg(new, j, n)) = Seg(new, 0, n)
      BY <3>3, <3>4
    <3>6. QED
      BY <2>5, <3>1, <3>5
  <2>9. Want(k - 1) = [at |-> z1, text |-> Seg(new, 0, z1 + d1), fits |-> TRUE]
    BY DEF z1, d1
  <2>10. Want(k) = [at |-> z2, text |-> Seg(new, 0, z2 + d2), fits |-> TRUE]
    BY DEF z2, d2
  <2> HIDE DEF Want
  <2>11. Put(k, Want(k - 1)) =
           [at   |-> u + (z2 - u),
            text |-> Cat(Cat(Seg(new, 0, z1 + d1), Seg(old, z1, u)), Seg(new, u + d1, z2 + d2)),
            fits |-> z1 <= u /\ Seg(old, u, z2) = Seg(old, u, u + (z2 - u))]
    <3>1. /\ Want(k - 1).at = z1 /\ Want(k - 1).text = Seg(new, 0, z1 + d1) /\ Want(k - 1).fits = TRUE
      BY <2>9
    <3>2. Put(k, Want(k - 1)) =
           [at   |-> Larger(b.oldStart - 1, 0) + b.oldCount,
            text |-> Cat(Cat(Want(k - 1).text, Seg(old, Want(k - 1).at, Larger(b.oldStart - 1, 0))),
                         Said(b.lines, {"context", "insert"})),
            fits |-> /\ Want(k - 1).fits /\ Want(k - 1).at <= Larger(b.oldStart - 1, 0)
                     /\ Said(b.lines, {"context", "delete"})
                          = Seg(old, Larger(b.oldStart - 1, 0), Larger(b.oldStart - 1, 0) + b.oldCount)]
      BY DEF b, Cat, Seg
    <3> HIDE DEF Put
    <3>3. QED
      BY <2>6, <3>1, <3>2
  <2> HIDE DEF Put
  <2>12. (z1 <= u /\ Seg(old, u, z2) = Seg(old, u, u + (z2 - u))) = TRUE
    BY <2>4, <2>7
  <2>13. QED
    BY <2>7, <2>8, <2>10, <2>11, <2>12
<1>4. Want(0) = base
  <2>1. Seg(new, 0, 0) = <<>> /\ z[0] + d[0] = 0
    BY <1>2, SegFacts
  <2>2. QED
    BY <1>2, <2>1
<1> HIDE DEF Put, base, Want
<1>5. W = [k \in 0 .. K |-> IF k = 0 THEN base ELSE Put(k, W[k - 1])]
  <2>1. ASSUME NEW k \in 0 .. K PROVE W[k] = IF k = 0 THEN base ELSE Put(k, W[k - 1])
    <3>1. CASE k = 0
      BY <1>4, <3>1
    <3>2. CASE k # 0
      <4>1. k \in 1 .. K /\ k - 1 \in 0 .. K
        BY <1>2, <3>2
      <4>2. W[k - 1] = Want(k - 1) /\ W[k] = Want(k)
        BY <4>1
      <4> HIDE DEF W
      <4>3. QED
        BY <1>3, <3>2, <4>1, <4>2
    <3>3. QED
      BY <3>1, <3>2
  <2>2. W = [k \in 0 .. K |-> W[k]]
    OBVIOUS
  <2> HIDE DEF W
  <2>3. QED
    BY <2>1, <2>2
<1> HIDE DEF W
<1>6. part = [k \in 0 .. K |-> IF k = 0 THEN base ELSE Put(k, part[k - 1])]
  BY <1>2, <1>5
<1> HIDE DEF part
<1> DEFINE T == {k \in 0 .. K : part[k] = Want(k)}
<1>7. \A k \in 0 .. K : k \in T
  <2>1. 0 \in T
    BY <1>2, <1>4, <1>6
  <2>2. ASSUME NEW k \in 1 .. K, k - 1 \in T PROVE k \in T
    <3>1. k \in 0 .. K /\ k # 0 /\ part[k - 1] = Want(k - 1)
      BY <1>2, <2>2
    <3>2. part[k] = Put(k, part[k - 1])
      BY <1>6, <3>1
    <3>3. QED
      BY <1>3, <3>1, <3>2
  <2>3. T \in SUBSET (0 .. K)
    OBVIOUS
  <2> HIDE DEF T
  <2>4. QED
    BY <1>2, <2>1, <2>2, <2>3, LoopKeeps
<1>8. part[K] = Want(K)
  BY <1>2, <1>7 DEF T
<1>9. Cat(Seg(new, 0, z[K] + d[K]), Seg(old, z[K], Len(old))) = new
  <2> DEFINE z1 == z[K]
             i == z[K] + d[K]
  <2>1. K \in 0 .. K
    BY <1>2
  <2>2. i \in 0 .. Len(new) /\ Level(old, new, z1, i, Len(old), Len(new))
    BY <1>2, <2>1
  <2> HIDE DEF z1, i
  <2>3. Seg(old, z1, Len(old)) = Seg(new, i, Len(new)) /\ i <= Len(new)
    BY <2>2, LevelSeg
  <2>4. 0 \in 0 .. Len(new) /\ Len(new) \in 0 .. Len(new) /\ 0 <= i
    BY <1>2, <2>2
  <2>5. Cat(Seg(new, 0, i), Seg(new, i, Len(new))) = Seg(new, 0, Len(new)) /\ Seg(new, 0, Len(new)) = new
    BY <2>2, <2>3, <2>4, SegFacts
  <2>6. QED
    BY <2>3, <2>5 DEF z1, i
<1>10. part[K].at = z[K] /\ part[K].text = Seg(new, 0, z[K] + d[K]) /\ part[K].fits = TRUE
  BY <1>8 DEF Want
<1>11. Patched(old, blocks) = [fits |-> part[K].fits, text |-> Cat(part[K].text, Seg(old, part[K].at, Len(old)))]
  BY <1>1, <1>2 DEF Cat, Seg
<1>12. QED
  BY <1>9, <1>10, <1>11

\* For any two texts, hashes and lines of context: each block of their diff shows the old
\* lines it covers, and the old text with the blocks in their place is the new text.
THEOREM DiffIsComplete ==
  ASSUME NEW A, NEW old \in Seq(A), NEW new \in Seq(A), NEW oh, NEW nh
  PROVE  Patched(old, StructuredDiff(old, new, oh, nh)) = [fits |-> TRUE, text |-> new]
<1>1. PICK K, x, z, d : Covers(StructuredDiff(old, new, oh, nh), old, new, oh, nh, K, x, z, d)
  BY StructuredCovers
<1>2. QED
  BY <1>1, CoversPatch

-----------------------------------------------------------------------------
(* What the lines say of themselves. *)

\* A labeled line has the number and the hash of a line that reads so.
LEMMA LabeledTrue ==
  ASSUME NEW A, NEW old \in Seq(A), NEW new \in Seq(A), NEW oh, NEW nh, NEW d \in Int,
         NEW e \in Labeled(old, new, oh, nh, d)
  PROVE  /\ e.oldNumber # 0 => old[e.oldNumber] = e.content
         /\ e.newNumber # 0 => e.newNumber + d \in 1 .. Len(new) /\ new[e.newNumber + d] = e.content
         /\ \/ \E i \in 1 .. Len(old) : e.hash = HashAt(oh, i) /\ e.content = old[i]
            \/ \E j \in 1 .. Len(new) : e.hash = HashAt(nh, j) /\ e.content = new[j]
<1>1. Len(old) \in Nat /\ Len(new) \in Nat
  BY LenProperties
<1>2. ASSUME NEW p \in {q \in (1 .. Len(old)) \X (1 .. Len(new)) : old[q[1]] = new[q[2]]},
             e = Entry("context", old[p[1]], p[1], p[2] - d, HashAt(oh, p[1]))
      PROVE  /\ old[e.oldNumber] = e.content
             /\ e.newNumber + d \in 1 .. Len(new) /\ new[e.newNumber + d] = e.content
             /\ \E i \in 1 .. Len(old) : e.hash = HashAt(oh, i) /\ e.content = old[i]
  <2>1. PICK i \in 1 .. Len(old), j \in 1 .. Len(new) : i = p[1] /\ j = p[2] /\ old[i] = new[j]
    OBVIOUS
  <2>2. e = Entry("context", old[i], i, j - d, HashAt(oh, i))
    BY <1>2, <2>1
  <2>3. e.oldNumber = i /\ e.newNumber = j - d /\ e.content = old[i] /\ e.hash = HashAt(oh, i)
    BY <2>2 DEF Entry
  <2>4. j - d + d = j
    BY <1>1
  <2>5. e.newNumber + d = j
    BY <2>3, <2>4
  <2>6. QED
    BY <2>1, <2>3, <2>5
<1>3. ASSUME NEW i \in 1 .. Len(old), e = Entry("delete", old[i], i, 0, HashAt(oh, i))
      PROVE  /\ old[e.oldNumber] = e.content /\ e.newNumber = 0
             /\ \E k \in 1 .. Len(old) : e.hash = HashAt(oh, k) /\ e.content = old[k]
  <2>1. e.oldNumber = i /\ e.newNumber = 0 /\ e.content = old[i] /\ e.hash = HashAt(oh, i)
    BY <1>3 DEF Entry
  <2>2. QED
    BY <2>1
<1>4. ASSUME NEW j \in 1 .. Len(new), e = Entry("insert", new[j], 0, j - d, HashAt(nh, j))
      PROVE  /\ e.oldNumber = 0
             /\ e.newNumber + d \in 1 .. Len(new) /\ new[e.newNumber + d] = e.content
             /\ \E k \in 1 .. Len(new) : e.hash = HashAt(nh, k) /\ e.content = new[k]
  <2>1. e.oldNumber = 0 /\ e.newNumber = j - d /\ e.content = new[j] /\ e.hash = HashAt(nh, j)
    BY <1>4 DEF Entry
  <2>2. j - d + d = j
    BY <1>1
  <2>3. e.newNumber + d = j
    BY <2>1, <2>2
  <2>4. QED
    BY <2>1, <2>3
<1>5. \/ \E p \in {q \in (1 .. Len(old)) \X (1 .. Len(new)) : old[q[1]] = new[q[2]]} :
            e = Entry("context", old[p[1]], p[1], p[2] - d, HashAt(oh, p[1]))
      \/ \E i \in 1 .. Len(old) : e = Entry("delete", old[i], i, 0, HashAt(oh, i))
      \/ \E j \in 1 .. Len(new) : e = Entry("insert", new[j], 0, j - d, HashAt(nh, j))
  BY Zenon DEF Labeled
<1>6. CASE \E p \in {q \in (1 .. Len(old)) \X (1 .. Len(new)) : old[q[1]] = new[q[2]]} :
              e = Entry("context", old[p[1]], p[1], p[2] - d, HashAt(oh, p[1]))
  BY <1>2, <1>6
<1>7. CASE \E i \in 1 .. Len(old) : e = Entry("delete", old[i], i, 0, HashAt(oh, i))
  BY <1>3, <1>7
<1>8. CASE \E j \in 1 .. Len(new) : e = Entry("insert", new[j], 0, j - d, HashAt(nh, j))
  BY <1>4, <1>8
<1>9. QED
  BY <1>5, <1>6, <1>7, <1>8

\* What the earlier blocks add.
LEMMA CoversNet ==
  ASSUME NEW old, NEW new, NEW oh, NEW nh, NEW K, NEW x, NEW z, NEW d,
         Covers(preview, old, new, oh, nh, K, x, z, d), NEW k \in 1 .. K
  PROVE  NetBefore(k) = d[k - 1]
<1> DEFINE M == k - 1
           W(i) == preview[i].newCount - preview[i].oldCount
           sum == CHOOSE f : f = [i \in 0 .. M |->
                     IF i = 0 THEN 0 ELSE f[i - 1] + (preview[i].newCount - preview[i].oldCount)]
           g == [i \in 0 .. M |-> d[i]]
<1>1. NetBefore(k) = sum[M]
  BY DEF NetBefore
<1>2. K \in Nat /\ M \in Nat /\ d[0] = 0 /\ \A i \in 0 .. K : d[i] \in Int
  BY DEF Covers
<1>3. ASSUME NEW i \in 1 .. M PROVE d[i] = d[i - 1] + W(i)
  <2>1. i \in 1 .. K /\ i \in 0 .. K /\ i - 1 \in 0 .. K
    BY <1>2
  <2>2. BlockShows(preview[i], old, new, oh, nh, x[i], z[i], d[i - 1], d[i])
    BY <2>1 DEF Covers
  <2>3. W(i) = d[i] - d[i - 1]
    BY <2>2 DEF BlockShows
  <2>4. d[i] \in Int /\ d[i - 1] \in Int
    BY <1>2, <2>1
  <2> HIDE DEF W
  <2>5. QED
    BY <2>3, <2>4
<1> HIDE DEF W, M
<1>4. g = [i \in 0 .. M |-> IF i = 0 THEN 0 ELSE g[i - 1] + W(i)]
  <2>1. ASSUME NEW i \in 0 .. M PROVE g[i] = IF i = 0 THEN 0 ELSE g[i - 1] + W(i)
    <3>1. CASE i = 0
      BY <1>2, <3>1
    <3>2. CASE i # 0
      <4>1. i \in 1 .. M /\ i - 1 \in 0 .. M
        BY <1>2, <3>2
      <4>2. g[i] = d[i] /\ g[i - 1] = d[i - 1]
        BY <4>1
      <4> HIDE DEF g
      <4>3. QED
        BY <1>3, <3>2, <4>1, <4>2
    <3>3. QED
      BY <3>1, <3>2
  <2>2. g = [i \in 0 .. M |-> g[i]]
    OBVIOUS
  <2> HIDE DEF g
  <2>3. QED
    BY <2>1, <2>2
<1> HIDE DEF g
<1>5. sum = [i \in 0 .. M |-> IF i = 0 THEN 0 ELSE sum[i - 1] + W(i)]
  BY <1>4 DEF W
<1> HIDE DEF sum
<1> DEFINE T == {i \in 0 .. M : sum[i] = d[i]}
<1>6. \A i \in 0 .. M : i \in T
  <2>1. 0 \in T
    BY <1>2, <1>5
  <2>2. ASSUME NEW i \in 1 .. M, i - 1 \in T PROVE i \in T
    <3>1. i \in 0 .. M /\ i # 0 /\ sum[i - 1] = d[i - 1]
      BY <1>2, <2>2
    <3>2. sum[i] = sum[i - 1] + W(i)
      BY <1>5, <3>1
    <3>3. QED
      BY <1>3, <3>1, <3>2
  <2>3. T \in SUBSET (0 .. M)
    OBVIOUS
  <2> HIDE DEF T
  <2>4. QED
    BY <1>2, <2>1, <2>2, <2>3, LoopKeeps
<1>7. sum[M] = d[M]
  <2>1. M \in 0 .. M
    BY <1>2
  <2>2. QED
    BY <1>6, <2>1 DEF T
<1>8. QED
  BY <1>1, <1>7 DEF M

-----------------------------------------------------------------------------
(* The texts of an edit. *)

\* The edited texts, whatever the set they are of.
LEMMA AppliedType ==
  ASSUME NEW A, NEW texts \in Seq(A), NEW es, \A k \in DOMAIN es : IsEdit(es[k], A)
  PROVE  ApplyEdits(texts, es) \in Seq(A)
<1> DEFINE N == Len(texts)
           Edited(n) == \E k \in DOMAIN es : es[k].line = n
           Of(n) == es[CHOOSE k \in DOMAIN es : es[k].line = n]
           O == [n \in 1 .. N |-> IF Edited(n) THEN Does(Of(n), texts[n]) ELSE <<texts[n]>>]
<1>1. N \in Nat /\ \A n \in 1 .. N : texts[n] \in A
  BY LenProperties, ElementOfSeq
<1>2. Makes(O, texts, es)
  BY DEF Makes
<1>3. ASSUME NEW n \in 1 .. N
      PROVE  (IF Edited(n) THEN Does(Of(n), texts[n]) ELSE <<texts[n]>>) \in Seq(A)
  <2>1. CASE Edited(n)
    <3>1. IsEdit(Of(n), A)
      BY <2>1
    <3>2. QED
      BY <1>1, <2>1, <3>1, DoesType
  <2>2. CASE ~Edited(n)
    <3>1. texts[n] \in A
      BY <1>1
    <3>2. <<texts[n]>> \in Seq(A)
      BY <3>1, OneElement
    <3>3. QED
      BY <2>2, <3>2
  <2>3. QED
    BY <2>1, <2>2
<1> HIDE DEF N, Edited, Of
<1>4. O \in [1 .. N -> Seq(A)]
  BY <1>3
<1> HIDE DEF O
<1>5. PICK R \in [1 .. N + 1 -> Seq(A)] : Joins(R, O, N)
  BY <1>1, <1>4, JoinsExist
<1>6. ApplyEdits(texts, es) = R[1]
  BY <1>2, <1>4, <1>5, AppliesToAll DEF N
<1>7. 1 \in 1 .. N + 1
  BY <1>1
<1>8. QED
  BY <1>5, <1>6, <1>7

LEMMA FlattenType ==
  ASSUME NEW A, NEW O \in Seq(Seq(A))
  PROVE  FlattenSeq(O) \in Seq(A)
<1> DEFINE N == Len(O)
<1>1. N \in Nat /\ O \in [1 .. N -> Seq(A)]
  BY LenProperties
<1> HIDE DEF N
<1>2. PICK R \in [1 .. N + 1 -> Seq(A)] : Joins(R, O, N)
  BY <1>1, JoinsExist
<1>3. FlattenSeq(O) = R[1] /\ 1 \in 1 .. N + 1
  BY <1>1, <1>2, FlattenIsJoin DEF N
<1>4. QED
  BY <1>2, <1>3

\* Texts of one line each are joined to those lines.
LEMMA FlattenSingles ==
  ASSUME NEW A, NEW O \in Seq(Seq(A)), \A i \in 1 .. Len(O) : Len(O[i]) = 1
  PROVE  /\ Len(FlattenSeq(O)) = Len(O)
         /\ \A i \in 1 .. Len(O) : FlattenSeq(O)[i] = O[i][1]
<1> DEFINE N == Len(O)
<1>1. N \in Nat /\ O \in [1 .. N -> Seq(A)] /\ \A i \in 1 .. N : O[i] \in Seq(A)
  BY LenProperties, ElementOfSeq
<1>2. \A i \in 1 .. N : Len(O[i]) = 1
  OBVIOUS
<1> HIDE DEF N
<1>3. PICK R \in [1 .. N + 1 -> Seq(A)] : Joins(R, O, N)
  BY <1>1, JoinsExist
<1>4. FlattenSeq(O) = R[1]
  BY <1>1, <1>3, FlattenIsJoin DEF N
<1> DEFINE Good(i) == /\ Len(R[i]) = N + 1 - i
                      /\ \A j \in 1 .. N + 1 - i : R[i][j] = O[i + j - 1][1]
           P == {n \in Nat : n <= N => Good(N + 1 - n)}
<1>5. 0 \in P
  <2>1. R[N + 1] = <<>>
    BY <1>3 DEF Joins
  <2>2. Len(<<>>) = 0
    OBVIOUS
  <2>3. QED
    BY <1>1, <2>1, <2>2
<1>6. ASSUME NEW n \in P PROVE n + 1 \in P
  <2> SUFFICES ASSUME n + 1 <= N PROVE Good(N - n)
    <3>1. n \in Nat /\ N + 1 - (n + 1) = N - n
      BY <1>1
    <3> HIDE DEF Good
    <3>2. QED
      BY <3>1
  <2> DEFINE m == N - n
  <2>0. n \in Nat /\ n + 1 <= N
    <3> HIDE DEF Good
    <3>1. QED
      OBVIOUS
  <2>1. n \in Nat /\ n <= N /\ m \in 1 .. N /\ m + 1 \in 1 .. N + 1 /\ N + 1 - n = m + 1
    <3> HIDE DEF P
    <3>1. QED
      BY <1>1, <2>0
  <2>2. Good(m + 1)
    <3> HIDE DEF Good, m
    <3>1. QED
      BY <2>1
  <2> HIDE DEF m, P
  <2>3. R[m] = O[m] \o R[m + 1]
    BY <1>3, <2>1 DEF Joins, Cat
  <2>4. O[m] \in Seq(A) /\ R[m + 1] \in Seq(A) /\ Len(O[m]) = 1 /\ Len(R[m + 1]) = N - m
    <3>1. N + 1 - (m + 1) = N - m
      BY <1>1, <2>1
    <3>2. QED
      BY <1>1, <1>2, <1>3, <2>1, <2>2, <3>1
  <2>5. /\ Len(R[m]) = Len(O[m]) + Len(R[m + 1])
        /\ \A j \in 1 .. Len(O[m]) + Len(R[m + 1]) :
              R[m][j] = IF j <= Len(O[m]) THEN O[m][j] ELSE R[m + 1][j - Len(O[m])]
    <3> DEFINE first == O[m]
               rest == R[m + 1]
    <3>1. first \in Seq(A) /\ rest \in Seq(A) /\ R[m] = first \o rest
      BY <2>3, <2>4
    <3> HIDE DEF first, rest, Good
    <3>2. /\ Len(first \o rest) = Len(first) + Len(rest)
          /\ \A j \in 1 .. Len(first) + Len(rest) :
                (first \o rest)[j] = IF j <= Len(first) THEN first[j] ELSE rest[j - Len(first)]
      BY <3>1, ConcatProperties
    <3>3. QED
      BY <3>1, <3>2 DEF first, rest
  <2>6. Len(R[m]) = N + 1 - m
    BY <1>1, <2>1, <2>4, <2>5
  <2>7. ASSUME NEW j \in 1 .. N + 1 - m PROVE R[m][j] = O[m + j - 1][1]
    <3>1. CASE j = 1
      <4>1. m + j - 1 = m /\ j \in 1 .. Len(O[m]) + Len(R[m + 1]) /\ j <= Len(O[m])
        BY <1>1, <2>1, <2>4, <3>1
      <4>2. QED
        BY <2>5, <3>1, <4>1
    <3>2. CASE j # 1
      <4>1. /\ j \in 1 .. Len(O[m]) + Len(R[m + 1]) /\ ~(j <= Len(O[m]))
            /\ j - Len(O[m]) = j - 1 /\ j - 1 \in 1 .. N + 1 - (m + 1)
            /\ (m + 1) + (j - 1) - 1 = m + j - 1
        BY <1>1, <2>1, <2>4, <3>2
      <4>2. R[m][j] = R[m + 1][j - 1]
        BY <2>5, <4>1
      <4>3. R[m + 1][j - 1] = O[(m + 1) + (j - 1) - 1][1]
        BY <2>2, <4>1
      <4>4. QED
        BY <4>1, <4>2, <4>3
    <3>3. QED
      BY <3>1, <3>2
  <2>8. Good(m)
    BY <2>6, <2>7
  <2>9. QED
    BY <2>8 DEF m
<1> HIDE DEF P, Good
<1>7. P = Nat
  <2>1. P \in SUBSET Nat
    BY DEF P
  <2>2. QED
    BY <1>5, <1>6, <2>1, Induction
<1>8. Good(1)
  <2>1. N + 1 - N = 1 /\ N \in P /\ N <= N
    BY <1>1, <1>7
  <2>2. QED
    BY <2>1 DEF P
<1>9. N + 1 - 1 = N /\ \A j \in 1 .. N : 1 + j - 1 = j
  BY <1>1
<1>10. QED
  BY <1>4, <1>8, <1>9 DEF Good, N

\* A text put together with a newline at its end has one there, unless it is empty.
LEMMA NewlineKept ==
  ASSUME NEW texts \in Seq(Seq(Line))
  PROVE  LET text == AssembleContent(texts, TRUE)
         IN TrailingNewline(text) \/ text = <<Empty>>
<1> DEFINE flat == FlattenSeq(texts)
           more == flat \o <<Empty>>
<1>1. <<Empty>> \in Seq(Line) /\ Len(<<Empty>>) = 1 /\ <<Empty>>[1] = Empty
  BY LinesAssumption, OneElement DEF Line
<1>2. flat \in Seq(Line) /\ Len(flat) \in Nat
  <2>1. flat \in Seq(Line)
    BY FlattenType
  <2> HIDE DEF flat
  <2>2. QED
    BY <2>1, LenProperties
<1>3. AssembleContent(texts, TRUE) = IF texts = <<>> THEN <<Empty>> ELSE more
  BY DEF AssembleContent
<1> HIDE DEF flat
<1>4. Len(more) = Len(flat) + 1 /\ more[Len(flat) + 1] = Empty
  BY <1>1, <1>2, ConcatProperties
<1>5. CASE flat = <<>>
  <2>1. more = <<Empty>>
    BY <1>1, <1>5, ConcatEmptySeq
  <2>2. QED
    BY <1>3, <2>1
<1>6. CASE flat # <<>>
  <2>1. Len(flat) # 0
    BY <1>2, <1>6, EmptySeq
  <2> HIDE DEF more
  <2>2. TrailingNewline(more)
    BY <1>2, <1>4, <2>1 DEF TrailingNewline, Last
  <2>3. QED
    BY <1>3, <2>2
<1>7. QED
  BY <1>5, <1>6

\* The text of the edited lines, and its lines: if each edit brings one line, they are
\* those of the edited texts.
LEMMA AssembledLines ==
  ASSUME NEW texts \in Seq(Seq(Line)), NEW trailing \in BOOLEAN
  PROVE  LET text == AssembleContent(texts, trailing)
             new == SplitLines(text)
         IN /\ text \in Seq(Line) /\ new \in Seq(Line)
            /\ (\A i \in 1 .. Len(texts) : Len(texts[i]) = 1) =>
                  \A j \in DOMAIN new : j \in DOMAIN texts /\ texts[j] = <<new[j]>>
<1> DEFINE flat == FlattenSeq(texts)
           text == AssembleContent(texts, trailing)
           new == SplitLines(text)
<1>1. Empty \in Line
  BY LinesAssumption DEF Line
<1>2. <<Empty>> \in Seq(Line) /\ Len(<<Empty>>) = 1 /\ <<Empty>>[1] = Empty
  BY <1>1, OneElement
<1>3. flat \in Seq(Line)
  BY FlattenType
<1> DEFINE more == flat \o <<Empty>>
<1>4. /\ more \in Seq(Line) /\ Len(more) = Len(flat) + 1 /\ more[Len(flat) + 1] = Empty
      /\ \A j \in 1 .. Len(flat) : more[j] = flat[j]
  <2>1. Len(flat) \in Nat
    BY <1>3, LenProperties
  <2> HIDE DEF flat
  <2>2. QED
    BY <1>2, <1>3, <2>1, ConcatProperties
<1>5. text = IF texts = <<>> THEN <<Empty>> ELSE IF trailing THEN more ELSE flat
  <2>1. flat \o <<>> = flat
    BY <1>3, ConcatEmptySeq
  <2>2. QED
    BY <2>1 DEF AssembleContent
<1> HIDE DEF flat, more, text
<1>6. text \in Seq(Line)
  BY <1>2, <1>3, <1>4, <1>5
<1>7. new \in Seq(Line)
  BY <1>6, SplitLinesLines
<1>8. ASSUME \A i \in 1 .. Len(texts) : Len(texts[i]) = 1, NEW j \in DOMAIN new
      PROVE  j \in DOMAIN texts /\ texts[j] = <<new[j]>>
  <2>1. Len(flat) = Len(texts) /\ \A i \in 1 .. Len(texts) : flat[i] = texts[i][1]
    BY <1>8, FlattenSingles DEF flat
  <2>2. /\ Len(texts) \in Nat /\ DOMAIN texts = 1 .. Len(texts) /\ Len(flat) \in Nat
        /\ Len(text) \in Nat /\ DOMAIN text = 1 .. Len(text)
    BY <1>3, <1>6, LenProperties
  <2>3. \/ new = text /\ (text # <<>> => text[Len(text)] # Empty)
        \/ new = SubSeq(text, 1, Len(text) - 1) /\ text # <<>>
    BY DEF SplitLines, Front, Last, Absent
  <2>4. /\ \A i \in DOMAIN new : i \in 1 .. Len(text) /\ new[i] = text[i]
        /\ text # <<>> /\ text[Len(text)] = Empty => \A i \in DOMAIN new : i <= Len(text) - 1
    <3>1. CASE new = text /\ (text # <<>> => text[Len(text)] # Empty)
      BY <2>2, <3>1
    <3>2. CASE new = SubSeq(text, 1, Len(text) - 1) /\ text # <<>>
      <4>1. Len(text) - 1 \in Nat
        BY <1>6, <2>2, <3>2, EmptySeq
      <4>2. DOMAIN SubSeq(text, 1, Len(text) - 1) = 1 .. Len(text) - 1
        BY <4>1
      <4>3. \A i \in 1 .. Len(text) - 1 : SubSeq(text, 1, Len(text) - 1)[i] = text[i]
        BY <4>1
      <4> HIDE DEF new
      <4>4. DOMAIN new = 1 .. Len(text) - 1
        BY <3>2, <4>2
      <4>5. QED
        BY <2>2, <3>2, <4>3, <4>4
    <3> HIDE DEF new
    <3>3. QED
      BY <2>3, <3>1, <3>2
  <2> HIDE DEF new
  <2>5. j \in 1 .. Len(flat) /\ new[j] = flat[j]
    <3>1. CASE texts = <<>>
      <4>1. text = <<Empty>> /\ Len(text) = 1 /\ text[1] = Empty /\ text # <<>>
        BY <1>2, <1>5, <3>1
      <4>2. j \in 1 .. 1 /\ j <= 1 - 1
        BY <2>4, <4>1
      <4>3. QED
        BY <4>2
    <3>2. CASE texts # <<>> /\ trailing
      <4>1. text = more /\ Len(text) = Len(flat) + 1 /\ text[Len(text)] = Empty
        BY <1>4, <1>5, <3>2
      <4>2. text # <<>>
        BY <2>2, <4>1, EmptySeq, <1>6
      <4>3. j \in 1 .. Len(flat) + 1 /\ j <= Len(text) - 1 /\ new[j] = text[j]
        BY <2>4, <4>1, <4>2
      <4>4. j \in 1 .. Len(flat)
        BY <2>2, <4>1, <4>3
      <4>5. QED
        BY <1>4, <4>1, <4>3, <4>4
    <3>3. CASE texts # <<>> /\ ~trailing
      <4>1. text = flat
        BY <1>5, <3>3
      <4>2. QED
        BY <2>4, <4>1
    <3>4. QED
      BY <3>1, <3>2, <3>3
  <2>6. j \in 1 .. Len(texts) /\ new[j] = texts[j][1] /\ Len(texts[j]) = 1 /\ texts[j] \in Seq(Line)
    BY <1>8, <2>1, <2>5, ElementOfSeq
  <2>7. texts[j] = <<texts[j][1]>>
    <3> DEFINE t == texts[j]
    <3>1. t \in Seq(Line) /\ Len(t) = 1
      BY <2>6
    <3> HIDE DEF t
    <3>2. t = <<t[1]>>
      BY <3>1
    <3>3. QED
      BY <3>2 DEF t
  <2>8. QED
    BY <2>2, <2>6, <2>7
<1>9. QED
  BY <1>6, <1>7, <1>8 DEF text

\* Two blocks of the size that may be shown, each where its header says.
Halves(blocks, new, limit) ==
    /\ Len(blocks) = 2
    /\ limit = Len(blocks[1].lines) + Len(blocks[2].lines)
    /\ \A k \in DOMAIN blocks : LET block == blocks[k] IN
           [i \in DOMAIN block.lines |-> block.lines[i].content] =
               SubSeq(new, block.newStart, block.newStart + block.newCount - 1)

\* A line of a new file, without a hash.
Plain(e, new) == \E j \in 1 .. Len(new) : e = Entry("insert", new[j], 0, j, "none")

\* A long new file is shown in such blocks.
LEMMA LongNewFile ==
  ASSUME NEW A, NEW new \in Seq(A), NEW max \in Nat, Len(new) > max
  PROVE  LET p == NewFileDiff(new, max) IN
         /\ Halves(p, new, max)
         /\ \A k \in DOMAIN p : \A i \in DOMAIN p[k].lines : Plain(p[k].lines[i], new)
<1> DEFINE n == Len(new)
           ls == [i \in 1 .. n |-> Entry("insert", new[i], 0, i, HashAt(<<>>, i))]
           first == (max * 2) \div 3
           last == max - first
           from == n - last
           one == SubSeq(ls, 1, first)
           two == SubSeq(ls, from + 1, n)
           p == NewFileDiff(new, max)
<1>1. n \in Nat /\ first \in Nat /\ last \in Nat /\ from \in Nat /\ from + last = n /\ first <= n
      /\ first + last = max
  <2>1. n \in Nat
    BY LenProperties
  <2>2. first \in Nat /\ first <= max
    OBVIOUS
  <2> HIDE DEF first, n
  <2>3. QED
    BY <2>1, <2>2 DEF n
<1>2. new # <<>>
  <2>1. Len(<<>>) = 0
    OBVIOUS
  <2>2. QED
    BY <2>1
<1>3. \A i \in 1 .. n : ls[i] = Entry("insert", new[i], 0, i, "none")
  BY DEF HashAt
<1>4. p = <<[NewFileBlock(new, <<>>) EXCEPT !.newCount = first, !.lines = one],
            [NewFileBlock(new, <<>>) EXCEPT !.newStart = from + 1, !.newCount = last, !.lines = two]>>
  <2>1. ~(Len(new) <= max) /\ NewFileBlock(new, <<>>).lines = ls
    BY <1>1 DEF NewFileBlock
  <2> HIDE DEF ls
  <2>2. QED
    BY <1>2, <2>1 DEF NewFileDiff
<1>5. /\ p[1].lines = one /\ p[1].newStart = 1 /\ p[1].newCount = first
      /\ p[2].lines = two /\ p[2].newStart = from + 1 /\ p[2].newCount = last
      /\ Len(p) = 2 /\ DOMAIN p = 1 .. 2
  <2> DEFINE b1 == [NewFileBlock(new, <<>>) EXCEPT !.newCount = first, !.lines = one]
             b2 == [NewFileBlock(new, <<>>) EXCEPT !.newStart = from + 1, !.newCount = last,
                                                   !.lines = two]
  <2> HIDE DEF ls, first, last, from, one, two, n, p
  <2>1. /\ b1.lines = one /\ b1.newStart = 1 /\ b1.newCount = first
        /\ b2.lines = two /\ b2.newStart = from + 1 /\ b2.newCount = last
    BY DEF NewFileBlock
  <2> HIDE DEF b1, b2
  <2>2. p = <<b1, b2>>
    BY <1>4 DEF b1, b2
  <2>3. QED
    BY <2>1, <2>2
<1>6. /\ DOMAIN one = 1 .. first /\ Len(one) = first
      /\ \A i \in 1 .. first : i \in 1 .. n /\ one[i] = ls[i]
  <2> HIDE DEF ls, first, last, from, n
  <2>1. QED
    BY <1>1
<1>7. /\ DOMAIN two = 1 .. last /\ Len(two) = last
      /\ \A i \in 1 .. last : from + i \in 1 .. n /\ two[i] = ls[from + i]
  <2> HIDE DEF ls, first, last, from, n
  <2>1. n - (from + 1) + 1 = last /\ \A i \in 1 .. last : from + 1 + i - 1 = from + i
    BY <1>1
  <2>2. QED
    BY <1>1, <2>1
<1> HIDE DEF ls, first, last, from, n, one, two, p
<1>8. ASSUME NEW i \in 1 .. n PROVE ls[i].content = new[i]
  <2>1. ls[i] = Entry("insert", new[i], 0, i, "none")
    BY <1>3
  <2>2. Entry("insert", new[i], 0, i, "none").content = new[i]
    BY DEF Entry
  <2>3. QED
    BY <2>1, <2>2
<1>9. [i \in DOMAIN one |-> one[i].content] = SubSeq(new, 1, 1 + first - 1)
  <2>1. [i \in DOMAIN one |-> one[i].content] = [i \in 1 .. first |-> new[i]]
    BY <1>6, <1>8
  <2>2. SubSeq(new, 1, first) = [i \in 1 .. first |-> new[i]]
    BY <1>1
  <2>3. 1 + first - 1 = first
    BY <1>1
  <2>4. QED
    BY <2>1, <2>2, <2>3
<1>10. [i \in DOMAIN two |-> two[i].content] = SubSeq(new, from + 1, from + 1 + last - 1)
  <2>1. [i \in DOMAIN two |-> two[i].content] = [i \in 1 .. last |-> new[from + i]]
    BY <1>7, <1>8
  <2>2. SubSeq(new, from + 1, n) = [i \in 1 .. last |-> new[from + i]]
    <3>1. n - (from + 1) + 1 = last /\ \A i \in 1 .. last : from + 1 + i - 1 = from + i
      BY <1>1
    <3>2. QED
      BY <1>1, <3>1
  <2>3. from + 1 + last - 1 = n
    BY <1>1
  <2>4. QED
    BY <2>1, <2>2, <2>3
<1>11. ASSUME NEW k \in 1 .. 2
       PROVE  /\ [i \in DOMAIN p[k].lines |-> p[k].lines[i].content] =
                     SubSeq(new, p[k].newStart, p[k].newStart + p[k].newCount - 1)
              /\ \A i \in DOMAIN p[k].lines : Plain(p[k].lines[i], new)
  <2>1. k = 1 \/ k = 2
    OBVIOUS
  <2>2. \A i \in DOMAIN one : Plain(one[i], new)
    BY <1>3, <1>6 DEF Plain, n
  <2>3. \A i \in DOMAIN two : Plain(two[i], new)
    BY <1>3, <1>7 DEF Plain, n
  <2>4. CASE k = 1
    BY <1>5, <1>9, <2>2, <2>4
  <2>5. CASE k = 2
    BY <1>5, <1>10, <2>3, <2>5
  <2>6. QED
    BY <2>1, <2>4, <2>5
<1>12. Halves(p, new, max)
  BY <1>1, <1>5, <1>6, <1>7, <1>11 DEF Halves
<1>13. QED
  BY <1>5, <1>11, <1>12 DEF p

\* The lines of a new file that may be shown.
Limit(text) == IF text = Absent THEN MaxPreview ELSE 1000

\* The preview of write_file: the old lines and the blocks give the new ones, or there
\* were none and the new ones are too many.
LEMMA WritePreview ==
  ASSUME NEW text \in Seq(Line), NEW new \in Seq(Line)
  PROVE  LET old == SplitLines(text)
             p == PreviewText(new, text)
         IN \/ /\ old = <<>> /\ Len(SplitLines(new)) > Limit(text)
               /\ p = NewFileDiff(SplitLines(new), Limit(text))
            \/ /\ old = <<>> => Len(SplitLines(new)) <= Limit(text) /\ Len(p) <= 1
               /\ \E K, x, z, d : Covers(p, old, SplitLines(new), <<>>, <<>>, K, x, z, d)
<1> DEFINE old == SplitLines(text)
           to == SplitLines(new)
           p == PreviewText(new, text)
<1>1. old \in Seq(Line) /\ to \in Seq(Line) /\ Len(to) \in Nat /\ Limit(text) \in Nat
  <2>1. to \in Seq(Line)
    BY SplitLinesLines
  <2>2. QED
    BY <2>1, SplitLinesLines, LenProperties, BoundsAssumption DEF Limit
<1>2. text = Absent => old = <<>>
  BY DEF SplitLines, Absent
<1>3. p = IF text = Absent THEN NewFileDiff(to, MaxPreview) ELSE UnifiedDiff(old, to)
  BY DEF PreviewText
<1> HIDE DEF old, to, p
<1>4. old = <<>> => p = NewFileDiff(to, Limit(text))
  BY <1>2, <1>3 DEF Limit, UnifiedDiff
<1>5. CASE old # <<>>
  <2>1. p = UnifiedDiff(old, to)
    BY <1>2, <1>3, <1>5
  <2>2. \E K, x, z, d : Covers(UnifiedDiff(old, to), old, to, <<>>, <<>>, K, x, z, d)
    BY <1>1, <1>5, UnifiedCovers
  <2>3. QED
    BY <1>5, <2>1, <2>2 DEF old, to, p
<1>6. CASE old = <<>> /\ Len(to) <= Limit(text)
  <2>1. p = IF to = <<>> THEN <<>> ELSE <<NewFileBlock(to, <<>>)>>
    <3>1. p = NewFileDiff(to, Limit(text))
      BY <1>4, <1>6
    <3>2. QED
      BY <1>6, <3>1 DEF NewFileDiff
  <2>2. Len(p) <= 1
    BY <2>1
  <2>3. \E K, x, z, d : Covers(p, <<>>, to, <<>>, <<>>, K, x, z, d)
    BY <1>1, <2>1, NewFileCovers
  <2>4. QED
    BY <1>6, <2>2, <2>3 DEF old, to, p
<1>7. CASE old = <<>> /\ Len(to) > Limit(text)
  BY <1>4, <1>7 DEF old, to, p
<1>8. QED
  BY <1>1, <1>5, <1>6, <1>7

-----------------------------------------------------------------------------
(* The preview of a call. *)

\* The preview is the one of the call and of the text it was made of, the lines are what
\* the edits make of the text that was read last, and a file that was written holds them.
PreviewInv ==
    /\ basis \in Seq(Line) /\ content \in Seq(Line)
    /\ tool \in {"edit_file", "write_file"}
    /\ stage \in {"idle", "read"} => tool = "edit_file"
    /\ stage \in {"proposed", "planned", "written", "failed"} =>
         /\ tool = "edit_file" =>
              /\ refused <=> blind \/ Refuses(edits, basis)
              /\ preview = IF refused THEN <<>> ELSE PreviewStructured(edits, basis)
         /\ tool = "write_file" => preview = IF blind THEN <<>> ELSE PreviewText(content, basis)
    /\ stage \in {"planned", "written", "failed"} /\ tool = "edit_file"
             /\ ~Refuses(edits, source) =>
         lines = ApplyEdits(Texts(SplitLines(source)), edits)
    /\ stage = "planned" => tool = "edit_file"
    /\ stage = "written" =>
         \/ /\ tool = "edit_file" /\ ~Refuses(edits, source)
            /\ file = AssembleContent(lines, TrailingNewline(source))
         \/ tool = "write_file" /\ file = content

LEMMA PreviewInvInit == EditInit => PreviewInv
<1>1. <<Empty>> \in Seq(Line)
  <2>1. Empty \in Line
    BY LinesAssumption DEF Line
  <2>2. QED
    BY <2>1, OneElement
<1>2. QED
  BY <1>1 DEF EditInit, PreviewInv

LEMMA PreviewInvStep == EditInv /\ PreviewInv /\ [EditNext]_editVars => PreviewInv'
<1> SUFFICES ASSUME EditInv, PreviewInv, [EditNext]_editVars PROVE PreviewInv'
  OBVIOUS
<1>1. CASE ReadFile
  BY <1>1 DEF ReadFile, PreviewInv
<1>2. ASSUME NEW n \in 0 .. MaxEdits, NEW es \in [1 .. n -> Edit], ProposeEdits(es)
      PROVE  PreviewInv'
  <2>1. file \in Seq(Line)
    BY <1>2 DEF ProposeEdits, EditInv
  <2>2. QED
    BY <1>2, <2>1 DEF ProposeEdits, PreviewInv
<1>3. ASSUME NEW text \in Files \ {Absent}, ProposeWrite(text) PROVE PreviewInv'
  <2>1. file \in Seq(Line) /\ text \in Seq(Line)
    BY <1>3, LinesAssumption DEF ProposeWrite, EditInv, Line
  <2>2. QED
    BY <1>3, <2>1 DEF ProposeWrite, PreviewInv
<1>4. CASE Execute
  BY <1>4 DEF Execute, PreviewInv
<1>5. CASE CannotRead
  BY <1>5 DEF CannotRead, PreviewInv
<1>6. CASE WriteEdits
  <2>1. /\ stage = "planned" /\ stage' \in {"written", "failed"}
        /\ stage' = "written" => file' = AssembleContent(lines, TrailingNewline(source))
    BY <1>6 DEF WriteEdits, Written
  <2>2. UNCHANGED <<tool, edits, content, basis, blind, preview, refused, source, lines>>
    BY <1>6 DEF WriteEdits
  <2>3. ~Refuses(edits, source)
    BY <2>1 DEF EditInv
  <2>4. QED
    BY <2>1, <2>2, <2>3 DEF PreviewInv
<1>7. CASE WriteFile
  <2>1. /\ stage = "proposed" /\ tool = "write_file" /\ stage' \in {"written", "failed"}
        /\ stage' = "written" => file' = content
        /\ UNCHANGED <<tool, content, basis, blind, preview>>
    BY <1>7 DEF WriteFile, Written
  <2>2. QED
    BY <2>1 DEF PreviewInv
<1>8. CASE OtherWrite
  <2>1. /\ UNCHANGED <<stage, tool, edits, content, basis, blind, preview, refused, source, lines>>
        /\ stage # "written"
    BY <1>8 DEF OtherWrite, callVars
  <2>2. QED
    BY <2>1 DEF PreviewInv
<1>9. CASE UNCHANGED editVars
  <2>1. UNCHANGED <<file, stage, tool, edits, content, basis, blind, preview, refused, source, lines>>
    BY <1>9 DEF editVars, callVars
  <2>2. QED
    BY <2>1 DEF PreviewInv
<1>10. QED
  BY <1>1, <1>2, <1>3, <1>4, <1>5, <1>6, <1>7, <1>8, <1>9 DEF EditNext

\* What the edits of the call make of a text they fit.
LEMMA EditPreview ==
  ASSUME EditInv, NEW text \in Seq(Line), ~Refuses(edits, text)
  PROVE  LET old == SplitLines(text)
             texts == ApplyEdits(Texts(old), edits)
             new == SplitLines(AssembleContent(texts, TrailingNewline(text)))
         IN /\ old \in Seq(Line) /\ new \in Seq(Line) /\ old # <<>> /\ texts \in Seq(Seq(Line))
            /\ (\A k \in DOMAIN edits : Len(edits[k].content) = 1) =>
                  \A j \in DOMAIN new : GenerateHashMap(texts)[j] = Hash[new[j]] /\ j \in DOMAIN texts
            /\ \E K, x, z, d :
                  Covers(PreviewStructured(edits, text), old, new,
                         GenerateHashMap(Texts(old)), GenerateHashMap(texts), K, x, z, d)
<1> DEFINE old == SplitLines(text)
           texts == ApplyEdits(Texts(old), edits)
           new == SplitLines(AssembleContent(texts, TrailingNewline(text)))
           B == {t \in Seq(Line) : Len(t) = 1}
<1>1. old \in Seq(Line) /\ Texts(old) \in Seq(Seq(Line))
  BY SplitLinesLines, LinesOfText
<1>2. \A k \in DOMAIN edits : IsEdit(edits[k], Seq(Line))
  <2>1. edits \in Seq(Edit) /\ seen \in Seq(Line)
    BY DEF EditInv
  <2>2. \A k \in DOMAIN edits : edits[k] \in Edit
    BY <2>1, ElementOfSeq, LenProperties
  <2>3. QED
    BY <2>1, <2>2, EditFields
<1>3. old # <<>>
  <2>1. ValidateEdits(edits, Texts(old)) /\ edits # <<>> /\ edits \in Seq(Edit)
    BY DEF Refuses, EditInv
  <2>2. 1 \in DOMAIN edits
    BY <2>1, EmptySeq, LenProperties
  <2>3. edits[1].line \in DOMAIN Texts(old)
    BY <2>1, <2>2 DEF ValidateEdits
  <2>4. DOMAIN Texts(old) = DOMAIN old
    BY DEF Texts
  <2>5. DOMAIN <<>> = {}
    OBVIOUS
  <2> HIDE DEF old
  <2>6. QED
    BY <2>3, <2>4, <2>5
<1>4. TrailingNewline(text) \in BOOLEAN
  BY DEF TrailingNewline
<1> HIDE DEF old
<1>5. texts \in Seq(Seq(Line))
  BY <1>1, <1>2, AppliedType
<1>6. ASSUME \A k \in DOMAIN edits : Len(edits[k].content) = 1
      PROVE  \A i \in 1 .. Len(texts) : Len(texts[i]) = 1
  <2>1. \A k \in DOMAIN edits : IsEdit(edits[k], B)
    BY <1>2, <1>6 DEF IsEdit
  <2>2. Texts(old) \in Seq(B)
    <3>1. \A i \in DOMAIN old : <<old[i]>> \in B
      <4>1. \A i \in DOMAIN old : old[i] \in Line
        BY <1>1, ElementOfSeq, LenProperties
      <4>2. QED
        BY <4>1, OneElement
    <3>2. DOMAIN old = 1 .. Len(old) /\ Len(old) \in Nat
      BY <1>1, LenProperties
    <3> HIDE DEF B
    <3>3. [i \in DOMAIN old |-> <<old[i]>>] \in Seq(B)
      BY <3>1, <3>2
    <3>4. QED
      BY <3>3 DEF Texts
  <2> HIDE DEF B
  <2>3. texts \in Seq(B)
    BY <2>1, <2>2, AppliedType
  <2> HIDE DEF texts
  <2>4. \A i \in 1 .. Len(texts) : texts[i] \in B
    BY <2>3, ElementOfSeq
  <2>5. QED
    BY <2>4 DEF B
<1> HIDE DEF texts
<1>7. /\ new \in Seq(Line)
      /\ (\A i \in 1 .. Len(texts) : Len(texts[i]) = 1) =>
            \A j \in DOMAIN new : j \in DOMAIN texts /\ texts[j] = <<new[j]>>
  BY <1>4, <1>5, AssembledLines
<1> HIDE DEF new
<1>8. ASSUME \A k \in DOMAIN edits : Len(edits[k].content) = 1, NEW j \in DOMAIN new
      PROVE  GenerateHashMap(texts)[j] = Hash[new[j]] /\ j \in DOMAIN texts
  <2>1. j \in DOMAIN texts /\ texts[j] = <<new[j]>>
    BY <1>6, <1>7, <1>8
  <2>2. ComputeLineHash(<<new[j]>>) = Hash[new[j]]
    BY DEF ComputeLineHash
  <2>3. QED
    BY <2>1, <2>2 DEF GenerateHashMap
<1>9. PreviewStructured(edits, text) =
         StructuredDiff(old, new, GenerateHashMap(Texts(old)), GenerateHashMap(texts))
  BY DEF PreviewStructured, old, new, texts
<1>10. \E K, x, z, d :
          Covers(StructuredDiff(old, new, GenerateHashMap(Texts(old)), GenerateHashMap(texts)),
                 old, new, GenerateHashMap(Texts(old)), GenerateHashMap(texts), K, x, z, d)
  BY <1>1, <1>7, StructuredCovers
<1>11. QED
  BY <1>1, <1>3, <1>5, <1>7, <1>8, <1>9, <1>10 DEF old, texts, new

\* The old lines and the blocks of the preview give what is written.
LEMMA ShownIsWritten ==
  ASSUME EditInv, PreviewInv
  PROVE  WritesWhatWasShown
<1> SUFFICES ASSUME ~blind, source = basis PROVE WritesWhatWasShown
  BY DEF WritesWhatWasShown
<1> DEFINE old == SplitLines(basis)
<1>1. basis \in Seq(Line) /\ content \in Seq(Line)
  BY DEF PreviewInv
<1>2. ASSUME tool = "edit_file", stage \in {"planned", "written", "failed"}
      PROVE  refused <=> Refuses(edits, source)
  BY <1>2 DEF PreviewInv
<1>5. ASSUME tool = "edit_file", stage = "written"
      PROVE  /\ ShowsText(old, SplitLines(file))
             /\ TrailingNewline(basis) => TrailingNewline(file) \/ file = <<Empty>>
  <2> DEFINE texts == ApplyEdits(Texts(old), edits)
             new == SplitLines(AssembleContent(texts, TrailingNewline(basis)))
             oh == GenerateHashMap(Texts(old))
             nh == GenerateHashMap(texts)
  <2>1. ~Refuses(edits, basis) /\ file = AssembleContent(lines, TrailingNewline(basis))
    BY <1>5 DEF PreviewInv
  <2>2. preview = PreviewStructured(edits, basis) /\ lines = texts
    BY <1>5, <2>1 DEF PreviewInv
  <2>3. SplitLines(file) = new
    BY <2>1, <2>2
  <2>4. /\ old \in Seq(Line) /\ new \in Seq(Line) /\ old # <<>> /\ texts \in Seq(Seq(Line))
        /\ \E K, x, z, d : Covers(PreviewStructured(edits, basis), old, new, oh, nh, K, x, z, d)
    BY <1>1, <2>1, EditPreview
  <2> HIDE DEF old, new, oh, nh, texts
  <2>5. PICK K, x, z, d : Covers(preview, old, new, oh, nh, K, x, z, d)
    BY <2>2, <2>4
  <2>6. Patched(old, preview) = [fits |-> TRUE, text |-> new]
    BY <2>4, <2>5, CoversPatch
  <2>7. ShowsText(old, new)
    BY <2>4, <2>6 DEF ShowsText
  <2>8. ASSUME TrailingNewline(basis) PROVE TrailingNewline(file) \/ file = <<Empty>>
    <3>1. TrailingNewline(basis) = TRUE
      BY <2>8 DEF TrailingNewline
    <3>2. file = AssembleContent(texts, TRUE)
      BY <2>1, <2>2, <3>1
    <3>3. QED
      BY <2>4, <3>2, NewlineKept
  <2>9. QED
    BY <2>3, <2>7, <2>8
<1>3. ASSUME tool = "write_file", stage = "written"
      PROVE  ShowsText(old, SplitLines(file))
  <2> DEFINE new == SplitLines(content)
             most == Limit(basis)
             Long == old = <<>> /\ Len(new) > most
             Told == \E K, x, z, d : Covers(preview, old, new, <<>>, <<>>, K, x, z, d)
  <2>1. preview = PreviewText(content, basis) /\ file = content
    BY <1>3 DEF PreviewInv
  <2> SUFFICES ShowsText(old, SplitLines(content))
    BY <2>1
  <2>2. old \in Seq(Line) /\ new \in Seq(Line) /\ Len(new) \in Nat /\ most \in Nat
    <3>1. new \in Seq(Line) /\ old \in Seq(Line)
      BY <1>1, SplitLinesLines
    <3>2. QED
      BY <3>1, LenProperties, BoundsAssumption DEF Limit
  <2>3. \/ Long /\ preview = NewFileDiff(new, most)
        \/ (old = <<>> => Len(new) <= most) /\ Told
    BY <1>1, <2>1, WritePreview
  <2> HIDE DEF old, new, most, Told
  <2>4. CASE Long /\ preview = NewFileDiff(new, most)
    <3>1. Halves(preview, new, most)
      <4>1. Len(new) > most /\ preview = NewFileDiff(new, most)
        BY <2>4
      <4>2. QED
        BY <2>2, <4>1, LongNewFile
    <3>2. Long
      BY <2>4
    <3>3. QED
      BY <3>1, <3>2 DEF ShowsText, Halves, most, Limit, new
  <2>5. CASE (old = <<>> => Len(new) <= most) /\ Told
    <3>1. PICK K, x, z, d : Covers(preview, old, new, <<>>, <<>>, K, x, z, d)
      BY <2>5 DEF Told
    <3>2. Patched(old, preview) = [fits |-> TRUE, text |-> new]
      BY <2>2, <3>1, CoversPatch
    <3>3. ~Long
      BY <2>2, <2>5
    <3>4. QED
      BY <3>2, <3>3 DEF ShowsText, most, Limit, new
  <2> HIDE DEF Long
  <2>6. ShowsText(old, new)
    BY <2>3, <2>4, <2>5 DEF new
  <2>7. QED
    BY <2>6 DEF new
<1>4. tool \in {"edit_file", "write_file"}
  BY DEF PreviewInv
<1>6. QED
  BY <1>2, <1>3, <1>4, <1>5 DEF WritesWhatWasShown

\* What the lines of the blocks say of themselves.
LEMMA LabelsOfBlocks ==
  ASSUME NEW old \in Seq(Line), NEW new \in Seq(Line), NEW oh, NEW nh,
         NEW K, NEW x, NEW z, NEW d, Covers(preview, old, new, oh, nh, K, x, z, d),
         NEW k \in DOMAIN preview, NEW i \in DOMAIN preview[k].lines
  PROVE  LET e == preview[k].lines[i]
             n == e.newNumber + NetBefore(k)
         IN /\ e.oldNumber # 0 => old[e.oldNumber] = e.content
            /\ e.newNumber # 0 => n \in DOMAIN new /\ new[n] = e.content
            /\ \/ \E m \in DOMAIN old : e.hash = HashAt(oh, m) /\ e.content = old[m]
               \/ \E m \in DOMAIN new : e.hash = HashAt(nh, m) /\ e.content = new[m]
<1> DEFINE e == preview[k].lines[i]
<1>1. K \in Nat /\ preview = [l \in 1 .. K |-> preview[l]]
  BY DEF Covers
<1>2. k \in 1 .. K
  BY <1>1
<1>3. k - 1 \in 0 .. K
  BY <1>1, <1>2
<1>4. d[k - 1] \in Int
  BY <1>3 DEF Covers
<1>5. preview[k].lines \in Seq(Labeled(old, new, oh, nh, d[k - 1]))
  BY <1>2 DEF Covers, BlockShows
<1>6. e \in Labeled(old, new, oh, nh, d[k - 1])
  BY <1>5, ElementOfSeq, LenProperties
<1>7. NetBefore(k) = d[k - 1]
  BY <1>2, CoversNet
<1>8. DOMAIN old = 1 .. Len(old) /\ DOMAIN new = 1 .. Len(new)
  BY LenProperties
<1> HIDE DEF e
<1>9. /\ e.oldNumber # 0 => old[e.oldNumber] = e.content
      /\ e.newNumber # 0 => e.newNumber + d[k - 1] \in 1 .. Len(new)
                            /\ new[e.newNumber + d[k - 1]] = e.content
      /\ \/ \E m \in 1 .. Len(old) : e.hash = HashAt(oh, m) /\ e.content = old[m]
         \/ \E m \in 1 .. Len(new) : e.hash = HashAt(nh, m) /\ e.content = new[m]
  BY <1>4, <1>6, LabeledTrue
<1>10. QED
  BY <1>7, <1>8, <1>9 DEF e

\* The first block has none before it.
LEMMA NothingBefore == NetBefore(1) = 0
<1> DEFINE Round(f) == [i \in 0 .. 0 |-> IF i = 0 THEN 0
                          ELSE f[i - 1] + (preview[i].newCount - preview[i].oldCount)]
           h == CHOOSE f : f = Round(f)
<1>1. 1 - 1 = 0
  OBVIOUS
<1>2. NetBefore(1) = h[0]
  BY <1>1 DEF NetBefore
<1> DEFINE g == [i \in 0 .. 0 |-> 0]
<1>3. g = Round(g)
  OBVIOUS
<1>4. h = Round(h)
  BY <1>3
<1> HIDE DEF h
<1>5. h[0] = 0
  BY <1>4
<1>6. QED
  BY <1>2, <1>5

\* What is said of the lines of a call's preview.
LEMMA LabelsHold ==
  ASSUME EditInv, PreviewInv
  PROVE  LabelsAreTrue
<1> SUFFICES ASSUME stage = "proposed", ~refused PROVE LabelsAreTrue
  BY DEF LabelsAreTrue
<1> DEFINE old == SplitLines(basis)
           new == IF tool = "write_file" THEN SplitLines(content) ELSE Patched(old, preview).text
           plain == \A k \in DOMAIN edits : Len(edits[k].content) = 1
           Number(e, k) == e.newNumber + IF old = <<>> THEN 0 ELSE NetBefore(k)
           Good(e, k) == /\ e.oldNumber # 0 => old[e.oldNumber] = e.content
                         /\ e.newNumber # 0 => Number(e, k) \in DOMAIN new
                                               /\ new[Number(e, k)] = e.content
                         /\ tool = "edit_file" /\ plain => e.hash = Hash[e.content]
<1>1. SUFFICES ASSUME NEW k \in DOMAIN preview, NEW i \in DOMAIN preview[k].lines
               PROVE  Good(preview[k].lines[i], k)
  BY DEF LabelsAreTrue
<1> DEFINE e == preview[k].lines[i]
<1>2. basis \in Seq(Line) /\ content \in Seq(Line) /\ old \in Seq(Line)
  BY SplitLinesLines DEF PreviewInv
<1>3. CASE tool = "write_file"
  <2> DEFINE to == SplitLines(content)
             most == Limit(basis)
             Long == old = <<>> /\ Len(to) > most
             Told == \E K, x, z, d : Covers(preview, old, to, <<>>, <<>>, K, x, z, d)
  <2>1. preview = PreviewText(content, basis) /\ new = to
    <3>1. DOMAIN <<>> = {}
      OBVIOUS
    <3>2. preview # <<>>
      BY <1>1, <3>1
    <3>3. QED
      BY <1>3, <3>2 DEF PreviewInv
  <2>2. to \in Seq(Line) /\ most \in Nat /\ Len(to) \in Nat
    <3>1. to \in Seq(Line)
      BY <1>2, SplitLinesLines
    <3>2. QED
      BY <3>1, LenProperties, BoundsAssumption DEF Limit
  <2>3. \/ Long /\ preview = NewFileDiff(to, most)
        \/ (old = <<>> => Len(to) <= most /\ Len(preview) <= 1) /\ Told
    BY <1>2, <2>1, WritePreview
  <2> SUFFICES /\ e.oldNumber # 0 => old[e.oldNumber] = e.content
               /\ e.newNumber # 0 => Number(e, k) \in DOMAIN to /\ to[Number(e, k)] = e.content
    BY <1>3, <2>1
  <2> HIDE DEF old, to, most, Told
  <2>4. CASE Long /\ preview = NewFileDiff(to, most)
    <3>1. Plain(e, to)
      <4>1. Len(to) > most /\ preview = NewFileDiff(to, most)
        BY <2>4
      <4>2. QED
        BY <1>1, <2>2, <4>1, LongNewFile
    <3> HIDE DEF e, Number
    <3>2. PICK j \in 1 .. Len(to) : e = Entry("insert", to[j], 0, j, "none")
      BY <3>1 DEF Plain
    <3>3. e.oldNumber = 0 /\ e.newNumber = j /\ e.content = to[j]
      BY <3>2 DEF Entry
    <3>4. Number(e, k) = j /\ j \in DOMAIN to
      <4>1. old = <<>>
        BY <2>4
      <4>2. j \in Nat /\ j + 0 = j
        BY <2>2
      <4>3. Number(e, k) = j
        BY <3>3, <4>1, <4>2 DEF Number
      <4>4. QED
        BY <2>2, <4>3, LenProperties
    <3>5. QED
      BY <3>3, <3>4
  <2>5. CASE (old = <<>> => Len(to) <= most /\ Len(preview) <= 1) /\ Told
    <3>1. PICK K, x, z, d : Covers(preview, old, to, <<>>, <<>>, K, x, z, d)
      BY <2>5 DEF Told
    <3>2. /\ e.oldNumber # 0 => old[e.oldNumber] = e.content
          /\ e.newNumber # 0 => e.newNumber + NetBefore(k) \in DOMAIN to
                                /\ to[e.newNumber + NetBefore(k)] = e.content
      BY <1>1, <1>2, <2>2, <3>1, LabelsOfBlocks
    <3>3. old = <<>> => NetBefore(k) = 0
      <4>1. K \in Nat /\ preview = [l \in 1 .. K |-> preview[l]] /\ Len(preview) = K
        BY <3>1 DEF Covers
      <4>2. k \in 1 .. K
        BY <1>1, <4>1
      <4>3. old = <<>> => k = 1
        BY <2>5, <4>1, <4>2
      <4>4. QED
        BY <4>3, NothingBefore
    <3>4. Number(e, k) = e.newNumber + NetBefore(k)
      BY <3>3
    <3> HIDE DEF e, Number
    <3>5. QED
      BY <3>2, <3>4
  <2> HIDE DEF Long
  <2>6. QED
    BY <2>3, <2>4, <2>5
<1>4. CASE tool = "edit_file"
  <2> DEFINE texts == ApplyEdits(Texts(old), edits)
             to == SplitLines(AssembleContent(texts, TrailingNewline(basis)))
             oh == GenerateHashMap(Texts(old))
             nh == GenerateHashMap(texts)
  <2>1. ~Refuses(edits, basis) /\ preview = PreviewStructured(edits, basis)
    BY <1>4 DEF PreviewInv
  <2>2. /\ to \in Seq(Line) /\ old # <<>>
        /\ plain => \A j \in DOMAIN to : nh[j] = Hash[to[j]] /\ j \in DOMAIN texts
        /\ \E K, x, z, d : Covers(PreviewStructured(edits, basis), old, to, oh, nh, K, x, z, d)
    BY <1>2, <2>1, EditPreview
  <2>3. \A j \in DOMAIN old : oh[j] = Hash[old[j]] /\ j \in DOMAIN oh
    <3>1. /\ DOMAIN Texts(old) = DOMAIN old
          /\ \A j \in DOMAIN old : GenerateHashMap(Texts(old))[j] = Hash[old[j]]
      BY <1>2, LinesOfText
    <3>2. DOMAIN oh = DOMAIN Texts(old)
      BY DEF GenerateHashMap
    <3>3. QED
      BY <3>1, <3>2
  <2>4. DOMAIN nh = DOMAIN texts
    BY DEF GenerateHashMap
  <2> HIDE DEF old, to, oh, nh, texts
  <2>5. PICK K, x, z, d : Covers(preview, old, to, oh, nh, K, x, z, d)
    BY <2>1, <2>2
  <2>6. Patched(old, preview) = [fits |-> TRUE, text |-> to]
    BY <1>2, <2>2, <2>5, CoversPatch
  <2>7. new = to
    BY <1>4, <2>6
  <2>8. /\ e.oldNumber # 0 => old[e.oldNumber] = e.content
        /\ e.newNumber # 0 => e.newNumber + NetBefore(k) \in DOMAIN to
                              /\ to[e.newNumber + NetBefore(k)] = e.content
        /\ \/ \E m \in DOMAIN old : e.hash = HashAt(oh, m) /\ e.content = old[m]
           \/ \E m \in DOMAIN to : e.hash = HashAt(nh, m) /\ e.content = to[m]
    BY <1>1, <1>2, <2>2, <2>5, LabelsOfBlocks
  <2>9. Number(e, k) = e.newNumber + NetBefore(k)
    BY <2>2
  <2> HIDE DEF e, Number, new
  <2>10. ASSUME plain PROVE e.hash = Hash[e.content]
    <3>1. \A m \in DOMAIN old : HashAt(oh, m) = Hash[old[m]]
      BY <2>3 DEF HashAt
    <3>2. \A m \in DOMAIN to : HashAt(nh, m) = Hash[to[m]]
      BY <2>2, <2>4, <2>10 DEF HashAt
    <3>3. QED
      BY <2>8, <3>1, <3>2
  <2> HIDE DEF plain
  <2>11. QED
    BY <2>7, <2>8, <2>9, <2>10 DEF e
<1>5. tool \in {"edit_file", "write_file"}
  BY DEF PreviewInv
<1>6. QED
  BY <1>3, <1>4, <1>5

\* The preview stays the one of the call and of the text it was made of, whoever writes the
\* file meanwhile, and the lines of edit_file what its edits make of the text it has read.
THEOREM PreviewTypes == EditSpec => []PreviewInv
<1>1. QED
  BY PreviewInvInit, PreviewInvStep, EditTypes, PTL DEF EditSpec

\* For any texts, hashes and edits and any number of lines of context: what the preview of
\* edit_file and of write_file shows is what the file holds once it is written, if it could
\* be read for the preview and stays as it was until then.
THEOREM ShowsWhatIsWritten == EditSpec => []WritesWhatWasShown
<1>1. QED
  BY ShownIsWritten, EditTypes, PreviewTypes, PTL

\* And the numbers and the hashes it gives the lines are theirs.
THEOREM LabelsOfPreviewHold == EditSpec => []LabelsAreTrue
<1>1. QED
  BY LabelsHold, EditTypes, PreviewTypes, PTL
=============================================================================
