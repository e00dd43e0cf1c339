--------------------------- MODULE ClientToolsProofs ---------------------------
(***************************************************************************)
(* Theorems about ClientTools for any number of calls, whatever requests   *)
(* are refused, given up or handled late.                                  *)
(***************************************************************************)
EXTENDS ClientTools, SequenceTheorems, TLAPS

Request == [method : Methods, call : Calls]
Outputs == {"none", "part", "whole"}
Reply == [req : Request, ok : BOOLEAN, content : Nat, output : Outputs]
Result == [tool : {"read", "write", "command", "unknown"}, ok : BOOLEAN, content : Nat,
           output : Outputs]

\* The call in hand is the last one, and those before it have returned.
TypeInv ==
    /\ n \in 0 .. MaxCalls
    /\ step \in Methods \cup {"idle"} /\ (step # "idle" => n \in Calls)
    /\ got \in Outputs
    /\ results \in Seq(Result)
    /\ Len(results) = IF step = "idle" THEN n ELSE n - 1
    /\ sent \in SUBSET Request /\ replies \in SUBSET Reply /\ undone \in SUBSET Request
    /\ term \in [Calls -> {"none", "running", "exited", "released"}]
    /\ file \in 0 .. MaxCalls

\* A request is one of the call in hand and the one it waits for, or one of a call that
\* has returned: then it is of the tool of that call, and if the call succeeded it can
\* only be its release.
Placed(q) ==
    \/ step # "idle" /\ q = Req(step)
    \/ /\ q.call \in 1 .. Len(results)
       /\ results[q.call].tool = ToolOf(q.method)
       /\ results[q.call].ok => q.method = "release"

\* Of each call there is at most one request or answer under way.
WireInv ==
    /\ \A q \in sent : Placed(q)
    /\ \A r \in replies : Placed(r.req)
    /\ \A q, s \in sent : q.call = s.call => q = s
    /\ \A r, s \in replies : r.req.call = s.req.call => r = s
    /\ \A q \in sent, r \in replies : q.call # r.req.call

\* What a request, or a good answer to it, says of its terminal.
Open(t) == term[t] \in {"running", "exited"}

SentInv ==
    \A q \in sent :
        /\ q.method = "wait" => Open(q.call)
        /\ q.method \in {"output", "release"} => term[q.call] = "exited"

ReplyInv ==
    \A r \in replies : r.ok =>
        /\ r.req.method = "create" => Open(r.req.call)
        /\ r.req.method \in {"wait", "output"} => term[r.req.call] = "exited"
        /\ r.req.method = "output" => r.output = "whole"

Release(t) == [method |-> "release", call |-> t]

\* Only commands have terminals; that of a command which is about to succeed, or has, is
\* released unless the release is on its way or was undone.
TermInv ==
    /\ \A t \in Calls : t > n => term[t] = "none"
    /\ step \in {"read", "write"} => term[n] = "none"
    /\ step = "release" => got = "whole" /\ (Open(n) => Release(n) \in sent \cup undone)
    /\ \A t \in 1 .. Len(results) :
         /\ results[t].tool # "command" => term[t] = "none"
         /\ results[t].tool = "command" /\ results[t].ok =>
              /\ results[t].output = "whole"
              /\ Open(t) => Release(t) \in sent \cup undone

\* The write w stands before the call c: it was reported as failed and nothing can be
\* said, or none that succeeded is newer.
Stands(w, c) ==
    \/ w \in 1 .. Len(results) /\ ~results[w].ok
    \/ \A x \in 1 .. c - 1 : Succeeded(x, "write") => x <= w

Written(w) == w = 0 \/ (w \in 1 .. Len(results) /\ results[w].tool = "write")

\* What the file holds, and what an answer to the call in hand says of it.
FileInv ==
    /\ Written(file) \/ (file = n /\ step = "write")
    /\ Stands(file, Len(results) + 1)
    /\ \A r \in replies :
         /\ r.ok /\ step = "read" /\ r.req = Req(step) =>
              r.content < n /\ Written(r.content) /\ Stands(r.content, n)
         /\ r.ok /\ step = "write" /\ r.req = Req(step) =>
              file = n \/ (file \in 1 .. Len(results) /\ ~results[file].ok)

-----------------------------------------------------------------------------
(* How a call goes on and how it ends. *)

\* The calls that have returned are among those that were made.
LEMMA CallNumbers ==
  ASSUME TypeInv
  PROVE  /\ n \in Nat /\ Len(results) \in Nat /\ Len(results) <= n
         /\ 1 .. Len(results) \subseteq Calls /\ 1 .. n \subseteq Calls /\ Calls \subseteq Nat \ {0}
BY MaxCallsAssumption DEF TypeInv, Calls

\* A result is added behind the others.
LEMMA ResultAdded ==
  ASSUME TypeInv, NEW res \in Result
  PROVE  /\ Append(results, res) \in Seq(Result)
         /\ Len(Append(results, res)) = Len(results) + 1
         /\ \A c \in 1 .. Len(results) : Append(results, res)[c] = results[c]
         /\ Append(results, res)[Len(results) + 1] = res
BY AppendProperties DEF TypeInv

\* The call in hand returns.
Ended(ok, content, output) ==
    /\ step \in Methods /\ step' = "idle" /\ n' = n /\ got' = "none"
    /\ results' = Append(results, [tool |-> ToolOf(step), ok |-> ok, content |-> content,
                                   output |-> output])

\* What that means for the results.
EndedWith(ok, content, output) ==
    /\ step \in Methods /\ step' = "idle" /\ n' = n /\ got' = "none"
    /\ n \in Calls /\ Len(results) = n - 1 /\ Len(results') = n /\ results' \in Seq(Result)
    /\ \A c \in 1 .. n - 1 : results'[c] = results[c]
    /\ results'[n] = [tool |-> ToolOf(step), ok |-> ok, content |-> content, output |-> output]

LEMMA EndedResults ==
  ASSUME TypeInv, NEW ok \in BOOLEAN, NEW content \in Nat, NEW output \in Outputs,
         Ended(ok, content, output)
  PROVE  EndedWith(ok, content, output)
<1> DEFINE res == [tool |-> ToolOf(step), ok |-> ok, content |-> content, output |-> output]
<1>1. res \in Result
  BY DEF Ended, Result, ToolOf, Methods
<1>2. /\ results' \in Seq(Result) /\ Len(results') = Len(results) + 1
      /\ \A c \in 1 .. Len(results) : results'[c] = results[c]
      /\ results'[Len(results) + 1] = res
  BY <1>1, ResultAdded DEF Ended
<1>3. step # "idle" /\ n \in Calls /\ Len(results) = n - 1 /\ n \in Nat
  BY DEF Ended, TypeInv, Methods, Calls
<1>4. QED
  BY <1>2, <1>3 DEF Ended, EndedWith

\* An answer lets a command go on, or ends the call.
GoesOn(r) ==
    /\ step \in {"create", "wait", "output"} /\ r.ok
    /\ step' = NextStep(step) /\ n' = n /\ results' = results
    /\ sent' = sent \cup {Req(step)'}
    /\ got' = IF step = "output" THEN r.output ELSE got

LEMMA ReceiveCases ==
  ASSUME TypeInv, NEW r \in replies, Receive(r)
  PROVE  /\ step \in Methods /\ r.req = Req(step) /\ replies' = replies \ {r}
         /\ UNCHANGED <<n, undone, term, file>>
         /\ \/ GoesOn(r)
            \/ /\ sent' = sent
               /\ \/ step = "read" /\ r.ok /\ EndedWith(TRUE, r.content, "none")
                  \/ step = "write" /\ r.ok /\ EndedWith(TRUE, 0, "none")
                  \/ step = "release" /\ EndedWith(TRUE, 0, got)
                  \/ ~r.ok /\ EndedWith(FALSE, 0, "none")
<1>1. step \in Methods /\ r.req = Req(step) /\ replies' = replies \ {r}
      /\ UNCHANGED <<n, undone, term, file>>
  BY DEF Receive, TypeInv, clientVars
<1>2. r.content \in Nat /\ r.output \in Outputs /\ got \in Outputs /\ "none" \in Outputs
  BY DEF TypeInv, Reply, Outputs
<1>3. \/ GoesOn(r)
      \/ /\ sent' = sent
         /\ \/ step = "read" /\ r.ok /\ Ended(TRUE, r.content, "none")
            \/ step = "write" /\ r.ok /\ Ended(TRUE, 0, "none")
            \/ step = "release" /\ Ended(TRUE, 0, got)
            \/ ~r.ok /\ Ended(FALSE, 0, "none")
  <2>1. CASE r.ok /\ Proceed(r)
    BY <1>1, <2>1 DEF Proceed, Return, GoesOn, Ended, ToolOf, Methods, Req
  <2>2. CASE ~r.ok /\ step = "release" /\ Proceed(r)
    BY <1>1, <2>2 DEF Proceed, Return, Ended, ToolOf, Methods
  <2>3. CASE ~r.ok /\ step # "release" /\ Fails /\ UNCHANGED sent
    BY <1>1, <2>3 DEF Fails, Return, Ended, Methods
  <2>4. QED
    BY <2>1, <2>2, <2>3 DEF Receive
<1>4. QED
  BY <1>1, <1>2, <1>3, EndedResults

LEMMA GiveUpCases ==
  ASSUME TypeInv, GiveUp
  PROVE  /\ step \in Methods /\ UNCHANGED <<n, replies, term, file>>
         /\ \/ UNCHANGED <<sent, undone>>
            \/ sent' = sent \ {Req(step)} /\ undone' = undone \cup (sent \cap {Req(step)})
         /\ \/ step = "release" /\ EndedWith(TRUE, 0, got)
            \/ EndedWith(FALSE, 0, "none")
<1>1. step \in Methods /\ UNCHANGED <<n, replies, term, file>>
  BY DEF GiveUp, TypeInv, clientVars
<1>2. \/ step = "release" /\ Ended(TRUE, 0, got)
      \/ Ended(FALSE, 0, "none")
  BY <1>1 DEF GiveUp, Fails, Return, Ended, ToolOf
<1>3. got \in Outputs /\ "none" \in Outputs
  BY DEF TypeInv, Outputs
<1>4. QED
  BY <1>1, <1>2, <1>3, EndedResults DEF GiveUp, LoseOrLeave

\* A call that is rejected has its result at once.
LEMMA RejectsResults ==
  ASSUME TypeInv, Rejects
  PROVE  /\ step = "idle" /\ step' = "idle" /\ n + 1 \in Calls /\ n' = n + 1 /\ got' = "none"
         /\ UNCHANGED <<sent, replies, undone, term, file>>
         /\ Len(results) = n /\ Len(results') = n + 1 /\ results' \in Seq(Result)
         /\ \A c \in 1 .. n : results'[c] = results[c]
         /\ results'[n + 1] = [tool |-> "unknown", ok |-> FALSE, content |-> 0, output |-> "none"]
<1>1. [tool |-> "unknown", ok |-> FALSE, content |-> 0, output |-> "none"] \in Result
  BY DEF Result, Outputs
<1>2. Len(results) = n /\ n \in Nat /\ n + 1 \in Calls
  BY MaxCallsAssumption DEF TypeInv, Rejects, Calls
<1>3. QED
  BY <1>1, <1>2, ResultAdded DEF Rejects, Return, wireVars, clientVars

\* A request that is handled or refused has its answer.
LEMMA HandleCases ==
  ASSUME TypeInv, NEW q \in sent, Handle(q)
  PROVE  /\ q \in Request /\ q.call \in Calls
         /\ UNCHANGED <<n, step, got, results, undone>> /\ sent' = sent \ {q}
         /\ q.method = "wait" => term[q.call] = "exited"
         /\ file' = IF q.method = "write" THEN q.call ELSE file
         /\ term' = CASE q.method = "create" -> [term EXCEPT ![q.call] = "running"]
                      [] q.method = "release" -> [term EXCEPT ![q.call] = "released"]
                      [] OTHER -> term
         /\ \E r \in Reply :
              /\ replies' = replies \cup {r} /\ r.req = q
              /\ q.method = "read" => r.content = file
              /\ q.method = "output" /\ term[q.call] = "exited" => r.output = "whole"
<1>1. q \in Request /\ q.call \in Calls
  BY DEF TypeInv, Request
<1>2. PICK ok \in BOOLEAN :
        replies' = replies \cup
             {Answer(q, ok, IF q.method = "read" THEN file ELSE 0,
                     CASE q.method # "output" -> "none"
                       [] term[q.call] = "exited" -> "whole"
                       [] OTHER -> "part")}
  BY DEF Handle
<1> DEFINE r == Answer(q, ok, IF q.method = "read" THEN file ELSE 0,
                       CASE q.method # "output" -> "none"
                         [] term[q.call] = "exited" -> "whole"
                         [] OTHER -> "part")
<1>3. r \in Reply
  BY <1>1, MaxCallsAssumption DEF Answer, Reply, Outputs, TypeInv
<1>4. /\ r.req = q /\ (q.method = "read" => r.content = file)
      /\ (q.method = "output" /\ term[q.call] = "exited" => r.output = "whole")
  BY DEF Answer
<1>5. QED
  BY <1>1, <1>2, <1>3, <1>4 DEF Handle, execVars

LEMMA RefuseCases ==
  ASSUME TypeInv, NEW q \in sent, Refuse(q)
  PROVE  /\ q \in Request
         /\ UNCHANGED <<n, step, got, results, term, file>> /\ sent' = sent \ {q}
         /\ undone' = undone \cup {q}
         /\ \E r \in Reply : replies' = replies \cup {r} /\ r.req = q /\ ~r.ok
<1>1. q \in Request
  BY DEF TypeInv
<1>2. Answer(q, FALSE, 0, "none") \in Reply /\ Answer(q, FALSE, 0, "none").req = q
      /\ ~Answer(q, FALSE, 0, "none").ok
  BY <1>1 DEF Answer, Reply, Outputs
<1>3. QED
  BY <1>1, <1>2 DEF Refuse, execVars, clientVars

LEMMA ExecuteCases ==
  ASSUME TypeInv, NEW tool \in {"read", "write", "command"}, Execute(tool)
  PROVE  /\ step = "idle" /\ step' = First(tool) /\ step' \in {"read", "write", "create"}
         /\ n + 1 \in Calls /\ n' = n + 1 /\ Len(results) = n
         /\ sent' = sent \cup {Req(step)'}
         /\ UNCHANGED <<got, results, replies, undone, term, file>>
BY MaxCallsAssumption DEF TypeInv, Execute, First, Req, Calls, clientVars

-----------------------------------------------------------------------------
(* The invariants. *)

LEMMA InitTypeInv == Init => TypeInv
<1> SUFFICES ASSUME Init PROVE TypeInv
  OBVIOUS
<1>1. <<>> \in Seq(Result) /\ Len(<<>>) = 0 /\ 0 \in 0 .. MaxCalls
  BY EmptySeq, MaxCallsAssumption
<1>2. QED
  BY <1>1 DEF Init, TypeInv, Outputs

LEMMA NextTypeInv == TypeInv /\ [Next]_vars => TypeInv'
<1> SUFFICES ASSUME TypeInv, [Next]_vars PROVE TypeInv'
  OBVIOUS
<1>1. ASSUME NEW tool \in {"read", "write", "command"}, Execute(tool) PROVE TypeInv'
  <2>1. sent' \in SUBSET Request
    BY <1>1, ExecuteCases DEF TypeInv, Request, Methods, Req
  <2>2. n' \in 0 .. MaxCalls /\ n' = Len(results) + 1 /\ n' \in Calls
    BY <1>1, ExecuteCases, MaxCallsAssumption DEF TypeInv, Calls
  <2>3. QED
    BY <1>1, <2>1, <2>2, ExecuteCases DEF TypeInv, Methods
<1>2. CASE Rejects
  <2>1. n' \in 0 .. MaxCalls
    BY <1>2, RejectsResults, MaxCallsAssumption DEF Calls, TypeInv
  <2>2. QED
    BY <1>2, <2>1, RejectsResults DEF TypeInv, Outputs
<1>3. ASSUME NEW r \in replies, Receive(r) PROVE TypeInv'
  <2>1. CASE GoesOn(r)
    <3>1. sent' \in SUBSET Request /\ step' \in Methods /\ n \in Calls
      BY <2>1 DEF GoesOn, NextStep, TypeInv, Request, Methods, Req
    <3>2. got' \in Outputs
      BY <2>1 DEF GoesOn, TypeInv, Reply
    <3>3. QED
      BY <1>3, <2>1, <3>1, <3>2, ReceiveCases DEF GoesOn, TypeInv, Methods
  <2>2. CASE sent' = sent /\ \E ok, content, output : EndedWith(ok, content, output)
    BY <1>3, <2>2, ReceiveCases DEF EndedWith, TypeInv, Outputs
  <2>3. QED
    BY <1>3, <2>1, <2>2, ReceiveCases
<1>4. CASE GiveUp
  <2>1. \E ok, content, output : EndedWith(ok, content, output)
    BY <1>4, GiveUpCases
  <2>2. sent' \in SUBSET Request /\ undone' \in SUBSET Request
    BY <1>4, GiveUpCases DEF TypeInv
  <2>3. QED
    BY <1>4, <2>1, <2>2, GiveUpCases DEF EndedWith, TypeInv, Outputs
<1>5. ASSUME NEW q \in sent, Handle(q) PROVE TypeInv'
  <2>1. term' \in [Calls -> {"none", "running", "exited", "released"}]
    BY <1>5, HandleCases DEF TypeInv
  <2>2. file' \in 0 .. MaxCalls
    BY <1>5, HandleCases DEF TypeInv, Calls
  <2>3. QED
    BY <1>5, <2>1, <2>2, HandleCases DEF TypeInv
<1>6. ASSUME NEW q \in sent, Refuse(q) PROVE TypeInv'
  BY <1>6, RefuseCases DEF TypeInv
<1>7. ASSUME NEW t \in Calls, CommandExits(t) PROVE TypeInv'
  BY <1>7 DEF CommandExits, TypeInv, execVars, wireVars
<1>8. CASE UNCHANGED vars
  BY <1>8 DEF vars, execVars, wireVars, clientVars, TypeInv
<1>9. QED
  BY <1>1, <1>2, <1>3, <1>4, <1>5, <1>6, <1>7, <1>8 DEF Next

\* A request is placed as before while the call in hand goes on.
LEMMA PlacedKept ==
  ASSUME UNCHANGED <<n, step, results>>, NEW q, Placed(q)
  PROVE  Placed(q)'
BY DEF Placed, Req

\* Nothing is under way of a call to come, and of the call in hand only what it waits for.
LEMMA PlacedCall ==
  ASSUME TypeInv, NEW q \in Request, Placed(q)
  PROVE  /\ q.call \in 1 .. n
         /\ q.call = n /\ step # "idle" => q = Req(step)
BY DEF TypeInv, Placed, Req, Calls

\* When the call in hand returns, a request of it that is still under way is one of a
\* call that has returned.
LEMMA PlacedEnded ==
  ASSUME TypeInv, NEW ok, NEW content, NEW output, EndedWith(ok, content, output),
         NEW q \in Request, Placed(q), q = Req(step) /\ ok => step = "release"
  PROVE  Placed(q)'
<1>1. CASE q = Req(step)
  BY <1>1 DEF EndedWith, Placed, Req, Calls
<1>2. CASE q # Req(step)
  BY <1>2 DEF EndedWith, Placed, TypeInv, Calls, Methods
<1>3. QED
  BY <1>1, <1>2

\* Once the answer to the awaited request is taken nothing of its call is under way.
LEMMA AnswerTaken ==
  ASSUME TypeInv, WireInv, NEW r \in replies, r.req = Req(step)
  PROVE  /\ \A q \in sent : q.call # n
         /\ \A s \in replies \ {r} : s.req.call # n
BY DEF WireInv, Req

LEMMA NextWireInv == TypeInv /\ WireInv /\ [Next]_vars => WireInv'
<1> SUFFICES ASSUME TypeInv, WireInv, [Next]_vars PROVE WireInv'
  OBVIOUS
<1>0. /\ \A q \in sent : q \in Request /\ Placed(q) /\ q.call \in 1 .. n
      /\ \A r \in replies : r.req \in Request /\ Placed(r.req) /\ r.req.call \in 1 .. n
  <2>1. /\ \A q \in sent : q \in Request /\ Placed(q)
        /\ \A r \in replies : r.req \in Request /\ Placed(r.req)
    BY DEF TypeInv, WireInv, Reply
  <2>2. QED
    BY <2>1, PlacedCall
<1>1. ASSUME NEW tool \in {"read", "write", "command"}, Execute(tool) PROVE WireInv'
  <2>1. ASSUME NEW q \in Request, Placed(q) PROVE Placed(q)'
    BY <1>1, <2>1, ExecuteCases DEF Placed
  <2>2. Placed(Req(step))' /\ Req(step)'.call = n + 1
    BY <1>1, ExecuteCases DEF Placed, Req
  <2>3. n + 1 \notin 1 .. n
    BY DEF TypeInv
  <2>4. QED
    BY <1>0, <1>1, <2>1, <2>2, <2>3, ExecuteCases DEF WireInv
<1>2. CASE Rejects
  <2>1. ASSUME NEW q \in Request, Placed(q) PROVE Placed(q)'
    BY <1>2, <2>1, RejectsResults DEF Placed, TypeInv
  <2>2. QED
    BY <1>0, <1>2, <2>1, RejectsResults DEF WireInv
<1>3. ASSUME NEW r \in replies, Receive(r) PROVE WireInv'
  <2>1. /\ \A q \in sent : q.call # n
        /\ \A s \in replies \ {r} : s.req.call # n
        /\ replies' = replies \ {r}
    BY <1>3, ReceiveCases, AnswerTaken
  <2>2. CASE GoesOn(r)
    <3>1. ASSUME NEW q \in Request, Placed(q), q.call # n PROVE Placed(q)'
      BY <2>2, <3>1 DEF Placed, Req, GoesOn
    <3>2. Placed(Req(step))' /\ Req(step)'.call = n
      BY <2>2 DEF Placed, Req, GoesOn, NextStep
    <3>3. QED
      BY <1>0, <2>1, <2>2, <3>1, <3>2 DEF WireInv, GoesOn
  <2>3. ASSUME NEW ok, NEW content, NEW output, EndedWith(ok, content, output), sent' = sent
        PROVE  WireInv'
    <3>1. ASSUME NEW q \in Request, Placed(q), q.call # n PROVE Placed(q)'
      BY <2>3, <3>1, PlacedEnded DEF Req
    <3>2. QED
      BY <1>0, <2>1, <2>3, <3>1 DEF WireInv
  <2>4. QED
    BY <1>3, <2>2, <2>3, ReceiveCases
<1>4. CASE GiveUp
  <2>1. PICK ok, content, output :
          EndedWith(ok, content, output) /\ (ok => step = "release")
    BY <1>4, GiveUpCases
  <2>2. ASSUME NEW q \in Request, Placed(q) PROVE Placed(q)'
    BY <2>1, <2>2, PlacedEnded
  <2>3. sent' \subseteq sent /\ replies' = replies
    BY <1>4, GiveUpCases
  <2>4. QED
    BY <1>0, <2>2, <2>3 DEF WireInv
<1>5. ASSUME NEW q \in sent,
             UNCHANGED <<n, step, results>>, sent' = sent \ {q},
             \E r \in Reply : replies' = replies \cup {r} /\ r.req = q
      PROVE  WireInv'
  <2>1. \A s \in Request : Placed(s) => Placed(s)'
    BY <1>5, PlacedKept
  <2>2. QED
    BY <1>0, <1>5, <2>1 DEF WireInv
<1>6. CASE \E q \in sent : Handle(q) \/ Refuse(q)
  BY <1>5, <1>6, HandleCases, RefuseCases
<1>7. CASE (\E t \in Calls : CommandExits(t)) \/ UNCHANGED vars
  BY <1>7 DEF CommandExits, vars, execVars, wireVars, WireInv, Placed, Req
<1>8. QED
  BY <1>1, <1>2, <1>3, <1>4, <1>6, <1>7 DEF Next

\* What the handling of a request does to the terminals.
LEMMA HandleTerm ==
  ASSUME TypeInv, WireInv, NEW q \in sent, Handle(q)
  PROVE  /\ \A t \in Calls \ {q.call} : term'[t] = term[t]
         /\ q.method = "create" => term'[q.call] = "running"
         /\ q.method = "release" => term'[q.call] = "released"
         /\ q.method \notin {"create", "release"} => term'[q.call] = term[q.call]
         /\ \A s \in sent \ {q} : s.call \in Calls \ {q.call}
         /\ \A r \in replies : r.req.call \in Calls \ {q.call}
<1>1. q.call \in Calls /\ term \in [Calls -> {"none", "running", "exited", "released"}]
  BY HandleCases DEF TypeInv
<1>2. /\ \A s \in sent \ {q} : s.call \in Calls \ {q.call}
      /\ \A r \in replies : r.req.call \in Calls \ {q.call}
  BY DEF TypeInv, WireInv, Request, Reply
<1>3. QED
  BY <1>1, <1>2, HandleCases

LEMMA NextSentInv == TypeInv /\ WireInv /\ SentInv /\ ReplyInv /\ [Next]_vars => SentInv'
<1> SUFFICES ASSUME TypeInv, WireInv, SentInv, ReplyInv, [Next]_vars PROVE SentInv'
  OBVIOUS
<1> USE DEF SentInv, Open
<1>1. ASSUME NEW tool \in {"read", "write", "command"}, Execute(tool) PROVE SentInv'
  BY <1>1, ExecuteCases DEF Req
<1>2. CASE Rejects \/ GiveUp
  BY <1>2, RejectsResults, GiveUpCases
<1>3. ASSUME NEW r \in replies, Receive(r) PROVE SentInv'
  <2>1. CASE GoesOn(r)
    <3>1. /\ term' = term /\ sent' = sent \cup {Req(step)'}
          /\ Req(step)'.method = NextStep(step) /\ Req(step)'.call = n
          /\ r.ok /\ r.req.method = step /\ r.req.call = n
      <4>1. term' = term /\ r.req = Req(step)
        BY <1>3, ReceiveCases
      <4>2. QED
        BY <2>1, <4>1 DEF GoesOn, Req
    <3>2. /\ NextStep(step) = "wait" => Open(n)
          /\ NextStep(step) \in {"output", "release"} => term[n] = "exited"
          /\ NextStep(step) \in {"wait", "output", "release"}
      BY <2>1, <3>1 DEF GoesOn, NextStep, ReplyInv
    <3>3. QED
      BY <3>1, <3>2
  <2>2. CASE sent' = sent
    BY <1>3, <2>2, ReceiveCases
  <2>3. QED
    BY <1>3, <2>1, <2>2, ReceiveCases
<1>4. ASSUME NEW q \in sent, Handle(q) PROVE SentInv'
  BY <1>4, HandleCases, HandleTerm
<1>5. ASSUME NEW q \in sent, Refuse(q) PROVE SentInv'
  BY <1>5, RefuseCases
<1>6. ASSUME NEW t \in Calls, CommandExits(t) PROVE SentInv'
  BY <1>6 DEF CommandExits, wireVars, TypeInv, Request
<1>7. CASE UNCHANGED vars
  BY <1>7 DEF vars, wireVars, clientVars
<1>8. QED
  BY <1>1, <1>2, <1>3, <1>4, <1>5, <1>6, <1>7 DEF Next

LEMMA NextReplyInv == TypeInv /\ WireInv /\ SentInv /\ ReplyInv /\ [Next]_vars => ReplyInv'
<1> SUFFICES ASSUME TypeInv, WireInv, SentInv, ReplyInv, [Next]_vars PROVE ReplyInv'
  OBVIOUS
<1> USE DEF ReplyInv, Open
<1>1. CASE Rejects \/ GiveUp \/ \E tool \in {"read", "write", "command"} : Execute(tool)
  BY <1>1, RejectsResults, GiveUpCases, ExecuteCases
<1>2. CASE \E r \in replies : Receive(r)
  BY <1>2, ReceiveCases
<1>3. ASSUME NEW q \in sent, Handle(q) PROVE ReplyInv'
  <2>1. PICK r \in Reply : /\ replies' = replies \cup {r} /\ r.req = q
                           /\ q.method = "output" /\ term[q.call] = "exited" => r.output = "whole"
    BY <1>3, HandleCases
  <2>2. /\ q.method = "create" => Open(q.call)'
        /\ q.method \in {"wait", "output"} => term'[q.call] = "exited"
        /\ q.method = "output" => r.output = "whole"
    BY <1>3, <2>1, HandleCases, HandleTerm DEF SentInv
  <2>3. QED
    BY <1>3, <2>1, <2>2, HandleTerm
<1>4. ASSUME NEW q \in sent, Refuse(q) PROVE ReplyInv'
  BY <1>4, RefuseCases
<1>5. ASSUME NEW t \in Calls, CommandExits(t) PROVE ReplyInv'
  BY <1>5 DEF CommandExits, wireVars, TypeInv, Reply, Request
<1>6. CASE UNCHANGED vars
  BY <1>6 DEF vars, wireVars, clientVars
<1>7. QED
  BY <1>1, <1>2, <1>3, <1>4, <1>5, <1>6 DEF Next

\* What was said of the calls that have returned goes on to hold when nothing of them
\* changes, and a release that is on its way or was undone stays so.
Behind(t) ==
    /\ results[t].tool # "command" => term[t] = "none"
    /\ results[t].tool = "command" /\ results[t].ok =>
         /\ results[t].output = "whole"
         /\ Open(t) => Release(t) \in sent \cup undone

LEMMA BehindKept ==
  ASSUME NEW t, Behind(t), results'[t] = results[t],
         term'[t] = term[t] \/ (term[t] = "running" /\ term'[t] = "exited"),
         Release(t) \in sent \cup undone => Release(t) \in sent' \cup undone'
  PROVE  Behind(t)'
BY DEF Behind, Open, Release

LEMMA NextTermInv ==
  TypeInv /\ WireInv /\ SentInv /\ ReplyInv /\ TermInv /\ [Next]_vars => TermInv'
<1> SUFFICES ASSUME TypeInv, WireInv, SentInv, ReplyInv, TermInv, [Next]_vars PROVE TermInv'
  OBVIOUS
<1>0. /\ \A t \in Calls : t > n => term[t] = "none"
      /\ step \in {"read", "write"} => term[n] = "none"
      /\ step = "release" => got = "whole" /\ (Open(n) => Release(n) \in sent \cup undone)
      /\ \A t \in 1 .. Len(results) : Behind(t)
  BY DEF TermInv, Behind
<1>1. ASSUME NEW tool \in {"read", "write", "command"}, Execute(tool) PROVE TermInv'
  <2>1. term'[n + 1] = "none" /\ \A t \in Calls : t > n' => term'[t] = "none"
    <3>1. term' = term /\ n + 1 \in Calls /\ n' = n + 1
      BY <1>1, ExecuteCases
    <3>2. QED
      BY <1>0, <3>1, CallNumbers
  <2>2. \A t \in 1 .. Len(results') : Behind(t)'
    BY <1>0, <1>1, ExecuteCases, BehindKept
  <2>3. QED
    BY <1>1, <2>1, <2>2, ExecuteCases DEF TermInv, Behind
<1>2. CASE Rejects
  <2>1. term'[n + 1] = "none" /\ \A t \in Calls : t > n' => term'[t] = "none"
    <3>1. term' = term /\ n + 1 \in Calls /\ n' = n + 1
      BY <1>2, RejectsResults
    <3>2. QED
      BY <1>0, <3>1, CallNumbers
  <2>2. \A t \in 1 .. n : Behind(t)'
    BY <1>0, <1>2, RejectsResults, BehindKept
  <2>3. Behind(n)'
    BY <1>2, <2>1, RejectsResults DEF Behind
  <2>4. \A t \in 1 .. Len(results') : Behind(t)'
    BY <1>2, <2>2, <2>3, RejectsResults, CallNumbers
  <2>5. QED
    BY <1>2, <2>1, <2>4, RejectsResults DEF TermInv, Behind
<1>3. ASSUME NEW ok, NEW content, NEW output, EndedWith(ok, content, output), term' = term,
             Release(n) \in sent \cup undone => Release(n) \in sent' \cup undone',
             \A t \in 1 .. n - 1 :
                Release(t) \in sent \cup undone => Release(t) \in sent' \cup undone',
             step \notin {"read", "write"} /\ ok => step = "release" /\ output = got
      PROVE  TermInv'
  <2>1. \A t \in 1 .. n - 1 : Behind(t)'
    BY <1>0, <1>3, BehindKept DEF EndedWith
  <2>2. Behind(n)'
    BY <1>0, <1>3 DEF EndedWith, Behind, ToolOf, Open, Release
  <2>3. QED
    BY <1>0, <1>3, <2>1, <2>2 DEF EndedWith, TermInv, Behind, Calls
<1>4. ASSUME NEW r \in replies, Receive(r) PROVE TermInv'
  <2>1. CASE GoesOn(r)
    <3>1. /\ step' = NextStep(step) /\ UNCHANGED <<n, results, term, undone>>
          /\ sent' = sent \cup {Req(step)'} /\ r.req = Req(step) /\ r.ok
          /\ Req(step)' = [method |-> step', call |-> n]
          /\ got' = IF step = "output" THEN r.output ELSE got
      <4>1. UNCHANGED <<term, undone>> /\ r.req = Req(step)
        BY <1>4, ReceiveCases
      <4>2. QED
        BY <2>1, <4>1 DEF GoesOn, Req
    <3>2. \A t \in 1 .. Len(results) : Behind(t)'
      BY <1>0, <3>1, BehindKept
    <3>3. step' \notin {"read", "write"} /\ (step' = "release" => step = "output")
      BY <2>1 DEF GoesOn, NextStep
    <3>4. step' = "release" => got' = "whole" /\ Release(n) \in sent'
      BY <3>1, <3>3 DEF ReplyInv, Req, Release
    <3>5. QED
      BY <1>0, <3>1, <3>2, <3>3, <3>4 DEF TermInv, Behind
  <2>2. CASE ~GoesOn(r)
    <3>1. UNCHANGED <<term, sent, undone>>
      BY <1>4, <2>2, ReceiveCases
    <3>2. PICK ok, content, output : /\ EndedWith(ok, content, output)
                                     /\ step \notin {"read", "write"} /\ ok =>
                                          step = "release" /\ output = got
      BY <1>4, <2>2, ReceiveCases
    <3>3. QED
      BY <1>3, <3>1, <3>2
  <2>3. QED
    BY <2>1, <2>2
<1>5. CASE GiveUp
  <2>1. sent' \cup undone' = sent \cup undone /\ term' = term
    BY <1>5, GiveUpCases
  <2>2. PICK ok, content, output : /\ EndedWith(ok, content, output)
                                   /\ ok => step = "release" /\ output = got
    BY <1>5, GiveUpCases
  <2>3. QED
    BY <1>3, <2>1, <2>2
<1>6. ASSUME NEW q \in sent, Handle(q) PROVE TermInv'
  <2>1. /\ UNCHANGED <<n, step, got, results, undone>> /\ sent' = sent \ {q}
        /\ q \in Request /\ q.call \in Calls /\ Placed(q) /\ q.call \in 1 .. n
        /\ q.call = n /\ step # "idle" => q = Req(step)
    BY <1>6, HandleCases, PlacedCall DEF WireInv
  <2>2. /\ \A t \in Calls \ {q.call} : term'[t] = term[t]
        /\ q.method = "release" => term'[q.call] = "released"
        /\ q.method \notin {"create", "release"} => term'[q.call] = term[q.call]
    BY <1>6, HandleTerm
  <2>3. \A t \in Calls : t > n' => term'[t] = "none"
    BY <1>0, <2>1, <2>2 DEF TypeInv
  <2>4. step' \in {"read", "write"} => term'[n] = "none"
    BY <1>0, <2>1, <2>2 DEF Req, TypeInv
  <2>5. step' = "release" =>
          got' = "whole" /\ (Open(n)' => Release(n) \in sent' \cup undone')
    BY <1>0, <2>1, <2>2 DEF Req, TypeInv, Open, Release
  <2>6. ASSUME NEW t \in 1 .. Len(results) PROVE Behind(t)'
    <3>1. CASE t # q.call
      <4>1. t \in Calls /\ Release(t) # q
        BY <2>1, <3>1, CallNumbers DEF Release
      <4>2. QED
        BY <1>0, <2>1, <2>2, <3>1, <4>1, BehindKept
    <3>2. CASE t = q.call
      <4>1. results[t].tool = ToolOf(q.method) /\ (results[t].ok => q.method = "release")
        BY <2>1, <3>2 DEF Placed, Req, TypeInv
      <4>2. results[t].tool # "command" => term'[t] = term[t]
        BY <2>2, <3>2, <4>1 DEF ToolOf
      <4>3. results[t].ok => term'[t] = "released"
        BY <2>2, <3>2, <4>1
      <4>4. QED
        BY <1>0, <2>1, <4>2, <4>3 DEF Behind, Open
    <3>3. QED
      BY <3>1, <3>2
  <2>7. QED
    BY <2>1, <2>3, <2>4, <2>5, <2>6 DEF TermInv, Behind, Open, Release
<1>7. ASSUME NEW q \in sent, Refuse(q) PROVE TermInv'
  <2>1. sent' \cup undone' = sent \cup undone /\ UNCHANGED <<n, step, got, results, term>>
    BY <1>7, RefuseCases
  <2>2. QED
    BY <2>1 DEF TermInv, Open
<1>8. ASSUME NEW t \in Calls, CommandExits(t) PROVE TermInv'
  <2>1. /\ UNCHANGED <<n, step, got, results, sent, undone>>
        /\ term[t] = "running" /\ \A u \in Calls : term'[u] = IF u = t THEN "exited" ELSE term[u]
    BY <1>8 DEF CommandExits, execVars, wireVars, TypeInv
  <2>2. \A u \in 1 .. Len(results) : Behind(u)'
    BY <1>0, <2>1, BehindKept, CallNumbers
  <2>3. QED
    BY <1>0, <2>1, <2>2 DEF TermInv, Behind, Open, TypeInv
<1>9. CASE UNCHANGED vars
  BY <1>9 DEF vars, execVars, wireVars, clientVars, TermInv, Open
<1>10. QED
  BY <1>1, <1>2, <1>4, <1>5, <1>6, <1>7, <1>8, <1>9 DEF Next

-----------------------------------------------------------------------------
(* What reads return. *)

\* The results there are stay when others are added.
Extended ==
    /\ results' \in Seq(Result) /\ Len(results) <= Len(results')
    /\ \A c \in 1 .. Len(results) : results'[c] = results[c]

LEMMA ResultDomain ==
  ASSUME TypeInv
  PROVE  DOMAIN results = 1 .. Len(results)
BY LenProperties DEF TypeInv

LEMMA SucceededKept ==
  ASSUME TypeInv, Extended, NEW x \in 1 .. Len(results), NEW tool
  PROVE  Succeeded(x, tool)' <=> Succeeded(x, tool)
<1>1. x \in DOMAIN results /\ x \in DOMAIN results' /\ results'[x] = results[x]
  BY LenProperties DEF Extended, TypeInv
<1>2. QED
  BY <1>1 DEF Succeeded

\* So a write goes on to stand before a call.
LEMMA StandsKept ==
  ASSUME TypeInv, Extended, NEW w, NEW c \in Nat, Stands(w, c), c <= Len(results) + 1
  PROVE  Stands(w, c)'
<1>1. CASE w \in 1 .. Len(results) /\ ~results[w].ok
  BY <1>1, CallNumbers DEF Stands, Extended
<1>2. CASE \A x \in 1 .. c - 1 : Succeeded(x, "write") => x <= w
  <2>1. \A x \in 1 .. c - 1 : Succeeded(x, "write")' => Succeeded(x, "write")
    BY CallNumbers, SucceededKept
  <2>2. QED
    BY <1>2, <2>1 DEF Stands
<1>3. QED
  BY <1>1, <1>2 DEF Stands

LEMMA WrittenKept ==
  ASSUME TypeInv, Extended, NEW w, Written(w)
  PROVE  Written(w)'
BY CallNumbers DEF Written, Extended

\* A result that is not a write's success changes nothing for what stands.
LEMMA StandsNext ==
  ASSUME TypeInv, Extended, Len(results') = Len(results) + 1, NEW w,
         Stands(w, Len(results) + 1),
         results'[Len(results')].tool = "write" /\ results'[Len(results')].ok =>
            w = Len(results') \/ (w \in 1 .. Len(results) /\ ~results[w].ok)
  PROVE  Stands(w, Len(results) + 1)'
<1>1. CASE w \in 1 .. Len(results) /\ ~results[w].ok
  BY <1>1, CallNumbers DEF Stands, Extended
<1>2. CASE ~(w \in 1 .. Len(results) /\ ~results[w].ok)
  <2>1. \A x \in 1 .. Len(results) : Succeeded(x, "write")' => x <= w
    BY <1>2, CallNumbers, SucceededKept DEF Stands
  <2>2. Succeeded(Len(results), "write")' => w = Len(results')
    BY <1>2 DEF Succeeded
  <2>3. \A x \in 1 .. Len(results') : Succeeded(x, "write")' => x <= w
    BY <2>1, <2>2, CallNumbers
  <2>4. QED
    BY <2>3, CallNumbers DEF Stands
<1>3. QED
  BY <1>1, <1>2

\* What an answer says of the file.
Tells(r) ==
    /\ r.ok /\ step = "read" /\ r.req = Req(step) =>
         r.content < n /\ Written(r.content) /\ Stands(r.content, n)
    /\ r.ok /\ step = "write" /\ r.req = Req(step) =>
         file = n \/ (file \in 1 .. Len(results) /\ ~results[file].ok)

LEMMA NextFileInv == TypeInv /\ WireInv /\ FileInv /\ [Next]_vars => FileInv'
<1> SUFFICES ASSUME TypeInv, WireInv, FileInv, [Next]_vars PROVE FileInv'
  OBVIOUS
<1>0. /\ Written(file) \/ (file = n /\ step = "write")
      /\ Stands(file, Len(results) + 1)
      /\ \A r \in replies : Tells(r)
      /\ file \in Nat
  BY MaxCallsAssumption DEF FileInv, Tells, TypeInv
<1>1. ASSUME NEW tool \in {"read", "write", "command"}, Execute(tool) PROVE FileInv'
  <2>1. /\ UNCHANGED <<results, replies, file>> /\ step = "idle"
        /\ step' \in {"read", "write", "create"} /\ n' = n + 1
    BY <1>1, ExecuteCases
  <2>2. \A r \in replies : r.req # Req(step)'
    <3>1. \A r \in replies : r.req.call \in 1 .. n
      BY PlacedCall DEF TypeInv, WireInv, Reply
    <3>2. Req(step)'.call = n + 1
      BY <2>1 DEF Req
    <3>3. QED
      BY <3>1, <3>2, CallNumbers
  <2>3. QED
    BY <1>0, <2>1, <2>2 DEF FileInv, Written, Stands, Succeeded
<1>2. ASSUME Extended, Len(results') = Len(results) + 1, step' = "idle", file' = file,
             step = "write" => n = Len(results') /\ results'[Len(results')].tool = "write",
             results'[Len(results')].tool = "write" /\ results'[Len(results')].ok =>
                file = Len(results') \/ (file \in 1 .. Len(results) /\ ~results[file].ok)
      PROVE  FileInv'
  <2>1. PICK f \in Nat : f = file
    BY <1>0
  <2>2. Stands(f, Len(results) + 1)'
    BY <1>0, <1>2, <2>1, StandsNext
  <2>3. Written(f)'
    <3>1. CASE Written(f)
      BY <1>2, <3>1, WrittenKept
    <3>2. CASE f = n /\ step = "write"
      BY <1>2, <3>2, CallNumbers DEF Written
    <3>3. QED
      BY <1>0, <2>1, <3>1, <3>2
  <2>4. Stands(file, Len(results) + 1)' /\ Written(file)'
    BY <1>2, <2>1, <2>2, <2>3 DEF Stands, Written
  <2>5. QED
    BY <1>2, <2>4 DEF FileInv
<1>3. CASE Rejects
  <2>1. /\ Extended /\ Len(results') = Len(results) + 1 /\ step = "idle" /\ step' = "idle"
        /\ file' = file /\ results'[Len(results')].tool = "unknown"
    BY <1>3, RejectsResults DEF Extended
  <2>2. QED
    BY <1>2, <2>1
<1>4. ASSUME NEW ok, NEW content, NEW output, EndedWith(ok, content, output), file' = file,
             ok /\ step = "write" => file = n \/ (file \in 1 .. Len(results) /\ ~results[file].ok)
      PROVE  FileInv'
  <2>1. /\ Extended /\ Len(results') = Len(results) + 1 /\ step' = "idle" /\ n' = n
        /\ n' = Len(results') /\ results'[Len(results')].tool = ToolOf(step)
        /\ results'[Len(results')].ok = ok
    BY <1>4 DEF EndedWith, Extended, Calls
  <2>2. ToolOf(step) = "write" <=> step = "write"
    BY DEF ToolOf
  <2>3. QED
    BY <1>2, <1>4, <2>1, <2>2
<1>5. ASSUME NEW r \in replies, Receive(r) PROVE FileInv'
  <2>1. r.req = Req(step) /\ replies' = replies \ {r} /\ UNCHANGED <<n, file>>
    BY <1>5, ReceiveCases
  <2>2. CASE GoesOn(r)
    <3>1. step \notin {"read", "write"} /\ step' \notin {"read", "write"} /\ results' = results
      BY <2>2 DEF GoesOn, NextStep
    <3>2. QED
      BY <1>0, <2>1, <3>1 DEF FileInv, Written, Stands, Succeeded
  <2>3. CASE ~GoesOn(r)
    <3>1. PICK ok, content, output : /\ EndedWith(ok, content, output)
                                     /\ ok /\ step = "write" => r.ok
      BY <1>5, <2>3, ReceiveCases
    <3>2. QED
      BY <1>0, <1>4, <2>1, <3>1 DEF Tells
  <2>4. QED
    BY <2>2, <2>3
<1>6. CASE GiveUp
  <2>1. PICK ok, content, output : /\ EndedWith(ok, content, output)
                                   /\ ok => step = "release"
    BY <1>6, GiveUpCases
  <2>2. file' = file
    BY <1>6, GiveUpCases
  <2>3. QED
    BY <1>4, <2>1, <2>2
<1>7. ASSUME NEW q \in sent, Handle(q) PROVE FileInv'
  <2>1. /\ UNCHANGED <<n, step, results>> /\ q \in Request /\ Placed(q)
        /\ file' = IF q.method = "write" THEN q.call ELSE file
    BY <1>7, HandleCases DEF WireInv
  <2>2. PICK r \in Reply : /\ replies' = replies \cup {r} /\ r.req = q
                           /\ q.method = "read" => r.content = file
    BY <1>7, HandleCases
  <2>3. \A s \in replies : s.req # q
    BY DEF WireInv
  <2>4. CASE q.method = "write"
    <3>1. CASE step # "idle" /\ q = Req(step)
      <4>1. step = "write" /\ file' = n /\ Len(results) = n - 1
        BY <2>1, <2>4, <3>1 DEF Req, TypeInv
      <4>2. Stands(file, Len(results) + 1)'
        BY <2>1, <4>1, CallNumbers DEF Stands
      <4>3. QED
        BY <2>1, <4>1, <4>2 DEF FileInv
    <3>2. CASE /\ q.call \in 1 .. Len(results)
               /\ results[q.call].tool = ToolOf(q.method)
               /\ results[q.call].ok => q.method = "release"
      <4>1. /\ file' \in 1 .. Len(results) /\ results[file'].tool = "write" /\ ~results[file'].ok
        BY <2>1, <2>4, <3>2 DEF ToolOf
      <4>2. Written(file)' /\ Stands(file, Len(results) + 1)'
        BY <2>1, <4>1 DEF Written, Stands
      <4>3. \A s \in replies' : Tells(s)'
        BY <1>0, <2>1, <2>2, <2>4, <4>1 DEF Tells, Written, Stands, Succeeded, Req
      <4>4. QED
        BY <4>2, <4>3 DEF FileInv, Tells
    <3>3. QED
      BY <2>1, <3>1, <3>2 DEF Placed
  <2>5. CASE q.method # "write"
    <3>1. file' = file
      BY <2>1, <2>5
    <3>2. r.ok /\ step = "read" /\ q = Req(step) =>
            r.content < n /\ Written(r.content) /\ Stands(r.content, n)
      <4>1. CASE step = "read" /\ q = Req(step)
        <5>1. r.content = file /\ Written(file) /\ Len(results) + 1 = n
          BY <1>0, <2>2, <4>1 DEF Req, TypeInv
        <5>2. file < n
          BY <5>1, CallNumbers DEF Written
        <5>3. QED
          BY <1>0, <5>1, <5>2
      <4>2. QED
        BY <4>1
    <3>3. Tells(r)
      BY <2>2, <2>5, <3>2 DEF Tells, Req
    <3>4. QED
      BY <1>0, <2>1, <2>2, <3>1, <3>3 DEF FileInv, Tells, Written, Stands, Succeeded, Req
  <2>6. QED
    BY <2>4, <2>5
<1>8. ASSUME NEW q \in sent, Refuse(q) PROVE FileInv'
  <2>1. UNCHANGED <<n, step, results, file>> /\ \E r \in Reply : replies' = replies \cup {r} /\ ~r.ok
    BY <1>8, RefuseCases
  <2>2. QED
    BY <1>0, <2>1 DEF FileInv, Tells, Written, Stands, Succeeded, Req
<1>9. CASE (\E t \in Calls : CommandExits(t)) \/ UNCHANGED vars
  BY <1>0, <1>9 DEF CommandExits, vars, execVars, wireVars, clientVars, FileInv, Tells, Written,
                    Stands, Succeeded, Req
<1>10. QED
  BY <1>1, <1>3, <1>5, <1>6, <1>7, <1>8, <1>9 DEF Next

\* What a read that succeeded has returned.
Sound(c) ==
    Succeeded(c, "read") =>
        results[c].content < c /\ Written(results[c].content) /\ Stands(results[c].content, c)

LEMMA ContentType ==
  ASSUME TypeInv, NEW c \in 1 .. Len(results)
  PROVE  results[c].content \in Nat
<1>1. results[c] \in Result
  BY ElementOfSeq DEF TypeInv
<1>2. QED
  BY <1>1 DEF Result

LEMMA SoundReads == TypeInv => (ReadsLastWrite <=> \A c \in 1 .. Len(results) : Sound(c))
<1> SUFFICES ASSUME TypeInv PROVE ReadsLastWrite <=> \A c \in 1 .. Len(results) : Sound(c)
  OBVIOUS
<1>1. \A c \in 1 .. Len(results) : results[c].content \in Nat
  BY ContentType
<1>2. ASSUME NEW c \in 1 .. Len(results), NEW w \in Nat, w < c
      PROVE  /\ Written(w) <=> w = 0 \/ results[w].tool = "write"
             /\ Stands(w, c) <=> \/ w > 0 /\ ~results[w].ok
                                 \/ \A x \in 1 .. c - 1 : Succeeded(x, "write") => x <= w
  BY <1>2, CallNumbers DEF Written, Stands
<1>3. QED
  BY <1>1, <1>2, ResultDomain DEF ReadsLastWrite, Sound

LEMMA NextReads == TypeInv /\ FileInv /\ ReadsLastWrite /\ [Next]_vars => ReadsLastWrite'
<1> SUFFICES ASSUME TypeInv, FileInv, ReadsLastWrite, [Next]_vars PROVE ReadsLastWrite'
  OBVIOUS
<1>0. /\ \A c \in 1 .. Len(results) : Sound(c)
      /\ (ReadsLastWrite <=> \A c \in 1 .. Len(results) : Sound(c))'
  <2>1. \A c \in 1 .. Len(results) : Sound(c)
    BY SoundReads
  <2>2. (ReadsLastWrite <=> \A c \in 1 .. Len(results) : Sound(c))'
    BY NextTypeInv, SoundReads, PTL
  <2>3. QED
    BY <2>1, <2>2
<1>1. ASSUME Extended, NEW c \in 1 .. Len(results) PROVE Sound(c)'
  <2>1. results'[c] = results[c] /\ (Succeeded(c, "read")' <=> Succeeded(c, "read"))
    BY <1>1, SucceededKept DEF Extended
  <2>2. PICK w \in Nat : w = results[c].content
    BY ContentType
  <2>3. Written(w) /\ Stands(w, c) => Written(w)' /\ Stands(w, c)'
    BY <1>1, CallNumbers, WrittenKept, StandsKept
  <2>4. Written(results[c].content)' = Written(w)' /\ Stands(results[c].content, c)' = Stands(w, c)'
    BY <2>1, <2>2 DEF Written, Stands
  <2>5. QED
    BY <1>0, <2>1, <2>2, <2>3, <2>4 DEF Sound
<1>2. ASSUME Extended, Len(results') = Len(results) + 1, Sound(Len(results))'
      PROVE  ReadsLastWrite'
  <2>1. \A c \in 1 .. Len(results') : Sound(c)'
    BY <1>1, <1>2, CallNumbers DEF Sound
  <2>2. QED
    BY <1>0, <2>1
<1>3. CASE Rejects
  <2>1. Extended /\ Len(results') = Len(results) + 1 /\ results'[Len(results')].tool = "unknown"
    BY <1>3, RejectsResults DEF Extended
  <2>2. QED
    BY <1>2, <2>1 DEF Sound, Succeeded
<1>4. ASSUME NEW ok, NEW content \in Nat, NEW output, EndedWith(ok, content, output),
             ok /\ step = "read" => content < n /\ Written(content) /\ Stands(content, n)
      PROVE  ReadsLastWrite'
  <2>1. /\ Extended /\ Len(results') = Len(results) + 1 /\ n = Len(results')
        /\ results'[Len(results')].tool = ToolOf(step)
        /\ results'[Len(results')].ok = ok
        /\ results'[Len(results')].content = content
    BY <1>4 DEF EndedWith, Extended, Calls
  <2>2. ToolOf(step) = "read" <=> step = "read"
    BY DEF ToolOf
  <2>3. PICK c \in Nat : c = n
    BY CallNumbers
  <2>4. ok /\ step = "read" => Written(content)' /\ Stands(content, c)'
    BY <1>4, <2>1, <2>3, CallNumbers, WrittenKept, StandsKept
  <2>5. Sound(Len(results))'
    BY <1>4, <2>1, <2>2, <2>3, <2>4 DEF Sound, Succeeded
  <2>6. QED
    BY <1>2, <2>1, <2>5
<1>5. ASSUME NEW r \in replies, Receive(r) PROVE ReadsLastWrite'
  <2>1. r.req = Req(step) /\ r.content \in Nat
    BY <1>5, ReceiveCases DEF TypeInv, Reply
  <2>2. CASE GoesOn(r)
    BY <2>2 DEF GoesOn, ReadsLastWrite, Succeeded
  <2>3. CASE ~GoesOn(r)
    <3>1. \/ step = "read" /\ r.ok /\ EndedWith(TRUE, r.content, "none")
          \/ step # "read" /\ \E output : EndedWith(TRUE, 0, output)
          \/ EndedWith(FALSE, 0, "none")
      BY <1>5, <2>3, ReceiveCases
    <3>2. QED
      BY <1>4, <2>1, <3>1 DEF FileInv
  <2>4. QED
    BY <2>2, <2>3
<1>6. CASE GiveUp
  BY <1>4, <1>6, GiveUpCases
<1>7. CASE ~(Rejects \/ GiveUp \/ \E r \in replies : Receive(r))
  <2>1. results' = results
    BY <1>7, ExecuteCases, HandleCases, RefuseCases DEF Next, CommandExits, vars, execVars
  <2>2. QED
    BY <2>1 DEF ReadsLastWrite, Succeeded
<1>8. QED
  BY <1>3, <1>5, <1>6, <1>7

-----------------------------------------------------------------------------
(* The theorems. *)

CallsInv == TypeInv /\ WireInv /\ SentInv /\ ReplyInv /\ TermInv /\ FileInv /\ ReadsLastWrite

LEMMA InitCallsInv == Init => CallsInv
<1> SUFFICES ASSUME Init PROVE CallsInv
  OBVIOUS
<1>1. TypeInv
  BY InitTypeInv
<1>2. /\ n = 0 /\ Len(results) = 0 /\ results = <<>> /\ sent = {} /\ replies = {} /\ file = 0
      /\ step = "idle"
  BY <1>1 DEF Init, TypeInv
<1>3. WireInv /\ SentInv /\ ReplyInv
  BY <1>2 DEF WireInv, SentInv, ReplyInv
<1>4. TermInv
  BY <1>2 DEF Init, TermInv
<1>5. FileInv /\ ReadsLastWrite
  BY <1>1, <1>2, ResultDomain DEF FileInv, Written, Stands, ReadsLastWrite
<1>6. QED
  BY <1>1, <1>3, <1>4, <1>5 DEF CallsInv

LEMMA NextCallsInv == CallsInv /\ [Next]_vars => CallsInv'
BY NextTypeInv, NextWireInv, NextSentInv, NextReplyInv, NextTermInv, NextFileInv, NextReads
DEF CallsInv

LEMMA CallsAlways == Spec => []CallsInv
BY InitCallsInv, NextCallsInv, PTL DEF Spec

\* A read (executor.go, executeReadFile) returns the last write that succeeded before it, or
\* one whose call failed: for any number of calls, whatever is late or lost.
THEOREM ReadsAreSound == Spec => []ReadsLastWrite
<1>1. CallsInv => ReadsLastWrite
  BY DEF CallsInv
<1>2. QED
  BY <1>1, CallsAlways, PTL

\* A command that succeeds returns its output to the end: the terminal was waited for.
THEOREM CommandsAreWhole == Spec => []OutputIsWhole
<1>1. CallsInv => OutputIsWhole
  BY ResultDomain DEF CallsInv, TermInv, OutputIsWhole, Succeeded
<1>2. QED
  BY <1>1, CallsAlways, PTL

\* No request for a terminal is on its way once the executor's release was carried out.
THEOREM ReleaseIsLast == Spec => []NoUseAfterRelease
<1>1. CallsInv => NoUseAfterRelease
  BY DEF CallsInv, SentInv, Open, NoUseAfterRelease
<1>2. QED
  BY <1>1, CallsAlways, PTL

\* A call that succeeds leaves no terminal open, unless its release is late or was undone.
THEOREM TerminalsAreReleased == Spec => []OpenOnlyAfterError
<1>1. CallsInv => OpenOnlyAfterError
  <2> SUFFICES ASSUME CallsInv, NEW t \in Calls, t <= n, t = n => step = "idle", Open(t), results[t].ok
               PROVE  Release(t) \in sent \cup undone
    BY DEF OpenOnlyAfterError, Open, Release
  <2>1. t \in 1 .. Len(results)
    BY MaxCallsAssumption DEF CallsInv, TypeInv, Calls
  <2>2. results[t].tool = "command"
    BY <2>1 DEF CallsInv, TermInv, Open
  <2>3. QED
    BY <2>1, <2>2 DEF CallsInv, TermInv
<1>2. QED
  BY <1>1, CallsAlways, PTL

=============================================================================
