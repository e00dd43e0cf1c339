---------------------------- MODULE ModelContext ----------------------------
(***************************************************************************)
(* What the model is shown: the Window of a run                            *)
(* (internal/conversation/context.go), filled by the agent loop, the tools *)
(* and the skill tool, and what GenerateChat makes of it: messages of one  *)
(* role are merged (provider/normalize.go), the sequence of roles is       *)
(* checked (provider/validator.go) and the payload is built                *)
(* (provider/openai.go).                                                   *)
(*                                                                         *)
(* The text of a message is the list of the messages it was made of: every *)
(* message that is stored has a number, and merging joins the lists.       *)
(***************************************************************************)
EXTENDS Integers, Sequences, FiniteSets, SequencesExt

CONSTANTS
    Calls,          \* tool call IDs
    SkillCalls,     \* those of them that call the skill tool
    ValidateRoles,  \* validate_roles of the daemon's configuration
    Budgets,        \* how many of the newest messages the history budget allows
    MaxFailures,    \* bound: messages that cannot be stored
    MaxMessages     \* bound: messages in the session file

ASSUME CallsAssumption == SkillCalls \subseteq Calls
ASSUME SwitchAssumption == ValidateRoles \in BOOLEAN
ASSUME BoundsAssumption == Budgets \subseteq Nat /\ {MaxFailures, MaxMessages} \subseteq Nat

VARIABLES
    file,      \* messages in the session file
    spoiled,   \* numbers of those that share their line with another or with a torn one
    torn,      \* what it ends with: "no" torn line, a "part" of a message, or the "whole" of
               \* its last one without the newline
    history,   \* what was loaded of it when the run started
    memory,    \* messages of this run
    toolRole,  \* tool_role of the agent's configuration, read for each run
    pc,        \* the loop: "idle", "prompt", "ask", "asked", "refused",
               \* "collect", "tools"
    todo,      \* calls of the batch that have no result yet
    denied,    \* calls of the batch that were denied
    payload,   \* messages of the last request to the model
    skillMsgs, \* history: numbers of the messages the skill tool put into the context
    failures   \* history: number of messages that could not be stored

stored == <<file, spoiled, torn>>
notes == <<skillMsgs, failures>>
vars == <<stored, history, memory, toolRole, pc, todo, denied, payload, notes>>

\* The operators named ...Fault are faults a change of the code could bring in;
\* no specification uses them.

\* A ToolResult: the call it is for, and its output.
Result(c, n) == <<c, n>>

\* A message: its role, the numbers of the messages it is made of, its calls, its result.
Msg(role, n, calls) == [role |-> role, text |-> <<n>>, calls |-> calls, result |-> <<>>]
ToolMsg(c, n) == [Msg("tool", n, {}) EXCEPT !.result = Result(c, n)]
SystemMsg == Msg("system", 0, {})
IsResult(m) == m.result # <<>>

Init ==
    /\ file = <<>> /\ spoiled = {} /\ torn = "no" /\ history = <<>> /\ memory = <<>>
    /\ toolRole = FALSE
    /\ pc = "idle" /\ todo = {} /\ denied = {}
    /\ payload = <<>> /\ skillMsgs = {} /\ failures = 0

-----------------------------------------------------------------------------
(* The Window. *)

\* Ends of lines a chunk of LoadTail may begin at: each spoils the lines on both sides of it.
Seams == {n \in 1 .. Len(file) : n < Len(file) \/ torn = "part"}

\* Of the lines LoadTail cannot read none is an error.
Spoils(seams) == spoiled \cup seams \cup {n + 1 : n \in seams}

AddRead(read, n, seams) == IF n \in Spoils(seams) THEN read ELSE Append(read, file[n])

LinesRead(seams) ==
    LET Read[n \in 0 .. Len(file)] == IF n = 0 THEN <<>> ELSE AddRead(Read[n - 1], n, seams)
    IN Read[Len(file)]

Newest(s, n) == IF n >= Len(s) THEN s ELSE SubSeq(s, Len(s) - n + 1, Len(s))

\* LoadTail: the newest messages that can be read and fit the budget, and at least the last.
LoadTail(b, seams) == Newest(LinesRead(seams), IF b = 0 THEN 1 ELSE b)

NextNumber == Len(file) + 1

\* A line that is written behind a torn one is of no use, nor is that.
SpoiledNext ==
    CASE torn = "no" -> spoiled
      [] torn = "part" -> spoiled \cup {NextNumber}
      [] torn = "whole" -> spoiled \cup {Len(file), NextNumber}

\* AddMessage appends to the file, and to memory if that went well.
AppendToFile(m) ==
    /\ Len(file) < MaxMessages
    /\ file' = Append(file, m) /\ spoiled' = SpoiledNext /\ torn' = "no"
    /\ UNCHANGED failures

Store(m) == AppendToFile(m) /\ memory' = Append(memory, m)

\* Nothing of the line is written, a part of it, or all but the newline.
StoreFails(m) ==
    /\ failures < MaxFailures /\ failures' = failures + 1
    /\ \/ UNCHANGED stored
       \/ /\ torn' = "part" /\ UNCHANGED file
          /\ spoiled' = IF torn = "whole" THEN spoiled \cup {Len(file)} ELSE spoiled
       \/ /\ torn = "no" /\ Len(file) < MaxMessages
          /\ torn' = "whole" /\ file' = Append(file, m) /\ UNCHANGED spoiled

BuildContext == <<SystemMsg>> \o history \o memory

-----------------------------------------------------------------------------
(* GenerateChat: normalize, validate, build the payload. *)

EffectiveRole(m, useToolRole) == IF ~useToolRole /\ IsResult(m) THEN "user" ELSE m.role

\* Messages of the same role are merged, results in the tool role with each other.
ShouldMergeFault(m, previous, useToolRole) ==
    EffectiveRole(m, useToolRole) = EffectiveRole(previous, useToolRole)

ShouldMerge(m, previous, useToolRole) ==
    /\ ~(useToolRole /\ EffectiveRole(m, useToolRole) = "tool")
    /\ EffectiveRole(m, useToolRole) = EffectiveRole(previous, useToolRole)

\* The calls of the second message are forgotten.
MergeFault(target, source) == [target EXCEPT !.text = @ \o source.text]

\* The text of the second message is forgotten.
MergeTextFault(target, source) == [target EXCEPT !.calls = @ \cup source.calls]

\* A merged message keeps the result of the first, if that is a result.
Merge(target, source) ==
    [target EXCEPT !.text = @ \o source.text, !.calls = @ \cup source.calls]

\* One round of the loop: m is merged into the last message, or put behind it.
Add(merged, m, useToolRole) ==
    IF ShouldMerge(m, Last(merged), useToolRole)
      THEN [merged EXCEPT ![Len(merged)] = Merge(@, m)]
      ELSE Append(merged, m)

\* The first n messages are merged to Merged[n].
Normalize(msgs, useToolRole) ==
    LET Merged[n \in 1 .. Len(msgs)] ==
            IF n = 1 THEN <<msgs[1]>> ELSE Add(Merged[n - 1], msgs[n], useToolRole)
    IN Merged[Len(msgs)]

\* Every message after which a tool result may come: the one that makes the calls,
\* and the results of the calls.
ExpectsResult(m) == (m.role = "assistant" /\ m.calls # {}) \/ IsResult(m)

\* Only the tool role is repeated.
Alternates(msgs, useToolRole) ==
    \A i \in 3 .. Len(msgs) :
        EffectiveRole(msgs[i], useToolRole) = EffectiveRole(msgs[i - 1], useToolRole) =>
            EffectiveRole(msgs[i], useToolRole) = "tool"

\* Results are not looked at.
ValidFault(msgs, useToolRole) == msgs[1].role = "system" /\ Alternates(msgs, useToolRole)

Valid(msgs, useToolRole) ==
    /\ msgs[1].role = "system"
    /\ Alternates(msgs, useToolRole)
    /\ \A i \in 2 .. Len(msgs) : IsResult(msgs[i]) => ExpectsResult(msgs[i - 1])

\* Of a message with a result the payload has the output of that result.
Entry(m, useToolRole) ==
    [role  |-> IF IsResult(m) /\ ~useToolRole THEN "user" ELSE m.role,
     text  |-> IF IsResult(m) THEN <<m.result[2]>> ELSE m.text,
     calls |-> m.calls,
     answers |-> IF IsResult(m) /\ useToolRole THEN {m.result[1]} ELSE {}]

Payload(msgs, useToolRole) == [i \in 1 .. Len(msgs) |-> Entry(msgs[i], useToolRole)]

-----------------------------------------------------------------------------
(* The run. *)

\* A Window of its own for each run; an error of LoadTail leaves an empty history. Where the
\* chunks of the load begin depends on the lengths of all the lines.
StartRun ==
    /\ pc = "idle"
    /\ toolRole' \in BOOLEAN
    /\ \/ \E b \in Budgets, seams \in SUBSET Seams : history' = LoadTail(b, seams)
       \/ history' = <<>>
    /\ memory' = <<>>
    /\ pc' = "prompt"
    /\ UNCHANGED <<stored, todo, denied, payload, notes>>

\* The prompt, with the content of the skill the user named; an empty one is not
\* stored.
AddPrompt ==
    /\ pc = "prompt"
    /\ \/ Store(Msg("user", NextNumber, {}))
       \/ StoreFails(Msg("user", NextNumber, {})) /\ UNCHANGED memory
       \/ UNCHANGED <<stored, memory, failures>>
    /\ pc' = "ask"
    /\ UNCHANGED <<history, toolRole, todo, denied, payload, skillMsgs>>

GenerateChat ==
    /\ pc = "ask"
    /\ LET msgs == Normalize(BuildContext, toolRole) IN
         IF ValidateRoles /\ ~Valid(msgs, toolRole)
           THEN pc' = "refused" /\ payload' = <<>>
           ELSE pc' = "asked" /\ payload' = Payload(msgs, toolRole)
    /\ UNCHANGED <<stored, history, memory, toolRole, todo, denied, notes>>

\* The run ends: CompleteRun drops its memory.
EndRun ==
    /\ pc' = "idle" /\ memory' = <<>> /\ history' = <<>>
    /\ todo' = {} /\ denied' = {} /\ toolRole' = FALSE

\* The request is refused, or fails at the endpoint.
RequestFails ==
    /\ pc \in {"asked", "refused"}
    /\ EndRun
    /\ payload' = <<>>
    /\ UNCHANGED <<stored, notes>>

\* The model answers: the answer is stored, if that is possible, and the run ends.
Answer ==
    /\ pc = "asked"
    /\ LET m == Msg("assistant", NextNumber, {}) IN AppendToFile(m) \/ StoreFails(m)
    /\ EndRun
    /\ payload' = <<>>
    /\ UNCHANGED skillMsgs

\* The model makes calls; that its message is not stored is only logged.
MakeCalls(S) ==
    /\ pc = "asked"
    /\ S # {}
    /\ \/ Store(Msg("assistant", NextNumber, S))
       \/ StoreFails(Msg("assistant", NextNumber, S)) /\ UNCHANGED memory
    /\ todo' = S
    /\ pc' = "collect"
    /\ payload' = <<>>
    /\ UNCHANGED <<history, toolRole, denied, skillMsgs>>

\* Every call is decided.
Decide(S) ==
    /\ pc = "collect"
    /\ denied' = S
    /\ S \subseteq todo
    /\ pc' = "tools"
    /\ UNCHANGED <<stored, history, memory, toolRole, todo, payload, notes>>

\* A cancel while the calls wait for approval ends the run.
Cancel ==
    /\ pc = "collect"
    /\ EndRun
    /\ UNCHANGED <<stored, payload, notes>>

\* The result of a call is the tool's output or an error, of a denied call an error.
\* A result that cannot be stored fails the run.
ToolResult(c) ==
    /\ pc = "tools" /\ c \in todo
    /\ \/ /\ Store(ToolMsg(c, NextNumber))
          /\ todo' = todo \ {c}
          /\ UNCHANGED <<history, toolRole, pc, denied>>
       \/ StoreFails(ToolMsg(c, NextNumber)) /\ EndRun
    /\ UNCHANGED <<payload, skillMsgs>>

\* The skill tool comes to its end: its content is a user message and its result
\* follows.
SkillResult(c) ==
    /\ pc = "tools" /\ c \in (todo \cap SkillCalls) \ denied
    /\ Len(file) + 1 < MaxMessages
    /\ LET added == <<Msg("user", NextNumber, {}), ToolMsg(c, NextNumber + 1)>> IN
         /\ file' = file \o added
         /\ memory' = memory \o added
    /\ spoiled' = SpoiledNext /\ torn' = "no"
    /\ skillMsgs' = skillMsgs \cup {NextNumber}
    /\ todo' = todo \ {c}
    /\ UNCHANGED <<history, toolRole, pc, denied, payload, failures>>

\* The content of the skill is stored and the result of the call cannot be. When the
\* content cannot be stored, the result says so: a ToolResult.
SkillFails(c) ==
    /\ pc = "tools" /\ c \in (todo \cap SkillCalls) \ denied
    /\ Len(file) + 1 < MaxMessages
    /\ LET content == Msg("user", NextNumber, {}) IN
         \/ file' = Append(file, content) /\ torn' \in {"no", "part"}
         \/ file' = file \o <<content, ToolMsg(c, NextNumber + 1)>> /\ torn' = "whole"
    /\ spoiled' = SpoiledNext
    /\ skillMsgs' = skillMsgs \cup {NextNumber}
    /\ failures < MaxFailures /\ failures' = failures + 1
    /\ EndRun
    /\ UNCHANGED payload

\* Every call has its result: the model is asked again, unless one was denied.
ToolsDone ==
    /\ pc = "tools" /\ todo = {}
    /\ \/ denied # {} /\ EndRun
       \/ denied = {} /\ pc' = "ask" /\ UNCHANGED <<history, memory, toolRole, todo, denied>>
    /\ UNCHANGED <<stored, payload, notes>>

Next ==
    \/ StartRun \/ AddPrompt \/ GenerateChat \/ RequestFails \/ Answer
    \/ \E S \in SUBSET Calls : MakeCalls(S) \/ Decide(S)
    \/ Cancel
    \/ \E c \in Calls : ToolResult(c) \/ SkillResult(c) \/ SkillFails(c)
    \/ ToolsDone

Spec == Init /\ [][Next]_vars

-----------------------------------------------------------------------------
(* Properties. *)

InPayload(m) == \E i \in DOMAIN payload : m.text[1] \in ToSet(payload[i].text)
CallsInPayload(m) == \E i \in DOMAIN payload : m.calls \subseteq payload[i].calls

\* With the tool role every message of the context reaches the model with every
\* request: prompts, answers, tool calls and results.
EverythingSent ==
    pc = "asked" /\ toolRole =>
        \A i \in DOMAIN BuildContext : InPayload(BuildContext[i]) /\ CallsInPayload(BuildContext[i])

\* The same whatever the agent's tool_role is, as docs/architecture.md:188 says of the
\* results of tool calls. The code does not keep this: with tool_role = false a result
\* that is merged into another is not sent.
ResultsSent ==
    pc = "asked" =>
        \A i \in DOMAIN BuildContext : IsResult(BuildContext[i]) => InPayload(BuildContext[i])

\* Messages from i to j of the context that GenerateChat makes one user message of.
OneUserEntry(i, j) == \A k \in i .. j : EffectiveRole(BuildContext[k], toolRole) = "user"

\* Without the tool role a message is lost only in one way: a tool result stands
\* before it and no assistant message between them.
LostOnlyBehindResult ==
    pc = "asked" =>
        \A j \in DOMAIN BuildContext :
            \/ InPayload(BuildContext[j]) /\ CallsInPayload(BuildContext[j])
            \/ \E i \in 1 .. j - 1 : IsResult(BuildContext[i]) /\ OneUserEntry(i, j)

\* The message with this number is not in the context.
LeftOut(n) == \A k \in 2 .. Len(BuildContext) : BuildContext[k].text[1] # n

\* In a request that is sent every tool result follows the calls it is for, with
\* nothing but results between them, and answers one of them, unless the load has left out
\* the message right before it or before one of those. A message of calls that could not
\* be stored may leave results behind that belong to no call.
SentResultsPaired ==
    pc = "asked" /\ failures = 0 =>
        \A j \in DOMAIN payload :
            payload[j].answers # {} =>
                \E i \in 1 .. j - 1 :
                    /\ payload[i].role = "assistant"
                    /\ \/ payload[j].answers \subseteq payload[i].calls
                       \/ \E k \in i + 1 .. j : LeftOut(payload[k].text[1] - 1)
                    /\ \A k \in i + 1 .. j : payload[k].answers # {}

\* The message before a result is not in the context.
PartedResult ==
    \E k \in 2 .. Len(BuildContext) :
        IsResult(BuildContext[k]) /\ LeftOut(BuildContext[k].text[1] - 1)

SkillInContext == \E i \in DOMAIN BuildContext : BuildContext[i].text[1] \in skillMsgs

\* As long as every message is stored, a request is refused only when the load has left
\* out what is before a result, or a skill put its message before its own result: merging,
\* cancels, denials, failed requests, empty prompts and whatever else the load leaves out
\* never bring the roles out of order.
RefusedHasCause == pc = "refused" => PartedResult \/ SkillInContext \/ failures > 0
=============================================================================
