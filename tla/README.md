# kontekst in TLA+

A verification project for kontekst: TLA+ models of the daemon, its protocol, its
storage and the commands around it, TLC configurations that check them on small
instances, and theorems that TLAPS proves for every instance.

Every model is translated from the code under `src/`; where a document or a
comment says something else, the code is modelled and the difference is listed
under *Where the code differs*. `PROJECT.json` names the lines of the source
each definition stands for.

- [The system](#the-system) - inventory of components, hard behaviours, properties
- [Modules](#modules) - which module models what, and how
- [Runs](#runs) - what TLC checks, the bounds and why they are enough
- [Fairness](#fairness)
- [Proofs](#proofs)
- [Where the code differs](#where-the-code-differs)
- [Not modelled](#not-modelled), [Plan](#plan)

## The system

kontekst is a daemon that runs an agent loop against an OpenAI-compatible model,
and a CLI that speaks JSON-RPC with it over TCP (the ACP protocol).

```
 kontekst run ──Client──┐                       ┌── Window ── SessionFile (JSONL)
 (active_session)       │ JSON-RPC  Handler ── run: agent loop ── provider ── model
 kontekst serve/stop ───┴─ Connection ─┘        └── tools (daemon's or the client's)
```

| component | state | operations | interacts by |
|---|---|---|---|
| agent loop and runner (`internal/agent`) | pending batch, conversation window, three channels | generate, propose, collect approvals, execute, complete; the forwarder of `StartRun` | command channel (cap. 16), event channel and output channel (32 each) |
| session prompts (`protocol/server.go`) | per session: command channel, cancel function, `doneCh` | `session/prompt`, `session/cancel`, `session/load`, permission requests | a goroutine per request, notifications in the read loop |
| JSON-RPC connection (`protocol/jsonrpc.go`, `client.go`) | next ID, map of pending requests, `done`, a mutex | Request, Notify, read loop, serve a request, drain, close | the wire, one-place response channels |
| client-side tools (`protocol/executor.go`) | none of its own: terminals and files are the client's | read, write, run a command as a chain of requests | requests with time-outs |
| conversation file (`conversation/file.go`) | a JSONL file | Append, LoadTail | a file shared by all runs of a session |
| conversation window (`conversation/context.go`) and provider request (`provider/`) | history, memory, system content | StartRun, AddMessage, BuildContext, normalise, validate, payload | calls |
| server process (`app/`) and its commands (`cli/serve.go`, `root.go`, `stop.go`) | listener, PID file, wait group, stop channel | start, accept, shutdown, drain, end | a data directory and an address shared by processes |
| session store and the run command (`session/`, `cli/run.go`) | session files, metadata, `active_session` | choose a session and an agent, new, load, save, prompt | files shared by processes |
| file editing, writing and diff (`tool/builtin/edit_file.go`, `write_file.go`, `read_file.go`, `tool/diff`, `tool/hashline`) | the file of the user | read with hashes, propose with a preview, execute | a file anybody writes |
| command tool (`tool/builtin/command.go`, `internal/command`) | the `.venv` of each Python command | load manifests, preview, prepare the `.venv`, run the script, kill it | directories and `.venv`s shared by all calls; processes that outlive it |
| skills, configuration, other tools, rendering | read once, or none | | |

What is hard, and what makes each component correct:

- **Agent loop.** Approvals arrive late, twice, for other turns and for IDs that
  come back; a cancel queues behind them; events cross two bounded channels and
  outlive the loop. Correct: no call runs without an approval of its own, nothing
  of the stream is lost or out of order, the stored conversation answers every
  call before the model is asked again, a cancel in the channel ends the run.
- **Session prompts.** A prompt, a cancel, a load and the end of the connection
  meet between any two steps, and sends into channels block handler and read loop.
  Correct: only what the client allowed runs, a prompt is answered, and after its
  run; no run outlives what can end it. While the command channels do not fill, the
  read loop gets free; once they do, all three may wait for one another for ever.
- **JSON-RPC.** Responses race cancellation, drain and each other; the mutex is
  held over a blocking write. Correct: distinct IDs, the read loop never blocks on
  a response channel, nobody waits for what cannot come, every call returns.
- **Conversation file.** Chunk boundaries, torn lines, appends during a load.
  Correct: LoadTail returns the newest messages that fit, and only whole ones.
- **Window and provider.** Merging, histories that are cut or have gaps, denials and
  failures change the sequence of roles. Correct: nothing is lost, results follow
  their calls, role validation refuses a request only for a reason.
- **Server process.** Processes overlap while one drains; kills leave files.
  Correct: the PID file is not stale without a kill or a failed removal and names the
  server that serves; a server that is told to end does.
- **Client-side tools.** A request is refused, lost, or answered after its
  caller gave up. Correct: a read gives the last successful write, output is
  complete, a terminal is not used after its release, nor forgotten without cause.
- **Command tool.** Set-up programs and scripts fail, hang, and leave processes that
  hold their output; two calls share a `.venv` one of them is still making; the user
  changes the file of requirements; the server is restarted and leaves its set-up
  programs behind. Correct: a script runs with what was shown, without
  its requirements only for a cause, leaves nothing behind that it should not, and
  every call returns.
- **Editing.** The file is read three times, any of these reads may fail, edits move
  each other's lines. Correct: what is shown is what the file holds in the end, each
  edit does what it says.
- **Sessions.** Commands read, empty and write `active_session` together, and what
  fails is passed over. Correct: a run goes on with the conversation unless one of the
  known causes is there, and not with a mixture of two; a session it makes has the
  agent that was asked for.

## Modules

| module | models | proofs |
|---|---|---|
| `RunContract` | abstract: what a run promises about tool calls | refined by `AgentRun` |
| `AgentRun` | loop, `collectApprovals`, `executeTools`, forwarder, three channels, any client | `AgentRunProofs` |
| `SessionContract` | abstract: what a session promises the client that prompts it | refined by `PromptSession` |
| `PromptSession` | `handlePrompt`, `forwardEvents`, `processEvent`, `sendCommand`, `handleCancel`, `handleLoadSession` with the runs they start | `PromptSessionProofs` |
| `Queues` | counting what waits in a channel, for properties and proofs | lemmas in the proofs of `AgentRun` and `PromptSession` |
| `Rpc` | both ends of a `Connection` with their wires | `RpcProofs` |
| `SessionFile` | `Append` and `LoadTail`, byte by byte | `ConversationProofs` |
| `ModelContext` | window, skill tool, normalise, validate, payload, over several runs | `ConversationProofs` |
| `Daemon` | `RunServer`, `handleConnection`, PID file, start and stop commands | `DaemonProofs` |
| `ClientTools` | `ToolExecutor` and the client that serves it | `ClientToolsProofs` |
| `Diff`, `EditFile` | the diff as operators; `edit_file` and `write_file` from read to write, with other writers | `BuiltinToolProofs` |
| `Commands`, `CommandTool` | manifests and arguments as operators; calls of `run_command` from the request to the end of the script | `BuiltinToolProofs` |
| `SessionStore` | `runCmd`, `active_session`, `session/new`, `session/load`, `FileService` | `SessionStoreProofs` |

`MC<module>` extends a module and gives its constants values; the `.cfg` files
belong to these. Operators whose name ends in `Fault` are faults a change of
the code could bring in. No specification uses them: they show that the properties
are able to fail.

How state and actions correspond to the code:

- **AgentRun.** `pc` is the place in `Agent.loop` (agent.go:48-165), `batch` and
  `todo` the `pendingBatch`, `log` the messages given to `AddMessage`, `cmdCh`,
  `evtCh`, `outCh` the channels. Each send or receive is a step. `Forwarder` is
  the goroutine of `StartRun` (runner.go:107-152), which closes the channel at the
  first terminal event. The client is any sender of commands. Responses of the
  model are any sequence from the constant `Responses`, in which IDs repeat.
- **PromptSession.** A session object is a `sessionState`; `hpc` is the handler
  of a prompt, `apc` the run behind it, reduced to what it sends and receives, and
  `rpc` the read loop, which handles cancels.
  `session/load` replaces the object while handlers keep the old one, as
  `h.sessions.Store` does. `ConnectionCloses` ends the read loop and the contexts.
  `permits` and `deliveredCancel` are history. `Contract` maps the state to what the
  client sees (`SessionContract`): which prompts are open, which permissions are not
  used up, and how a run ended, wherever its last event is on the way to the response.
- **Rpc.** `mu` is the mutex, `pending` the map, `box` the response channels of
  capacity one, `wire` what is written and not read. A caller's steps are the lock,
  the registration, the write, the `select` and the unregistration.
- **SessionFile.** A byte is a newline or a place in a message's JSON, so a line
  parses exactly when it is one whole message. `carryover` is the code's, `stage` the
  place in `LoadTail`, `disk` the file and `seen` its bytes when the load took its size.
  `Cut` is one round of the loop of `splitLines`. The names differ from those of
  `ModelContext`, since one module holds the proofs of both.
- **ModelContext.** A message carries the numbers of the messages it was made of;
  merging joins them, so a loss is visible in the payload. `Add` is one round of the
  loop of `normalizeMessages`, and `Normalize` what the rounds come to. The file is its
  messages in order, with `spoiled`, those whose line holds something else too, and
  `torn`, what the last write left at its end: a part of a line, or a line without its
  newline (json.Encoder writes both at once, and the write may be cut anywhere). What
  `SessionFile` shows of a chunk that begins at a newline is here a choice: `LoadTail`
  takes any set of ends of lines (`Seams`) for such places, loses the lines on both
  sides of each, as it loses spoiled ones, and returns the newest of the rest that fit
  the budget. A budget is a number of messages.
- **Daemon.** `spc` is a process in `RunServer`, `cpc` a connection. `met`, `unwritten`
  and `kept` are history.
- **EditFile.** A text is the sequence of what stands between its newlines, so that
  the newline at the end, which `SplitLines` drops and `assembleContent` adds,
  is visible. A change or hunk covers the lines after its start up to its end. The loops of
  `Diff` are recursive functions over the matches, the changes or the lines, round k made of
  round k - 1 (`Found`, `Walk`, `Sum`). `Apply` is
  one round of the loop of `applyEdits`; `stage` is the control point of the call, named
  otherwise than that of `CommandTool`, since one module holds the proofs of both. `blind`
  notes that the preview was made without the text of the file, because reading it failed:
  that is an error for `edit_file`, and an empty preview for `write_file` (write_file.go:64).
- **CommandTool.** A `.venv` has the stages a program making it goes through, so that
  `os.Stat` finds half of one. `packages` is what the file of requirements of a directory
  lists, relative to what its `.venv` has; the user writes and removes that file at any time,
  and each set-up looks for it (command.go:269). `exit` and `helpers` are the process a call waits for
  and what holds its output, in its process group or not; `expired` is the call's
  context of two minutes (agent/tools.go:68) or the command's own limit, whichever
  comes first. After a restart the programs that prepare a `.venv` go on for nobody
  (`venv left`, `pip left`), since `exec.CommandContext` ends them only when the server
  lives to do it.
- **SessionStore.** `os.WriteFile` is two steps, since it empties the file first. A
  session has a message file from the first prompt on, not from `session/new`. The
  processes in `Failing` may be killed, may find a file unreadable or unwritable, and may get
  an error for an answer: to `session/load` that is a reason to go on with `session/new`
  (run.go:97-119), to `session/new` the end of the command.

## Runs

| run | states | what it shows |
|---|---|---|
| `agent_run` | 1.0 M | approvals, stream, stored conversation, refinement of `RunContract`, cancel ends the run |
| `session` | 1.6 M | refinement of `SessionContract`, answer, cancel and end of runs for prompts one after the other |
| `session_overlap_tools` | violation | two prompts of a session at once: a tool runs that nobody allowed |
| `rpc` | 716 k | IDs and response channels under cancellation and strays; every call returns |
| `session_file` | 1.6 M | LoadTail against its definition, with torn and concurrent appends |
| `context` | 11.9 M | what reaches the model, and why a request is refused |
| `context_lost` | violation | with `tool_role = false` a tool result is not sent |
| `daemon` | 557 k | PID file of overlapping servers; the end of a server |
| `client_tools` | 119 k | reads, outputs and terminals under refusals and late answers |
| `edit_file` | 433 k | preview, edits and labels, for every pair of edits and every new content |
| `session_store` | 3.7 M | the session and the agent of three concurrent commands |
| `command_tool` | 1.2 M | what a script runs with and without, what it leaves behind, that every call returns |

Every configuration says `CHECK_DEADLOCK FALSE`: runs, connections, calls and servers
end, and their models stop there.

Bounds, and why they are enough:

- `agent_run`: two call IDs that come back in two tool turns, three commands,
  channels of 2, 1 and 1 instead of 16, 32 and 32. The smaller channels only make
  blocking more frequent. Three commands are a late approval, a repeated one and a
  cancel; a batch of two lets one call be denied while the other is granted.
- `session`: two prompts, a batch of one call or two and then a turn with an ID that
  was there before (`Batches`), two cancels, one load. A stale registration needs two
  prompts, a lost one a load, an approval that is credited to the wrong call two calls.
  The command channel has 2 places instead of 16, so that two cancels fill it while the
  model generates, and the read loop and the handler wait in `sendCommand`. The properties
  about waiting have the room in the channel as a condition (`FitsBut`): the cancels that
  were sent and the calls of a batch exceed it by at most two for `ReadLoopFree` and by
  at most one for `PromptAnswered` (by none on a lost connection). With one more each of
  them fails in this model, and in the code (see below). The event channel has 6, enough
  for what a run still says when nobody reads; with 2, `RunEndsEventually` fails after
  a lost connection, and in the code it does for a run that has more than the two
  channels of 32 left to say.
- `rpc`: two callers of one end, wires of one message so that writers find them
  full, and a peer (`Strayers`) that may send one response nobody asked for or one
  twice.
- `session_file`: chunks of 3 bytes, messages of 1, 3 and 4 bytes and a newline,
  so that boundaries fall before, on and after a newline and lines span chunks; budgets
  of nothing, and of two and three tokens.
- `context`: five messages, two calls, one of them of the skill tool, budgets that
  keep one message or all, one failure of the storage (`MaxFailures`), gaps anywhere. A result
  two places behind its call, a merge over two runs, and the shortest history in which a
  gap puts a result behind the calls of another message fit in.
- `daemon`: three processes, so that one starts while another drains and a third
  has left its file; a connection that may be a stop command.
- `client_tools`: three calls: a late write needs a newer one and a read.
- `edit_file`: files of up to five lines with repeated and empty lines, with and
  without a last newline, with a carriage return; two edits, whose content is one line or a
  line with a newline of its own, or any of these files
  as the new content; context of one line instead of three, so that five lines give
  one block or two, and a preview of a new file that is cut after three lines instead
  of fifty (`MaxPreview`). Any read may fail, and one other write falls in between.
- `command_tool`: two calls, for one that finds what the other leaves or is making; one
  process at a time that holds the output of a script (`MaxHelpers`), a restart, any number
  of changes of the files of requirements; six directories, of which one is overruled by a later one of the same name
  and two do not load; arguments whose names differ in case, a default, a missing one,
  one that is not a string.
- `session_store`: three commands: two that save and one that reads between; one of them
  may be killed, refused or fail (`Failing`).

## Fairness

Only the live specifications (`LiveSpec`) assume it, and only weak fairness:

- `AgentRun`: the loop, the forwarder and the client's reads. They are goroutines
  that are blocked only by the channels in the model. The client need not send
  anything: a run without decisions waits, and no property says otherwise.
- `PromptSession`: handlers and runs, and the blocked send of a cancel. The
  client answers a permission request, or the connection goes down; without an
  answer the code waits as long as the connection lasts.
- `Rpc`: callers, request goroutines and read loops at both ends, and the goroutine
  that closes a client. There is none for the transport's end or for a
  cancellation. Under this the peer reads; with a peer that does not, calls
  do not return (see below).
- `CommandTool`: goroutines run and timers fire; a program that prepares a `.venv` and
  is killed is gone, and what pip has started ends, since `ensureVenv` waits for
  it without limit. Nothing is assumed of a script or of what it starts: both may
  go on for ever.
- `Daemon`: the server's steps, the drain time-out among them, and the connections'
  goroutines. No client has to leave, no signal has to come.

## Proofs

`tlapm` checks every proof. The constants are arbitrary but for the named
assumptions in the modules, all of which TLC evaluates in the runs too: capacities
and bounds are naturals (`BoundsAssumption`, `ContextAssumption`), the response set consists of
sequences of call IDs (`ResponsesAssumption`), a turn of a session's run asks for
sets of calls (`BatchesAssumption`), `None` is no prompt, call or process, a
connection has two ends (`SidesAssumption`) and each caller is at one of them, IDs the
server makes are not those a user names and neither is a mixture (`IDsAssumption`), the
default agent is an agent, the manifests are a sequence (`ManifestsAssumption`), a message
has at least one byte (`SizeAssumption`) and a newline is none of them, as in JSON
(`NLAssumption`), and texts are of lines that have a hash (`LinesAssumption`). All
invariants of the passing runs are theorems, and all action properties and refinements.

- **AgentRun.** `TypeCorrect` by `TypeInv`, the types and that the call in hand is
  a call. `ApprovalSafety`, that each execution of a call
  is paid for by an approval of its own, is not inductive: approvals are counted when
  they are sent and executions when the tool runs. `ApprovalInv` keeps the balance
  between: executions, approvals queued in the channel, and granted calls that have
  not run yet add up to at most the approvals sent (`Balance`), and a batch that is
  executed is decided and the call in hand has left `todo` (`BatchInv`). The
  proof has a step per action; the queue's part rests on lemmas on how many
  places of a channel hold a value when something is appended or taken (`HowManyAppend`,
  `HowManyTail`).
  `RunImplementsContract` maps each step to a step of `RunContract` or a stutter, with
  `BatchInv` as the invariant of the mapping.
  `EventsInOrder` and `NoEventLost` rest on `FlowInv`. The events of both channels, of
  the forwarder and of the reader are one sequence, which the loop makes longer and the
  reader shorter, and which the forwarder leaves as it is. `SaidInv` says what its last
  event is at each control point, so each event follows that one; `ShutInv`, that
  nothing is behind the terminal event once the channel is closed.
  `ModelSeesAnswers` rests on `ContextInv`: a stored call without a result belongs to
  the newest response and is one the loop has still to settle (`AnsweredInv`); when
  all responses were stored (`TurnsInv` counts them), results and calls are paired
  one to one (`PairedInv`).
- **PromptSession.** `SessionTypeCorrect` by `TypeInv`. `NoRunLeftBehind` (`NoStaleRun`)
  holds for any prompts, also when they overlap, by `RegInv`: a `sessionState` holds a
  prompt only while the handler
  that registered it, and that loaded this very object, is between its registration and
  its deferred function. The other three theorems assume `~Concurrent`, prompts one
  after the other; `session_overlap_tools` shows that permissions need it. Then a handler
  sends to its own run or to none (`AloneInv`), and `PermissionSafety`
  (`OnlyAllowedRun`, which a run checks only where it fails) follows from a balance as
  in `AgentRun`: what the handler has in hand, what is queued and what is granted and
  has not run add up to at most the permissions left (`Balance`, `BatchInv`).
  `SessionImplementsContract` adds what the mapping needs to know: no run before its
  prompt (`StageInv`), a terminal event is the last one and waits in the channel until
  the handler takes it and leaves (`EventInv`), a handler leaves with it or because the
  client is gone (`LeaveInv`), a cancel has somebody who sent it (`StopInv`). Each
  action is a step of the contract or is not seen by the client.
  `CancelStopsRun` (`DeliveredCancelStops`) needs to know why no decision of an earlier
  batch is still in front of a cancel. Each call that the run waits for is at one place: in
  the proposal nobody has received, in the hands of the handler, or decided and in the
  command channel (`Flight`). So only cancels are in the channel between two batches, and
  one that was there before a proposal is the first thing the run receives (`Stopping`).
- **CommandTool.** `NothingLeftBehind` (`LeavesNothing`): a killed process was being
  waited for, its group is gone once the wait is cut short, and success is said
  last (`EndInv`). `ShownIsRun` (`RunsAsShown`) needs that a call keeps, from the
  resolution of its arguments on, what the preview shows (`ShownInv`).
  `UnpreparedOnlyForCause` (`UnpreparedHasCause`) relates all the calls that share a `.venv`.
  `StageInv` says what one call may rely on at each control point, `StartedInv` that a
  `.venv` which is there and not ready, or whose file of requirements lists more than it has,
  is in somebody's hands, was left unfinished or has a file that came or changed later. A call
  can note only its own directory, so the proof needs that no two commands have the
  same (`DirectoryOfCommand`), although one may overrule another by name.
- **EditFile.** `EditsDoWhatTheyMean` (`EditsAsMeant`): what is about to be written is what the
  edits make of the text that was read (`EditInv`), and that is joined from what each edit
  makes of its own line. `ApplyEdits` goes from the last line to the first, and what is behind the
  line it has come to is done (`AppliesToAll`, `AppliesToOne`); the sequence the edits mean is
  joined from the first line on (`FlattenIsJoin`). Both need that no two edits are of one line, which
  `ValidateEdits` sees to (`Accepted`).
  `ShowsWhatIsWritten` (`WritesWhatWasShown`) and `LabelsOfPreviewHold` (`LabelsAreTrue`) rest
  on `PreviewInv`: the preview is that of the call and of the text it was made of (`basis`),
  the lines to be written are what the edits make of the text that was read last, and a file
  that was written holds these lines and the newline that ended them. What is
  left is about the diff of two texts, stage by stage. Walking back along the table collects
  matches in the order of both texts, whatever numbers the table holds (`LCSIsChain`). What is
  between them are changes that make the one text of the other, and between two
  changes the texts are the same (`Script`, `ChangesAreScript`). The hunks are runs of
  changes whose contexts do not meet (`Runs`, `HunksAreRuns`), so that the range of a hunk has
  the changes of its run and no others (`HunkFramed`, `HunkChanges`) and its header counts them
  (`NetOfHunk`). The walk through a hunk shows each old line it covers and each new one, with
  its number (`Walked`, `HunkShows`). So the blocks of a diff show all that differs (`Covers`);
  the old text with the blocks in their place is the new one (`DiffIsComplete`), and the new
  numbers are short by what the earlier blocks add (`CoversNet`). A long new file is the one
  exception: it is shown in two halves (`LongNewFile`). The hash of a line is true because texts
  of one line each are joined to those lines (`AssembledLines`). The loops are proved
  round by round (`Loop`, `LoopKeeps`), with an induction over numbers as above.
- **ClientTools.** `WireInv`: a call has at most one request or answer on its way, of the
  call in hand the one it waits for, of a call that succeeded only a late release. What a
  request and a good answer say of the terminal is `SentInv` and `ReplyInv`, what an
  ended call left of it `TermInv`; they give `CommandsAreWhole`, `ReleaseIsLast` and
  `TerminalsAreReleased`. `ReadsAreSound` needs `FileInv`: the file holds the newest
  write that succeeded, or one that was reported as failed and came late, and
  an answer to a read that is on its way holds the same. Calls come one after the
  other, so nobody writes between that answer and its reception but such a late write.
- **SessionStore.** `MixedOnlyByOverlap` needs `MixInv`: without an overlap of different
  lengths the commands that save now have IDs of one length, and none of them
  writes a short ID over a long one. `SessionsGoOn` needs `EmptyInv`: after a save the
  file is empty only within a save, or since one that was cut short, and a command without
  a session has one of the causes. `AgentOfNewSessions` needs `AgentInv`: what the metadata
  of a session name was set for it, and the agent a command settles on, and later the one of
  the session it made, has its reason in `--agent`, in such a name for the session it set out
  with, or in the default.
- **ModelContext.** What `Normalize` computes is proved for messages of any number:
  `NormalizeArranges` gives each message a place in the outcome such that places
  follow the messages in order, messages at one place have one role, and what is at a place is
  the merger of the messages there (`Arranged`). The induction is over a set of
  numbers (`Induction`, `Iteration`), which first-order provers can instantiate. `RequestInv` says that the
  last request is the payload of the arranged window. That gives `LostBehindResults`: what is missing was
  merged behind a result; and `ToolRoleSendsAll`, since in the tool role a result is alone at
  its place. `RefusalHasCause` and `ResultsFollowCalls` rest on `ContextInv`, which
  relates the stored conversation to the control point, across runs: every result in the
  file stands behind its calls, other results or the messages of skills (`FileInv`), the end of the file is what
  the turn in progress has left there (`TurnInv`), and the context is chosen from the
  file: its messages stand in the file's order, each with its number, whatever is left out
  between them (`PickedInv`). So two neighbours in the context are neighbours in the file, or the
  message before the second one was left out (`Neighbours`), and a result with its predecessor follows
  its calls (`ContextAnswers`). What a load may return is one such choice (`LoadIsChosen`). It
  is claimed as long as every message could be stored.
  `ResultsFollowCalls` assumes `ValidateRoles`, which is the default of the configuration: without it
  a request is sent whatever its roles are.
- **SessionFile.** `LoadTailIsRight` (`LoadsTailUnlessAligned`) and `LoadTailInventsNothing`
  (`LoadsOnlyMessages`) hold for chunks, messages, files and budgets of any size. `LoadInvariant`
  relates the place of a load to the file: the messages of the bytes ahead, of the line carried
  over and of the lines left, and behind them those collected, are the messages of the file
  (`Loading`), where no chunk began with a newline, else a selection of them; what is collected
  fits the budget, and the bytes ahead end where a chunk begins (`Counted`). That reading a chunk
  keeps this is `ChunkStep`: the lines of two parts of a file are those of the first with
  the first line of the second put behind it, and the other lines of the second. The first line
  of a chunk that begins with a newline is whole, so that two lines are glued; what comes of it
  is no message, for a line begins with the first byte of one (`Begins`), and torn appends keep
  that. The loops over bytes, lines and messages are functions, proved to be folds
  (`SplitIsFold`, `FoldConcat`); the induction is over numbers, as above. `TailIs` says when
  an end of the messages is the longest one that fits.
- **Rpc.** `OwnID` needs that IDs in use are not above `nextID` (`IdInv`).
  `NeverBlocked` needs `BoxInv`: while an ID is in the map its channel is empty, and
  what the read loop holds in hand has left the map and has an empty channel.
- **Daemon.** `AddressIsHeld` (`ListenerServes`, which no run lists) is inductive with
  the types and `ConnInv`. `PIDFileIsLive` needs `FileInv`: the file names a process
  between its own write and its end, or a killed one. `ServingIsKnown` needs `KnownInv`:
  processes that are alive together have met, and a process past its write that
  met no other is in the file.

The invariants of these proofs are not listed in the configurations: they imply
the ones that are, and were checked by TLC on the same instances first.

Only model-checked:

- Liveness: `PromptAnswered`, `RunEndsEventually` and `ReadLoopFree` of `PromptSession`,
  `CancelEndsRun` of `AgentRun`, `CallReturns` of `Rpc` and of `CommandTool`, `EndsWhenTold`
  of `Daemon`. TLAPS has no rule here for fairness and `ENABLED`.
- That the table of `computeLCS` finds the longest common subsequence. No property needs it:
  a shorter one would give a longer preview, and a true one.

## Where the code differs

Two differences are runs that end in a counterexample:

- `session_overlap_tools`: `handlePrompt` registers a run over one that is active
  (server.go:261), so a permission given to the one is sent to the other.
- `context_lost`: with `tool_role = false` the results of a batch become user
  messages and are merged (normalize.go), and the payload takes the output of the
  first (openai.go:97).

The others are in the models, and the passing properties say where they end:

- A session file whose chunk begins exactly at a newline loses two messages
  (file.go:94): `LoadsTailUnlessAligned`. A torn append spoils the next message
  (file.go:38): the same.
- A cancel before the run is registered is dropped (server.go:491):
  `DeliveredCancelStops` is about those that find a channel.
- Of two overlapping prompts one may be answered before its run ends (server.go:276).
- A batch with more calls than the command channel has room for, less one, leaves the
  handler in `sendCommand` for ever (server.go:456) if a cancel ends the run while the
  user is asked: nobody reads the channel, and the handler is the one who would close
  `doneCh`. The prompt is not answered, even when the connection closes. Cancels fill the
  channel as well: with 18 of them while the model generates and one call to ask about, one is
  taken by the run, 16 fill the channel, and the read loop waits in `sendCommand` with
  the last, while the handler waits for an answer that only the read loop can deliver. The
  connection hangs for good: `ReadLoopFree`, `PromptAnswered`.
- A write holds the mutex and looks at no context (jsonrpc.go:190), so a cancelled
  request does not return while the peer does not read: `CallReturns` assumes that
  the peer reads. When both ends write into full wires and the read loops wait for
  the mutex to deliver responses, neither reads any more; three callers at each end
  reach it.
- The skill tool stores its message between the calls and the result, which role
  validation then refuses (validator.go:30); a history that lacks the message before a
  result does it too: `RefusedHasCause`. An active skill is not in later system prompts
  (context.go:128).
- The two messages that a load loses at a chunk boundary may be a result and the next
  calls: of asst(c1), tool(c1), asst(c2), tool(c2) it leaves asst(c1), tool(c2), which
  validator.go:29-39 passes, so a result is sent behind calls that are not its own:
  `SentResultsPaired`.
- A draining server removes the PID file of the one started meanwhile
  (app/server.go:84): `RunningIsKnown` holds for servers that met no other. Whether the
  removal succeeds is not looked at: `NoStalePIDFile`.
- A shutdown that comes before the server waits for it is answered and dropped
  (app/server.go:106): `EndsWhenTold`.
- A command whose wait or output fails leaves its terminal (executor.go:216):
  `OpenOnlyAfterError`.
- New line numbers in a preview do not count what earlier blocks add or remove,
  since `computeNewStart` sees only changes that do not begin before its hunk
  (diff.go:391); the hash of a line that is part of an edit of several lines is that
  of another text (edit_file.go:175): `LabelsAreTrue`. Lines that end with a
  carriage return cannot be edited, since read_file.go:89 drops it before
  hashing: `EditsAsMeant`. A write between Execute's read and its write is lost.
- A `write_file` of a file that cannot be read has an empty preview without an error
  (write_file.go:64), can be approved, and writes what was not shown: `WritesWhatWasShown`.
  A `write_file` or `edit_file` whose write fails may leave the file empty, since it is
  written in place; the preview of a `write_file` does not show a change of the last
  newline only.
- Previews that are text, those of `write_file` and `run_command`, are dropped before the
  permission request (server.go:405), which docs/cli.md:135, docs/architecture.md:193
  and docs/api.md:206 promise.
- A `.venv` whose creation or pip failed, or was cut off, is taken as it is by every later
  call (command.go:255), and so is one that was made before the file of requirements came
  or changed; a restart leaves the set-up programs at work: `UnpreparedHasCause`. Arguments that differ only in case share
  a variable, and a random order decides (command.go:221): `RunsAsShown`. A command's
  limit of more than two minutes is never reached, since the call's context ends first
  (agent/tools.go:68), though the loader allows up to 300 s and the preview says so.
- `active_session` is empty while it is saved, and a short ID over a long one gives a
  mixture: `ForgottenOnlyForCause`, `ActiveIsSomeones`. If it cannot be read (root.go:93), or
  if `session/load` fails (run.go:97), the command begins another session without a word:
  `ForgottenOnlyForCause`.
- A session that is loaded runs with the default agent (server.go:176), whatever
  `--agent` or its metadata say; docs/cli.md:104 and :116 promise it otherwise. No property
  covers this: `AgentOfNewHasReason` is about the sessions a run makes, and what the documents
  say fails in every run of the model that loads a session and names an agent.

## Not modelled

- Reading configuration, agents and skills: read once, no state of their own. Their
  values are constants.
- `list_files`, `web_fetch` and the tool registry: single calls of the operating system;
  the agent loop's model takes any outcome of them.
- HTTP to the model and parsing of its answers: a request succeeds or fails, and an answer
  is any sequence of calls. Token counts and the snapshot: statistics.
- `initialize`, `session/new` and the fields they set: `h.conn` is set after the read loop
  has started (server.go:40), a race whose only effect would be a request that finds it
  unset.
- Rendering in the terminal, logging, wire types.

`PROJECT.json` lists each component with its sources.

## Plan

Order of the work: what may run without consent first, then what may hang, then what
may be lost.

1. *Done.* Agent loop with its contract and proofs; prompts and cancellation with the
   abstract session, its refinement and their proofs; JSON-RPC with proofs; conversation
   file; window and provider; server process with proofs; client-side tools; editing,
   writing and diff; session store and run command; command tool.
2. Model next: the handshake and `session/new` in `PromptSession`; parsing of the
   model's answers (openai.go:254-320); the registry of agents; a composition of `Rpc`
   and `PromptSession` at the permission request.
3. *Done.* Every invariant and refinement that a passing run checks: the agent loop, the
   sessions, the connection, the server processes, the client-side tools, the session
   store, the command tool, the window, the session file, the edits and their previews.
4. Prove next: the safety of what 2 adds. Liveness stays with TLC.
