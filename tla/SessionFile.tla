----------------------------- MODULE SessionFile -----------------------------
(***************************************************************************)
(* The conversation file of a session (internal/conversation/file.go): a   *)
(* JSON line for each message, appended at the end, and LoadTail, which    *)
(* reads the file backwards in chunks until the token budget is used up.   *)
(*                                                                         *)
(* A byte of the file is a place in a message's JSON or a newline.  A line *)
(* parses when it is the whole of one message and nothing else.            *)
(***************************************************************************)
EXTENDS Integers, Sequences, FiniteSets, SequencesExt

CONSTANTS
    Messages,   \* the messages that are appended
    NL,         \* the newline byte
    Size,       \* bytes of each message's JSON
    Tokens,     \* tokens of each message
    TokenBudgets,    \* token budgets LoadTail is called with
    ChunkSize,  \* 8 KiB in the code
    MayTear,    \* an append may fail after writing a part of its line
    MaxAppends  \* bound: appends

ASSUME SizeAssumption == Size \in [Messages -> Nat \ {0}] /\ Tokens \in [Messages -> Nat]
\* JSON has no newline in it.
ASSUME NLAssumption == NL \notin Messages \X Nat
ASSUME FileBoundsAssumption ==
    /\ TokenBudgets \subseteq Nat /\ ChunkSize \in Nat \ {0}
    /\ MaxAppends \in Nat /\ MayTear \in BOOLEAN

VARIABLES
    disk,       \* the bytes on disk
    appends,    \* number of appends
    stage,         \* LoadTail: "idle", "chunk", "lines" or "done"
    budget,     \* tokenBudget
    seen,       \* the file when LoadTail took its size
    remaining,  \* bytes before the last chunk read
    carryover,  \* the first line of that chunk, whose start may lie before it
    lines,      \* lines of the chunk that are left to look at
    messages,   \* what LoadTail has collected, newest first as in the code
    used        \* tokensUsed

loadVars == <<stage, budget, seen, remaining, carryover, lines, messages, used>>
fileVars == <<disk, appends, loadVars>>

\* A byte is NL or a place of a message.
Bytes(m) == [i \in 1 .. Size[m] |-> <<m, i>>]

FileInit ==
    /\ disk = <<>> /\ appends = 0
    /\ stage = "idle" /\ budget = 0 /\ seen = <<>> /\ remaining = 0
    /\ carryover = <<>> /\ lines = <<>> /\ messages = <<>> /\ used = 0

-----------------------------------------------------------------------------
(* Append, by this run or by another one with a SessionFile of its own. *)

AppendMessage(m) ==
    /\ appends < MaxAppends
    /\ disk' = Append(disk \o Bytes(m), NL)
    /\ appends' = appends + 1
    /\ UNCHANGED loadVars

\* The write stops inside the line: the disk is full or the process dies.
TornAppend(m) ==
    /\ MayTear
    /\ appends < MaxAppends
    /\ \E n \in 1 .. Size[m] : disk' = disk \o SubSeq(Bytes(m), 1, n)
    /\ appends' = appends + 1
    /\ UNCHANGED <<loadVars>>

-----------------------------------------------------------------------------
(* LoadTail. *)

\* Empty lines are left out.
AddLine(split, line) == IF line = <<>> THEN split ELSE Append(split, line)

\* One round of the loop of splitLines: a newline ends the line in progress.
Cut(s, byte) ==
    IF byte = NL THEN [split |-> AddLine(s.split, s.line), line |-> <<>>]
                 ELSE [split |-> s.split, line |-> Append(s.line, byte)]

SplitLines(data) ==
    LET Round[i \in 0 .. Len(data)] ==
            IF i = 0 THEN [split |-> <<>>, line |-> <<>>] ELSE Cut(Round[i - 1], data[i])
        end == Round[Len(data)]
    IN AddLine(end.split, end.line)

Parses(line) == \E m \in Messages : line = Bytes(m)
Parse(line) == CHOOSE m \in Messages : line = Bytes(m)

StartLoad(b) ==
    /\ stage = "idle"
    /\ budget' = b
    /\ seen' = disk
    /\ remaining' = Len(disk)
    /\ stage' = "chunk"
    /\ UNCHANGED <<disk, appends, carryover, lines, messages, used>>

\* The operators named ...Fault are faults a change of the code could bring in;
\* no specification uses them.

LeastOf(a, b) == IF a < b THEN a ELSE b

\* The first line of a chunk is taken to be complete.
ReadChunkFault ==
    /\ stage = "chunk" /\ remaining > 0
    /\ LET offset == remaining - LeastOf(ChunkSize, remaining)
       IN /\ lines' = SplitLines(SubSeq(seen, offset + 1, remaining))
          /\ remaining' = offset
    /\ stage' = "lines"
    /\ UNCHANGED <<disk, appends, budget, seen, carryover, messages, used>>


\* One chunk, with the carryover behind it.  Its first line is carried over in
\* turn, unless the chunk begins the file.
ReadChunk ==
    /\ stage = "chunk" /\ remaining > 0
    /\ LET offset == remaining - LeastOf(ChunkSize, remaining)
           split == SplitLines(SubSeq(seen, offset + 1, remaining) \o carryover)
           carry == offset > 0 /\ split # <<>>
       IN /\ carryover' = IF carry THEN Head(split) ELSE <<>>
          /\ lines' = IF carry THEN Tail(split) ELSE split
          /\ remaining' = offset
    /\ stage' = "lines"
    /\ UNCHANGED <<disk, appends, budget, seen, messages, used>>

Return == stage' = "done" /\ carryover' = <<>> /\ lines' = <<>>

\* The lines of a chunk are looked at from its first to its last.
TakeLineFault ==
    /\ stage = "lines" /\ lines # <<>>
    /\ lines' = Tail(lines)
    /\ LET m == Parse(Head(lines))
           taken == Parses(Head(lines)) /\ used + Tokens[m] <= budget
       IN /\ messages' = IF taken THEN Append(messages, m) ELSE messages
          /\ used' = IF taken THEN used + Tokens[m] ELSE used
    /\ UNCHANGED <<disk, appends, stage, budget, seen, remaining, carryover>>

\* The last line of the chunk that is left: dropped if it does not parse, kept if
\* it fits or is the first, else the load ends.
TakeLine ==
    /\ stage = "lines" /\ lines # <<>>
    /\ LET line == Last(lines)
           m == Parse(line)
       IN IF ~Parses(line)
            THEN lines' = Front(lines) /\ UNCHANGED <<stage, carryover, messages, used>>
          ELSE IF used + Tokens[m] > budget /\ messages # <<>>
            THEN Return /\ UNCHANGED <<messages, used>>
            ELSE /\ lines' = Front(lines)
                 /\ messages' = Append(messages, m)
                 /\ used' = used + Tokens[m]
                 /\ UNCHANGED <<stage, carryover>>
    /\ UNCHANGED <<disk, appends, budget, seen, remaining>>

NextChunk ==
    /\ stage = "lines" /\ lines = <<>>
    /\ stage' = "chunk"
    /\ UNCHANGED <<disk, appends, budget, seen, remaining, carryover, lines,
                   messages, used>>

\* Nothing is left to read.  A line still carried over would be taken here; there
\* is none, for the chunk that begins the file carries none.
FinishLoad ==
    /\ stage = "chunk" /\ remaining = 0
    /\ LET fits == used + Tokens[Parse(carryover)] <= budget \/ messages = <<>>
       IN messages' = IF Parses(carryover) /\ fits
                        THEN Append(messages, Parse(carryover)) ELSE messages
    /\ Return
    /\ UNCHANGED <<disk, appends, budget, seen, remaining, used>>

\* The caller has the result.
EndLoad ==
    /\ stage = "done"
    /\ stage' = "idle" /\ messages' = <<>> /\ used' = 0
    /\ budget' = 0 /\ seen' = <<>> /\ remaining' = 0
    /\ UNCHANGED <<disk, appends, carryover, lines>>

Load == ReadChunk \/ TakeLine \/ NextChunk \/ FinishLoad

FileNext ==
    \/ \E m \in Messages : AppendMessage(m) \/ TornAppend(m)
    \/ \E b \in TokenBudgets : StartLoad(b)
    \/ Load \/ EndLoad

FileSpec == FileInit /\ [][FileNext]_fileVars

-----------------------------------------------------------------------------
(* Properties. *)

\* The messages of some lines, and of a file read from its beginning.
ReadLine(read, line) == IF Parses(line) THEN Append(read, Parse(line)) ELSE read

MessagesOf(split) ==
    LET Read[n \in 0 .. Len(split)] == IF n = 0 THEN <<>> ELSE ReadLine(Read[n - 1], split[n])
    IN Read[Len(split)]

Readable(data) == MessagesOf(SplitLines(data))

TokensOf(s) ==
    LET Sum[n \in 0 .. Len(s)] == IF n = 0 THEN 0 ELSE Sum[n - 1] + Tokens[s[n]]
    IN Sum[Len(s)]

\* The longest end of s within the token budget b, and at least its last message.
TailWithin(s, b) ==
    LET Newest(k) == SubSeq(s, Len(s) - k + 1, Len(s))
        fits == {k \in 0 .. Len(s) : k <= 1 \/ TokensOf(Newest(k)) <= b}
    IN Newest(CHOOSE k \in fits : \A o \in fits : o <= k)

LoadedTail == Reverse(messages) = TailWithin(Readable(seen), budget)

\* Chunks LoadTail reads begin this far into the file.
ChunkStarts == {Len(seen) - n * ChunkSize : n \in 0 .. Len(seen)} \cap (1 .. Len(seen) - 1)

\* LoadTail returns the newest messages of the file that fit the budget, whatever the
\* lengths of its lines, with torn lines in it, and while another run appends to it, as
\* long as no chunk begins with a newline.  Where one does, the first line of the chunk
\* is whole, is carried over all the same, and spoils itself and the line before it.
LoadsTailUnlessAligned ==
    stage = "done" /\ (\A o \in ChunkStarts : seen[o + 1] # NL) => LoadedTail

\* s is what is left of t when some of its elements are taken away.
Within(s, t) ==
    \E place \in [DOMAIN s -> DOMAIN t] :
        \A i, j \in DOMAIN s : s[i] = t[place[i]] /\ (i < j => place[i] < place[j])

\* However the chunks fall, what is loaded is a selection of what the file holds,
\* in its order: LoadTail invents nothing and swaps nothing.
LoadsOnlyMessages ==
    stage = "done" => Within(Reverse(messages), Readable(seen))
=============================================================================
