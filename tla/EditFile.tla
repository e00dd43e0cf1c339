------------------------------- MODULE EditFile -------------------------------
(***************************************************************************)
(* The tools that write a file (internal/tool/builtin/edit_file.go and     *)
(* write_file.go).  For edit_file the model reads the file with a hash for *)
(* each line (internal/tool/hashline) and proposes edits of lines by       *)
(* number and hash; for write_file it proposes a whole text.  The call has *)
(* a diff as its preview; once approved, edit_file reads the file again    *)
(* and both write it.  Any of these reads may fail.  Other runs, and the   *)
(* user, write the file at any time.                                       *)
(*                                                                         *)
(* A text is the sequence of what stands between its newlines: <<a, b>> is *)
(* "a\nb", <<a, Empty>> is "a\n", <<Empty>> is the empty text.  Absent is   *)
(* the file that does not exist.                                           *)
(***************************************************************************)
EXTENDS Diff

CONSTANTS
    Empty,      \* the empty line
    Hash,       \* the hash of each line of text; lines may share one
    Bare,       \* each line without the carriage return it may end with
    Files,      \* texts the file may start with
    Contents,   \* texts the model may give as content of an edit
    MaxPreview, \* lines of a new file in the preview, 50 in the code
    MaxEdits,   \* bound: edits of a call
    MaxLines,   \* MaxSizeBytes, in lines
    MaxWrites   \* bound: writes of others

ASSUME BoundsAssumption == {MaxPreview, MaxEdits, MaxLines, MaxWrites} \subseteq Nat
\* Texts are of lines that have a hash, which neither of the other two words is.
ASSUME LinesAssumption ==
    /\ Empty \in DOMAIN Hash /\ Bare \in [DOMAIN Hash -> DOMAIN Hash]
    /\ (Files \cup Contents) \subseteq Seq(DOMAIN Hash)
    /\ \A x \in DOMAIN Hash : Hash[x] \notin {"none", "joined"}

VARIABLES
    file,    \* the text of the file
    stage,   \* "idle", "read", "proposed", "planned", "written", "failed", "unread"
    seen,    \* lines the model was shown by read_file
    tool,    \* "edit_file" or "write_file", the tool of the call
    edits,   \* its edits
    content, \* or its text
    basis,   \* history: the text of the file when the preview was made
    blind,   \* history: it was made though the file could not be read
    preview, \* the blocks of the preview
    refused, \* the preview is an error
    source,  \* the text Execute has read
    lines,   \* the lines it is about to write
    writes   \* number of writes of others

callVars == <<stage, seen, tool, edits, content, basis, blind, preview, refused, source,
              lines>>
editVars == <<file, callVars, writes>>

Operations == {"replace", "insert_after", "insert_before", "delete"}

Absent == <<>>

EditInit ==
    /\ file \in Files
    /\ stage = "idle" /\ seen = <<>> /\ tool = "edit_file" /\ edits = <<>> /\ content = <<Empty>>
    /\ basis = <<Empty>> /\ blind = FALSE /\ preview = <<>> /\ refused = FALSE
    /\ source = <<Empty>> /\ lines = <<>>
    /\ writes = 0

\* The operators named ...Fault are faults a change of the code could bring in;
\* no specification uses them.

-----------------------------------------------------------------------------
(* Texts and lines. *)

SplitLines(text) == IF text # Absent /\ Last(text) = Empty THEN Front(text) ELSE text

Shown(text) == LET split == SplitLines(text) IN [i \in DOMAIN split |-> Bare[split[i]]]

TrailingNewline(text) == Len(text) > 1 /\ Last(text) = Empty

\* Lines, each of which may be the content of an edit with newlines of its own.
AssembleContent(texts, trailingNewline) ==
    IF texts = <<>> THEN <<Empty>>
    ELSE FlattenSeq(texts) \o (IF trailingNewline THEN <<Empty>> ELSE <<>>)

Texts(textLines) == [i \in DOMAIN textLines |-> <<textLines[i]>>]

\* A content of several lines has a hash that is no line's.
ComputeLineHash(text) == IF Len(text) = 1 THEN Hash[text[1]] ELSE "joined"

GenerateHashMap(texts) == [i \in DOMAIN texts |-> ComputeLineHash(texts[i])]

-----------------------------------------------------------------------------
(* The edits. *)

\* No line twice, no line that is not there, and every line looks as the model saw it.
ValidateEdits(es, texts) ==
    \A i \in DOMAIN es :
        /\ \A j \in 1 .. i - 1 : es[j].line # es[i].line
        /\ es[i].line \in DOMAIN texts
        /\ GenerateHashMap(texts)[es[i].line] = es[i].hash

\* A line is put after the one before the line that was meant.
ApplyFault(texts, e) ==
    CASE e.operation = "replace" -> InsertAt(RemoveAt(texts, e.line), e.line, e.content)
      [] e.operation = "delete" -> RemoveAt(texts, e.line)
      [] e.operation \in {"insert_after", "insert_before"} -> InsertAt(texts, e.line, e.content)

\* One edit of the loop.
Apply(texts, e) ==
    CASE e.operation = "replace" -> InsertAt(RemoveAt(texts, e.line), e.line, e.content)
      [] e.operation = "delete" -> RemoveAt(texts, e.line)
      [] e.operation = "insert_after" -> InsertAt(texts, e.line + 1, e.content)
      [] e.operation = "insert_before" -> InsertAt(texts, e.line, e.content)

\* The edits are sorted from the last line to the first, so that none moves the line of
\* another: Result[n] is what those of line n and of the lines after it make.  No two are
\* of one line.
ApplyEdits(texts, es) ==
    LET Result[n \in 1 .. Len(texts) + 1] ==
            IF n > Len(texts) THEN texts
            ELSE IF \E k \in DOMAIN es : es[k].line = n
                   THEN Apply(Result[n + 1], es[CHOOSE k \in DOMAIN es : es[k].line = n])
                   ELSE Result[n + 1]
    IN Result[1]

\* prepareEdits refuses a call without edits, a file that is not there, and edits the
\* file does not fit.
Refuses(es, text) ==
    es = <<>> \/ text = Absent \/ ~ValidateEdits(es, Texts(SplitLines(text)))

PreviewStructured(es, text) ==
    LET old == Texts(SplitLines(text))
        new == ApplyEdits(old, es)
    IN StructuredDiff(SplitLines(text),
                      SplitLines(AssembleContent(new, TrailingNewline(text))),
                      GenerateHashMap(old), GenerateHashMap(new))

\* The preview of write_file.
PreviewText(new, text) ==
    IF text = Absent THEN NewFileDiff(SplitLines(new), MaxPreview)
                     ELSE UnifiedDiff(SplitLines(text), SplitLines(new))

-----------------------------------------------------------------------------
(* The call. *)

\* read_file shows the lines without their carriage returns, and the hash of that.
ReadFile ==
    /\ stage = "idle" /\ file # Absent
    /\ seen' = Shown(file)
    /\ stage' = "read"
    /\ UNCHANGED <<file, tool, edits, content, basis, blind, preview, refused, source, lines, writes>>

\* An edit as the model makes it: of a line it was shown, with the hash it was shown for
\* it, or of a line too many.
Edit ==
    LET hashOf(n) == IF n \in DOMAIN seen THEN Hash[seen[n]] ELSE "none"
    IN {[operation |-> op, line |-> n, content |-> IF op = "delete" THEN <<Empty>> ELSE t,
         hash |-> hashOf(n)] : op \in Operations, n \in 1 .. Len(seen) + 1, t \in Contents}

\* An edit_file call is proposed, with the preview of it: an error if it is refused, or
\* if the file cannot be read.
ProposeEdits(es) ==
    /\ stage = "read"
    /\ edits' = es
    /\ basis' = file /\ blind' \in BOOLEAN
    /\ refused' = (blind' \/ Refuses(es, file))
    /\ preview' = IF refused' THEN <<>> ELSE PreviewStructured(es, file)
    /\ stage' = "proposed"
    /\ UNCHANGED <<file, seen, tool, content, source, lines, writes>>

\* A write_file call is proposed; it needs no reading.  If the file cannot be read its
\* preview is empty, and no error.
ProposeWrite(text) ==
    /\ stage = "idle"
    /\ tool' = "write_file" /\ content' = text
    /\ basis' = file /\ blind' \in BOOLEAN
    /\ preview' = IF blind' THEN <<>> ELSE PreviewText(text, file)
    /\ stage' = "proposed"
    /\ UNCHANGED <<file, seen, edits, refused, source, lines, writes>>

\* The call is approved, whatever the preview was: Execute prepares the edits anew.
Execute ==
    /\ stage = "proposed" /\ tool = "edit_file"
    /\ source' = file
    /\ IF Refuses(edits, file)
         THEN stage' = "failed" /\ UNCHANGED lines
         ELSE /\ stage' = "planned"
              /\ lines' = ApplyEdits(Texts(SplitLines(file)), edits)
    /\ UNCHANGED <<file, seen, tool, edits, content, basis, blind, preview, refused, writes>>

\* It cannot read the file, and refuses.
CannotRead ==
    /\ stage = "proposed" /\ tool = "edit_file"
    /\ stage' = "unread"
    /\ UNCHANGED <<file, seen, tool, edits, content, basis, blind, preview, refused, source, lines,
                   writes>>

\* os.WriteFile fails before the file is cut to nothing, or after that.
Written(text) ==
    \/ stage' = "written" /\ file' = text
    \/ stage' = "failed" /\ file' \in {file, <<Empty>>}

\* The newline the text ended with is left out.
WriteEditsFault ==
    /\ stage = "planned"
    /\ LET text == AssembleContent(lines, FALSE) IN
         IF Len(text) > MaxLines THEN stage' = "failed" /\ UNCHANGED file ELSE Written(text)
    /\ UNCHANGED <<seen, tool, edits, content, basis, blind, preview, refused, source, lines, writes>>

WriteEdits ==
    /\ stage = "planned"
    /\ LET text == AssembleContent(lines, TrailingNewline(source)) IN
         IF Len(text) > MaxLines THEN stage' = "failed" /\ UNCHANGED file ELSE Written(text)
    /\ UNCHANGED <<seen, tool, edits, content, basis, blind, preview, refused, source, lines, writes>>

\* write_file looks at nothing but the size of its text.
WriteFile ==
    /\ stage = "proposed" /\ tool = "write_file"
    /\ source' = file
    /\ IF Len(content) > MaxLines THEN stage' = "failed" /\ UNCHANGED file ELSE Written(content)
    /\ UNCHANGED <<seen, tool, edits, content, basis, blind, preview, refused, lines, writes>>

\* Another writer takes the first line away, changes it, or puts one before it; it
\* creates the file that is not there, and removes it with its last line.
OtherWrite ==
    /\ writes < MaxWrites
    /\ stage \in {"read", "proposed", "planned"}
    /\ \/ file # Absent /\ file' = Tail(file)
       \/ \E x \in DOMAIN Hash : file' = <<x>> \o file
       \/ \E x \in DOMAIN Hash : file # Absent /\ file' = [file EXCEPT ![1] = x]
    /\ writes' = writes + 1
    /\ UNCHANGED callVars

EditNext ==
    \/ ReadFile \/ Execute \/ CannotRead \/ WriteEdits \/ WriteFile \/ OtherWrite
    \/ \E n \in 0 .. MaxEdits : \E es \in [1 .. n -> Edit] : ProposeEdits(es)
    \/ \E text \in Files \ {Absent} : ProposeWrite(text)

EditSpec == EditInit /\ [][EditNext]_editVars

-----------------------------------------------------------------------------
(* Properties. *)

\* What the lines of some types say.
Said(entries, types) ==
    LET Of[i \in 0 .. Len(entries)] ==
            IF i = 0 THEN <<>>
            ELSE IF entries[i].type \in types THEN Append(Of[i - 1], entries[i].content)
            ELSE Of[i - 1]
    IN Of[Len(entries)]

\* The old lines with the blocks put in the place of the lines they cover, provided
\* that each block shows the lines it covers.
Patched(old, blocks) ==
    LET Part[k \in 0 .. Len(blocks)] ==
            IF k = 0 THEN [at |-> 0, text |-> <<>>, fits |-> TRUE]
            ELSE LET part == Part[k - 1]
                     block == blocks[k]
                     from == Larger(block.oldStart - 1, 0)
                     to == from + block.oldCount
                 IN [at   |-> to,
                     text |-> part.text \o SubSeq(old, part.at + 1, from)
                                        \o Said(block.lines, {"context", "insert"}),
                     fits |-> /\ part.fits /\ part.at <= from
                              /\ Said(block.lines, {"context", "delete"}) =
                                    SubSeq(old, from + 1, to)]
        all == Part[Len(blocks)]
    IN [fits |-> all.fits, text |-> all.text \o SubSeq(old, all.at + 1, Len(old))]

\* The preview of a new text: the old lines and the blocks give it; of a long text that
\* write_file puts where there is none, as many lines as may be shown of a new or of an
\* empty file, in two blocks, each where its header says.
ShowsText(old, new) ==
    LET limit == IF basis = Absent THEN MaxPreview ELSE 1000
    IN IF old = <<>> /\ Len(new) > limit
         THEN /\ Len(preview) = 2
              /\ limit = Len(preview[1].lines) + Len(preview[2].lines)
              /\ \A k \in DOMAIN preview : LET block == preview[k] IN
                     [i \in DOMAIN block.lines |-> block.lines[i].content] =
                         SubSeq(new, block.newStart, block.newStart + block.newCount - 1)
         ELSE Patched(old, preview) = [fits |-> TRUE, text |-> new]

\* What the preview says is what the file holds once the call is carried out: if the file
\* could be read for it, and has not changed since, edit_file refuses what the preview
\* refused, and either tool leaves the lines that come of the old ones and the blocks of
\* the preview, edit_file with the newline that ended them.  Of a file that could not be
\* read the preview says nothing, and write_file, once approved, writes it all the same.
WritesWhatWasShown ==
    ~blind /\ source = basis =>
        /\ tool = "edit_file" /\ stage \in {"planned", "written", "failed"} =>
             (refused <=> Refuses(edits, source))
        /\ stage = "written" => ShowsText(SplitLines(basis), SplitLines(file))
        /\ tool = "edit_file" /\ stage = "written" /\ TrailingNewline(basis) =>
             TrailingNewline(file) \/ file = <<Empty>>

\* Each edit does its own to its own line, whatever the others do and in whatever order
\* the model lists them, and the line has the hash the model was shown for it: also
\* when the file changed after the model had read it.
CarriedOut ==
    LET old == SplitLines(source)
        EditOf(i) == {edits[k] : k \in {k \in DOMAIN edits : edits[k].line = i}}
        Out(i) == LET line == <<<<old[i]>>>>
                      e == CHOOSE x \in EditOf(i) : TRUE
                  IN IF EditOf(i) = {} THEN line
                     ELSE CASE e.operation = "replace" -> <<e.content>>
                            [] e.operation = "delete" -> <<>>
                            [] e.operation = "insert_after" -> line \o <<e.content>>
                            [] e.operation = "insert_before" -> <<e.content>> \o line
    IN /\ lines = FlattenSeq([i \in DOMAIN old |-> Out(i)])
       /\ \A k \in DOMAIN edits : Hash[old[edits[k].line]] = Hash[seen[edits[k].line]]

\* Why a call may be refused that edits the lines the model was shown: it has no edits,
\* two of one line, one of a line too many, or one of a line with a carriage return,
\* whose hash is never the one that read_file shows.
Refusable ==
    \/ edits = <<>> \/ source = Absent
    \/ \E i, j \in DOMAIN edits : i # j /\ edits[i].line = edits[j].line
    \/ \E i \in DOMAIN edits : LET n == edits[i].line IN
          n \notin DOMAIN seen \/ SplitLines(source)[n] # seen[n]

\* A call that is carried out does what each edit means, and one that is refused though
\* the model has seen the file as it is gave a reason.
EditsAsMeant ==
    /\ stage = "planned" => CarriedOut
    /\ tool = "edit_file" /\ stage = "failed" /\ Refuses(edits, source) /\ Shown(source) = seen =>
           Refusable

\* Lines that earlier blocks add, less those they remove.
NetBefore(k) ==
    LET Sum[i \in 0 .. k - 1] ==
            IF i = 0 THEN 0 ELSE Sum[i - 1] + (preview[i].newCount - preview[i].oldCount)
    IN Sum[k - 1]

\* What a line of the preview says of itself: its number in the old file is right, its
\* number in the new one is short by what the earlier blocks add unless there was no
\* line before, and the hash that edit_file gives it is that of its content, unless an edit
\* brings several lines.
LabelsAreTrue ==
    stage = "proposed" /\ ~refused =>
        LET old == SplitLines(basis)
            new == IF tool = "write_file" THEN SplitLines(content) ELSE Patched(old, preview).text
            plain == \A k \in DOMAIN edits : Len(edits[k].content) = 1
        IN \A k \in DOMAIN preview : \A i \in DOMAIN preview[k].lines :
               LET e == preview[k].lines[i]
                   n == e.newNumber + IF old = <<>> THEN 0 ELSE NetBefore(k)
               IN /\ e.oldNumber # 0 => old[e.oldNumber] = e.content
                  /\ e.newNumber # 0 => n \in DOMAIN new /\ new[n] = e.content
                  /\ tool = "edit_file" /\ plain => e.hash = Hash[e.content]
=============================================================================
