--------------------------------- MODULE Diff ---------------------------------
(***************************************************************************)
(* The diff a user is shown before an edit is carried out                  *)
(* (internal/tool/diff/diff.go): the longest common subsequence of the old *)
(* and the new lines, the changes between its matches, and blocks of       *)
(* changes with lines of context around them.                              *)
(*                                                                         *)
(* Positions in the code count from 0; here a change and a hunk cover the  *)
(* lines after its start up to its end, which gives the same numbers.      *)
(***************************************************************************)
EXTENDS Integers, Sequences, SequencesExt

CONSTANT ContextLines  \* lines of context around a change, 3 in the code

ASSUME ContextAssumption == ContextLines \in Nat

Larger(a, b) == IF a > b THEN a ELSE b
Smaller(a, b) == IF a < b THEN a ELSE b

\* The operators named ...Fault are faults a change of the code could bring in;
\* no specification uses them.

-----------------------------------------------------------------------------
(* Matches and changes. *)

\* The length of the longest common subsequence of the first i old and the first j
\* new lines is Table(old, new)[i + 1][j + 1].
Table(old, new) ==
    LET Row(above, line) ==
            FoldLeft(LAMBDA row, j :
                         Append(row, IF line = new[j] THEN above[j] + 1
                                                      ELSE Larger(above[j + 1], Last(row))),
                     <<0>>, [j \in 1 .. Len(new) |-> j])
    IN FoldLeft(LAMBDA rows, line : Append(rows, Row(Last(rows), line)),
                <<[j \in 1 .. Len(new) + 1 |-> 0]>>, old)

\* The matches <<line in old, line in new>>, from the first lines to the last: those up to
\* a place are found by walking back from it.
ComputeLCS(old, new) ==
    LET dp == Table(old, new)
        Matches[p \in (0 .. Len(old)) \X (0 .. Len(new))] ==
            LET i == p[1]
                j == p[2]
            IN IF i = 0 \/ j = 0 THEN <<>>
               ELSE IF old[i] = new[j] THEN Append(Matches[<<i - 1, j - 1>>], p)
               ELSE IF dp[i][j + 1] > dp[i + 1][j] THEN Matches[<<i - 1, j>>]
               ELSE Matches[<<i, j - 1>>]
    IN Matches[<<Len(old), Len(new)>>]

\* What is between each two of the matches and before the first, where there is anything.
Gaps(matches) ==
    LET Before(k) == IF k = 1 THEN <<0, 0>> ELSE matches[k - 1]
        Gap(k) == [oldStart |-> Before(k)[1], oldEnd |-> matches[k][1] - 1,
                   newStart |-> Before(k)[2], newEnd |-> matches[k][2] - 1]
        Found[k \in 0 .. Len(matches)] ==
            IF k = 0 THEN <<>>
            ELSE IF Gap(k).oldStart < Gap(k).oldEnd \/ Gap(k).newStart < Gap(k).newEnd
                   THEN Append(Found[k - 1], Gap(k))
                   ELSE Found[k - 1]
    IN Found[Len(matches)]

\* The end is a match for what is before it.
FindChanges(old, new) == Gaps(Append(ComputeLCS(old, new), <<Len(old) + 1, Len(new) + 1>>))

-----------------------------------------------------------------------------
(* Hunks. *)

\* A change with its context.
Around(old, c) == [start |-> Larger(0, c.oldStart - ContextLines),
                   end   |-> Smaller(Len(old), c.oldEnd + ContextLines)]

\* Changes whose contexts meet share a hunk.
Hunks(old, changes) ==
    LET Found[k \in 0 .. Len(changes)] ==
            IF k = 0 THEN <<>>
            ELSE LET hunks == Found[k - 1]
                     c == changes[k]
                 IN IF hunks # <<>> /\ c.oldStart - ContextLines <= Last(hunks).end
                      THEN Append(Front(hunks), [Last(hunks) EXCEPT !.end = Around(old, c).end])
                      ELSE Append(hunks, Around(old, c))
    IN Found[Len(changes)]

\* The changes of a hunk, by their places.
FilterChangesInRange(changes, h) ==
    {k \in DOMAIN changes : changes[k].oldEnd >= h.start /\ changes[k].oldStart <= h.end}

\* The lines that the changes at some places add, less those they remove.
Net(changes, places) ==
    LET Sum[k \in 0 .. Len(changes)] ==
            IF k = 0 THEN 0
            ELSE LET c == changes[k]
                 IN Sum[k - 1] + IF k \in places
                                   THEN (c.newEnd - c.newStart) - (c.oldEnd - c.oldStart) ELSE 0
    IN Sum[Len(changes)]

\* The offset of the hunk's changes that begin before it: it has none.
ComputeNewStart(changes, mine, h) ==
    h.start + Net(changes, {k \in mine : changes[k].oldStart < h.start})

Entry(type, line, oldNumber, newNumber, hash) ==
    [type |-> type, content |-> line, oldNumber |-> oldNumber, newNumber |-> newNumber,
     hash |-> hash]

\* The hash of line i, where the map has one.
HashAt(hashes, i) == IF i \in DOMAIN hashes THEN hashes[i] ELSE "none"

\* The lines of context from oldPos on, up to end.
WithContext(walk, old, end, oldHashes) ==
    [walk EXCEPT !.oldPos = end, !.newPos = walk.newPos + (end - walk.oldPos),
                 !.lines = @ \o [i \in 1 .. end - walk.oldPos |->
                     Entry("context", old[walk.oldPos + i], walk.oldPos + i, walk.newPos + i,
                           HashAt(oldHashes, walk.oldPos + i))]]

\* Added lines are not counted.
WithChangeFault(walk, old, new, c, oldHashes, newHashes) ==
    [walk EXCEPT !.oldPos = c.oldEnd,
                 !.lines = @ \o [i \in 1 .. c.oldEnd - c.oldStart |->
                                   Entry("delete", old[c.oldStart + i], c.oldStart + i, 0,
                                         HashAt(oldHashes, c.oldStart + i))]
                             \o [i \in 1 .. c.newEnd - c.newStart |->
                                   Entry("insert", new[c.newStart + i], 0, walk.newPos + i,
                                         HashAt(newHashes, c.newStart + i))]]

\* The removed lines of a change, then the added ones.
WithChange(walk, old, new, c, oldHashes, newHashes) ==
    [walk EXCEPT !.oldPos = c.oldEnd, !.newPos = walk.newPos + (c.newEnd - c.newStart),
                 !.lines = @ \o [i \in 1 .. c.oldEnd - c.oldStart |->
                                   Entry("delete", old[c.oldStart + i], c.oldStart + i, 0,
                                         HashAt(oldHashes, c.oldStart + i))]
                             \o [i \in 1 .. c.newEnd - c.newStart |->
                                   Entry("insert", new[c.newStart + i], 0, walk.newPos + i,
                                         HashAt(newHashes, c.newStart + i))]]

FormatStructuredHunk(old, new, changes, h, oldHashes, newHashes) ==
    LET mine == FilterChangesInRange(changes, h)
        newStart == ComputeNewStart(changes, mine, h)
        Walk[k \in 0 .. Len(changes)] ==
            IF k = 0 THEN [oldPos |-> h.start, newPos |-> newStart, lines |-> <<>>]
            ELSE IF k \notin mine THEN Walk[k - 1]
            ELSE WithChange(WithContext(Walk[k - 1], old, changes[k].oldStart, oldHashes),
                            old, new, changes[k], oldHashes, newHashes)
        oldCount == h.end - h.start
    IN [oldStart |-> h.start + 1, oldCount |-> oldCount,
        newStart |-> newStart + 1, newCount |-> oldCount + Net(changes, mine),
        lines |-> WithContext(Walk[Len(changes)], old, h.end, oldHashes).lines]

NewFileBlock(new, newHashes) ==
    [oldStart |-> 0, oldCount |-> 0, newStart |-> 1, newCount |-> Len(new),
     lines |-> [i \in 1 .. Len(new) |-> Entry("insert", new[i], 0, i, HashAt(newHashes, i))]]

\* The blocks of a preview.
StructuredDiff(old, new, oldHashes, newHashes) ==
    LET changes == FindChanges(old, new)
        hunks == Hunks(old, changes)
    IN CASE old = <<>> /\ new = <<>> -> <<>>
         [] old = <<>> /\ new # <<>> -> <<NewFileBlock(new, newHashes)>>
         [] OTHER -> [k \in 1 .. Len(hunks) |->
                        FormatStructuredHunk(old, new, changes, hunks[k], oldHashes, newHashes)]

\* A new file as text: all of it, or its first two thirds of maxLines and its last third.
NewFileDiff(new, maxLines) ==
    LET whole == NewFileBlock(new, <<>>)
        first == (maxLines * 2) \div 3
        last == maxLines - first
        from == Len(new) - last
    IN CASE new = <<>> -> <<>>
         [] new # <<>> /\ Len(new) <= maxLines -> <<whole>>
         [] OTHER -> <<[whole EXCEPT !.newCount = first, !.lines = SubSeq(@, 1, first)],
                       [whole EXCEPT !.newStart = from + 1, !.newCount = last,
                                     !.lines = SubSeq(@, from + 1, Len(new))]>>

\* A hunk as text: the numbers are those of its header, and there are no hashes.
FormatHunk(old, new, changes, h) == FormatStructuredHunk(old, new, changes, h, <<>>, <<>>)

UnifiedDiff(old, new) ==
    LET changes == FindChanges(old, new)
        hunks == Hunks(old, changes)
    IN IF old = <<>> THEN NewFileDiff(new, 1000)
                     ELSE [k \in DOMAIN hunks |-> FormatHunk(old, new, changes, hunks[k])]
=============================================================================
