------------------------------ MODULE MCEditFile ------------------------------
(* A small instance of EditFile for TLC. *)
EXTENDS EditFile

CONSTANTS a, b, cr

\* The lines a and b have the same hash; cr is a with a carriage return.
MCHash == (a :> "h1") @@ (b :> "h1") @@ (cr :> "h2") @@ (Empty :> "h3")

MCBare == (a :> a) @@ (b :> b) @@ (cr :> a) @@ (Empty :> Empty)

\* No file, the empty file, files with and without a newline at the end, with lines that are
\* repeated, empty, or end with a carriage return, and one long enough for two blocks.
MCFiles == {Absent, <<Empty>>, <<a>>, <<a, b, Empty>>, <<cr, a, Empty>>, <<Empty, Empty>>,
            <<a, b, a, a, b, Empty>>}

\* The content of an edit: one line, or a line with a newline of its own.
MCContents == {<<b>>, <<a, Empty>>}
=============================================================================
