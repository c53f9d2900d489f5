---------------------------- MODULE MCTermUpdate ----------------------------
(***************************************************************************)
(* TermUpdate for TLC.                                                     *)
(***************************************************************************)
EXTENDS TermUpdate

Glyph(ch, a, w) == [ch |-> ch, attr |-> a, width |-> w]
\* A character of one cell, plain and coloured, and one of two cells.
MixedGlyphs == {Glyph("a", "plain", 1), Glyph("a", "colour", 1), Glyph("w", "plain", 2)}
\* One character, plain and coloured, for lines long enough that a common part is skipped.
NarrowGlyphs == {Glyph("a", "plain", 1), Glyph("a", "colour", 1)}

Size(h, w) == [height |-> h, width |-> w]
SmallSizes == {Size(1, 4), Size(1, 3), Size(2, 1)}
OneLine == {Size(1, 4)}

Terminals == {[el |-> TRUE, bce |-> TRUE], [el |-> TRUE, bce |-> FALSE], [el |-> FALSE, bce |-> TRUE]}
UsualTerminal == {[el |-> TRUE, bce |-> TRUE]}

\* The bound on the runs: nothing is said of what follows once the terminal shows
\* something else than the lines.
AllShown == \A r \in Rows : screen[r] = RowOf(lines[r])
=============================================================================
