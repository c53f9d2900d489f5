----------------------------- MODULE TermUpdate -----------------------------
(***************************************************************************)
(* t3_term_update (terminal.c): the terminal is brought from the lines it  *)
(* shows to those the windows make up now, by printing only the characters *)
(* that differ and erasing what is left of a longer line.  The terminal    *)
(* window holds what the terminal is believed to show; screen is what it   *)
(* does show.  The position and visibility of the cursor are left out.     *)
(***************************************************************************)
EXTENDS Integers, Sequences, FiniteSetsExt, Sums

CONSTANTS
    Glyphs,           \* the blocks of a line: [ch, attr, width]
    Space, Plain,     \* the space character, and no attributes
    ForegroundOnly,   \* the attributes that do not show on a space
    Sizes,            \* the sizes of the terminal, [height, width]
    Capabilities      \* the kinds of terminal: [el, bce], see below

ASSUME GlyphsAssumption == \A g \in Glyphs : g.width \in {1, 2}
ASSUME AttrsAssumption == Plain \in ForegroundOnly
ASSUME SizesAssumption ==
    /\ Sizes \subseteq [height : Nat \ {0}, width : Nat \ {0}]
    /\ IsBounded({s.height : s \in Sizes}) /\ IsBounded({s.width : s \in Sizes})
ASSUME CapabilitiesAssumption == Capabilities \subseteq [el : BOOLEAN, bce : BOOLEAN]

VARIABLES
    lines,     \* _t3_terminal_window->lines
    size,      \* _t3_lines and _t3_columns
    attrs,     \* _t3_attrs, the attributes the terminal prints with
    screen,    \* the cells of the terminal
    caps       \* whether it can erase a line, and erases with the current attributes

vars == <<lines, size, attrs, screen, caps>>

MaxHeight == Max({s.height : s \in Sizes})
MaxWidth == Max({s.width : s \in Sizes})
Rows == 0 .. MaxHeight - 1
Columns == 0 .. MaxWidth - 1

\* The cells of the first k blocks, and the column where they end.
WidthTo(blocks, k) == SumTo([i \in 1 .. k |-> blocks[i].width], k)
ColAt(l, k) == l.start + WidthTo(l.blocks, k)
EndOf(l) == ColAt(l, Len(l.blocks))

EmptyLine == [start |-> 0, blocks |-> <<>>]
\* The lines that the refresh of a terminal line leaves in a terminal of width w.
LinesOf(w) ==
    {EmptyLine} \cup
    {l \in [start : 0 .. w - 1, blocks : UNION {[1 .. n -> Glyphs] : n \in 1 .. w}] : EndOf(l) <= w}

-----------------------------------------------------------------------------
(* The terminal. *)

Cell(ch, a, half) == [ch |-> ch, attr |-> a, half |-> half]
SpaceCell(a) == Cell(Space, IF a \in ForegroundOnly THEN Plain ELSE a, 1)
Blank == SpaceCell(Plain)
BlankRow == [x \in Columns |-> Blank]

\* The row with the cells put from column x on.  The other half of a double-width
\* character is lost with the half that is written over.
Overlay(row, x, cells) ==
    LET S == x .. x + Len(cells) - 1
        Cut(c) == /\ c \notin S /\ row[c].half # 0
                  /\ \/ c + 1 \in S /\ row[c].half = 1 /\ c + 1 \in Columns /\ row[c + 1].half = 2
                     \/ c - 1 \in S /\ row[c].half = 2
    IN  [c \in Columns |-> IF c \in S THEN cells[c - x + 1] ELSE IF Cut(c) THEN Blank ELSE row[c]]

SpaceCells(n, a) == [i \in 1 .. n |-> SpaceCell(a)]

\* The cells that the blocks of a line take.
CellsOf(blocks) ==
    [i \in 1 .. WidthTo(blocks, Len(blocks)) |->
        LET k == CHOOSE j \in DOMAIN blocks : WidthTo(blocks, j - 1) < i /\ i <= WidthTo(blocks, j)
        IN  Cell(blocks[k].ch, blocks[k].attr, i - WidthTo(blocks, k - 1))]

\* The row that line l stands for.
RowOf(l) == Overlay(BlankRow, l.start, CellsOf(l.blocks))

-----------------------------------------------------------------------------
(* The operators named Wrong... are not part of the model.  Each is a variant of the *)
(* definition it precedes with one mistake in it, for a run to find.                 *)

(* Drawing a line.  s.o and s.n are the numbers of blocks passed of the old and the  *)
(* new line, s.last the column the code believes the cursor to be in, or -1, s.at the *)
(* column it is in, s.row and s.attrs what the terminal shows and prints with.        *)
(* Characters wait in a buffer that moving the cursor and erasing go past: s.waiting  *)
(* is the number of spaces in it.                                                     *)

\* Spaces over what the old line shows before the new line starts.
Begin(row, a, old, new) ==
    IF new.start > old.start /\ old.blocks # <<>>
    THEN [o |-> Max({j \in 0 .. Len(old.blocks) : ColAt(old, j) <= new.start}), n |-> 0,
          last |-> Min({EndOf(old), new.start}), at |-> old.start, attrs |-> Plain,
          waiting |-> new.start - old.start, row |-> row]
    ELSE [o |-> 0, n |-> 0, last |-> -1, at |-> 0, attrs |-> a, waiting |-> 0, row |-> row]

\* _t3_output_buffer_print, with cells after the spaces that wait.  What does not fit
\* in the row is lost.
Flush(s, cells) ==
    LET out == SpaceCells(s.waiting, Plain) \o cells
    IN  [s EXCEPT !.waiting = 0, !.at = @ + Len(out), !.row = Overlay(@, s.at, out)]

\* The blocks of the old line that end at or before a column, o of them already passed.
Passed(old, o, col) == Max({j \in o .. Len(old.blocks) : j = o \/ ColAt(old, j) <= col})

\* The mistake of not comparing the attributes.
WrongSameCount(old, o, new, n) ==
    Max({k \in 0 .. Min({Len(old.blocks) - o, Len(new.blocks) - n}) :
            \A i \in 1 .. k : old.blocks[o + i].ch = new.blocks[n + i].ch})

\* The number of blocks that are the same in both lines, after o and n of them.
SameCount(old, o, new, n) ==
    Max({k \in 0 .. Min({Len(old.blocks) - o, Len(new.blocks) - n}) :
            \A i \in 1 .. k : old.blocks[o + i] = new.blocks[n + i]})

\* Printing from block n + 1 on stops after count blocks, where a block of both lines ends.
PrintedTo(old, new, o, n, count) ==
    Min({j \in n + 1 .. Len(new.blocks) :
            \/ j = Len(new.blocks)
            \/ /\ j - n >= count
               /\ ColAt(old, Passed(old, o, ColAt(new, j))) = ColAt(new, j)})

\* A round of the loop: blocks that are the same are skipped, unless they are few and
\* the line goes on, and the blocks that differ are printed.
Round(s, old, new) ==
    LET aligned == ColAt(old, s.o) = ColAt(new, s.n)
        k       == IF aligned THEN SameCount(old, s.o, new, s.n) ELSE 0
        reprint == aligned /\ k < 3 /\ s.o + k < Len(old.blocks)
        o       == IF reprint THEN s.o ELSE s.o + k
        n       == IF reprint THEN s.n ELSE s.n + k
        m       == PrintedTo(old, new, o, n, IF reprint THEN k + 1 ELSE 0)
        moved   == IF ColAt(new, n) = s.last THEN s.at ELSE ColAt(new, n)
        printed == Flush([s EXCEPT !.at = moved], CellsOf(SubSeq(new.blocks, n + 1, m)))
    IN  IF aligned /\ s.n + k = Len(new.blocks)
        THEN [s EXCEPT !.o = @ + k, !.n = @ + k]
        ELSE [printed EXCEPT !.o = Passed(old, o, ColAt(new, m)), !.n = m,
                             !.last = ColAt(new, m), !.attrs = new.blocks[m].attr]

\* The mistake of erasing with the attributes of the last character.
WrongErase(s, old, new) ==
    [s EXCEPT !.row = Overlay(@, s.at, SpaceCells(MaxWidth - s.at, IF caps.bce THEN s.attrs ELSE Plain))]

\* Erasing the rest of a line that was longer, from where the cursor is: in column 0
\* when nothing was printed.
Erase(s, old, new) ==
    LET a == IF caps.bce /\ s.attrs \notin ForegroundOnly THEN Plain ELSE s.attrs
        e == [s EXCEPT !.attrs = a]
    IN  IF caps.el
        THEN [e EXCEPT !.row = Overlay(@, s.at, SpaceCells(MaxWidth - s.at, IF caps.bce THEN a ELSE Plain))]
        ELSE Flush(e, SpaceCells(EndOf(old) - EndOf(new), a))

\* The rounds end where the new line does: every round but the last prints a block.
DrawLine(row, a, old, new) ==
    LET round[i \in 0 .. Len(new.blocks)] ==
            IF i = 0 THEN Begin(row, a, old, new)
            ELSE IF round[i - 1].n = Len(new.blocks) THEN round[i - 1] ELSE Round(round[i - 1], old, new)
        drawn == round[Len(new.blocks)]
    IN  Flush(IF EndOf(new) < EndOf(old) THEN Erase(drawn, old, new) ELSE drawn, <<>>)

-----------------------------------------------------------------------------
Init ==
    /\ size \in Sizes
    /\ lines = [r \in Rows |-> EmptyLine]
    /\ attrs = Plain
    /\ screen = [r \in Rows |-> BlankRow]
    /\ caps \in Capabilities

\* t3_term_update, with new what the windows look like: pen[r] are the attributes with
\* which the drawing of row r begins.
Update(new) ==
    LET pen[r \in 0 .. size.height] ==
            IF r = 0 THEN attrs
            ELSE DrawLine(screen[r - 1], pen[r - 1], lines[r - 1], new[r - 1]).attrs
    IN  /\ lines' = [r \in Rows |-> IF r < size.height THEN new[r] ELSE EmptyLine]
        /\ screen' = [r \in Rows |-> IF r < size.height
                                     THEN DrawLine(screen[r], pen[r], lines[r], new[r]).row
                                     ELSE BlankRow]
        /\ attrs' = pen[size.height]
        /\ UNCHANGED <<size, caps>>

Cleared ==
    /\ attrs' = Plain
    /\ screen' = [r \in Rows |-> BlankRow]
    /\ lines' = [r \in Rows |-> EmptyLine]

\* t3_term_redraw.
Redraw == Cleared /\ UNCHANGED <<size, caps>>

\* The mistake of keeping the lines when the terminal shrinks.
WrongResize(s) ==
    /\ s # size
    /\ size' = s
    /\ UNCHANGED <<attrs, screen, lines, caps>>

\* t3_term_resize, called when the terminal has changed its size.
Resize(s) ==
    /\ s # size
    /\ size' = s
    /\ IF s.width < size.width \/ s.height # size.height THEN Cleared
       ELSE UNCHANGED <<attrs, screen, lines>>
    /\ UNCHANGED caps

Next ==
    \/ \E new \in [0 .. size.height - 1 -> LinesOf(size.width)] : Update(new)
    \/ Redraw
    \/ \E s \in Sizes : Resize(s)

Spec == Init /\ [][Next]_vars

-----------------------------------------------------------------------------
\* What a cell can show: a blank, half a glyph, or a space where a glyph was.
CellsShown == {Blank} \cup {SpaceCell(g.attr) : g \in Glyphs}
              \cup UNION {{Cell(g.ch, g.attr, h) : h \in 1 .. g.width} : g \in Glyphs}

\* The attributes of the cells and of the terminal are ones it was told to use, and
\* the lines fit in the terminal.
TypeOK ==
    /\ size \in Sizes /\ caps \in Capabilities
    /\ attrs \in {Plain} \cup {g.attr : g \in Glyphs}
    /\ \A r \in Rows : lines[r] \in LinesOf(size.width)
    /\ \A r \in Rows, x \in Columns : screen[r][x] \in CellsShown

\* Row r was shown right and its line does not start further to the right now.
StartsNoLater(r) ==
    screen[r] = RowOf(lines[r]) /\ (lines[r].blocks = <<>> \/ lines'[r].start <= lines[r].start)

\* A line that starts no later and ends no earlier is drawn right, whatever was there
\* and whichever of its characters are skipped as unchanged, cut in half or shifted by
\* half a character.
LongerLinesShown ==
    [][\A r \in Rows : StartsNoLater(r) /\ EndOf(lines[r]) <= EndOf(lines'[r])
                           => screen'[r] = RowOf(lines'[r])]_vars

\* On a terminal that can erase, nothing of an old line is left after the end of the
\* new one, nor the colour of what was printed last.
NothingLeftOver ==
    [][\A r \in Rows, x \in Columns :
          caps.el /\ StartsNoLater(r) /\ x >= EndOf(lines'[r]) => screen'[r][x] = Blank]_vars

\* t3_term_update draws all changes since the last refresh, also of a line that becomes
\* shorter or starts further to the right: what it has in common with the old one stays.
LinesShown ==
    [][\A r \in Rows : screen[r] = RowOf(lines[r]) => screen'[r] = RowOf(lines'[r])]_vars
=============================================================================
