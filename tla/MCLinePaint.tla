---------------------------- MODULE MCLinePaint -----------------------------
(***************************************************************************)
(* LinePaint for TLC, and its lines read as the cells of PaintedCells.     *)
(***************************************************************************)
EXTENDS LinePaint, TLC

\* The row of cells that line l stands for.
RowOf(l) ==
    LET halves(b) == [h \in 1 .. WidthOf(b) |->
                         [ch |-> b.ch, attr |-> b.attr, marks |-> b.marks, half |-> h]]
        upto[i \in 0 .. Len(l.blocks)] ==
            IF i = 0 THEN <<>> ELSE upto[i - 1] \o halves(l.blocks[i])
        data == upto[Len(l.blocks)]
    IN  [x \in 0 .. Max(Widths) - 1 |->
            IF x - l.start \in 0 .. Len(data) - 1 THEN data[x - l.start + 1]
            ELSE [ch |-> Space, attr |-> DefaultAttr, marks |-> 0, half |-> 0]]

Cells == INSTANCE PaintedCells WITH cells <- [r \in Rows |-> RowOf(lines[r])]

\* Painting puts every character on its own cells and disturbs no other cell, except
\* for double-width characters cut in half, which leave a space.
PaintsCells == Cells!Spec

\* Widths and sizes: a header, an attribute and the UTF-8 form of the character.
WidthOfChar == [c \in Chars |-> IF c = "wide" THEN 2 ELSE 1]
BytesOfChar == [c \in Chars |-> IF c = "wide" THEN 5 ELSE 3]

Client(chars, heights, widths, run, marks, clears) ==
    [chars |-> chars, heights |-> heights, widths |-> widths, run |-> run, marks |-> marks,
     clears |-> clears]
\* One client mixes characters of one and of two cells, and clears only whole lines; the
\* other uses characters of one cell and one size on several lines, and clears them and
\* changes the size of the window anywhere.
CarefulClients == {Client({"narrow", "wide"}, {1}, {4}, 2, 1, {0}),
                   Client({"space", "narrow"}, {1, 2}, {2, 3}, 1, 0, 0 .. 3)}
\* One that clears parts of lines with characters of one cell, which combining characters
\* make differ in size.
UnevenClearing == {Client({"space", "narrow"}, {1}, {3}, 1, 2, 0 .. 3)}
\* One that clears parts of lines with characters of one and of two cells.  No run uses it:
\* PaintsCells fails for it, as t3_win_clrtoeol cuts at the wrong character (README.md).
MixedClearing == {Client({"space", "narrow", "wide"}, {1}, {4}, 1, 0, 0 .. 4)}

\* A write over existing characters that searches from the cached position finds some
\* there: "win->cached_pos will always be < line length" (window_paint.c:683).
CachedPosInLine ==
    LET line == lines[paint.y] IN
    paint.y < height /\ CacheHelps(Current) /\ line.blocks # <<>>
    /\ line.start <= paint.x /\ paint.x < line.start + line.width
        => cache.pos < BytesTo(line.blocks, Len(line.blocks))
=============================================================================
