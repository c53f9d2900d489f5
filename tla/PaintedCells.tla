---------------------------- MODULE PaintedCells ----------------------------
(***************************************************************************)
(* What painting promises, cell by cell: a window is a grid of cells, each *)
(* not painted, or holding a character or one half of a double-width one.  *)
(***************************************************************************)
EXTENDS Integers, Sequences, FiniteSetsExt, SequencesExt

CONSTANTS Chars, CharWidth, Space, Attrs, DefaultAttr, Clients

VARIABLES
    client,
    cells,            \* for each row the content of each column
    height, width, paint

vars == <<client, cells, height, width, paint>>

Heights == UNION {c.heights : c \in Clients}
Widths == UNION {c.widths : c \in Clients}

Rows == 0 .. Max(Heights) - 1
Columns == 0 .. Max(Widths) - 1

\* A cell: the character, its attribute, its zero-width characters and which half it is.
Cell(c, a, m, half) == [ch |-> c, attr |-> a, marks |-> m, half |-> half]
SpaceCell(a) == Cell(Space, a, 0, 1)
Unpainted == Cell(Space, DefaultAttr, 0, 0)
EmptyRow == [x \in Columns |-> Unpainted]

IsPainted(cell) == cell.half # 0

\* The columns that show one half of a double-width character in the row and of which
\* the other half is in the columns S.
Halved(row, S) ==
    {x \in Columns \ S :
        /\ IsPainted(row[x]) /\ CharWidth[row[x].ch] = 2
        /\ IF row[x].half = 1 THEN x + 1 \in S ELSE x - 1 \in S}

\* The row with the cells of S replaced: the other half of a double-width character
\* becomes a space with the attributes of that character, and what lies between the
\* cells painted before and those of S is painted with default spaces.
Replaced(row, S, new(_)) ==
    LET painted == {x \in Columns : IsPainted(row[x])}
        IsGap(x) == /\ painted # {}
                    /\ \/ Max(painted) < x /\ x < Min(S)
                       \/ Max(S) < x /\ x < Min(painted)
    IN  [x \in Columns |-> IF x \in S THEN new(x)
                           ELSE IF x \in Halved(row, S) THEN SpaceCell(row[x].attr)
                           ELSE IF IsGap(x) THEN SpaceCell(DefaultAttr)
                           ELSE row[x]]

\* The cells that a run of characters takes, in order.
Spread(run) ==
    LET Cells(c) == [h \in 1 .. CharWidth[c.ch] |-> Cell(c.ch, c.attr, 0, h)]
    IN  FoldLeft(LAMBDA acc, c : acc \o Cells(c), <<>>, run)

\* The cells a run takes in a row with n columns left: a character that does not fit
\* ends the run, and the column it leaves is painted as a space with its attributes.
Clipped(run, n) ==
    LET fits == Max({k \in 0 .. Len(run) : Len(Spread(SubSeq(run, 1, k))) <= n})
        shown == Spread(SubSeq(run, 1, fits))
    IN  IF fits < Len(run) /\ Len(shown) < n THEN Append(shown, SpaceCell(run[fits + 1].attr))
        ELSE shown

Init ==
    /\ cells = [r \in Rows |-> EmptyRow]
    /\ client \in Clients
    /\ height \in client.heights /\ width \in client.widths
    /\ paint = [y |-> 0, x |-> 0]

SetPaint(y, x) == paint' = [y |-> y, x |-> x] /\ UNCHANGED <<client, cells, height, width>>

Write(run) ==
    LET put == Clipped(run, width - paint.x)
        S   == paint.x .. paint.x + Len(put) - 1
        New(x) == put[x - paint.x + 1]
    IN  /\ paint.y < height /\ paint.x < width
        /\ paint' = [paint EXCEPT !.x = @ + Len(put)]
        /\ UNCHANGED <<client, height, width>>
        /\ cells' = [cells EXCEPT ![paint.y] = Replaced(@, S, New)]

\* A zero-width character goes to the character that ends right before the painting
\* position, in both its halves.
Combine ==
    LET row == cells[paint.y]
        x   == paint.x - 1
        own == IF row[x].half = 2 THEN {x - 1, x} ELSE {x}
    IN  /\ paint.y < height /\ x \in 0 .. width - 1
        /\ UNCHANGED <<client, height, width, paint>>
        /\ IsPainted(row[x]) /\ row[x].half = CharWidth[row[x].ch]
        /\ row[x].marks < client.marks
        /\ cells' = [cells EXCEPT ![paint.y] =
                        [c \in Columns |-> IF c \in own THEN [row[c] EXCEPT !.marks = @ + 1] ELSE row[c]]]

\* The row cleared from column n on: what is left of a double-width character becomes
\* a default space.
Cleared(row, n) ==
    [x \in Columns |-> IF x >= n THEN Unpainted
                       ELSE IF x \in Halved(row, {c \in Columns : c >= n}) THEN SpaceCell(DefaultAttr)
                       ELSE row[x]]

Clear ==
    /\ paint.y < height /\ paint.x \in client.clears
    /\ UNCHANGED <<client, height, width, paint>>
    /\ cells' = [cells EXCEPT ![paint.y] = Cleared(@, paint.x)]

ClearToBottom ==
    /\ paint.y < height /\ paint.x \in client.clears
    /\ paint' = [paint EXCEPT !.y = height]
    /\ UNCHANGED <<client, height, width>>
    /\ cells' = [r \in Rows |-> IF r < paint.y THEN cells[r]
                                ELSE IF r = paint.y THEN Cleared(cells[r], paint.x) ELSE EmptyRow]

Resize(h, w) ==
    /\ height' = h /\ width' = w
    /\ UNCHANGED <<client, paint>>
    /\ cells' = [r \in Rows |-> IF r < h THEN Cleared(cells[r], w) ELSE EmptyRow]

Runs == UNION {[1 .. n -> [ch : client.chars, attr : Attrs]] : n \in 1 .. client.run}

Next ==
    \/ \E y \in 0 .. Max(client.heights) - 1, x \in 0 .. Max(client.widths) : SetPaint(y, x)
    \/ \E run \in Runs : Write(run)
    \/ Combine
    \/ Clear
    \/ ClearToBottom
    \/ \E h \in client.heights, w \in client.widths : Resize(h, w)

Spec == Init /\ [][Next]_vars
=============================================================================
