-------------------------- MODULE TermUpdateProofs --------------------------
(***************************************************************************)
(* Proofs about TermUpdate, for lines of any length.                       *)
(***************************************************************************)
EXTENDS TermUpdate, Counting, SequenceTheorems

-----------------------------------------------------------------------------
(* The columns of a line.                                                   *)

LEMMA Bounds ==
    ASSUME size \in Sizes
    PROVE  /\ MaxHeight \in Nat \ {0} /\ MaxWidth \in Nat \ {0}
           /\ \A s \in Sizes : /\ s.height \in Nat \ {0} /\ s.height <= MaxHeight
                               /\ s.width \in Nat \ {0} /\ s.width <= MaxWidth
<1>1. ASSUME NEW S \in SUBSET Nat, IsBounded(S)
      PROVE  Max(S) \in S /\ \A n \in S : n <= Max(S)
  <2>1. PICK m \in S : \A n \in S : n <= m
    BY <1>1 DEF IsBounded
  <2> QED BY <2>1, MaxOfNumbers
<1>2. \A s \in Sizes : s.height \in Nat \ {0} /\ s.width \in Nat \ {0}
  BY SizesAssumption
<1>3. {s.height : s \in Sizes} \subseteq Nat /\ {s.width : s \in Sizes} \subseteq Nat
  BY <1>2
<1>4. MaxHeight \in {s.height : s \in Sizes} /\ \A n \in {s.height : s \in Sizes} : n <= MaxHeight
  BY <1>1, <1>3, SizesAssumption DEF MaxHeight
<1>5. MaxWidth \in {s.width : s \in Sizes} /\ \A n \in {s.width : s \in Sizes} : n <= MaxWidth
  BY <1>1, <1>3, SizesAssumption DEF MaxWidth
<1> QED BY <1>2, <1>4, <1>5

\* The cells of the first blocks.
LEMMA NoBlocks ==
    ASSUME NEW b
    PROVE  WidthTo(b, 0) = 0
BY SumZero DEF WidthTo

LEMMA NextBlock ==
    ASSUME NEW b, NEW k \in Nat
    PROVE  WidthTo(b, k + 1) = WidthTo(b, k) + b[k + 1].width
<1> DEFINE w == [i \in 1 .. k + 1 |-> b[i].width]
           v == [i \in 1 .. k |-> b[i].width]
<1>1. (\A i \in 1 .. k : w[i] = v[i]) /\ w[k + 1] = b[k + 1].width
  OBVIOUS
<1>2. WidthTo(b, k + 1) = SumTo(w, k + 1) /\ WidthTo(b, k) = SumTo(v, k)
  BY DEF WidthTo
<1> HIDE DEF w, v
<1>3. SumTo(w, k) = SumTo(v, k) /\ SumTo(w, k + 1) = SumTo(w, k) + w[k + 1]
  BY <1>1, SumSame, SumNext
<1> QED BY <1>1, <1>2, <1>3

LEMMA MoreBlocks ==
    ASSUME NEW b \in Seq(Glyphs), NEW k \in 0 .. Len(b)
    PROVE  /\ WidthTo(b, k) \in Nat
           /\ \A j \in 0 .. k : j < k => WidthTo(b, j) < WidthTo(b, k)
<1> DEFINE w == [i \in 1 .. k |-> b[i].width]
<1>1. k \in Nat /\ \A i \in 1 .. k : w[i] \in Nat \ {0}
  <2>1. k \in Nat /\ \A i \in 1 .. k : i \in 1 .. Len(b)
    BY LenProperties
  <2> QED BY <2>1, ElementOfSeq, GlyphsAssumption
<1>2. WidthTo(b, k) = SumTo(w, k)
  BY DEF WidthTo
<1>3. ASSUME NEW j \in 0 .. k PROVE WidthTo(b, j) = SumTo(w, j)
  <2> DEFINE v == [i \in 1 .. j |-> b[i].width]
  <2>1. j \in Nat /\ \A i \in 1 .. j : v[i] = w[i]
    BY <1>1
  <2>2. WidthTo(b, j) = SumTo(v, j)
    BY DEF WidthTo
  <2> HIDE DEF w, v
  <2> QED BY <2>1, <2>2, SumSame
<1> HIDE DEF w
<1>4. SumTo(w, k) \in Nat
  BY <1>1, SumNat
<1>5. ASSUME NEW j \in 0 .. k, j < k PROVE SumTo(w, j) < SumTo(w, k)
  BY <1>1, <1>5, SumGrows
<1> QED BY <1>2, <1>3, <1>4, <1>5

\* Where t holds the k blocks of b after the m-th, it has their cells.
LEMMA BlocksBetween ==
    ASSUME NEW b \in Seq(Glyphs), NEW t, NEW m \in 0 .. Len(b), NEW k \in Nat, m + k <= Len(b),
           \A i \in 1 .. k : t[i] = b[m + i]
    PROVE  WidthTo(b, m + k) = WidthTo(b, m) + WidthTo(t, k)
<1> DEFINE w == [i \in 1 .. m + k |-> b[i].width]
           wm == [i \in 1 .. m |-> b[i].width]
           v == [i \in 1 .. k |-> t[i].width]
<1>0. m \in Nat
  BY LenProperties
<1>1. \A i \in 1 .. m + k : w[i] \in Nat
  <2>1. \A i \in 1 .. m + k : i \in 1 .. Len(b)
    BY <1>0, LenProperties
  <2> QED BY <2>1, ElementOfSeq, GlyphsAssumption
<1>2. \A i \in 1 .. m : wm[i] = w[i]
  BY <1>0
<1>3. \A i \in 1 .. k : v[i] = w[m + i]
  BY <1>0
<1>4. /\ WidthTo(b, m + k) = SumTo(w, m + k)
      /\ WidthTo(b, m) = SumTo(wm, m) /\ WidthTo(t, k) = SumTo(v, k)
  BY DEF WidthTo
<1> HIDE DEF w, wm, v
<1>5. SumTo(wm, m) = SumTo(w, m)
  BY <1>0, <1>2, SumSame
<1>6. SumTo(w, m + k) = SumTo(w, m) + SumTo(v, k)
  BY <1>0, <1>1, <1>3, SumShift
<1> QED BY <1>4, <1>5, <1>6

\* A line of the terminal window, or one as long.
IsLine(l) == l.start \in Nat /\ l.blocks \in Seq(Glyphs)

LEMMA Ends ==
    ASSUME NEW l, IsLine(l), NEW k \in 0 .. Len(l.blocks)
    PROVE  /\ k \in Nat /\ Len(l.blocks) \in Nat /\ ColAt(l, 0) = l.start
           /\ ColAt(l, k) \in Nat /\ l.start <= ColAt(l, k) /\ ColAt(l, k) <= EndOf(l)
           /\ \A j \in 0 .. Len(l.blocks) : j < k => ColAt(l, j) < ColAt(l, k)
           /\ k < Len(l.blocks) =>
                 /\ l.blocks[k + 1] \in Glyphs /\ l.blocks[k + 1].width \in {1, 2}
                 /\ ColAt(l, k + 1) = ColAt(l, k) + l.blocks[k + 1].width
<1> DEFINE b == l.blocks
<1>1. l.start \in Nat /\ b \in Seq(Glyphs) /\ Len(b) \in Nat /\ k \in Nat
  BY LenProperties DEF IsLine
<1> HIDE DEF b
<1>2. WidthTo(b, 0) = 0 /\ WidthTo(b, k) \in Nat /\ WidthTo(b, Len(b)) \in Nat
  <2>1. k \in 0 .. Len(b) /\ Len(b) \in 0 .. Len(b)
    BY <1>1 DEF b
  <2> QED BY <1>1, <2>1, NoBlocks, MoreBlocks
<1>3. \A j \in 0 .. Len(b) : j < k => WidthTo(b, j) \in Nat /\ WidthTo(b, j) < WidthTo(b, k)
  <2> SUFFICES ASSUME NEW j \in 0 .. Len(b), j < k
               PROVE  WidthTo(b, j) \in Nat /\ WidthTo(b, j) < WidthTo(b, k)
    OBVIOUS
  <2>1. k \in 0 .. Len(b) /\ j \in 0 .. k
    BY <1>1 DEF b
  <2> QED BY <1>1, <2>1, MoreBlocks
<1>4. WidthTo(b, k) <= WidthTo(b, Len(b))
  <2>1. Len(b) \in 0 .. Len(b) /\ k \in 0 .. Len(b)
    BY <1>1 DEF b
  <2>2. k < Len(b) => WidthTo(b, k) < WidthTo(b, Len(b))
    BY <1>1, <2>1, MoreBlocks
  <2> QED BY <1>1, <1>2, <2>1, <2>2
<1>5. ASSUME k < Len(b)
      PROVE  /\ b[k + 1] \in Glyphs /\ b[k + 1].width \in {1, 2}
             /\ WidthTo(b, k + 1) = WidthTo(b, k) + b[k + 1].width
  <2>1. k + 1 \in 1 .. Len(b)
    BY <1>1, <1>5
  <2> QED BY <1>1, <2>1, ElementOfSeq, GlyphsAssumption, NextBlock
<1>6. \A j \in Nat : ColAt(l, j) = l.start + WidthTo(b, j)
  BY DEF ColAt, b
<1>7. ColAt(l, 0) = l.start /\ ColAt(l, k) \in Nat /\ l.start <= ColAt(l, k)
  BY <1>1, <1>2, <1>6
<1>8. ColAt(l, k) <= EndOf(l)
  BY <1>1, <1>2, <1>4, <1>6 DEF EndOf, b
<1>9. \A j \in 0 .. Len(b) : j < k => ColAt(l, j) < ColAt(l, k)
  BY <1>1, <1>2, <1>3, <1>6
<1>10. k < Len(b) => ColAt(l, k + 1) = ColAt(l, k) + b[k + 1].width
  <2> SUFFICES ASSUME k < Len(b) PROVE ColAt(l, k + 1) = ColAt(l, k) + b[k + 1].width
    OBVIOUS
  <2>1. b[k + 1].width \in Nat /\ WidthTo(b, k + 1) = WidthTo(b, k) + b[k + 1].width
    BY <1>5
  <2>2. ColAt(l, k + 1) = l.start + WidthTo(b, k + 1) /\ ColAt(l, k) = l.start + WidthTo(b, k)
    BY <1>1, <1>6
  <2> QED BY <1>1, <1>2, <2>1, <2>2
<1> QED BY <1>1, <1>5, <1>7, <1>8, <1>9, <1>10 DEF b

\* Every cell from the start of a line to its end is one of a block.
LEMMA BlockAt ==
    ASSUME NEW l, IsLine(l), NEW c \in Nat, l.start <= c, c < EndOf(l)
    PROVE  \E k \in 1 .. Len(l.blocks) : ColAt(l, k - 1) <= c /\ c < ColAt(l, k)
<1> DEFINE T == {k \in 0 .. Len(l.blocks) : c < ColAt(l, k)}
<1>1. Len(l.blocks) \in Nat
  BY LenProperties DEF IsLine
<1>2. Len(l.blocks) \in T
  BY <1>1 DEF EndOf
<1>3. PICK k \in T : \A j \in T : k <= j
  <2>1. T \in SUBSET Nat /\ T # {}
    BY <1>1, <1>2
  <2> QED BY <2>1, LeastNumber
<1>4. k # 0
  <2>1. ColAt(l, 0) = l.start
    BY <1>1, Ends
  <2> QED BY <1>3, <2>1 DEF IsLine
<1>5. k - 1 \in 0 .. Len(l.blocks) /\ k \in 1 .. Len(l.blocks)
  BY <1>1, <1>4
<1>6. ColAt(l, k - 1) \in Nat
  BY <1>5, Ends
<1>7. ColAt(l, k - 1) <= c
  BY <1>3, <1>5, <1>6
<1> QED BY <1>5, <1>7

-----------------------------------------------------------------------------
(* The cells of a line and of a row of the terminal.                        *)

LEMMA BlankCell ==
    Blank = Cell(Space, Plain, 1) /\ Blank.half = 1 /\ \A a \in ForegroundOnly : SpaceCell(a) = Blank
BY AttrsAssumption DEF Blank, SpaceCell, Cell

\* The cells of blocks, by block and half.
LEMMA CellsOfBlock ==
    ASSUME NEW b \in Seq(Glyphs), NEW k \in 1 .. Len(b), NEW h \in 1 .. b[k].width
    PROVE  /\ WidthTo(b, k - 1) + h \in 1 .. WidthTo(b, Len(b))
           /\ CellsOf(b)[WidthTo(b, k - 1) + h] = Cell(b[k].ch, b[k].attr, h)
<1>1. Len(b) \in Nat /\ Len(b) \in 0 .. Len(b) /\ k \in 0 .. Len(b) /\ k - 1 \in 0 .. Len(b)
  BY LenProperties
<1>2. \A j \in 0 .. Len(b) : WidthTo(b, j) \in Nat
  BY MoreBlocks
<1>3. \A j, m \in 0 .. Len(b) : j < m => WidthTo(b, j) < WidthTo(b, m)
  <2> SUFFICES ASSUME NEW j \in 0 .. Len(b), NEW m \in 0 .. Len(b), j < m
               PROVE  WidthTo(b, j) < WidthTo(b, m)
    OBVIOUS
  <2>1. j \in 0 .. m
    BY <1>1
  <2> QED BY <2>1, MoreBlocks
<1>4. b[k].width \in Nat /\ WidthTo(b, k) = WidthTo(b, k - 1) + b[k].width
  <2>1. b[k] \in Glyphs
    BY ElementOfSeq
  <2>2. k - 1 \in Nat /\ (k - 1) + 1 = k
    OBVIOUS
  <2>3. WidthTo(b, (k - 1) + 1) = WidthTo(b, k - 1) + b[(k - 1) + 1].width
    BY <2>2, NextBlock
  <2> QED BY <2>1, <2>2, <2>3, GlyphsAssumption
<1> DEFINE i == WidthTo(b, k - 1) + h
           at(j) == WidthTo(b, j - 1) < i /\ i <= WidthTo(b, j)
<1>5. i \in Nat /\ at(k) /\ i \in 1 .. WidthTo(b, Len(b))
  <2>1. WidthTo(b, k - 1) \in Nat /\ WidthTo(b, k) \in Nat /\ WidthTo(b, Len(b)) \in Nat
    BY <1>1, <1>2
  <2>2. WidthTo(b, k) <= WidthTo(b, Len(b))
    BY <1>1, <1>3, <2>1
  <2> QED BY <1>4, <2>1, <2>2
<1>6. ASSUME NEW j \in DOMAIN b, at(j) PROVE j = k
  <2>1. j \in 1 .. Len(b) /\ j - 1 \in 0 .. Len(b) /\ j \in 0 .. Len(b)
    BY <1>1, LenProperties
  <2>2. /\ WidthTo(b, j) \in Nat /\ WidthTo(b, j - 1) \in Nat
        /\ WidthTo(b, k) \in Nat /\ WidthTo(b, k - 1) \in Nat
    BY <1>1, <1>2, <2>1
  <2>3. CASE j < k
    <3>1. j = k - 1 \/ j < k - 1
      BY <2>1, <2>3
    <3>2. WidthTo(b, j) <= WidthTo(b, k - 1)
      BY <1>1, <1>3, <2>1, <2>2, <3>1
    <3> QED BY <1>5, <1>6, <2>2, <3>2
  <2>4. CASE k < j
    <3>1. k = j - 1 \/ k < j - 1
      BY <2>1, <2>4
    <3>2. WidthTo(b, k) <= WidthTo(b, j - 1)
      BY <1>1, <1>3, <2>1, <2>2, <3>1
    <3> QED BY <1>5, <1>6, <2>2, <3>2
  <2> QED BY <2>1, <2>3, <2>4
<1>7. (CHOOSE j \in DOMAIN b : at(j)) = k
  <2>1. k \in DOMAIN b
    BY LenProperties
  <2> QED BY <1>5, <1>6, <2>1
<1>8. CellsOf(b)[i] = Cell(b[k].ch, b[k].attr, i - WidthTo(b, k - 1))
  BY <1>5, <1>7, Zenon DEF CellsOf
<1>9. i - WidthTo(b, k - 1) = h
  BY <1>1, <1>2
<1> QED BY <1>5, <1>8, <1>9

LEMMA LengthOfCells ==
    ASSUME NEW b \in Seq(Glyphs)
    PROVE  Len(CellsOf(b)) = WidthTo(b, Len(b)) /\ WidthTo(b, Len(b)) \in Nat
<1> DEFINE n == WidthTo(b, Len(b))
<1>1. n \in Nat
  BY LenProperties, MoreBlocks
<1>2. CellsOf(b) = [i \in 1 .. n |-> CellsOf(b)[i]]
  BY DEF CellsOf
<1> HIDE DEF n
<1>3. Len(CellsOf(b)) = n
  BY <1>1, <1>2
<1> QED BY <1>1, <1>3 DEF n

\* What putting n cells into a row from column x on gives.
Puts(row, x, cells, n, o) ==
    /\ o = [c \in Columns |-> o[c]]
    /\ \A c \in Columns :
          /\ x <= c /\ c < x + n => o[c] = cells[c - x + 1]
          /\ c < x \/ x + n <= c => o[c] \in {row[c], Blank}
          /\ c < x - 1 \/ x + n < c \/ (n = 0) => o[c] = row[c]
          /\ c = x - 1 /\ ~(row[c].half = 1 /\ row[x].half = 2) => o[c] = row[c]
          /\ c = x + n /\ n > 0 => o[c] = IF row[c].half = 2 THEN Blank ELSE row[c]

LEMMA Overlaid ==
    ASSUME NEW row, NEW x \in Int, NEW cells, NEW n \in Nat, Len(cells) = n
    PROVE  Puts(row, x, cells, n, Overlay(row, x, cells))
<1> DEFINE S == x .. x + Len(cells) - 1
           Cut(c) == /\ c \notin S /\ row[c].half # 0
                     /\ \/ c + 1 \in S /\ row[c].half = 1 /\ c + 1 \in Columns /\ row[c + 1].half = 2
                        \/ c - 1 \in S /\ row[c].half = 2
<1>1. Overlay(row, x, cells) = [c \in Columns |-> Overlay(row, x, cells)[c]]
  BY DEF Overlay
<1>2. \A c \in Columns : Overlay(row, x, cells)[c]
                             = IF c \in S THEN cells[c - x + 1] ELSE IF Cut(c) THEN Blank ELSE row[c]
  BY Zenon DEF Overlay
<1>3. \A c \in Int : c \in S <=> x <= c /\ c < x + n
  OBVIOUS
<1>4. \A c \in Columns : c \in Int
  BY DEF Columns
<1> DEFINE o(c) == Overlay(row, x, cells)[c]
<1> SUFFICES ASSUME NEW c \in Columns
             PROVE  /\ x <= c /\ c < x + n => o(c) = cells[c - x + 1]
                    /\ c < x \/ x + n <= c => o(c) \in {row[c], Blank}
                    /\ c < x - 1 \/ x + n < c \/ (n = 0) => o(c) = row[c]
                    /\ c = x - 1 /\ ~(row[c].half = 1 /\ row[x].half = 2) => o(c) = row[c]
                    /\ c = x + n /\ n > 0 => o(c) = IF row[c].half = 2 THEN Blank ELSE row[c]
  BY <1>1 DEF Puts
<1> HIDE DEF S
<1>5. o(c) = IF c \in S THEN cells[c - x + 1] ELSE IF Cut(c) THEN Blank ELSE row[c]
  BY <1>2
<1> HIDE DEF o
<1>6. x <= c /\ c < x + n => o(c) = cells[c - x + 1]
  BY <1>3, <1>4, <1>5
<1>7. c < x \/ x + n <= c => o(c) \in {row[c], Blank}
  BY <1>3, <1>4, <1>5
<1>8. c < x - 1 \/ x + n < c \/ (n = 0) => o(c) = row[c]
  <2>1. c \in Int /\ c + 1 \in Int /\ c - 1 \in Int
    BY <1>4
  <2> SUFFICES ASSUME c < x - 1 \/ x + n < c \/ (n = 0) PROVE o(c) = row[c]
    OBVIOUS
  <2>2. c \notin S /\ c + 1 \notin S /\ c - 1 \notin S
    BY <1>3, <2>1
  <2> QED BY <1>5, <2>2
<1>9. c = x - 1 /\ ~(row[c].half = 1 /\ row[x].half = 2) => o(c) = row[c]
  <2> SUFFICES ASSUME c = x - 1, ~(row[c].half = 1 /\ row[x].half = 2) PROVE o(c) = row[c]
    OBVIOUS
  <2>1. c \in Int /\ c - 1 \in Int /\ c + 1 = x
    BY <1>4
  <2>2. c \notin S /\ c - 1 \notin S
    BY <1>3, <2>1
  <2> QED BY <1>5, <2>1, <2>2
<1>10. c = x + n /\ n > 0 => o(c) = IF row[c].half = 2 THEN Blank ELSE row[c]
  <2> SUFFICES ASSUME c = x + n, n > 0 PROVE o(c) = IF row[c].half = 2 THEN Blank ELSE row[c]
    OBVIOUS
  <2>1. c \in Int /\ c - 1 \in Int /\ c + 1 \in Int
    BY <1>4
  <2>2. c \notin S /\ c + 1 \notin S /\ c - 1 \in S
    BY <1>3, <2>1
  <2>3. row[c].half = 2 => row[c].half # 0
    OBVIOUS
  <2> QED BY <1>5, <2>2, <2>3
<1> QED BY <1>6, <1>7, <1>8, <1>9, <1>10

\* A line that fits in the terminal.
Fits(l) == IsLine(l) /\ EndOf(l) <= MaxWidth

LEMMA ColumnNumbers ==
    ASSUME size \in Sizes
    PROVE  \A c : c \in Columns <=> c \in Nat /\ c < MaxWidth
BY Bounds DEF Columns

\* The row of a line: blank where the line is not, and the halves of its blocks where it is.
LEMMA RowOfLine ==
    ASSUME size \in Sizes, NEW l, Fits(l)
    PROVE  /\ RowOf(l) = [c \in Columns |-> RowOf(l)[c]]
           /\ \A c \in Columns : c < l.start \/ EndOf(l) <= c => RowOf(l)[c] = Blank
           /\ \A k \in 1 .. Len(l.blocks) : \A h \in 1 .. l.blocks[k].width :
                 /\ ColAt(l, k - 1) + h - 1 \in Columns
                 /\ RowOf(l)[ColAt(l, k - 1) + h - 1] = Cell(l.blocks[k].ch, l.blocks[k].attr, h)
<1> DEFINE b == l.blocks
           n == WidthTo(b, Len(b))
           x == l.start
           cells == CellsOf(b)
<1>1. b \in Seq(Glyphs) /\ x \in Nat /\ EndOf(l) = x + n /\ EndOf(l) <= MaxWidth
  BY DEF Fits, IsLine, EndOf, ColAt
<1>2. n \in Nat /\ Len(cells) = n
  BY <1>1, LengthOfCells
<1>3. RowOf(l) = Overlay(BlankRow, x, cells)
  BY DEF RowOf
<1>4. MaxWidth \in Nat /\ \A c : c \in Columns <=> c \in Nat /\ c < MaxWidth
  BY Bounds, ColumnNumbers
<1>5. \A c \in Columns : BlankRow[c] = Blank
  BY DEF BlankRow
<1> HIDE DEF n, cells
<1>6. /\ Overlay(BlankRow, x, cells) = [c \in Columns |-> Overlay(BlankRow, x, cells)[c]]
      /\ \A c \in Columns :
            /\ x <= c /\ c < x + n => Overlay(BlankRow, x, cells)[c] = cells[c - x + 1]
            /\ c < x \/ x + n <= c => Overlay(BlankRow, x, cells)[c] \in {BlankRow[c], Blank}
  <2>1. x \in Int
    BY <1>1
  <2> HIDE DEF x
  <2>2. Puts(BlankRow, x, cells, n, Overlay(BlankRow, x, cells))
    BY <1>2, <2>1, Overlaid
  <2> QED BY <2>2 DEF Puts
<1>7. \A c \in Columns : c < l.start \/ EndOf(l) <= c => RowOf(l)[c] = Blank
  BY <1>1, <1>3, <1>5, <1>6
<1>8. ASSUME NEW k \in 1 .. Len(b), NEW h \in 1 .. b[k].width
      PROVE  /\ ColAt(l, k - 1) + h - 1 \in Columns
             /\ RowOf(l)[ColAt(l, k - 1) + h - 1] = Cell(b[k].ch, b[k].attr, h)
  <2>1. /\ WidthTo(b, k - 1) + h \in 1 .. n
        /\ cells[WidthTo(b, k - 1) + h] = Cell(b[k].ch, b[k].attr, h)
    BY <1>1, CellsOfBlock DEF n, cells
  <2>2. k - 1 \in 0 .. Len(b) /\ Len(b) \in Nat
    BY <1>1, LenProperties
  <2>3. WidthTo(b, k - 1) \in Nat
    BY <1>1, <2>2, MoreBlocks
  <2>4. b[k].width \in Nat
    BY <1>1, ElementOfSeq, GlyphsAssumption
  <2>5. h \in Nat /\ ColAt(l, k - 1) = x + WidthTo(b, k - 1)
    BY <2>4 DEF ColAt
  <2> DEFINE c == ColAt(l, k - 1) + h - 1
  <2>6. c \in Int /\ x <= c /\ c < x + n /\ c - x + 1 = WidthTo(b, k - 1) + h
    BY <1>1, <1>2, <2>1, <2>3, <2>4, <2>5
  <2> HIDE DEF c
  <2>7. c \in Columns
    BY <1>1, <1>2, <1>4, <2>6
  <2>8. RowOf(l)[c] = cells[WidthTo(b, k - 1) + h]
    BY <1>3, <1>6, <2>6, <2>7
  <2> QED BY <2>1, <2>7, <2>8 DEF c
<1> QED BY <1>3, <1>6, <1>7, <1>8

\* By column instead of block: the cell of a column within a line.
LEMMA CellInLine ==
    ASSUME size \in Sizes, NEW l, Fits(l), NEW c \in Columns, NEW k \in 1 .. Len(l.blocks),
           ColAt(l, k - 1) <= c, c < ColAt(l, k)
    PROVE  /\ l.blocks[k] \in Glyphs /\ c - ColAt(l, k - 1) + 1 \in 1 .. l.blocks[k].width
           /\ RowOf(l)[c] = Cell(l.blocks[k].ch, l.blocks[k].attr, c - ColAt(l, k - 1) + 1)
<1>1. Len(l.blocks) \in Nat /\ c \in Nat
  BY LenProperties, ColumnNumbers DEF Fits, IsLine
<1>2. k - 1 \in 0 .. Len(l.blocks) /\ k - 1 < Len(l.blocks) /\ (k - 1) + 1 = k
  BY <1>1
<1>3. /\ ColAt(l, k - 1) \in Nat /\ l.blocks[k] \in Glyphs /\ l.blocks[k].width \in {1, 2}
      /\ ColAt(l, k) = ColAt(l, k - 1) + l.blocks[k].width
  <2>1. /\ ColAt(l, k - 1) \in Nat /\ l.blocks[(k - 1) + 1] \in Glyphs
        /\ l.blocks[(k - 1) + 1].width \in {1, 2}
        /\ ColAt(l, (k - 1) + 1) = ColAt(l, k - 1) + l.blocks[(k - 1) + 1].width
    BY <1>2, Ends DEF Fits
  <2> QED BY <1>2, <2>1
<1> DEFINE h == c - ColAt(l, k - 1) + 1
<1>4. h \in 1 .. l.blocks[k].width /\ ColAt(l, k - 1) + h - 1 = c
  BY <1>1, <1>3
<1>5. RowOf(l)[ColAt(l, k - 1) + h - 1] = Cell(l.blocks[k].ch, l.blocks[k].attr, h)
  BY <1>4, RowOfLine
<1> QED BY <1>3, <1>4, <1>5

\* A character cannot begin with its second half.
LEMMA BlockStarts ==
    ASSUME size \in Sizes, NEW l, Fits(l), NEW k \in 0 .. Len(l.blocks), ColAt(l, k) \in Columns
    PROVE  RowOf(l)[ColAt(l, k)].half # 2
<1>1. Len(l.blocks) \in Nat /\ k \in Nat
  BY LenProperties DEF Fits, IsLine
<1>2. ColAt(l, k) \in Nat
  BY Ends DEF Fits
<1>3. CASE k = Len(l.blocks)
  <2>1. EndOf(l) <= ColAt(l, k)
    BY <1>2, <1>3 DEF EndOf
  <2>2. RowOf(l)[ColAt(l, k)] = Blank
    BY <2>1, RowOfLine
  <2> QED BY <2>2, BlankCell
<1>4. CASE k < Len(l.blocks)
  <2>1. k + 1 \in 1 .. Len(l.blocks) /\ (k + 1) - 1 = k
    BY <1>1, <1>4
  <2>2. ColAt(l, k) < ColAt(l, k + 1)
    <3>1. k \in 0 .. Len(l.blocks) /\ k + 1 \in 0 .. Len(l.blocks) /\ k < k + 1
      BY <1>1, <1>4
    <3> QED BY <3>1, Ends DEF Fits
  <2>3. ColAt(l, k) - ColAt(l, k) + 1 = 1
    BY <1>2
  <2>4. ColAt(l, (k + 1) - 1) <= ColAt(l, k)
    BY <1>2, <2>1
  <2>5. RowOf(l)[ColAt(l, k)]
            = Cell(l.blocks[k + 1].ch, l.blocks[k + 1].attr, ColAt(l, k) - ColAt(l, (k + 1) - 1) + 1)
    BY <2>1, <2>2, <2>4, CellInLine
  <2> QED BY <2>1, <2>3, <2>5 DEF Cell
<1> QED BY <1>1, <1>3, <1>4

\* ... or end with its first half, if it has two.
LEMMA BlockEnds ==
    ASSUME size \in Sizes, NEW l, Fits(l), NEW k \in 1 .. Len(l.blocks)
    PROVE  /\ ColAt(l, k) - 1 \in Columns
           /\ RowOf(l)[ColAt(l, k) - 1].half = l.blocks[k].width
<1>1. Len(l.blocks) \in Nat
  BY LenProperties DEF Fits, IsLine
<1>2. k - 1 \in 0 .. Len(l.blocks) /\ k - 1 < Len(l.blocks) /\ (k - 1) + 1 = k
  BY <1>1
<1>3. /\ ColAt(l, k - 1) \in Nat /\ l.blocks[(k - 1) + 1].width \in {1, 2}
      /\ ColAt(l, (k - 1) + 1) = ColAt(l, k - 1) + l.blocks[(k - 1) + 1].width
  BY <1>2, Ends DEF Fits
<1> DEFINE h == l.blocks[k].width
<1>4. h \in {1, 2} /\ h \in 1 .. h /\ ColAt(l, k) - 1 = ColAt(l, k - 1) + h - 1
  <2>1. l.blocks[(k - 1) + 1].width = h /\ ColAt(l, (k - 1) + 1) = ColAt(l, k)
    BY <1>2
  <2>2. h \in {1, 2} /\ ColAt(l, k) = ColAt(l, k - 1) + h /\ ColAt(l, k - 1) \in Nat
    BY <1>3, <2>1
  <2> HIDE DEF h
  <2> QED BY <2>2
<1>5. /\ ColAt(l, k - 1) + h - 1 \in Columns
      /\ RowOf(l)[ColAt(l, k - 1) + h - 1] = Cell(l.blocks[k].ch, l.blocks[k].attr, h)
  BY <1>4, RowOfLine
<1> QED BY <1>4, <1>5 DEF Cell

\* The cells of some of the blocks of a line are those of its row.
LEMMA CellsOfPart ==
    ASSUME size \in Sizes, NEW l, Fits(l), NEW n \in 0 .. Len(l.blocks), NEW m \in n .. Len(l.blocks)
    PROVE  /\ SubSeq(l.blocks, n + 1, m) \in Seq(Glyphs)
           /\ Len(CellsOf(SubSeq(l.blocks, n + 1, m))) = ColAt(l, m) - ColAt(l, n)
           /\ \A c \in Columns : ColAt(l, n) <= c /\ c < ColAt(l, m) =>
                 CellsOf(SubSeq(l.blocks, n + 1, m))[c - ColAt(l, n) + 1] = RowOf(l)[c]
<1> DEFINE b == l.blocks
           t == SubSeq(b, n + 1, m)
<1>1. b \in Seq(Glyphs) /\ Len(b) \in Nat /\ n \in Nat /\ m \in Nat /\ n <= m /\ m <= Len(b)
  BY LenProperties DEF Fits, IsLine
<1> HIDE DEF b
<1>2. t \in Seq(Glyphs) /\ Len(t) = m - n /\ \A i \in 1 .. m - n : t[i] = b[n + i]
  <2>1. \A i \in n + 1 .. m : b[i] \in Glyphs
    BY <1>1, ElementOfSeq
  <2>2. Len(t) = m - n /\ \A i \in 1 .. m - n : t[i] = b[n + i]
    BY <1>1
  <2>3. t \in Seq(Glyphs)
    BY <1>1, <2>1
  <2> QED BY <2>2, <2>3
<1> HIDE DEF t
<1>3. ASSUME NEW k \in 0 .. m - n
      PROVE  /\ ColAt(l, n) \in Nat /\ ColAt(l, n + k) = ColAt(l, n) + WidthTo(t, k)
             /\ WidthTo(t, k) \in Nat
  <2>1. n \in 0 .. Len(b) /\ k \in Nat /\ n + k <= Len(b) /\ \A i \in 1 .. k : t[i] = b[n + i]
    BY <1>1, <1>2
  <2>2. WidthTo(b, n + k) = WidthTo(b, n) + WidthTo(t, k)
    BY <1>1, <2>1, BlocksBetween
  <2>3. WidthTo(b, n) \in Nat
    BY <1>1, <2>1, MoreBlocks
  <2>4. k \in 0 .. Len(t)
    BY <1>2
  <2>5. WidthTo(t, k) \in Nat
    BY <1>2, <2>4, MoreBlocks
  <2>6. l.start \in Nat
    BY DEF Fits, IsLine
  <2> QED BY <2>2, <2>3, <2>5, <2>6 DEF ColAt, b
<1>4. Len(CellsOf(t)) = ColAt(l, m) - ColAt(l, n)
  <2>1. m - n \in 0 .. m - n /\ n + (m - n) = m
    BY <1>1
  <2>2. ColAt(l, n + (m - n)) = ColAt(l, n) + WidthTo(t, m - n) /\ WidthTo(t, m - n) \in Nat
    BY <1>3, <2>1
  <2>3. Len(CellsOf(t)) = WidthTo(t, m - n)
    BY <1>2, LengthOfCells
  <2>4. ColAt(l, n) \in Nat
    BY <1>3, <2>1
  <2> QED BY <2>1, <2>2, <2>3, <2>4
<1>5. ASSUME NEW c \in Columns, ColAt(l, n) <= c, c < ColAt(l, m)
      PROVE  CellsOf(t)[c - ColAt(l, n) + 1] = RowOf(l)[c]
  <2>1. c \in Nat /\ ColAt(l, n) \in Nat
    <3>1. n \in 0 .. Len(l.blocks)
      BY <1>1
    <3> QED BY <3>1, ColumnNumbers, Ends DEF Fits
  <2>2. l.start <= c /\ c < EndOf(l)
    <3>1. l.start \in Nat /\ l.start <= ColAt(l, n)
      BY Ends DEF Fits, IsLine
    <3>2. m \in 0 .. Len(l.blocks)
      BY <1>1
    <3>3. ColAt(l, m) \in Nat /\ ColAt(l, m) <= EndOf(l) /\ EndOf(l) \in Nat
      <4>1. Len(l.blocks) \in 0 .. Len(l.blocks)
        BY <1>1 DEF b
      <4> QED BY <3>2, <4>1, Ends DEF Fits, EndOf
    <3> QED BY <1>5, <2>1, <3>1, <3>3
  <2>3. PICK k \in 1 .. Len(l.blocks) : ColAt(l, k - 1) <= c /\ c < ColAt(l, k)
    BY <2>1, <2>2, BlockAt DEF Fits
  <2>4. k \in Nat /\ k - 1 \in 0 .. Len(b) /\ k \in 0 .. Len(b) /\ n \in 0 .. Len(b) /\ m \in 0 .. Len(b)
    BY <1>1, <2>3 DEF b
  <2>5. /\ ColAt(l, k - 1) \in Nat /\ ColAt(l, k) \in Nat /\ ColAt(l, m) \in Nat
        /\ (k < n => ColAt(l, k) < ColAt(l, n)) /\ (m < k - 1 => ColAt(l, m) < ColAt(l, k - 1))
    BY <2>4, Ends DEF Fits, b
  <2>6. n < k /\ k <= m
    <3>1. ~ (k <= n)
      <4>1. ColAt(l, n) < ColAt(l, k)
        BY <1>5, <2>1, <2>3, <2>5
      <4>2. k # n
        BY <2>5, <4>1
      <4>3. ~ (k < n)
        BY <2>1, <2>5, <4>1
      <4> QED BY <1>1, <2>4, <4>2, <4>3
    <3>2. ~ (m <= k - 1)
      <4>1. ColAt(l, k - 1) < ColAt(l, m)
        BY <1>5, <2>1, <2>3, <2>5
      <4>2. m # k - 1
        BY <2>5, <4>1
      <4>3. ~ (m < k - 1)
        BY <2>5, <4>1
      <4> QED BY <1>1, <2>4, <4>2, <4>3
    <3> QED BY <1>1, <2>4, <3>1, <3>2
  <2> DEFINE h == c - ColAt(l, k - 1) + 1
             j == k - n
  <2>7. b[k] \in Glyphs /\ h \in 1 .. b[k].width /\ RowOf(l)[c] = Cell(b[k].ch, b[k].attr, h)
    BY <2>3, CellInLine DEF b
  <2>8. j \in 1 .. m - n /\ j - 1 \in 0 .. m - n /\ n + j = k /\ n + (j - 1) = k - 1
    BY <1>1, <2>4, <2>6
  <2>9. t[j] = b[k] /\ j \in 1 .. Len(t)
    BY <1>2, <2>8
  <2>10. ColAt(l, k - 1) = ColAt(l, n) + WidthTo(t, j - 1) /\ WidthTo(t, j - 1) \in Nat
    BY <1>3, <2>8
  <2> HIDE DEF j
  <2>11. c - ColAt(l, n) + 1 = WidthTo(t, j - 1) + h
    BY <2>1, <2>10
  <2> HIDE DEF h
  <2>12. CellsOf(t)[WidthTo(t, j - 1) + h] = Cell(t[j].ch, t[j].attr, h)
    BY <1>2, <2>7, <2>9, CellsOfBlock
  <2> QED BY <2>7, <2>9, <2>11, <2>12
<1> QED BY <1>2, <1>4, <1>5 DEF t, b

-----------------------------------------------------------------------------
(* The parts of the drawing.                                                *)

\* The attributes the terminal is told to use, and the rows it can show.
Pens == {Plain} \cup {g.attr : g \in Glyphs}
ShownRows == [Columns -> CellsShown]

LEMMA CellsTyped ==
    ASSUME NEW b \in Seq(Glyphs)
    PROVE  CellsOf(b) \in Seq(CellsShown)
<1> DEFINE n == WidthTo(b, Len(b))
           l == [start |-> 0, blocks |-> b]
<1>1. n \in Nat
  BY LengthOfCells
<1>2. IsLine(l) /\ l.blocks = b /\ l.start = 0 /\ \A k \in 0 .. Len(b) : ColAt(l, k) = WidthTo(b, k)
  <2>1. \A k \in 0 .. Len(b) : WidthTo(b, k) \in Nat
    BY MoreBlocks
  <2> QED BY <2>1 DEF IsLine, ColAt
<1>3. Len(b) \in 0 .. Len(b) /\ Len(b) \in Nat
  BY LenProperties
<1>4. EndOf(l) = n
  BY <1>2, <1>3 DEF EndOf
<1> HIDE DEF l, n
<1>5. ASSUME NEW i \in 1 .. n PROVE CellsOf(b)[i] \in CellsShown
  <2>1. i - 1 \in Nat /\ l.start <= i - 1 /\ i - 1 < EndOf(l)
    BY <1>1, <1>2, <1>4
  <2>2. PICK k \in 1 .. Len(l.blocks) : ColAt(l, k - 1) <= i - 1 /\ i - 1 < ColAt(l, k)
    BY <1>2, <2>1, BlockAt
  <2>3. k \in 1 .. Len(b) /\ k - 1 \in 0 .. Len(b) /\ k \in 0 .. Len(b) /\ k - 1 \in Nat
    BY <1>2, <1>3, <2>2
  <2>4. WidthTo(b, k - 1) \in Nat /\ WidthTo(b, (k - 1) + 1) = WidthTo(b, k - 1) + b[(k - 1) + 1].width
    BY <2>3, MoreBlocks, NextBlock
  <2>5. b[k] \in Glyphs /\ b[k].width \in {1, 2} /\ (k - 1) + 1 = k
    BY <2>3, ElementOfSeq, GlyphsAssumption
  <2>6. WidthTo(b, k) = WidthTo(b, k - 1) + b[k].width
    BY <2>4, <2>5
  <2> DEFINE h == i - WidthTo(b, k - 1)
  <2>7. h \in 1 .. b[k].width /\ WidthTo(b, k - 1) + h = i
    <3>1. WidthTo(b, k - 1) <= i - 1 /\ i - 1 < WidthTo(b, k)
      BY <1>2, <2>2, <2>3
    <3> QED BY <2>4, <2>5, <2>6, <3>1
  <2> HIDE DEF h
  <2>8. CellsOf(b)[WidthTo(b, k - 1) + h] = Cell(b[k].ch, b[k].attr, h)
    BY <2>3, <2>7, CellsOfBlock
  <2> QED BY <2>5, <2>7, <2>8 DEF CellsShown
<1>6. CellsOf(b) = [i \in 1 .. n |-> CellsOf(b)[i]]
  BY DEF CellsOf, n
<1>7. CellsOf(b) \in [1 .. n -> CellsShown]
  BY <1>5, <1>6
<1> QED BY <1>1, <1>7

LEMMA SpacesTyped ==
    ASSUME NEW n \in Int, NEW a \in Pens
    PROVE  /\ SpaceCells(n, a) \in Seq(CellsShown)
           /\ Len(SpaceCells(n, a)) = IF n > 0 THEN n ELSE 0
           /\ \A i \in 1 .. n : SpaceCells(n, a)[i] = SpaceCell(a)
<1>1. SpaceCell(a) \in CellsShown
  BY DEF Pens, CellsShown, Blank
<1>2. PICK m \in Nat : 1 .. n = 1 .. m /\ m = IF n > 0 THEN n ELSE 0
  <2>1. CASE n > 0
    BY <2>1
  <2>2. CASE ~ (n > 0)
    <3>1. 1 .. n = 1 .. 0
      BY <2>2
    <3> QED BY <2>2, <3>1
  <2> QED BY <2>1, <2>2
<1>3. SpaceCells(n, a) = [i \in 1 .. m |-> SpaceCell(a)]
  BY <1>2 DEF SpaceCells
<1> QED BY <1>1, <1>2, <1>3

\* Drawing line new over line old goes through these states.
DrawStates(old, new) ==
    [o : 0 .. Len(old.blocks), n : 0 .. Len(new.blocks), last : Int, at : Int, attrs : Pens,
     waiting : Nat, row : ShownRows]

\* s with out put at the cursor.
WithOut(s, out) == [s EXCEPT !.waiting = 0, !.at = @ + Len(out), !.row = Overlay(@, s.at, out)]

LEMMA OverlayTyped ==
    ASSUME NEW row \in ShownRows, NEW x \in Int, NEW cells \in Seq(CellsShown)
    PROVE  Overlay(row, x, cells) \in ShownRows
<1> DEFINE o == Overlay(row, x, cells)
<1>1. Len(cells) \in Nat
  BY LenProperties
<1>2. Puts(row, x, cells, Len(cells), o)
  BY <1>1, Overlaid
<1> HIDE DEF o
<1>3. \A c \in Columns : row[c] \in CellsShown /\ c \in Int
  BY DEF ShownRows, Columns
<1>4. Blank \in CellsShown
  BY DEF CellsShown
<1>5. ASSUME NEW c \in Columns PROVE o[c] \in CellsShown
  <2>1. CASE x <= c /\ c < x + Len(cells)
    <3>1. c - x + 1 \in 1 .. Len(cells)
      BY <1>1, <1>3, <2>1
    <3>2. cells[c - x + 1] \in CellsShown
      BY <3>1, ElementOfSeq
    <3> QED BY <1>2, <2>1, <3>2 DEF Puts
  <2>2. CASE c < x \/ x + Len(cells) <= c
    BY <1>2, <1>3, <1>4, <2>2 DEF Puts
  <2> QED BY <1>1, <1>3, <2>1, <2>2
<1>6. o \in ShownRows
  BY <1>2, <1>5 DEF Puts, ShownRows
<1> QED BY <1>6 DEF o

LEMMA Updated ==
    ASSUME NEW old, NEW new, NEW s \in DrawStates(old, new), NEW out, Len(out) \in Nat,
           Overlay(s.row, s.at, out) \in ShownRows
    PROVE  /\ WithOut(s, out) \in DrawStates(old, new)
           /\ WithOut(s, out).o = s.o /\ WithOut(s, out).n = s.n /\ WithOut(s, out).last = s.last
           /\ WithOut(s, out).attrs = s.attrs /\ WithOut(s, out).waiting = 0
           /\ WithOut(s, out).at = s.at + Len(out) /\ WithOut(s, out).row = Overlay(s.row, s.at, out)
<1> DEFINE at == s.at + Len(out)
           row == Overlay(s.row, s.at, out)
<1>1. WithOut(s, out) = [s EXCEPT !.waiting = 0, !.at = at, !.row = row]
  BY DEF WithOut, DrawStates
<1>2. at \in Int /\ row \in ShownRows
  BY DEF DrawStates
<1> HIDE DEF at, row
<1>3. WithOut(s, out) \in DrawStates(old, new)
  <2>1. s = [o |-> s.o, n |-> s.n, last |-> s.last, at |-> s.at, attrs |-> s.attrs,
             waiting |-> s.waiting, row |-> s.row]
    BY DEF DrawStates
  <2>2. WithOut(s, out) = [o |-> s.o, n |-> s.n, last |-> s.last, at |-> at, attrs |-> s.attrs,
                           waiting |-> 0, row |-> row]
    BY <1>1, <2>1
  <2>3. s.o \in 0 .. Len(old.blocks) /\ s.n \in 0 .. Len(new.blocks) /\ s.last \in Int /\ s.attrs \in Pens
    BY DEF DrawStates
  <2>4. 0 \in Nat
    OBVIOUS
  <2> QED BY <1>2, <2>2, <2>3, <2>4 DEF DrawStates
<1>4. /\ WithOut(s, out).o = s.o /\ WithOut(s, out).n = s.n /\ WithOut(s, out).last = s.last
      /\ WithOut(s, out).attrs = s.attrs
  BY <1>1 DEF DrawStates
<1>5. WithOut(s, out).waiting = 0 /\ WithOut(s, out).at = at /\ WithOut(s, out).row = row
  BY <1>1 DEF DrawStates
<1> QED BY <1>3, <1>4, <1>5 DEF at, row

LEMMA Flushes ==
    ASSUME NEW old, NEW new, NEW s \in DrawStates(old, new), NEW cells \in Seq(CellsShown)
    PROVE  /\ Flush(s, cells) \in DrawStates(old, new)
           /\ Flush(s, cells).o = s.o /\ Flush(s, cells).n = s.n /\ Flush(s, cells).last = s.last
           /\ Flush(s, cells).attrs = s.attrs /\ Flush(s, cells).waiting = 0
           /\ s.waiting = 0 => /\ Flush(s, cells).at = s.at + Len(cells)
                               /\ Flush(s, cells).row = Overlay(s.row, s.at, cells)
<1> DEFINE sp == SpaceCells(s.waiting, Plain)
           out == sp \o cells
<1>1. s.waiting \in Nat /\ s.at \in Int /\ s.row \in ShownRows
  BY DEF DrawStates
<1>2. sp \in Seq(CellsShown) /\ Len(sp) = s.waiting
  BY <1>1, SpacesTyped DEF Pens
<1> HIDE DEF sp
<1>3. out \in Seq(CellsShown) /\ Len(out) \in Nat
  BY <1>2, ConcatProperties, LenProperties
<1>4. s.waiting = 0 => out = cells
  <2>1. s.waiting = 0 => sp = <<>>
    BY <1>2, EmptySeq
  <2> QED BY <2>1
<1>5. Flush(s, cells) = WithOut(s, out)
  BY DEF Flush, WithOut, sp
<1> HIDE DEF out
<1>6. Overlay(s.row, s.at, out) \in ShownRows
  BY <1>1, <1>3, OverlayTyped
<1>7. /\ WithOut(s, out) \in DrawStates(old, new)
      /\ WithOut(s, out).o = s.o /\ WithOut(s, out).n = s.n /\ WithOut(s, out).last = s.last
      /\ WithOut(s, out).attrs = s.attrs /\ WithOut(s, out).waiting = 0
      /\ WithOut(s, out).at = s.at + Len(out) /\ WithOut(s, out).row = Overlay(s.row, s.at, out)
  BY <1>1, <1>3, <1>6, Updated
<1> QED BY <1>4, <1>5, <1>7

\* The loop over the old line.
LEMMA PassedBlocks ==
    ASSUME NEW old, IsLine(old), NEW o \in 0 .. Len(old.blocks), NEW col \in Int
    PROVE  /\ Passed(old, o, col) \in o .. Len(old.blocks)
           /\ Passed(old, o, col) = o \/ ColAt(old, Passed(old, o, col)) <= col
           /\ \A j \in o .. Len(old.blocks) : ColAt(old, j) <= col => j <= Passed(old, o, col)
<1> DEFINE S == {j \in o .. Len(old.blocks) : j = o \/ ColAt(old, j) <= col}
<1>1. Len(old.blocks) \in Nat
  BY LenProperties DEF IsLine
<1>2. S \subseteq Int /\ S # {} /\ \A j \in S : j <= Len(old.blocks)
  <2>1. o \in S
    BY <1>1
  <2> QED BY <1>1, <2>1
<1>3. Max(S) \in S /\ \A j \in S : j <= Max(S)
  <2> HIDE DEF S
  <2> DEFINE top == Len(old.blocks)
  <2>1. top \in Int /\ S \in SUBSET Int /\ S # {} /\ \A j \in S : j <= top
    BY <1>1, <1>2
  <2> HIDE DEF top
  <2>2. PICK m \in S : \A j \in S : j <= m
    BY <2>1, GreatestNumber
  <2> QED BY <1>2, <2>2, MaxOfNumbers
<1>5. Passed(old, o, col) = Max(S)
  BY DEF Passed
<1> QED BY <1>3, <1>5

\* k blocks are the same after o and n of them.
Same(old, o, new, n, k) ==
    /\ k \in Nat /\ o + k <= Len(old.blocks) /\ n + k <= Len(new.blocks)
    /\ \A i \in 1 .. k : old.blocks[o + i] = new.blocks[n + i]

LEMMA SameBlocks ==
    ASSUME NEW old, NEW new, IsLine(old), IsLine(new),
           NEW o \in 0 .. Len(old.blocks), NEW n \in 0 .. Len(new.blocks)
    PROVE  Same(old, o, new, n, SameCount(old, o, new, n))
<1> DEFINE a == Len(old.blocks) - o
           b == Len(new.blocks) - n
           S == {k \in 0 .. Min({a, b}) : \A i \in 1 .. k : old.blocks[o + i] = new.blocks[n + i]}
<1>1. Len(old.blocks) \in Nat /\ Len(new.blocks) \in Nat
  BY LenProperties DEF IsLine
<1>2. a \in Nat /\ b \in Nat
  BY <1>1
<1>3. Min({a, b}) \in Nat /\ Min({a, b}) <= a /\ Min({a, b}) <= b
  <2> HIDE DEF a, b
  <2>1. Min({a, b}) = IF a <= b THEN a ELSE b
    BY <1>2, MinOfTwo
  <2> QED BY <1>2, <2>1
<1>4. S \subseteq Int /\ S # {} /\ \A k \in S : k <= Min({a, b})
  <2>1. 0 \in S
    BY <1>3
  <2>2. S \subseteq Int /\ \A k \in S : k <= Min({a, b})
    BY <1>3
  <2> QED BY <2>1, <2>2
<1>5. Max(S) \in S
  <2> HIDE DEF S
  <2> DEFINE top == Min({a, b})
  <2> HIDE DEF a, b
  <2>1. top \in Int
    BY <1>3
  <2> HIDE DEF top
  <2>2. PICK m \in S : \A k \in S : k <= m
    BY <1>4, <2>1, GreatestNumber DEF top
  <2> QED BY <1>4, <2>2, MaxOfNumbers
<1>7. SameCount(old, o, new, n) = Max(S)
  BY DEF SameCount
<1>8. \A k \in S : /\ k \in Nat /\ k <= a /\ k <= b
                   /\ \A i \in 1 .. k : old.blocks[o + i] = new.blocks[n + i]
  <2> SUFFICES ASSUME NEW k \in S PROVE k \in Nat /\ k <= a /\ k <= b
    OBVIOUS
  <2>1. k \in Nat /\ k <= Min({a, b})
    BY <1>3
  <2> HIDE DEF S, a, b
  <2> QED BY <1>2, <1>3, <2>1
<1>9. \A k \in Nat : k <= a /\ k <= b => o + k <= Len(old.blocks) /\ n + k <= Len(new.blocks)
  BY <1>1
<1> HIDE DEF S, a, b
<1> QED BY <1>5, <1>7, <1>8, <1>9 DEF Same

LEMMA PrintsSome ==
    ASSUME NEW old, NEW new, NEW o, NEW n \in Nat, NEW count, Len(new.blocks) \in Nat,
           n < Len(new.blocks)
    PROVE  PrintedTo(old, new, o, n, count) \in n + 1 .. Len(new.blocks)
<1> DEFINE S == {j \in n + 1 .. Len(new.blocks) :
                    \/ j = Len(new.blocks)
                    \/ /\ j - n >= count
                       /\ ColAt(old, Passed(old, o, ColAt(new, j))) = ColAt(new, j)}
<1>1. S \in SUBSET Nat /\ Len(new.blocks) \in S
  OBVIOUS
<1>2. Min(S) \in S
  <2> HIDE DEF S
  <2> QED BY <1>1, MinOfNumbers
<1>3. PrintedTo(old, new, o, n, count) = Min(S)
  BY DEF PrintedTo
<1> QED BY <1>2, <1>3

\* The states that the drawing of a line begins in.
LEMMA BeginTyped ==
    ASSUME NEW old, NEW new, IsLine(old), IsLine(new), NEW row \in ShownRows, NEW a \in Pens
    PROVE  Begin(row, a, old, new) \in DrawStates(old, new)
<1>1. Len(old.blocks) \in Nat /\ Len(new.blocks) \in Nat /\ old.start \in Nat /\ new.start \in Nat
  BY LenProperties DEF IsLine
<1>2. 0 \in 0 .. Len(old.blocks) /\ 0 \in 0 .. Len(new.blocks) /\ 0 \in Nat /\ 0 \in Int /\ -1 \in Int
  BY <1>1
<1>3. CASE ~ (new.start > old.start /\ old.blocks # <<>>)
  <2>1. Begin(row, a, old, new)
            = [o |-> 0, n |-> 0, last |-> -1, at |-> 0, attrs |-> a, waiting |-> 0, row |-> row]
    BY <1>3, Zenon DEF Begin
  <2> QED BY <1>2, <2>1 DEF DrawStates
<1>4. CASE new.start > old.start /\ old.blocks # <<>>
  <2> DEFINE S == {j \in 0 .. Len(old.blocks) : ColAt(old, j) <= new.start}
             o == Max(S)
             last == Min({EndOf(old), new.start})
             waiting == new.start - old.start
  <2>1. o \in 0 .. Len(old.blocks)
    <3> DEFINE top == Len(old.blocks)
    <3>1. S # {}
      <4>1. ColAt(old, 0) = old.start
        BY <1>2, Ends
      <4>2. 0 \in S
        BY <1>1, <1>2, <1>4, <4>1
      <4> QED BY <4>2
    <3>2. S \in SUBSET Int /\ top \in Int /\ \A j \in S : j \in 0 .. top /\ j <= top
      BY <1>1
    <3> HIDE DEF S, top
    <3>3. PICK m \in S : \A j \in S : j <= m
      BY <3>1, <3>2, GreatestNumber
    <3>4. Max(S) \in S
      BY <3>2, <3>3, MaxOfNumbers
    <3> QED BY <3>2, <3>4 DEF top
  <2>2. last \in Int
    <3>1. Len(old.blocks) \in 0 .. Len(old.blocks)
      BY <1>1
    <3>2. EndOf(old) \in Nat
      BY <3>1, Ends DEF EndOf
    <3> QED BY <1>1, <3>2, MinOfTwo
  <2>3. waiting \in Nat /\ old.start \in Int
    BY <1>1, <1>4
  <2>4. Begin(row, a, old, new) = [o |-> o, n |-> 0, last |-> last, at |-> old.start, attrs |-> Plain,
                                   waiting |-> waiting, row |-> row]
    BY <1>4, Zenon DEF Begin
  <2>5. Plain \in Pens
    BY DEF Pens
  <2> HIDE DEF o, last, waiting
  <2> QED BY <1>2, <2>1, <2>2, <2>3, <2>4, <2>5 DEF DrawStates
<1> QED BY <1>3, <1>4

\* A round that ends the line, and one that prints the blocks from n + 1 to m.
Skipped(s, k) == [s EXCEPT !.o = @ + k, !.n = @ + k]

Printed(s, old, new, o, n, m) ==
    [Flush([s EXCEPT !.at = IF ColAt(new, n) = s.last THEN s.at ELSE ColAt(new, n)],
           CellsOf(SubSeq(new.blocks, n + 1, m)))
        EXCEPT !.o = Passed(old, o, ColAt(new, m)), !.n = m,
               !.last = ColAt(new, m), !.attrs = new.blocks[m].attr]

\* What a round does: it passes k blocks that are the same, and prints unless they are the last.
RoundDoes(s, old, new, k, t) ==
    /\ Same(old, s.o, new, s.n, k)
    /\ k = 0 \/ ColAt(old, s.o) = ColAt(new, s.n)
    /\ \/ s.n + k = Len(new.blocks) /\ t = Skipped(s, k)
       \/ \E m \in s.n + k + 1 .. Len(new.blocks) : t = Printed(s, old, new, s.o + k, s.n + k, m)

LEMMA NoneSame ==
    ASSUME NEW old, NEW new, IsLine(old), IsLine(new),
           NEW o \in 0 .. Len(old.blocks), NEW n \in 0 .. Len(new.blocks)
    PROVE  Same(old, o, new, n, 0)
<1>1. Len(old.blocks) \in Nat /\ Len(new.blocks) \in Nat
  BY LenProperties DEF IsLine
<1> QED BY <1>1 DEF Same

LEMMA Rounds ==
    ASSUME NEW old, NEW new, IsLine(old), IsLine(new), NEW s \in DrawStates(old, new),
           s.n < Len(new.blocks)
    PROVE  \E k \in Nat : RoundDoes(s, old, new, k, Round(s, old, new))
<1> DEFINE aligned == ColAt(old, s.o) = ColAt(new, s.n)
           k == IF aligned THEN SameCount(old, s.o, new, s.n) ELSE 0
           reprint == aligned /\ k < 3 /\ s.o + k < Len(old.blocks)
           o == IF reprint THEN s.o ELSE s.o + k
           n == IF reprint THEN s.n ELSE s.n + k
           m == PrintedTo(old, new, o, n, IF reprint THEN k + 1 ELSE 0)
<1>1. s.o \in 0 .. Len(old.blocks) /\ s.n \in 0 .. Len(new.blocks) /\ s.o \in Nat /\ s.n \in Nat
      /\ Len(old.blocks) \in Nat /\ Len(new.blocks) \in Nat
  BY LenProperties DEF DrawStates, IsLine
<1>2. Same(old, s.o, new, s.n, k) /\ k \in Nat /\ (k = 0 \/ aligned)
  <2>1. Same(old, s.o, new, s.n, 0) /\ Same(old, s.o, new, s.n, SameCount(old, s.o, new, s.n))
    BY <1>1, NoneSame, SameBlocks
  <2> QED BY <2>1, Zenon DEF Same
<1> HIDE DEF k
<1>3. CASE aligned /\ s.n + k = Len(new.blocks)
  <2>1. Round(s, old, new) = Skipped(s, k)
    BY <1>3, Zenon DEF Round, Skipped, k
  <2> QED BY <1>2, <1>3, <2>1 DEF RoundDoes
<1>4. CASE ~ (aligned /\ s.n + k = Len(new.blocks))
  <2>1. Round(s, old, new) = Printed(s, old, new, o, n, m)
    BY <1>4, Zenon DEF Round, Printed, k
  <2>2. PICK j \in {0, k} : o = s.o + j /\ n = s.n + j
    <3>1. CASE reprint
      <4>1. o = s.o + 0 /\ n = s.n + 0
        BY <1>1, <3>1
      <4> HIDE DEF o, n
      <4> QED BY <4>1
    <3>2. CASE ~ reprint
      <4>1. o = s.o + k /\ n = s.n + k
        BY <3>2
      <4> HIDE DEF o, n
      <4> QED BY <4>1
    <3> QED BY <3>1, <3>2
  <2>3. j \in Nat /\ Same(old, s.o, new, s.n, j) /\ (j = 0 \/ aligned)
    <3>1. Same(old, s.o, new, s.n, 0)
      BY <1>1, NoneSame
    <3> QED BY <1>2, <2>2, <3>1
  <2> HIDE DEF o, n
  <2>4. n \in Nat /\ n < Len(new.blocks)
    <3>1. j = 0 => n = s.n
      BY <1>1, <2>2
    <3>2. aligned /\ j = k => n < Len(new.blocks)
      <4>1. s.n + k <= Len(new.blocks)
        BY <1>2 DEF Same
      <4>2. n \in Nat /\ n <= Len(new.blocks) /\ (j = k => n = s.n + k)
        BY <1>1, <1>2, <2>2, <2>3, <4>1
      <4> HIDE DEF aligned
      <4> QED BY <1>1, <1>4, <4>2
    <3> HIDE DEF aligned
    <3> QED BY <1>1, <2>2, <2>3, <3>1, <3>2
  <2>5. m \in n + 1 .. Len(new.blocks)
    BY <1>1, <2>4, PrintsSome
  <2> HIDE DEF m
  <2>6. RoundDoes(s, old, new, j, Round(s, old, new))
    BY <2>1, <2>2, <2>3, <2>5 DEF RoundDoes
  <2> QED BY <2>3, <2>6
<1> QED BY <1>3, <1>4

\* What a round that prints leaves.
PrintsTo(s, old, new, o, n, m, t) ==
    /\ t \in DrawStates(old, new) /\ t.n = m /\ t.last = ColAt(new, m) /\ t.waiting = 0
    /\ s.waiting = 0 =>
          LET at == IF ColAt(new, n) = s.last THEN s.at ELSE ColAt(new, n)
              cells == CellsOf(SubSeq(new.blocks, n + 1, m))
          IN  t.at = at + Len(cells) /\ t.row = Overlay(s.row, at, cells)

\* s with the place in the lines and the attributes of what was printed last.
Told(s, o, n, last, a) == [s EXCEPT !.o = o, !.n = n, !.last = last, !.attrs = a]

LEMMA ToldTyped ==
    ASSUME NEW old, NEW new, NEW s \in DrawStates(old, new), NEW o \in 0 .. Len(old.blocks),
           NEW n \in 0 .. Len(new.blocks), NEW last \in Int, NEW a \in Pens
    PROVE  /\ Told(s, o, n, last, a).n = n /\ Told(s, o, n, last, a).last = last
           /\ Told(s, o, n, last, a).waiting = s.waiting /\ Told(s, o, n, last, a).at = s.at
           /\ Told(s, o, n, last, a).row = s.row /\ Told(s, o, n, last, a) \in DrawStates(old, new)
<1>1. Told(s, o, n, last, a) = [s EXCEPT !.o = o, !.n = n, !.last = last, !.attrs = a]
  BY DEF Told
<1>2. Told(s, o, n, last, a) \in DrawStates(old, new)
  BY <1>1 DEF DrawStates
<1>3. Told(s, o, n, last, a).n = n /\ Told(s, o, n, last, a).last = last
  BY <1>1 DEF DrawStates
<1>4. /\ Told(s, o, n, last, a).waiting = s.waiting /\ Told(s, o, n, last, a).at = s.at
      /\ Told(s, o, n, last, a).row = s.row
  BY <1>1 DEF DrawStates
<1> QED BY <1>2, <1>3, <1>4

LEMMA PrintedTyped ==
    ASSUME NEW old, NEW new, IsLine(old), IsLine(new), NEW s \in DrawStates(old, new),
           NEW o \in 0 .. Len(old.blocks), NEW n \in 0 .. Len(new.blocks),
           NEW m \in n + 1 .. Len(new.blocks)
    PROVE  PrintsTo(s, old, new, o, n, m, Printed(s, old, new, o, n, m))
<1> DEFINE at == IF ColAt(new, n) = s.last THEN s.at ELSE ColAt(new, n)
           cells == CellsOf(SubSeq(new.blocks, n + 1, m))
           s1 == [s EXCEPT !.at = at]
           s2 == Flush(s1, cells)
           o3 == Passed(old, o, ColAt(new, m))
           last == ColAt(new, m)
           a == new.blocks[m].attr
           s3 == Told(s2, o3, m, last, a)
<1>1. /\ Len(old.blocks) \in Nat /\ Len(new.blocks) \in Nat /\ n \in Nat
      /\ m \in 1 .. Len(new.blocks) /\ m \in 0 .. Len(new.blocks) /\ m \in n .. Len(new.blocks)
  BY LenProperties DEF IsLine
<1>2. ColAt(new, n) \in Int /\ last \in Int
  BY <1>1, Ends
<1>3. at \in Int
  BY <1>2 DEF DrawStates
<1>4. cells \in Seq(CellsShown)
  <2>1. \A i \in n + 1 .. m : new.blocks[i] \in Glyphs
    <3> SUFFICES ASSUME NEW i \in n + 1 .. m PROVE new.blocks[i] \in Glyphs
      OBVIOUS
    <3>1. i \in 1 .. Len(new.blocks)
      BY <1>1
    <3> QED BY <3>1, ElementOfSeq DEF IsLine
  <2>2. SubSeq(new.blocks, n + 1, m) \in Seq(Glyphs)
    BY <1>1, <2>1 DEF IsLine
  <2> QED BY <2>2, CellsTyped
<1>5. o3 \in 0 .. Len(old.blocks)
  <2>1. o3 \in o .. Len(old.blocks)
    BY <1>2, PassedBlocks
  <2> QED BY <1>1, <2>1
<1>6. a \in Pens
  <2>1. new.blocks[m] \in Glyphs
    BY <1>1, ElementOfSeq DEF IsLine
  <2> QED BY <2>1 DEF Pens
<1> HIDE DEF at, cells, o3, last, a
<1>7. /\ s1 \in DrawStates(old, new) /\ s1.at = at /\ s1.row = s.row /\ s1.waiting = s.waiting
  BY <1>3 DEF DrawStates
<1> HIDE DEF s1
<1>8. /\ s2 \in DrawStates(old, new) /\ s2.waiting = 0
      /\ s1.waiting = 0 => s2.at = s1.at + Len(cells) /\ s2.row = Overlay(s1.row, s1.at, cells)
  BY <1>4, <1>7, Flushes
<1> HIDE DEF s2
<1>9. /\ s3.n = m /\ s3.last = last /\ s3.waiting = s2.waiting /\ s3.at = s2.at /\ s3.row = s2.row
      /\ s3 \in DrawStates(old, new)
  BY <1>1, <1>2, <1>5, <1>6, <1>8, ToldTyped
<1>11. Printed(s, old, new, o, n, m) = s3
  BY Zenon DEF Printed, Told, s2, s1, cells, at, o3, last, a
<1> HIDE DEF s3
<1> QED BY <1>7, <1>8, <1>9, <1>11 DEF PrintsTo, at, cells, last

LEMMA SkippedTyped ==
    ASSUME NEW old, NEW new, IsLine(old), IsLine(new), NEW s \in DrawStates(old, new),
           NEW k \in Nat, Same(old, s.o, new, s.n, k)
    PROVE  /\ Skipped(s, k) \in DrawStates(old, new)
           /\ Skipped(s, k).n = s.n + k /\ Skipped(s, k).row = s.row /\ Skipped(s, k).at = s.at
           /\ Skipped(s, k).last = s.last /\ Skipped(s, k).waiting = s.waiting
<1> DEFINE o == s.o + k
           n == s.n + k
<1>1. o \in 0 .. Len(old.blocks) /\ n \in 0 .. Len(new.blocks)
  <2>1. s.o \in 0 .. Len(old.blocks) /\ s.n \in 0 .. Len(new.blocks)
    BY DEF DrawStates
  <2> QED BY <2>1 DEF Same
<1>2. Skipped(s, k) = [s EXCEPT !.o = o, !.n = n]
  BY DEF Skipped, DrawStates
<1> HIDE DEF o, n
<1>3. Skipped(s, k) \in DrawStates(old, new)
  BY <1>1, <1>2 DEF DrawStates
<1>4. Skipped(s, k).n = n /\ Skipped(s, k).row = s.row /\ Skipped(s, k).at = s.at
  BY <1>2 DEF DrawStates
<1>5. Skipped(s, k).last = s.last /\ Skipped(s, k).waiting = s.waiting
  BY <1>2 DEF DrawStates
<1> QED BY <1>3, <1>4, <1>5 DEF n

\* A round leaves such a state, further in the new line.
LEMMA RoundTyped ==
    ASSUME NEW old, NEW new, IsLine(old), IsLine(new), NEW s \in DrawStates(old, new),
           s.n < Len(new.blocks)
    PROVE  Round(s, old, new) \in DrawStates(old, new) /\ Round(s, old, new).n > s.n
<1> DEFINE t == Round(s, old, new)
<1>1. s.o \in 0 .. Len(old.blocks) /\ s.n \in 0 .. Len(new.blocks) /\ Len(old.blocks) \in Nat
      /\ Len(new.blocks) \in Nat
  BY LenProperties DEF DrawStates, IsLine
<1>2. PICK k \in Nat : RoundDoes(s, old, new, k, t)
  BY Rounds
<1> HIDE DEF t
<1>3. /\ Same(old, s.o, new, s.n, k)
      /\ \/ s.n + k = Len(new.blocks) /\ t = Skipped(s, k)
         \/ \E m \in s.n + k + 1 .. Len(new.blocks) : t = Printed(s, old, new, s.o + k, s.n + k, m)
  BY <1>2 DEF RoundDoes
<1>4. CASE s.n + k = Len(new.blocks) /\ t = Skipped(s, k)
  BY <1>1, <1>3, <1>4, SkippedTyped DEF t
<1>5. ASSUME NEW m \in s.n + k + 1 .. Len(new.blocks), t = Printed(s, old, new, s.o + k, s.n + k, m)
      PROVE  t \in DrawStates(old, new) /\ t.n > s.n
  <2>1. s.o + k \in 0 .. Len(old.blocks) /\ s.n + k \in 0 .. Len(new.blocks) /\ m > s.n
    BY <1>1, <1>3 DEF Same
  <2>2. PrintsTo(s, old, new, s.o + k, s.n + k, m, t)
    BY <1>5, <2>1, PrintedTyped
  <2> QED BY <2>1, <2>2 DEF PrintsTo
<1> QED BY <1>3, <1>4, <1>5 DEF t

\* Drawing a line goes on until all of it is drawn, and keeps what every round keeps.
LEMMA DrawEnds ==
    ASSUME NEW old, NEW new, IsLine(old), IsLine(new), NEW row, NEW a,
           NEW S \in SUBSET DrawStates(old, new), Begin(row, a, old, new) \in S,
           \A s \in S : s.n < Len(new.blocks) => Round(s, old, new) \in S
    PROVE  \E d \in S : /\ d.n = Len(new.blocks)
                        /\ DrawLine(row, a, old, new)
                              = Flush(IF EndOf(new) < EndOf(old) THEN Erase(d, old, new) ELSE d, <<>>)
<1> DEFINE L == Len(new.blocks)
           B == Begin(row, a, old, new)
           step == [i \in 1 .. L |-> [s \in S |-> IF s.n = L THEN s ELSE Round(s, old, new)]]
           f == CHOOSE g : g = [i \in 0 .. L |-> IF i = 0 THEN B
                                                  ELSE IF g[i - 1].n = L THEN g[i - 1]
                                                       ELSE Round(g[i - 1], old, new)]
<1>1. L \in Nat
  BY LenProperties DEF IsLine
<1>2. \A s \in S : s \in DrawStates(old, new) /\ s.n \in 0 .. L
  BY DEF DrawStates
<1>3. \A s \in S : IF s.n = L THEN s \in S ELSE Round(s, old, new) \in S /\ Round(s, old, new).n > s.n
  <2> SUFFICES ASSUME NEW s \in S, s.n # L
               PROVE  Round(s, old, new) \in S /\ Round(s, old, new).n > s.n
    OBVIOUS
  <2>1. s.n < L
    BY <1>1, <1>2
  <2> QED BY <1>2, <2>1, RoundTyped
<1>4. \A i \in 1 .. L : \A s \in S : step[i][s] = IF s.n = L THEN s ELSE Round(s, old, new)
  OBVIOUS
<1> HIDE DEF step, B, L, f
<1>5. PICK g \in [0 .. L -> S] : g[0] = B /\ \A i \in 1 .. L : g[i] = step[i][g[i - 1]]
  <2>1. \A i \in 1 .. L : \A s \in S : step[i][s] \in S
    BY <1>3, <1>4
  <2>2. B \in S
    BY DEF B
  <2>3. StaysIn(S, L, step)
    BY <2>1 DEF StaysIn
  <2>4. PICK g : g \in [0 .. L -> S] /\ Follows(g, L, B, step)
    BY <1>1, <2>2, <2>3, Recursion
  <2> QED BY <2>4 DEF Follows
<1>6. g = [i \in 0 .. L |-> IF i = 0 THEN B
                            ELSE IF g[i - 1].n = L THEN g[i - 1] ELSE Round(g[i - 1], old, new)]
  <2>1. \A i \in 0 .. L : i # 0 => i \in 1 .. L /\ i - 1 \in 0 .. L
    BY <1>1
  <2>2. \A i \in 0 .. L : i # 0 => step[i][g[i - 1]] = IF g[i - 1].n = L THEN g[i - 1]
                                                       ELSE Round(g[i - 1], old, new)
    <3> SUFFICES ASSUME NEW i \in 0 .. L, i # 0
                 PROVE  step[i][g[i - 1]] = IF g[i - 1].n = L THEN g[i - 1]
                                            ELSE Round(g[i - 1], old, new)
      OBVIOUS
    <3>1. g[i - 1] \in S /\ i \in 1 .. L
      BY <1>5, <2>1
    <3> QED BY <1>4, <3>1
  <2>3. \A i \in 0 .. L : g[i] = IF i = 0 THEN B
                                 ELSE IF g[i - 1].n = L THEN g[i - 1] ELSE Round(g[i - 1], old, new)
    BY <1>5, <2>1, <2>2
  <2>4. g = [i \in 0 .. L |-> g[i]]
    BY <1>5
  <2> QED BY <2>3, <2>4
<1>7. f = [i \in 0 .. L |-> IF i = 0 THEN B
                            ELSE IF f[i - 1].n = L THEN f[i - 1] ELSE Round(f[i - 1], old, new)]
  BY <1>6, Zenon DEF f
<1>8. DrawLine(row, a, old, new)
          = Flush(IF EndOf(new) < EndOf(old) THEN Erase(f[L], old, new) ELSE f[L], <<>>)
  BY Zenon DEF DrawLine, L, B, f
<1>9. /\ f[0] = B
      /\ \A i \in 1 .. L : f[i] = IF f[i - 1].n = L THEN f[i - 1] ELSE Round(f[i - 1], old, new)
  <2>1. 0 \in 0 .. L /\ \A i \in 1 .. L : i \in 0 .. L /\ i # 0
    BY <1>1
  <2> QED BY <1>7, <2>1
<1> DEFINE T == {i \in Nat : i <= L => f[i] \in S /\ (f[i].n = L \/ i <= f[i].n)}
<1>10. 0 \in T
  <2>1. B \in S /\ 0 <= B.n
    BY <1>2 DEF B
  <2> QED BY <1>9, <2>1
<1>11. ASSUME NEW i \in T PROVE i + 1 \in T
  <2> SUFFICES ASSUME i + 1 <= L
               PROVE  f[i + 1] \in S /\ (f[i + 1].n = L \/ i + 1 <= f[i + 1].n)
    OBVIOUS
  <2> DEFINE s == f[i]
             t == f[i + 1]
  <2>1. i \in Nat /\ s \in S /\ (s.n = L \/ i <= s.n)
    BY <1>1
  <2>2. t = IF s.n = L THEN s ELSE Round(s, old, new)
    <3>1. i + 1 \in 1 .. L /\ (i + 1) - 1 = i
      BY <1>1, <2>1
    <3>2. t = IF f[(i + 1) - 1].n = L THEN f[(i + 1) - 1] ELSE Round(f[(i + 1) - 1], old, new)
      BY <1>9, <3>1
    <3> QED BY <3>1, <3>2
  <2> HIDE DEF s, t
  <2>3. t \in S /\ (t.n = L \/ i + 1 <= t.n)
    BY <1>1, <1>2, <1>3, <2>1, <2>2
  <2> QED BY <2>3 DEF t
<1> HIDE DEF T
<1>12. T = Nat
  BY <1>10, <1>11, InductionOnSet DEF T
<1>13. f[L] \in S /\ f[L].n = L
  <2>1. f[L] \in S /\ (f[L].n = L \/ L <= f[L].n)
    BY <1>1, <1>12 DEF T
  <2>2. f[L].n \in 0 .. L
    BY <1>2, <2>1
  <2> QED BY <1>1, <2>1, <2>2
<1> QED BY <1>8, <1>13 DEF L

\* Erasing leaves such a state: on a terminal that can erase, one with blanks from the
\* cursor on.
LEMMA EraseTyped ==
    ASSUME size \in Sizes, NEW old, NEW new, IsLine(old), IsLine(new), NEW s \in DrawStates(old, new)
    PROVE  /\ Erase(s, old, new) \in DrawStates(old, new)
           /\ caps.el => /\ Erase(s, old, new).waiting = s.waiting
                         /\ \E b \in Pens \cap ForegroundOnly :
                               Erase(s, old, new).row
                                   = Overlay(s.row, s.at, SpaceCells(MaxWidth - s.at, b))
<1> DEFINE a == IF caps.bce /\ s.attrs \notin ForegroundOnly THEN Plain ELSE s.attrs
           e == [s EXCEPT !.attrs = a]
           b == IF caps.bce THEN a ELSE Plain
<1>1. a \in Pens
  BY DEF DrawStates, Pens
<1>2. b \in Pens /\ b \in ForegroundOnly
  BY <1>1, AttrsAssumption DEF Pens
<1>3. MaxWidth \in Nat /\ s.at \in Int /\ s.row \in ShownRows
  BY Bounds DEF DrawStates
<1> HIDE DEF a, b
<1>4. e \in DrawStates(old, new) /\ e.row = s.row /\ e.waiting = s.waiting
  BY <1>1 DEF DrawStates
<1>5. CASE caps.el
  <2> DEFINE row == Overlay(s.row, s.at, SpaceCells(MaxWidth - s.at, b))
             t == [e EXCEPT !.row = row]
  <2>1. row \in ShownRows
    <3>1. SpaceCells(MaxWidth - s.at, b) \in Seq(CellsShown)
      BY <1>2, <1>3, SpacesTyped
    <3> QED BY <1>3, <3>1, OverlayTyped
  <2>2. Erase(s, old, new) = [e EXCEPT !.row = Overlay(@, s.at, SpaceCells(MaxWidth - s.at, b))]
    BY <1>5, Zenon DEF Erase, a, b
  <2> HIDE DEF e
  <2>3. Erase(s, old, new) = t
    BY <1>4, <2>2 DEF DrawStates
  <2> HIDE DEF row
  <2>4. t \in DrawStates(old, new) /\ t.row = row /\ t.waiting = e.waiting
    BY <1>4, <2>1 DEF DrawStates
  <2> HIDE DEF t
  <2> QED BY <1>2, <1>4, <2>3, <2>4 DEF row
<1>6. CASE ~ caps.el
  <2> DEFINE cells == SpaceCells(EndOf(old) - EndOf(new), a)
  <2>1. cells \in Seq(CellsShown)
    <3>1. EndOf(old) \in Nat /\ EndOf(new) \in Nat
      <4>1. Len(old.blocks) \in 0 .. Len(old.blocks) /\ Len(new.blocks) \in 0 .. Len(new.blocks)
        BY LenProperties DEF IsLine
      <4> QED BY <4>1, Ends DEF EndOf
    <3> QED BY <1>1, <3>1, SpacesTyped
  <2>2. Erase(s, old, new) = Flush(e, cells)
    BY <1>6, Zenon DEF Erase, a
  <2> HIDE DEF e, cells
  <2> QED BY <1>4, <1>6, <2>1, <2>2, Flushes
<1> QED BY <1>5, <1>6

\* The end of drawing a line, and what is left.
Drawn(d, old, new) == Flush(IF EndOf(new) < EndOf(old) THEN Erase(d, old, new) ELSE d, <<>>)

LEMMA DrawTyped ==
    ASSUME size \in Sizes, NEW old, NEW new, IsLine(old), IsLine(new),
           NEW row \in ShownRows, NEW a \in Pens
    PROVE  DrawLine(row, a, old, new).attrs \in Pens /\ DrawLine(row, a, old, new).row \in ShownRows
<1> DEFINE S == DrawStates(old, new)
<1>1. \A s \in S : s.n < Len(new.blocks) => Round(s, old, new) \in S
  BY RoundTyped
<1>2. Begin(row, a, old, new) \in S /\ S \in SUBSET DrawStates(old, new)
  BY BeginTyped
<1> HIDE DEF S
<1>3. PICK d \in S : DrawLine(row, a, old, new)
                        = Flush(IF EndOf(new) < EndOf(old) THEN Erase(d, old, new) ELSE d, <<>>)
  BY <1>1, <1>2, DrawEnds
<1> DEFINE e == IF EndOf(new) < EndOf(old) THEN Erase(d, old, new) ELSE d
<1>4. e \in DrawStates(old, new)
  BY EraseTyped DEF S
<1>5. <<>> \in Seq(CellsShown)
  OBVIOUS
<1> HIDE DEF e
<1>6. Flush(e, <<>>) \in DrawStates(old, new)
  BY <1>4, <1>5, Flushes
<1>7. DrawLine(row, a, old, new) = Flush(e, <<>>)
  BY <1>3, Zenon DEF e
<1> QED BY <1>6, <1>7 DEF DrawStates

-----------------------------------------------------------------------------
(* What the terminal shows is of the lines it was given.                    *)

LEMMA LinesFit ==
    ASSUME size \in Sizes, NEW w \in Nat, w <= MaxWidth
    PROVE  /\ \A l \in LinesOf(w) : Fits(l)
           /\ EmptyLine \in LinesOf(w)
<1>1. IsLine(EmptyLine) /\ EndOf(EmptyLine) = 0
  <2>1. EmptyLine.start = 0 /\ EmptyLine.blocks = <<>> /\ Len(EmptyLine.blocks) = 0
    BY DEF EmptyLine
  <2>2. IsLine(EmptyLine)
    BY <2>1 DEF IsLine
  <2>3. ColAt(EmptyLine, 0) = 0
    <3>1. 0 \in 0 .. Len(EmptyLine.blocks)
      BY <2>1
    <3> QED BY <2>1, <2>2, <3>1, Ends
  <2> QED BY <2>1, <2>2, <2>3 DEF EndOf
<1>2. Fits(EmptyLine)
  BY <1>1, Bounds DEF Fits
<1>3. ASSUME NEW l \in LinesOf(w), l # EmptyLine PROVE Fits(l)
  <2>1. l.start \in Nat /\ EndOf(l) <= w /\ \E n \in 1 .. w : l.blocks \in [1 .. n -> Glyphs]
    BY <1>3 DEF LinesOf
  <2>2. l.blocks \in Seq(Glyphs)
    <3>1. PICK n \in Nat : l.blocks \in [1 .. n -> Glyphs]
      BY <2>1
    <3> QED BY <3>1
  <2>3. IsLine(l)
    BY <2>1, <2>2 DEF IsLine
  <2>4. EndOf(l) \in Nat /\ MaxWidth \in Nat
    <3>1. Len(l.blocks) \in 0 .. Len(l.blocks)
      BY <2>2, LenProperties
    <3> QED BY <2>3, <3>1, Ends, Bounds DEF EndOf
  <2> QED BY <2>1, <2>3, <2>4 DEF Fits
<1> QED BY <1>2, <1>3 DEF LinesOf

\* A wider terminal has the lines of a narrower one.
LEMMA WiderLines ==
    ASSUME size \in Sizes, NEW v \in Nat, NEW w \in Nat, v <= w, w <= MaxWidth
    PROVE  LinesOf(v) \subseteq LinesOf(w)
<1> SUFFICES ASSUME NEW l \in LinesOf(v), l # EmptyLine PROVE l \in LinesOf(w)
  BY DEF LinesOf
<1>1. PICK n \in 1 .. v : l \in [start : 0 .. v - 1, blocks : [1 .. n -> Glyphs]]
  <2>1. l \in [start : 0 .. v - 1, blocks : UNION {[1 .. n -> Glyphs] : n \in 1 .. v}]
    BY DEF LinesOf
  <2> QED BY <2>1
<1>2. n \in 1 .. w /\ l.start \in 0 .. w - 1 /\ l = [start |-> l.start, blocks |-> l.blocks]
      /\ l.blocks \in [1 .. n -> Glyphs]
  BY <1>1
<1>3. EndOf(l) <= w
  <2>0. MaxWidth \in Nat
    BY Bounds
  <2>1. Fits(l) /\ EndOf(l) <= v
    <3>1. Fits(l)
      BY <2>0, LinesFit
    <3> QED BY <3>1 DEF LinesOf
  <2>2. Len(l.blocks) \in 0 .. Len(l.blocks)
    BY <2>1, LenProperties DEF Fits, IsLine
  <2>3. EndOf(l) \in Nat
    BY <2>1, <2>2, Ends DEF EndOf, Fits
  <2> QED BY <2>1, <2>3
<1>4. l.blocks \in UNION {[1 .. i -> Glyphs] : i \in 1 .. w}
  BY <1>2
<1>5. l \in [start : 0 .. w - 1, blocks : UNION {[1 .. i -> Glyphs] : i \in 1 .. w}]
  BY <1>2, <1>4
<1> QED BY <1>3, <1>5 DEF LinesOf

\* The invariant: TypeOK, with what the provers need of the functions.
UpdateInv ==
    /\ TypeOK
    /\ lines \in [Rows -> LinesOf(size.width)]
    /\ screen \in [Rows -> ShownRows]

\* What the windows look like: a line for every row.
Frames == [0 .. size.height - 1 -> LinesOf(size.width)]

LEMMA RowNumbers ==
    ASSUME size \in Sizes
    PROVE  /\ size.height \in Nat /\ size.width \in Nat /\ size.width <= MaxWidth
           /\ \A r : r \in 0 .. size.height - 1 <=> r \in Rows /\ r < size.height
           /\ \A r \in Rows : r \in Nat
<1>1. /\ MaxHeight \in Nat \ {0} /\ size.height \in Nat \ {0} /\ size.height <= MaxHeight
      /\ size.width \in Nat \ {0} /\ size.width <= MaxWidth
  BY Bounds
<1> QED BY <1>1 DEF Rows

\* The attributes that each row is drawn with are ones of the lines.
LEMMA UpdateUnfolds ==
    ASSUME UpdateInv, NEW new \in Frames, Update(new)
    PROVE  \E pen \in [0 .. size.height -> Pens] :
              /\ lines' = [r \in Rows |-> IF r < size.height THEN new[r] ELSE EmptyLine]
              /\ screen' = [r \in Rows |-> IF r < size.height
                                           THEN DrawLine(screen[r], pen[r], lines[r], new[r]).row
                                           ELSE BlankRow]
              /\ attrs' = pen[size.height]
              /\ UNCHANGED <<size, caps>>
<1> DEFINE h == size.height
           pen == CHOOSE g : g = [r \in 0 .. h |-> IF r = 0 THEN attrs
                       ELSE DrawLine(screen[r - 1], g[r - 1], lines[r - 1], new[r - 1]).attrs]
           step == [r \in 1 .. h |->
                       [p \in Pens |-> DrawLine(screen[r - 1], p, lines[r - 1], new[r - 1]).attrs]]
<1>1. size \in Sizes /\ attrs \in Pens
  BY DEF UpdateInv, TypeOK, Pens
<1>2. h \in Nat /\ \A r \in 1 .. h : r \in 0 .. h /\ r # 0 /\ r - 1 \in 0 .. h - 1 /\ r - 1 \in 0 .. h
                                     /\ r - 1 \in Rows
  BY <1>1, RowNumbers
<1>3. \A r \in 1 .. h : \A p \in Pens :
          step[r][p] = DrawLine(screen[r - 1], p, lines[r - 1], new[r - 1]).attrs
  OBVIOUS
<1> HIDE DEF step, pen
<1>4. ASSUME NEW r \in 1 .. h, NEW p \in Pens PROVE step[r][p] \in Pens
  <2> DEFINE j == r - 1
  <2>1. j \in Rows /\ j \in 0 .. h - 1
    BY <1>2
  <2> HIDE DEF j
  <2>2. screen[j] \in ShownRows /\ lines[j] \in LinesOf(size.width) /\ new[j] \in LinesOf(size.width)
    BY <2>1 DEF UpdateInv, Frames
  <2>3. IsLine(lines[j]) /\ IsLine(new[j])
    BY <1>1, <2>2, RowNumbers, LinesFit DEF Fits
  <2>4. DrawLine(screen[j], p, lines[j], new[j]).attrs \in Pens
    BY <1>1, <2>2, <2>3, DrawTyped
  <2> QED BY <1>3, <2>4 DEF j
<1> HIDE DEF h
<1>5. StaysIn(Pens, h, step)
  BY <1>4 DEF StaysIn
<1>6. PICK g : g \in [0 .. h -> Pens] /\ Follows(g, h, attrs, step)
  BY <1>1, <1>2, <1>5, Recursion
<1>7. g = [r \in 0 .. h |-> IF r = 0 THEN attrs
              ELSE DrawLine(screen[r - 1], g[r - 1], lines[r - 1], new[r - 1]).attrs]
  <2>1. ASSUME NEW r \in 0 .. h
        PROVE  g[r] = IF r = 0 THEN attrs
                      ELSE DrawLine(screen[r - 1], g[r - 1], lines[r - 1], new[r - 1]).attrs
    <3>1. CASE r = 0
      BY <1>6, <3>1 DEF Follows
    <3>2. CASE r # 0
      <4>1. r \in 1 .. h
        BY <1>2, <3>2
      <4>2. g[r - 1] \in Pens /\ g[r] = step[r][g[r - 1]]
        BY <1>2, <1>6, <4>1 DEF Follows
      <4> QED BY <1>3, <3>2, <4>1, <4>2
    <3> QED BY <3>1, <3>2
  <2>2. g = [r \in 0 .. h |-> g[r]]
    BY <1>6
  <2> QED BY <2>1, <2>2
<1>8. pen = [r \in 0 .. h |-> IF r = 0 THEN attrs
                ELSE DrawLine(screen[r - 1], pen[r - 1], lines[r - 1], new[r - 1]).attrs]
  BY <1>7, Zenon DEF pen
<1>9. pen \in [0 .. h -> Pens]
  <2>1. pen[0] = attrs
    BY <1>2, <1>8
  <2>2. pen = [r \in 0 .. h |-> pen[r]]
    BY <1>8
  <2> DEFINE T == {k \in Nat : k <= h => pen[k] \in Pens}
  <2>3. 0 \in T
    BY <1>1, <2>1
  <2>4. \A r \in 1 .. h : pen[r] = DrawLine(screen[r - 1], pen[r - 1], lines[r - 1], new[r - 1]).attrs
    BY <1>2, <1>8
  <2>5. ASSUME NEW k \in T PROVE k + 1 \in T
    <3> SUFFICES ASSUME k + 1 <= h PROVE pen[k + 1] \in Pens
      OBVIOUS
    <3>1. k + 1 \in 1 .. h /\ pen[k] \in Pens /\ (k + 1) - 1 = k
      BY <1>2
    <3>2. pen[k + 1] = step[k + 1][pen[(k + 1) - 1]]
      BY <1>3, <2>4, <3>1
    <3> QED BY <1>4, <3>1, <3>2 DEF h
  <2> HIDE DEF T
  <2>6. T = Nat
    BY <2>3, <2>5, InductionOnSet DEF T
  <2>7. \A k \in 0 .. h : pen[k] \in Pens
    BY <1>2, <2>6 DEF T
  <2> QED BY <2>2, <2>7
<1>10. /\ lines' = [r \in Rows |-> IF r < size.height THEN new[r] ELSE EmptyLine]
       /\ screen' = [r \in Rows |-> IF r < size.height
                                    THEN DrawLine(screen[r], pen[r], lines[r], new[r]).row
                                    ELSE BlankRow]
       /\ attrs' = pen[h]
       /\ UNCHANGED <<size, caps>>
  BY Zenon DEF Update, pen, h
<1> QED BY <1>9, <1>10 DEF h

LEMMA BlankRowShown == BlankRow \in ShownRows
BY DEF BlankRow, ShownRows, CellsShown

LEMMA InitUpdateInv == Init => UpdateInv
<1> SUFFICES ASSUME Init PROVE UpdateInv
  OBVIOUS
<1>1. size \in Sizes /\ caps \in Capabilities /\ attrs = Plain
  BY DEF Init
<1>2. size.width \in Nat /\ size.width <= MaxWidth
  BY <1>1, RowNumbers
<1>3. EmptyLine \in LinesOf(size.width)
  BY <1>1, <1>2, LinesFit
<1>4. lines \in [Rows -> LinesOf(size.width)]
  BY <1>3 DEF Init
<1>5. screen \in [Rows -> ShownRows]
  BY BlankRowShown DEF Init
<1> QED BY <1>1, <1>4, <1>5 DEF UpdateInv, TypeOK, ShownRows

\* The lines and the rows are of the terminal after every step.
LEMMA NextUpdateInv == UpdateInv /\ [Next]_vars => UpdateInv'
<1> SUFFICES ASSUME UpdateInv, [Next]_vars PROVE UpdateInv'
  OBVIOUS
<1>1. size \in Sizes /\ caps \in Capabilities /\ attrs \in Pens
      /\ lines \in [Rows -> LinesOf(size.width)] /\ screen \in [Rows -> ShownRows]
  BY DEF UpdateInv, TypeOK, Pens
<1>2. \A s \in Sizes : s.width \in Nat /\ s.width <= MaxWidth /\ EmptyLine \in LinesOf(s.width)
  <2>1. \A s \in Sizes : s.width \in Nat /\ s.width <= MaxWidth
    BY <1>1, Bounds
  <2> QED BY <1>1, <2>1, LinesFit
<1>3. SUFFICES /\ size' \in Sizes /\ caps' \in Capabilities /\ attrs' \in Pens
               /\ lines' \in [Rows -> LinesOf(size'.width)] /\ screen' \in [Rows -> ShownRows]
  BY DEF UpdateInv, TypeOK, Pens, ShownRows, Rows, Columns, MaxHeight, MaxWidth
<1>4. Plain \in Pens /\ BlankRow \in ShownRows
  BY BlankRowShown DEF Pens
<1>5. ASSUME Cleared, size' \in Sizes, UNCHANGED caps
      PROVE  /\ size' \in Sizes /\ caps' \in Capabilities /\ attrs' \in Pens
             /\ lines' \in [Rows -> LinesOf(size'.width)] /\ screen' \in [Rows -> ShownRows]
  BY <1>1, <1>2, <1>4, <1>5 DEF Cleared
<1>6. ASSUME NEW new \in Frames, Update(new)
      PROVE  /\ size' \in Sizes /\ caps' \in Capabilities /\ attrs' \in Pens
             /\ lines' \in [Rows -> LinesOf(size'.width)] /\ screen' \in [Rows -> ShownRows]
  <2>1. PICK pen \in [0 .. size.height -> Pens] :
              /\ lines' = [r \in Rows |-> IF r < size.height THEN new[r] ELSE EmptyLine]
              /\ screen' = [r \in Rows |-> IF r < size.height
                                           THEN DrawLine(screen[r], pen[r], lines[r], new[r]).row
                                           ELSE BlankRow]
              /\ attrs' = pen[size.height]
              /\ UNCHANGED <<size, caps>>
    BY <1>6, UpdateUnfolds
  <2>2. ASSUME NEW r \in Rows, r < size.height
        PROVE  /\ new[r] \in LinesOf(size.width)
               /\ DrawLine(screen[r], pen[r], lines[r], new[r]).row \in ShownRows
    <3>1. r \in 0 .. size.height - 1 /\ size.height \in Nat /\ r \in Nat
      BY <1>1, <2>2, RowNumbers
    <3>2. new[r] \in LinesOf(size.width) /\ pen[r] \in Pens
      BY <3>1 DEF Frames
    <3>3. IsLine(lines[r]) /\ IsLine(new[r])
      BY <1>1, <1>2, <3>2, LinesFit DEF Fits
    <3> QED BY <1>1, <3>2, <3>3, DrawTyped
  <2>3. attrs' \in Pens
    <3>1. size.height \in 0 .. size.height
      BY <1>1, RowNumbers
    <3> QED BY <2>1, <3>1
  <2>4. screen' \in [Rows -> ShownRows]
    BY <1>4, <2>1, <2>2
  <2>5. lines' \in [Rows -> LinesOf(size.width)]
    BY <1>1, <1>2, <2>1, <2>2
  <2> QED BY <1>1, <2>1, <2>3, <2>4, <2>5
<1>7. CASE \E new \in [0 .. size.height - 1 -> LinesOf(size.width)] : Update(new)
  BY <1>6, <1>7 DEF Frames
<1>8. CASE Redraw
  BY <1>1, <1>5, <1>8 DEF Redraw
<1>9. ASSUME NEW s \in Sizes, Resize(s)
      PROVE  /\ size' \in Sizes /\ caps' \in Capabilities /\ attrs' \in Pens
             /\ lines' \in [Rows -> LinesOf(size'.width)] /\ screen' \in [Rows -> ShownRows]
  <2>1. size' = s /\ UNCHANGED caps
    BY <1>9 DEF Resize
  <2>2. CASE Cleared
    BY <1>5, <2>1, <2>2
  <2>3. CASE ~ (s.width < size.width) /\ UNCHANGED <<attrs, screen, lines>>
    <3>1. LinesOf(size.width) \subseteq LinesOf(s.width)
      <4>1. size.width <= s.width
        BY <1>1, <1>2, <2>3
      <4> QED BY <1>1, <1>2, <4>1, WiderLines
    <3> QED BY <1>1, <2>1, <2>3, <3>1
  <2> QED BY <1>9, <2>2, <2>3 DEF Resize
<1>10. CASE UNCHANGED vars
  BY <1>1, <1>10 DEF vars
<1> QED BY <1>7, <1>8, <1>9, <1>10 DEF Next

\* The attributes of the cells and of the terminal are ones it was told to use, and the
\* lines fit in the terminal: for any lines of any length, a terminal of any size and
\* of any kind.
THEOREM UpdateInvariant == Spec => []UpdateInv
<1>1. Init => UpdateInv
  BY InitUpdateInv
<1>2. UpdateInv /\ [Next]_vars => UpdateInv'
  BY NextUpdateInv
<1> QED BY <1>1, <1>2, PTL DEF Spec

THEOREM OnlyWhatWasAsked == Spec => []TypeOK
<1>1. UpdateInv => TypeOK
  BY DEF UpdateInv
<1> QED BY <1>1, UpdateInvariant, PTL

-----------------------------------------------------------------------------
(* Drawing a line over one that starts no earlier.                          *)

\* The row after the first n blocks of the new line: the new line up to their end, and
\* from there what the old line shows, but for the other half of a character cut in two.
Partly(row, old, new, n) ==
    /\ row \in ShownRows
    /\ \A c \in Columns :
          /\ c < ColAt(new, n) => row[c] = RowOf(new)[c]
          /\ c > ColAt(new, n) => row[c] = RowOf(old)[c]
          /\ c = ColAt(new, n) => row[c] = IF RowOf(old)[c].half = 2 THEN Blank ELSE RowOf(old)[c]

\* Where it begins, no character is cut.
LEMMA PartlyBegins ==
    ASSUME size \in Sizes, NEW old, NEW new, Fits(old), Fits(new),
           old.blocks = <<>> \/ new.start <= old.start, RowOf(old) \in ShownRows
    PROVE  Partly(RowOf(old), old, new, 0)
<1>1. ColAt(new, 0) = new.start /\ new.start \in Nat /\ old.start \in Nat
      /\ ColAt(old, 0) = old.start /\ 0 \in 0 .. Len(old.blocks)
  <2>1. 0 \in 0 .. Len(new.blocks) /\ 0 \in 0 .. Len(old.blocks)
    BY LenProperties DEF Fits, IsLine
  <2> QED BY <2>1, Ends DEF Fits, IsLine
<1>2. ASSUME NEW c \in Columns, c <= new.start
      PROVE  /\ RowOf(old)[c].half # 2
             /\ c < new.start => RowOf(old)[c] = Blank /\ RowOf(new)[c] = Blank
  <2>0. c \in Nat
    BY ColumnNumbers
  <2>1. CASE old.blocks = <<>>
    <3>1. EndOf(old) = old.start
      BY <1>1, <2>1 DEF EndOf
    <3>2. c < old.start \/ EndOf(old) <= c
      BY <1>1, <2>0, <3>1
    <3>3. RowOf(old)[c] = Blank
      BY <3>2, RowOfLine
    <3> QED BY <3>3, RowOfLine, BlankCell
  <2>2. CASE new.start <= old.start
    <3>1. c < old.start => RowOf(old)[c] = Blank
      BY RowOfLine
    <3>2. c = old.start => RowOf(old)[c].half # 2
      <4>1. ColAt(old, 0) \in Columns => RowOf(old)[ColAt(old, 0)].half # 2
        BY <1>1, BlockStarts
      <4> QED BY <1>1, <4>1
    <3>3. c < new.start => RowOf(new)[c] = Blank
      BY RowOfLine
    <3> QED BY <1>1, <1>2, <2>0, <2>2, <3>1, <3>2, <3>3, BlankCell
  <2> QED BY <2>1, <2>2
<1>3. \A c \in Columns : c \in Nat
  BY ColumnNumbers
<1> QED BY <1>1, <1>2, <1>3 DEF Partly

\* Blocks that are the same, and begin in the same column, are there already.
LEMMA PartlySkips ==
    ASSUME size \in Sizes, NEW old, NEW new, Fits(old), Fits(new), NEW row,
           NEW o \in 0 .. Len(old.blocks), NEW n \in 0 .. Len(new.blocks), NEW k \in Nat,
           Same(old, o, new, n, k), k = 0 \/ ColAt(old, o) = ColAt(new, n), Partly(row, old, new, n)
    PROVE  Partly(row, old, new, n + k)
<1>0. /\ o \in Nat /\ n \in Nat /\ Len(old.blocks) \in Nat /\ Len(new.blocks) \in Nat
      /\ o + k <= Len(old.blocks) /\ n + k <= Len(new.blocks)
      /\ \A i \in 1 .. k : old.blocks[o + i] = new.blocks[n + i]
  BY LenProperties DEF Same, Fits, IsLine
<1>1. CASE k = 0
  <2>1. n + k = n
    BY <1>0, <1>1
  <2> QED BY <2>1
<1>2. CASE k # 0
  <2> DEFINE P == ColAt(new, n)
             Q == ColAt(new, n + k)
             t == SubSeq(new.blocks, n + 1, n + k)
  <2>1. n + k \in n .. Len(new.blocks) /\ o + k \in o .. Len(old.blocks)
        /\ n + k \in 0 .. Len(new.blocks) /\ o + k \in 0 .. Len(old.blocks)
    BY <1>0
  <2>2. SubSeq(old.blocks, o + 1, o + k) = t
    <3>1. \A i \in 1 .. k : t[i] = new.blocks[n + i]
      BY <1>0 DEF Fits, IsLine
    <3>2. \A i \in 1 .. k : SubSeq(old.blocks, o + 1, o + k)[i] = old.blocks[o + i]
      BY <1>0 DEF Fits, IsLine
    <3>3. t \in Seq(Glyphs) /\ SubSeq(old.blocks, o + 1, o + k) \in Seq(Glyphs)
      BY <2>1, CellsOfPart
    <3>4. Len(t) = k /\ Len(SubSeq(old.blocks, o + 1, o + k)) = k
      BY <1>0 DEF Fits, IsLine
    <3> DEFINE u == SubSeq(old.blocks, o + 1, o + k)
    <3>5. \A i \in 1 .. k : u[i] = t[i]
      <4> HIDE DEF t
      <4> QED BY <1>0, <3>1, <3>2
    <3> HIDE DEF t, u
    <3>6. u \in Seq(Glyphs) /\ t \in Seq(Glyphs) /\ Len(u) = Len(t) /\ \A i \in 1 .. Len(u) : u[i] = t[i]
      BY <3>3, <3>4, <3>5 DEF u
    <3>7. u = t
      BY <3>6, SeqEqual
    <3> QED BY <3>7 DEF u
  <2>3. ColAt(old, o) = P
    BY <1>2
  <2>4. P \in Nat /\ Q \in Nat /\ P < Q /\ ColAt(old, o + k) \in Nat
    <3>1. n < n + k
      BY <1>0, <1>2
    <3> QED BY <2>1, <3>1, Ends DEF Fits
  <2>5. Len(CellsOf(t)) = Q - P /\ Len(CellsOf(t)) = ColAt(old, o + k) - P
    BY <2>1, <2>2, <2>3, CellsOfPart
  <2>6. ColAt(old, o + k) = Q
    <3> HIDE DEF t, P, Q
    <3> QED BY <2>4, <2>5
  <2>7. \A c \in Columns : P <= c /\ c < Q => RowOf(old)[c] = RowOf(new)[c]
    <3> SUFFICES ASSUME NEW c \in Columns, P <= c, c < Q PROVE RowOf(old)[c] = RowOf(new)[c]
      OBVIOUS
    <3>1. CellsOf(t)[c - P + 1] = RowOf(new)[c]
      BY <2>1, CellsOfPart
    <3>2. CellsOf(t)[c - P + 1] = RowOf(old)[c]
      <4>1. ColAt(old, o) <= c /\ c < ColAt(old, o + k)
        BY <2>3, <2>6
      <4>2. CellsOf(SubSeq(old.blocks, o + 1, o + k))[c - ColAt(old, o) + 1] = RowOf(old)[c]
        BY <2>1, <4>1, CellsOfPart
      <4> QED BY <2>2, <2>3, <4>2
    <3> QED BY <3>1, <3>2
  <2>8. (P \in Columns => RowOf(old)[P].half # 2) /\ (Q \in Columns => RowOf(old)[Q].half # 2)
    BY <2>1, <2>3, <2>6, BlockStarts
  <2>9. \A c \in Columns : c \in Nat
    BY ColumnNumbers
  <2>10. row \in ShownRows
         /\ \A c \in Columns :
              /\ c < P => row[c] = RowOf(new)[c]
              /\ c > P => row[c] = RowOf(old)[c]
              /\ c = P => row[c] = IF RowOf(old)[c].half = 2 THEN Blank ELSE RowOf(old)[c]
    BY DEF Partly
  <2> HIDE DEF P, Q
  <2>11. \A c \in Columns :
              /\ c < Q => row[c] = RowOf(new)[c]
              /\ c > Q => row[c] = RowOf(old)[c]
              /\ c = Q => row[c] = IF RowOf(old)[c].half = 2 THEN Blank ELSE RowOf(old)[c]
    BY <2>4, <2>7, <2>8, <2>9, <2>10
  <2> QED BY <2>10, <2>11 DEF Partly, Q
<1> QED BY <1>1, <1>2

\* Printing the next blocks cuts no character of the new line.
LEMMA PartlyPrints ==
    ASSUME size \in Sizes, NEW old, NEW new, Fits(old), Fits(new), NEW row,
           NEW n \in 0 .. Len(new.blocks), NEW m \in n + 1 .. Len(new.blocks),
           Partly(row, old, new, n)
    PROVE  Partly(Overlay(row, ColAt(new, n), CellsOf(SubSeq(new.blocks, n + 1, m))), old, new, m)
<1> DEFINE P == ColAt(new, n)
           Q == ColAt(new, m)
           cells == CellsOf(SubSeq(new.blocks, n + 1, m))
           out == Overlay(row, P, cells)
<1>0. /\ n \in Nat /\ Len(new.blocks) \in Nat /\ m \in n .. Len(new.blocks) /\ m \in 0 .. Len(new.blocks)
      /\ n < m
  BY LenProperties DEF Fits, IsLine
<1>1. P \in Nat /\ Q \in Nat /\ P < Q
  BY <1>0, Ends DEF Fits
<1>2. /\ Len(cells) = Q - P /\ Q - P \in Nat
      /\ \A c \in Columns : P <= c /\ c < Q => cells[c - P + 1] = RowOf(new)[c]
  BY <1>0, <1>1, CellsOfPart
<1>3. cells \in Seq(CellsShown)
  BY <1>0, CellsOfPart, CellsTyped
<1>4. /\ row \in ShownRows
      /\ \A c \in Columns :
            /\ c < P => row[c] = RowOf(new)[c]
            /\ c > P => row[c] = RowOf(old)[c]
            /\ c = P => row[c] = IF RowOf(old)[c].half = 2 THEN Blank ELSE RowOf(old)[c]
  BY DEF Partly
<1>5. \A c \in Columns : c \in Nat
  BY ColumnNumbers
<1> HIDE DEF P, Q, cells
<1>6. out \in ShownRows
  BY <1>1, <1>3, <1>4, OverlayTyped
<1>7. Puts(row, P, cells, Q - P, out)
  BY <1>1, <1>2, Overlaid
<1> HIDE DEF out
<1>8. P + (Q - P) = Q
  BY <1>1
<1>9. \A c \in Columns :
            /\ P <= c /\ c < Q => out[c] = cells[c - P + 1]
            /\ c < P - 1 \/ Q < c => out[c] = row[c]
            /\ c = P - 1 /\ ~(row[c].half = 1 /\ row[P].half = 2) => out[c] = row[c]
            /\ c = Q => out[c] = IF row[c].half = 2 THEN Blank ELSE row[c]
  BY <1>1, <1>7, <1>8 DEF Puts
<1>10. P \in Columns => row[P].half # 2
  <2> SUFFICES ASSUME P \in Columns PROVE row[P].half # 2
    OBVIOUS
  <2>1. row[P] = IF RowOf(old)[P].half = 2 THEN Blank ELSE RowOf(old)[P]
    BY <1>4
  <2> QED BY <2>1, BlankCell
<1>11. ASSUME NEW c \in Columns, c < P PROVE out[c] = RowOf(new)[c]
  <2>1. c \in Nat /\ row[c] = RowOf(new)[c]
    BY <1>4, <1>5, <1>11
  <2>2. CASE c < P - 1
    BY <1>9, <2>1, <2>2
  <2>3. CASE c = P - 1
    <3>1. P \in Columns
      <4>1. EndOf(new) <= MaxWidth /\ Q <= EndOf(new) /\ MaxWidth \in Nat /\ EndOf(new) \in Nat
        <5>1. Len(new.blocks) \in 0 .. Len(new.blocks)
          BY <1>0
        <5> QED BY <1>0, <5>1, Ends, Bounds DEF Fits, Q, EndOf
      <4> QED BY <1>1, <4>1, ColumnNumbers
    <3> QED BY <1>9, <1>10, <2>1, <2>3, <3>1
  <2> QED BY <1>1, <1>11, <2>1, <2>2, <2>3
<1>12. \A c \in Columns :
            /\ c < Q => out[c] = RowOf(new)[c]
            /\ c > Q => out[c] = RowOf(old)[c]
            /\ c = Q => out[c] = IF RowOf(old)[c].half = 2 THEN Blank ELSE RowOf(old)[c]
  <2> SUFFICES ASSUME NEW c \in Columns
               PROVE  /\ c < Q => out[c] = RowOf(new)[c]
                      /\ c > Q => out[c] = RowOf(old)[c]
                      /\ c = Q => out[c] = IF RowOf(old)[c].half = 2 THEN Blank ELSE RowOf(old)[c]
    OBVIOUS
  <2>1. c \in Nat
    BY <1>5
  <2>2. c < Q => out[c] = RowOf(new)[c]
    <3>1. P <= c /\ c < Q => out[c] = RowOf(new)[c]
      BY <1>2, <1>9
    <3> QED BY <1>1, <1>11, <2>1, <3>1
  <2>3. c > Q => out[c] = RowOf(old)[c]
    BY <1>1, <1>4, <1>9, <2>1
  <2>4. c = Q => out[c] = IF RowOf(old)[c].half = 2 THEN Blank ELSE RowOf(old)[c]
    BY <1>1, <1>4, <1>9, <2>1
  <2> QED BY <2>2, <2>3, <2>4
<1> QED BY <1>6, <1>12 DEF Partly, out, P, Q, cells

\* The states of drawing such a line: the cursor is not past what is drawn, and where the
\* code believes it to be if that is the column to go on in.
DrawingOver(old, new) ==
    {s \in DrawStates(old, new) :
        /\ s.waiting = 0 /\ Partly(s.row, old, new, s.n)
        /\ 0 <= s.at /\ s.at <= ColAt(new, s.n) /\ s.last <= ColAt(new, s.n)
        /\ s.last = ColAt(new, s.n) => s.at = s.last}

LEMMA DrawingBegins ==
    ASSUME size \in Sizes, NEW old, NEW new, Fits(old), Fits(new), NEW a \in Pens,
           old.blocks = <<>> \/ new.start <= old.start, RowOf(old) \in ShownRows
    PROVE  Begin(RowOf(old), a, old, new) \in DrawingOver(old, new)
<1> DEFINE s == Begin(RowOf(old), a, old, new)
<1>1. old.start \in Nat /\ new.start \in Nat /\ IsLine(old) /\ IsLine(new)
  BY DEF Fits, IsLine
<1>2. s = [o |-> 0, n |-> 0, last |-> -1, at |-> 0, attrs |-> a, waiting |-> 0, row |-> RowOf(old)]
  <2>1. ~ (new.start > old.start /\ old.blocks # <<>>)
    BY <1>1
  <2> QED BY <2>1, Zenon DEF Begin
<1>3. s \in DrawStates(old, new)
  BY <1>1, BeginTyped
<1>4. s.n = 0 /\ s.last = -1 /\ s.at = 0 /\ s.waiting = 0 /\ s.row = RowOf(old)
  BY <1>2
<1> HIDE DEF s
<1>5. ColAt(new, 0) \in Nat
  <2>1. 0 \in 0 .. Len(new.blocks)
    BY <1>1, LenProperties DEF IsLine
  <2> QED BY <1>1, <2>1, Ends
<1>6. Partly(s.row, old, new, s.n)
  BY <1>4, PartlyBegins
<1>7. 0 <= s.at /\ s.at <= ColAt(new, s.n) /\ s.last <= ColAt(new, s.n) /\ s.last # ColAt(new, s.n)
  BY <1>4, <1>5
<1>8. s \in DrawingOver(old, new)
  BY <1>3, <1>4, <1>6, <1>7 DEF DrawingOver
<1> QED BY <1>8 DEF s

LEMMA DrawingGoesOn ==
    ASSUME size \in Sizes, NEW old, NEW new, Fits(old), Fits(new),
           NEW s \in DrawingOver(old, new), s.n < Len(new.blocks)
    PROVE  Round(s, old, new) \in DrawingOver(old, new)
<1> DEFINE t == Round(s, old, new)
           P == ColAt(new, s.n)
<1>0. IsLine(old) /\ IsLine(new) /\ Len(old.blocks) \in Nat /\ Len(new.blocks) \in Nat
  BY LenProperties DEF Fits, IsLine
<1>1. /\ s \in DrawStates(old, new) /\ s.waiting = 0 /\ Partly(s.row, old, new, s.n)
      /\ 0 <= s.at /\ s.at <= P /\ s.last <= P /\ (s.last = P => s.at = s.last)
  BY DEF DrawingOver
<1>2. s.o \in 0 .. Len(old.blocks) /\ s.n \in 0 .. Len(new.blocks) /\ s.at \in Int /\ s.last \in Int
  BY <1>1 DEF DrawStates
<1>3. PICK k \in Nat : RoundDoes(s, old, new, k, t)
  BY <1>0, <1>1, Rounds
<1> HIDE DEF t
<1> DEFINE n == s.n + k
           Q == ColAt(new, n)
<1>4. /\ Same(old, s.o, new, s.n, k) /\ (k = 0 \/ ColAt(old, s.o) = P)
      /\ \/ n = Len(new.blocks) /\ t = Skipped(s, k)
         \/ \E m \in n + 1 .. Len(new.blocks) : t = Printed(s, old, new, s.o + k, n, m)
  BY <1>3 DEF RoundDoes
<1>5. n \in 0 .. Len(new.blocks) /\ s.o + k \in 0 .. Len(old.blocks)
  BY <1>0, <1>2, <1>4 DEF Same
<1>6. Partly(s.row, old, new, n)
  BY <1>1, <1>2, <1>4, PartlySkips
<1>7. P \in Nat /\ Q \in Nat /\ (k = 0 => P = Q) /\ (k # 0 => P < Q)
  <2>1. k # 0 => s.n < n
    BY <1>2
  <2>2. k = 0 => s.n = n
    BY <1>2
  <2>3. P \in Nat /\ Q \in Nat /\ (s.n < n => P < Q)
    BY <1>0, <1>2, <1>5, Ends
  <2> QED BY <2>1, <2>2, <2>3
<1>8. 0 <= s.at /\ s.at <= Q /\ s.last <= Q /\ (s.last = Q => s.at = s.last)
  <2> HIDE DEF P, Q
  <2>1. CASE k = 0
    BY <1>1, <1>7, <2>1
  <2>2. CASE k # 0
    BY <1>1, <1>2, <1>7, <2>2
  <2> QED BY <2>1, <2>2
<1> HIDE DEF P
<1>9. CASE n = Len(new.blocks) /\ t = Skipped(s, k)
  <2>1. /\ t \in DrawStates(old, new) /\ t.n = n /\ t.row = s.row /\ t.at = s.at
        /\ t.last = s.last /\ t.waiting = s.waiting
    BY <1>0, <1>1, <1>4, <1>9, SkippedTyped
  <2> HIDE DEF n
  <2> QED BY <1>1, <1>6, <1>8, <2>1 DEF DrawingOver, t
<1>10. ASSUME NEW m \in n + 1 .. Len(new.blocks), t = Printed(s, old, new, s.o + k, n, m)
       PROVE  t \in DrawingOver(old, new)
  <2> HIDE DEF n
  <2> DEFINE at == IF Q = s.last THEN s.at ELSE Q
             cells == CellsOf(SubSeq(new.blocks, n + 1, m))
             R == ColAt(new, m)
  <2>1. PrintsTo(s, old, new, s.o + k, n, m, t)
    BY <1>0, <1>1, <1>5, <1>10, PrintedTyped
  <2>2. /\ t \in DrawStates(old, new) /\ t.n = m /\ t.last = R /\ t.waiting = 0
        /\ t.at = at + Len(cells) /\ t.row = Overlay(s.row, at, cells)
    BY <1>1, <2>1, Zenon DEF PrintsTo
  <2>3. at = Q
    <3> HIDE DEF Q
    <3> QED BY <1>8
  <2>4. Partly(t.row, old, new, m)
    BY <1>5, <1>6, <2>2, <2>3, PartlyPrints
  <2>5. R \in Nat /\ Len(cells) = R - Q
    <3>1. m \in n .. Len(new.blocks) /\ m \in 0 .. Len(new.blocks)
      BY <1>0, <1>5
    <3> QED BY <1>0, <1>5, <3>1, Ends, CellsOfPart
  <2>6. t.at = R
    <3> HIDE DEF Q, R, cells
    <3> QED BY <1>7, <2>2, <2>3, <2>5
  <2> HIDE DEF R
  <2>7. 0 <= t.at /\ t.at <= ColAt(new, t.n) /\ t.last <= ColAt(new, t.n) /\ t.at = t.last
    BY <2>2, <2>5, <2>6 DEF R
  <2> QED BY <2>2, <2>4, <2>7 DEF DrawingOver
<1> QED BY <1>4, <1>9, <1>10 DEF t

\* What such a line leaves on the terminal.
LEMMA DrawnOver ==
    ASSUME size \in Sizes, NEW old, NEW new, Fits(old), Fits(new), NEW a \in Pens,
           old.blocks = <<>> \/ new.start <= old.start, RowOf(old) \in ShownRows
    PROVE  /\ EndOf(old) <= EndOf(new) => DrawLine(RowOf(old), a, old, new).row = RowOf(new)
           /\ caps.el => \A x \in Columns : x >= EndOf(new)
                                => DrawLine(RowOf(old), a, old, new).row[x] = Blank
<1> DEFINE S == DrawingOver(old, new)
           row == DrawLine(RowOf(old), a, old, new).row
<1>0. IsLine(old) /\ IsLine(new) /\ EndOf(old) \in Nat /\ EndOf(new) \in Nat
      /\ EndOf(new) <= MaxWidth /\ MaxWidth \in Nat
  <2>1. Len(old.blocks) \in 0 .. Len(old.blocks) /\ Len(new.blocks) \in 0 .. Len(new.blocks)
    BY LenProperties DEF Fits, IsLine
  <2> QED BY <2>1, Ends, Bounds DEF Fits, EndOf
<1>1. PICK d \in S : /\ d.n = Len(new.blocks)
                     /\ DrawLine(RowOf(old), a, old, new)
                           = Flush(IF EndOf(new) < EndOf(old) THEN Erase(d, old, new) ELSE d, <<>>)
  <2>1. S \in SUBSET DrawStates(old, new)
    BY DEF DrawingOver
  <2>2. Begin(RowOf(old), a, old, new) \in S
    BY DrawingBegins
  <2>3. \A s \in S : s.n < Len(new.blocks) => Round(s, old, new) \in S
    BY DrawingGoesOn
  <2> HIDE DEF S
  <2> QED BY <1>0, <2>1, <2>2, <2>3, DrawEnds
<1>2. /\ d \in DrawStates(old, new) /\ d.waiting = 0 /\ 0 <= d.at /\ d.at <= EndOf(new)
      /\ Partly(d.row, old, new, Len(new.blocks)) /\ d.at \in Int /\ d.row \in ShownRows
  <2>1. /\ d \in DrawStates(old, new) /\ d.waiting = 0 /\ 0 <= d.at /\ d.at <= ColAt(new, d.n)
        /\ Partly(d.row, old, new, d.n)
    BY DEF DrawingOver
  <2> QED BY <1>1, <2>1 DEF DrawStates, EndOf
<1>3. ASSUME NEW e \in DrawStates(old, new), e.waiting = 0
      PROVE  Flush(e, <<>>).row = e.row
  <2>1. <<>> \in Seq(CellsShown) /\ Len(<<>>) = 0
    OBVIOUS
  <2>2. Flush(e, <<>>).row = Overlay(e.row, e.at, <<>>)
    <3> DEFINE none == <<>>
    <3>1. none \in Seq(CellsShown)
      OBVIOUS
    <3> HIDE DEF none
    <3>2. Flush(e, none).row = Overlay(e.row, e.at, none)
      BY <1>3, <3>1, Flushes
    <3> QED BY <3>2 DEF none
  <2>3. e.row \in ShownRows /\ e.at \in Int
    BY DEF DrawStates
  <2>4. Puts(e.row, e.at, <<>>, 0, Overlay(e.row, e.at, <<>>))
    BY <2>1, <2>3, Overlaid
  <2> DEFINE o == Overlay(e.row, e.at, <<>>)
             r == e.row
  <2> HIDE DEF o, r
  <2>5. o = [c \in Columns |-> o[c]] /\ (\A c \in Columns : o[c] = r[c]) /\ r = [c \in Columns |-> r[c]]
    BY <2>3, <2>4 DEF Puts, ShownRows, o, r
  <2>6. o = r
    BY <2>5
  <2> QED BY <2>2, <2>6 DEF o, r
<1>4. \A c \in Columns : c \in Nat
  BY ColumnNumbers
<1>5. ASSUME EndOf(old) <= EndOf(new)
      PROVE  row = RowOf(new)
  <2>1. row = d.row
    <3>1. ~ (EndOf(new) < EndOf(old))
      BY <1>0, <1>5
    <3>2. DrawLine(RowOf(old), a, old, new) = Flush(d, <<>>)
      BY <1>1, <3>1
    <3> QED BY <1>2, <1>3, <3>2
  <2>2. ASSUME NEW c \in Columns PROVE d.row[c] = RowOf(new)[c]
    <3>1. CASE c < EndOf(new)
      BY <1>2, <3>1 DEF Partly, EndOf
    <3>2. CASE c >= EndOf(new)
      <4>1. EndOf(old) <= c
        BY <1>0, <1>4, <1>5, <3>2
      <4>2. RowOf(old)[c] = Blank
        BY <4>1, RowOfLine
      <4>3. RowOf(new)[c] = Blank
        BY <3>2, RowOfLine
      <4>4. d.row[c] \in {RowOf(old)[c], Blank}
        <5>1. c = EndOf(new) \/ c > EndOf(new)
          BY <1>0, <1>4, <3>2
        <5> QED BY <1>2, <5>1 DEF Partly, EndOf
      <4> QED BY <4>2, <4>3, <4>4
    <3> QED BY <1>0, <1>4, <3>1, <3>2
  <2>3. d.row = [c \in Columns |-> d.row[c]] /\ RowOf(new) = [c \in Columns |-> RowOf(new)[c]]
    BY <1>2, RowOfLine DEF ShownRows
  <2> HIDE DEF row
  <2>4. d.row = RowOf(new)
    BY <2>2, <2>3
  <2> QED BY <2>1, <2>4
<1>6. ASSUME caps.el, NEW x \in Columns, x >= EndOf(new)
      PROVE  row[x] = Blank
  <2>1. CASE EndOf(old) <= EndOf(new)
    BY <1>5, <1>6, <2>1, RowOfLine
  <2>2. CASE EndOf(new) < EndOf(old)
    <3> DEFINE e == Erase(d, old, new)
    <3>1. DrawLine(RowOf(old), a, old, new) = Flush(e, <<>>)
      BY <1>1, <2>2
    <3>2. e \in DrawStates(old, new) /\ e.waiting = 0
          /\ \E b \in Pens \cap ForegroundOnly : e.row = Overlay(d.row, d.at, SpaceCells(MaxWidth - d.at, b))
      BY <1>0, <1>2, <1>6, EraseTyped
    <3> HIDE DEF e
    <3>3. PICK b \in Pens \cap ForegroundOnly :
                e.row = Overlay(d.row, d.at, SpaceCells(MaxWidth - d.at, b))
      BY <3>2
    <3>4. row = e.row
      BY <1>3, <3>1, <3>2
    <3> DEFINE w == MaxWidth - d.at
               cells == SpaceCells(w, b)
    <3>5. w \in Nat
      BY <1>0, <1>2
    <3> HIDE DEF w
    <3>6. Len(cells) = w /\ \A i \in 1 .. w : cells[i] = Blank
      <4>1. SpaceCell(b) = Blank
        BY BlankCell
      <4> QED BY <3>5, <4>1, SpacesTyped
    <3> HIDE DEF cells
    <3>7. Puts(d.row, d.at, cells, w, e.row)
      BY <1>2, <3>3, <3>5, <3>6, Overlaid DEF cells, w
    <3>8. d.at <= x /\ x < d.at + w /\ x - d.at + 1 \in 1 .. w
      <4>1. x \in Nat /\ x < MaxWidth
        BY ColumnNumbers
      <4> QED BY <1>0, <1>2, <1>6, <4>1 DEF w
    <3>9. e.row[x] = cells[x - d.at + 1]
      BY <3>7, <3>8 DEF Puts
    <3> QED BY <3>4, <3>6, <3>8, <3>9
  <2> QED BY <1>0, <2>1, <2>2
<1> QED BY <1>5, <1>6

\* What a step does to a row that shows its line, which starts no later in the new one.
LEMMA RowsDrawn ==
    ASSUME UpdateInv, [Next]_vars, NEW r \in Rows, StartsNoLater(r)
    PROVE  /\ EndOf(lines[r]) <= EndOf(lines'[r]) => screen'[r] = RowOf(lines'[r])
           /\ caps.el => \A x \in Columns : x >= EndOf(lines'[r]) => screen'[r][x] = Blank
<1>1. size \in Sizes /\ caps \in Capabilities /\ attrs \in Pens
      /\ lines \in [Rows -> LinesOf(size.width)] /\ screen \in [Rows -> ShownRows]
  BY DEF UpdateInv, TypeOK, Pens
<1>2. size.width \in Nat /\ size.width <= MaxWidth
  BY <1>1, RowNumbers
<1>3. Fits(lines[r]) /\ Fits(EmptyLine) /\ screen[r] \in ShownRows
  BY <1>1, <1>2, LinesFit
<1>4. screen[r] = RowOf(lines[r]) /\ (lines[r].blocks = <<>> \/ lines'[r].start <= lines[r].start)
  BY DEF StartsNoLater
<1>5. ASSUME NEW l, Fits(l), screen'[r] = RowOf(l), lines'[r] = l
      PROVE  /\ screen'[r] = RowOf(lines'[r])
             /\ \A x \in Columns : x >= EndOf(lines'[r]) => screen'[r][x] = Blank
  BY <1>1, <1>5, RowOfLine
<1>6. RowOf(EmptyLine) = BlankRow
  <2>1. \A c \in Columns : RowOf(EmptyLine)[c] = Blank
    <3>1. EndOf(EmptyLine) = 0
      <4>1. EmptyLine.start = 0 /\ EmptyLine.blocks = <<>> /\ Len(EmptyLine.blocks) = 0
        BY DEF EmptyLine
      <4>2. 0 \in 0 .. Len(EmptyLine.blocks)
        BY <4>1
      <4> QED BY <1>3, <4>1, <4>2, Ends DEF Fits, EndOf
    <3>2. \A c \in Columns : EndOf(EmptyLine) <= c
      BY <1>1, <3>1, ColumnNumbers
    <3> QED BY <1>1, <1>3, <3>2, RowOfLine
  <2>2. RowOf(EmptyLine) = [c \in Columns |-> RowOf(EmptyLine)[c]]
    BY <1>1, <1>3, RowOfLine
  <2> QED BY <2>1, <2>2 DEF BlankRow
<1>7. CASE screen'[r] = BlankRow /\ lines'[r] = EmptyLine
  BY <1>3, <1>5, <1>6, <1>7
<1>8. CASE UNCHANGED <<screen, lines>>
  <2>1. screen'[r] = RowOf(lines[r]) /\ lines'[r] = lines[r]
    BY <1>4, <1>8
  <2> QED BY <1>3, <1>5, <2>1
<1>9. ASSUME NEW new \in Frames, Update(new), r < size.height
      PROVE  /\ EndOf(lines[r]) <= EndOf(lines'[r]) => screen'[r] = RowOf(lines'[r])
             /\ caps.el => \A x \in Columns : x >= EndOf(lines'[r]) => screen'[r][x] = Blank
  <2>1. r \in 0 .. size.height - 1 /\ r \in 0 .. size.height
    <3>1. r \in 0 .. size.height - 1 /\ size.height \in Nat
      BY <1>1, <1>9, RowNumbers
    <3> QED BY <3>1
  <2>2. Fits(new[r])
    <3>1. new[r] \in LinesOf(size.width)
      BY <2>1 DEF Frames
    <3> QED BY <1>1, <1>2, <3>1, LinesFit
  <2>3. PICK pen \in [0 .. size.height -> Pens] :
              /\ lines' = [i \in Rows |-> IF i < size.height THEN new[i] ELSE EmptyLine]
              /\ screen' = [i \in Rows |-> IF i < size.height
                                           THEN DrawLine(screen[i], pen[i], lines[i], new[i]).row
                                           ELSE BlankRow]
    BY <1>9, UpdateUnfolds
  <2>4. lines'[r] = new[r] /\ screen'[r] = DrawLine(screen[r], pen[r], lines[r], new[r]).row
    BY <1>9, <2>3
  <2>5. pen[r] \in Pens
    BY <2>1
  <2> DEFINE old == lines[r]
             l == new[r]
  <2>6. old.blocks = <<>> \/ l.start <= old.start
    BY <1>4, <2>4
  <2>7. screen[r] = RowOf(old) /\ RowOf(old) \in ShownRows /\ Fits(old) /\ Fits(l)
    BY <1>3, <1>4, <2>2
  <2> HIDE DEF old, l
  <2>8. /\ EndOf(old) <= EndOf(l) => DrawLine(RowOf(old), pen[r], old, l).row = RowOf(l)
        /\ caps.el => \A x \in Columns : x >= EndOf(l)
                              => DrawLine(RowOf(old), pen[r], old, l).row[x] = Blank
    BY <1>1, <2>5, <2>6, <2>7, DrawnOver
  <2>9. screen'[r] = DrawLine(RowOf(old), pen[r], old, l).row /\ lines'[r] = l /\ lines[r] = old
    BY <2>4, <2>7 DEF old, l
  <2> QED BY <2>8, <2>9
<1>10. CASE \E new \in [0 .. size.height - 1 -> LinesOf(size.width)] : Update(new)
  <2>1. PICK new \in Frames : Update(new)
    BY <1>10 DEF Frames
  <2>2. CASE r < size.height
    BY <1>9, <2>1, <2>2
  <2>3. CASE ~ (r < size.height)
    <3>1. screen'[r] = BlankRow /\ lines'[r] = EmptyLine
      BY <2>1, <2>3 DEF Update
    <3> QED BY <1>7, <3>1
  <2> QED BY <2>2, <2>3
<1>11. CASE Redraw
  <2>1. screen'[r] = BlankRow /\ lines'[r] = EmptyLine
    BY <1>11 DEF Redraw, Cleared
  <2> QED BY <1>7, <2>1
<1>12. CASE \E s \in Sizes : Resize(s)
  <2>1. Cleared \/ UNCHANGED <<screen, lines>>
    BY <1>12 DEF Resize
  <2>2. CASE Cleared
    <3>1. screen'[r] = BlankRow /\ lines'[r] = EmptyLine
      BY <2>2 DEF Cleared
    <3> QED BY <1>7, <3>1
  <2> QED BY <1>8, <2>1, <2>2
<1>13. CASE UNCHANGED vars
  <2>1. UNCHANGED <<screen, lines>>
    BY <1>13 DEF vars
  <2> QED BY <1>8, <2>1
<1> QED BY <1>10, <1>11, <1>12, <1>13 DEF Next

\* A line that starts no later and ends no earlier is drawn right, whatever was there,
\* whichever of its characters are skipped, and wherever a double-width character is cut.
THEOREM LongerLinesDrawnRight == Spec => LongerLinesShown
<1>1. UpdateInv /\ [Next]_vars
          => [\A r \in Rows : StartsNoLater(r) /\ EndOf(lines[r]) <= EndOf(lines'[r])
                                  => screen'[r] = RowOf(lines'[r])]_vars
  BY RowsDrawn
<1> QED BY <1>1, UpdateInvariant, PTL DEF Spec, LongerLinesShown

\* On a terminal that can erase, nothing is left after a line that starts no later than
\* the old one, however it is shorter, and it is erased without colour.
THEOREM ErasedAfterLines == Spec => NothingLeftOver
<1>1. UpdateInv /\ [Next]_vars
          => [\A r \in Rows, x \in Columns :
                 caps.el /\ StartsNoLater(r) /\ x >= EndOf(lines'[r]) => screen'[r][x] = Blank]_vars
  BY RowsDrawn
<1> QED BY <1>1, UpdateInvariant, PTL DEF Spec, NothingLeftOver
=============================================================================
