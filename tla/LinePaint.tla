----------------------------- MODULE LinePaint ------------------------------
(***************************************************************************)
(* The backing store of a window (window_paint.c): every line is a run of  *)
(* blocks, one per character, each one or two cells wide and of varying    *)
(* size in bytes, that starts at some column.  Characters are written over *)
(* it from the painting position, with the place of the last write cached  *)
(* as a byte offset.                                                       *)
(***************************************************************************)
EXTENDS Integers, Sequences, FiniteSetsExt, Sums

CONSTANTS
    Chars,         \* the characters a client writes
    CharWidth,     \* their width in cells
    CharBytes,     \* the size of their blocks in bytes
    Space,         \* the space character
    Attrs,         \* the attributes a client writes with
    DefaultAttr,   \* win->default_attrs
    Clients        \* bound: what clients do.  One of them writes the characters .chars, .run
                   \* blocks at a time, with up to .marks zero-width characters on each, in
                   \* a window of .heights and .widths, and clears a line at the columns .clears

MarkBytes == 2     \* the size in bytes of a zero-width character

ASSUME CharsAssumption ==
    /\ Space \in Chars /\ CharWidth[Space] = 1
    /\ CharWidth \in [Chars -> {1, 2}] /\ CharBytes \in [Chars -> Nat \ {0}]
Heights == UNION {c.heights : c \in Clients}
Widths == UNION {c.widths : c \in Clients}
MaxMarks == Max({c.marks : c \in Clients})

ASSUME ClientsAssumption ==
    /\ IsBounded(Heights) /\ IsBounded(Widths) /\ IsBounded({c.marks : c \in Clients})
    /\ \A c \in Clients :
           /\ c.chars \subseteq Chars /\ c.run \in Nat /\ c.marks \in Nat /\ c.clears \subseteq Nat
           /\ c.heights \subseteq Nat \ {0} /\ IsBounded(c.heights)
           /\ c.widths \subseteq Nat \ {0} /\ IsBounded(c.widths)

VARIABLES
    client,        \* the one of Clients that uses the window
    lines,         \* win->lines
    height, width,
    paint,         \* the painting position, [y, x]
    cache,         \* cached_pos_line, cached_pos, cached_pos_width: [line, pos, width]
    damaged        \* an offset was used that is not the start of a block: undefined behaviour

vars == <<client, lines, height, width, paint, cache, damaged>>

MaxHeight == Max(Heights)
Rows == 0 .. MaxHeight - 1
Blocks == [ch : Chars, attr : Attrs \cup {DefaultAttr}, marks : 0 .. MaxMarks]

WidthOf(b) == CharWidth[b.ch]
BytesOf(b) == CharBytes[b.ch] + b.marks * MarkBytes
\* The cells and the bytes of the first k blocks of s.
WidthTo(s, k) == SumTo([i \in 1 .. k |-> WidthOf(s[i])], k)
BytesTo(s, k) == SumTo([i \in 1 .. k |-> BytesOf(s[i])], k)

Char(c, a) == [ch |-> c, attr |-> a, marks |-> 0]
Spaces(n, a) == [i \in 1 .. n |-> Char(Space, a)]

EmptyLine == [start |-> 0, width |-> 0, blocks |-> <<>>]
NoCache == [line |-> -1, pos |-> 0, width |-> 0]

-----------------------------------------------------------------------------
(* The operations, on a state s of the window: s.line is the line painted on, s.y  *)
(* its number, s.x the painting column, s.cache and s.damaged as above.            *)

(* The operators named Wrong... are not part of the model.  Each is a variant of the *)
(* definition it precedes with one mistake in it, for a run to find.                 *)

\* The numbers of blocks that lie before the cached offset.
BlocksBefore(s) == {k \in 0 .. Len(s.line.blocks) : BytesTo(s.line.blocks, k) = s.cache.pos}
Entry(s) == CHOOSE k \in BlocksBefore(s) : TRUE

\* Searching from the cached position, with k blocks before it: the column where
\* block i ends, as the loops count it.
EndFrom(s, k, i) == s.cache.width + WidthTo(s.line.blocks, i) - WidthTo(s.line.blocks, k)

CacheReset(s) == [s EXCEPT !.cache = [line |-> s.y, pos |-> 0, width |-> s.line.start]]

\* The mistake of using the offset cached for another line.
WrongCacheHelps(s) == s.cache.width <= s.x

\* Whether _win_write_blocks can search from the cached position.
CacheHelps(s) == s.cache.line = s.y /\ s.cache.width <= s.x

\* The mistake of keeping the position cached for what was on the line before.
WrongWriteEmpty(s, new, wd) == [s EXCEPT !.line = [start |-> s.x, width |-> wd, blocks |-> new]]

\* _win_write_blocks where the line is empty.
WriteEmpty(s, new, wd) ==
    [s EXCEPT !.line = [start |-> s.x, width |-> wd, blocks |-> new], !.cache = NoCache]

\* The mistake of not counting the spaces put in between.
WrongWriteAfter(s, new, wd) ==
    LET diff == s.x - (s.line.start + s.line.width)
    IN  [s EXCEPT !.line.blocks = @ \o Spaces(diff, DefaultAttr) \o new, !.line.width = @ + wd]

\* ... where the characters follow the existing ones,
WriteAfter(s, new, wd) ==
    LET diff == s.x - (s.line.start + s.line.width)
    IN  [s EXCEPT !.line = [start |-> @.start, width |-> @.width + wd + diff,
                            blocks |-> @.blocks \o Spaces(diff, DefaultAttr) \o new]]

\* The mistake of keeping the cached position.
WrongWriteBefore(s, new, wd) ==
    LET diff == s.line.start - (s.x + wd)
    IN  [s EXCEPT !.line = [start |-> s.x, width |-> @.width + wd + diff,
                            blocks |-> new \o Spaces(diff, DefaultAttr) \o @.blocks]]

\* ... where they precede them,
WriteBefore(s, new, wd) ==
    LET diff == s.line.start - (s.x + wd)
    IN  [s EXCEPT !.line = [start |-> s.x, width |-> @.width + wd + diff,
                            blocks |-> new \o Spaces(diff, DefaultAttr) \o @.blocks],
                  !.cache = NoCache]

\* ... and where they replace existing ones, from the first, which starts at column col,
\* to the last, which ends before column end: what is left of a character becomes spaces
\* with its attributes.
Replace(s, new, wd, first, last, col, end) ==
    LET old   == s.line.blocks
        front == IF s.x >= s.line.start THEN s.x - col ELSE 0
        back  == Max({end - s.x - wd, 0})
        grown == Max({s.line.width, wd + s.x - s.line.start})
    IN  [s EXCEPT !.line = [start  |-> Min({s.line.start, s.x}),
                            width  |-> grown + Max({s.line.start - s.x, 0}),
                            blocks |-> SubSeq(old, 1, first - 1)
                                       \o Spaces(front, old[first].attr) \o new
                                       \o Spaces(back, old[last].attr)
                                       \o SubSeq(old, last + 1, Len(old))],
                  !.cache = IF s.line.start > s.x THEN NoCache
                            ELSE [line |-> s.y, pos |-> BytesTo(old, first - 1), width |-> col]]

\* The existing ones to replace, searched from the cached position: the first one that
\* ends after the painting column, and the last one that the new ones reach.
Overwrite(s, new, wd) ==
    LET k     == Entry(s)
        all   == k + 1 .. Len(s.line.blocks)
        first == Min({i \in all : EndFrom(s, k, i) > s.x})
        ends  == {i \in first .. Len(s.line.blocks) : EndFrom(s, k, i) >= s.x + wd}
        last  == IF ends = {} THEN Len(s.line.blocks) ELSE Min(ends)
    IN  IF BlocksBefore(s) = {} \/ (\A i \in all : EndFrom(s, k, i) <= s.x)
        THEN [s EXCEPT !.damaged = TRUE]
        ELSE Replace(s, new, wd, first, last, EndFrom(s, k, first - 1), EndFrom(s, k, last))

\* _win_write_blocks, up to the spaces for a character that does not fit.
WriteFitting(s, new) ==
    LET wd == WidthTo(new, Len(new))
        c  == IF CacheHelps(s) THEN s ELSE CacheReset(s)
        t  == IF s.line.blocks = <<>> THEN WriteEmpty(c, new, wd)
              ELSE IF s.line.start + s.line.width <= s.x THEN WriteAfter(c, new, wd)
              ELSE IF s.x + wd <= s.line.start THEN WriteBefore(c, new, wd)
              ELSE Overwrite(c, new, wd)
    IN  [t EXCEPT !.x = @ + wd]

\* The mistake of allowing one cell too many.
WrongFitting(s, run) == Max({k \in 0 .. Len(run) : s.x + WidthTo(run, k) <= width + 1})

\* The blocks of a run that fit in the window.
Fitting(s, run) == Max({k \in 0 .. Len(run) : s.x + WidthTo(run, k) <= width})

\* The mistake of leaving the last column as it is when a character does not fit.
WrongWriteBlocks(s, run) ==
    IF s.x >= width \/ run = <<>> THEN s ELSE WriteFitting(s, SubSeq(run, 1, Fitting(s, run)))

\* _win_write_blocks on a line of the window: the blocks that fit, and then, for a
\* double-width character at the last column, a space with its attributes.
WriteBlocks(s, run) ==
    LET n == Fitting(s, run)
        t == WriteFitting(s, SubSeq(run, 1, n))
    IN  IF s.x >= width \/ run = <<>> THEN s
        ELSE IF n < Len(run) /\ t.x < width THEN WriteFitting(t, Spaces(1, run[n + 1].attr))
        ELSE t

\* The blocks old with a zero-width character added to the i-th.
Marked(old, i) == [old EXCEPT ![i].marks = @ + 1]

\* _win_add_zerowidth.
AddZerowidth(s) ==
    LET c    == IF s.cache.line # s.y \/ s.cache.width >= s.x THEN CacheReset(s) ELSE s
        k    == Entry(c)
        at   == {i \in k + 1 .. Len(s.line.blocks) : EndFrom(c, k, i) >= s.x}
        hit  == Min(at)
    IN  IF s.x > width THEN s
        ELSE IF s.line.blocks = <<>> \/ s.x <= s.line.start \/ s.x > s.line.start + s.line.width
        THEN c
        ELSE IF BlocksBefore(c) = {} \/ at = {} THEN [c EXCEPT !.damaged = TRUE]
        ELSE IF EndFrom(c, k, hit) > s.x THEN c
        ELSE [c EXCEPT !.line.blocks = Marked(@, hit)]

\* The loop of t3_win_clrtoeol that looks for the cut: having passed k blocks it
\* holds the width of the last one it read, the k-th, or the first when k is 0.
HeldWidth(old, k) == WidthOf(old[Max({k, 1})])
SumWidth(line, k) ==
    line.start + (IF k = 0 THEN 0 ELSE WidthOf(line.blocks[1]) + WidthTo(line.blocks, k - 1))
\* The mistake of stopping one character too early.
WrongCut(line, x) ==
    Min({k \in 0 .. Len(line.blocks) :
            k = Len(line.blocks) \/ SumWidth(line, k) + HeldWidth(line.blocks, k) >= x})

\* The number of blocks that the loop passes.
Cut(line, x) ==
    Min({k \in 0 .. Len(line.blocks) :
            k = Len(line.blocks) \/ SumWidth(line, k) + HeldWidth(line.blocks, k) > x})

\* t3_win_clrtoeol.
ClearToEol(s) ==
    LET k == Cut(s.line, s.x)
        cut == [s EXCEPT !.line.blocks = SubSeq(@, 1, k), !.x = SumWidth(s.line, k)]
        filled == IF cut.x < s.x THEN WriteFitting(cut, Spaces(1, DefaultAttr)) ELSE cut
    IN  IF s.x <= s.line.start THEN [s EXCEPT !.line = EmptyLine]
        ELSE IF s.x >= s.line.start + s.line.width THEN s
        ELSE [filled EXCEPT !.line.width = filled.x - filled.line.start]

-----------------------------------------------------------------------------
Init ==
    /\ lines = [r \in Rows |-> EmptyLine]
    /\ client \in Clients
    /\ height \in client.heights /\ width \in client.widths
    /\ paint = [y |-> 0, x |-> 0]
    /\ cache = NoCache
    /\ damaged = FALSE

\* The line at the painting position and back.
Current == [line |-> lines[paint.y], y |-> paint.y, x |-> paint.x, cache |-> cache,
            damaged |-> FALSE]
Becomes(s) ==
    /\ lines' = [lines EXCEPT ![s.y] = s.line]
    /\ paint' = [y |-> s.y, x |-> s.x]
    /\ cache' = s.cache
    /\ damaged' = s.damaged

SetPaint(y, x) ==
    /\ ~damaged
    /\ paint' = [y |-> y, x |-> x]
    /\ UNCHANGED <<client, lines, height, width, cache, damaged>>

\* t3_win_addnstr writes a run of one block, _t3_win_refresh_term_line longer ones.
Write(run) ==
    /\ ~damaged /\ paint.y < height
    /\ Becomes(WriteBlocks(Current, run))
    /\ UNCHANGED <<client, height, width>>

\* A zero-width character in the string given to t3_win_addnstr.
Combine ==
    /\ ~damaged /\ paint.y < height
    /\ LET s == AddZerowidth(Current) IN
           /\ \A i \in DOMAIN s.line.blocks : s.line.blocks[i].marks <= client.marks
           /\ Becomes(s)
    /\ UNCHANGED <<client, height, width>>

\* t3_win_clrtoeol.
Clear ==
    /\ ~damaged /\ paint.y < height /\ paint.x \in client.clears
    /\ Becomes(ClearToEol(Current))
    /\ UNCHANGED <<client, height, width>>

\* t3_win_clrtobot.
ClearToBottom ==
    /\ ~damaged /\ paint.y < height /\ paint.x \in client.clears
    /\ LET s == ClearToEol(Current) IN
           /\ lines' = [r \in Rows |-> IF r < s.y THEN lines[r]
                                       ELSE IF r = s.y THEN s.line ELSE EmptyLine]
           /\ paint' = [y |-> height, x |-> s.x]
           /\ cache' = s.cache
           /\ damaged' = s.damaged
    /\ UNCHANGED <<client, height, width>>

\* t3_win_resize: the lines are cut at the new width with t3_win_clrtoeol, those
\* below the new height are freed; the painting position stays.
Chopped(r, w) ==
    ClearToEol([line |-> lines[r], y |-> r, x |-> w, cache |-> NoCache, damaged |-> FALSE])
Resize(h, w) ==
    /\ ~damaged
    /\ height' = h /\ width' = w
    /\ lines' = [r \in Rows |-> IF r >= h THEN EmptyLine
                                ELSE IF w < width /\ r < height THEN Chopped(r, w).line
                                ELSE lines[r]]
    /\ cache' = IF w < width THEN NoCache ELSE cache
    /\ damaged' = (w < width /\ \E r \in Rows : r < h /\ r < height /\ Chopped(r, w).damaged)
    /\ UNCHANGED <<client, paint>>

Runs == UNION {[1 .. n -> [ch : client.chars, attr : Attrs, marks : {0}]] : n \in 1 .. client.run}

Next ==
    \/ \E y \in 0 .. Max(client.heights) - 1, x \in 0 .. Max(client.widths) : SetPaint(y, x)
    \/ \E run \in Runs : Write(run)
    \/ Combine
    \/ Clear
    \/ ClearToBottom
    \/ \E h \in client.heights, w \in client.widths : Resize(h, w)

Spec == Init /\ [][Next]_vars

-----------------------------------------------------------------------------
(* What holds of t3_win_clrtoeol holds for two kinds of clients only: it sums the     *)
(* widths of the wrong blocks, and keeps the position cached for what it has cut off. *)

\* A client whose characters all take one cell and the same number of bytes,
OneSize(c) ==
    /\ c.marks = 0
    /\ \A ch \in c.chars \cup {Space} : CharWidth[ch] = 1 /\ CharBytes[ch] = CharBytes[Space]
\* or one that clears whole lines, and never makes its window narrower.
WholeLines(c) == c.clears \subseteq {0} /\ \A v, w \in c.widths : v = w

Careful == \A c \in Clients : OneSize(c) \/ WholeLines(c)

TypeOK ==
    /\ client \in Clients /\ height \in client.heights /\ width \in client.widths
    /\ \A r \in Rows : /\ lines[r].start \in 0 .. Max(Widths)
                       /\ lines[r].width \in 0 .. Max(Widths)
                       /\ lines[r].blocks \in Seq(Blocks)
    /\ paint \in [y : 0 .. MaxHeight, x : 0 .. Max(Widths)]
    /\ cache.line \in Rows \cup {-1}
    /\ damaged \in BOOLEAN

\* The width of a line is that of its data (internal.h), and within the window: the
\* choice between writing before, after and over the existing characters rests on it,
\* and so does the copy of the line to the terminal window.
WidthMatchesData ==
    \A r \in Rows : /\ lines[r].width = WidthTo(lines[r].blocks, Len(lines[r].blocks))
                    /\ r < height => lines[r].start + lines[r].width <= width
                    /\ lines[r].blocks = <<>> => lines[r].width = 0

\* No write and no clear ever uses an offset that is not the start of a block of the
\* line: the searches of _win_write_blocks and _win_add_zerowidth are entered at a block.
NeverDamaged == ~damaged
=============================================================================
