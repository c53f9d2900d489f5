------------------------------ MODULE Refresh -------------------------------
(***************************************************************************)
(* Drawing a line of the terminal (_t3_win_refresh_term_line): all shown   *)
(* windows are painted from back to front into the terminal window, each   *)
(* clipped by its ancestors.  The terminal window is a window like any     *)
(* other: the variables of LinePaint are its backing store.  The other     *)
(* windows have lines as LinePaint leaves them, lists as in WindowStack,   *)
(* and any position WindowGeometry may give them.                          *)
(***************************************************************************)
EXTENDS LinePaint

CONSTANTS
    Windows, Null,
    Stacks,       \* choices of the lists of windows, topmost first, by parent
    Backed,       \* the windows with lines: not made by t3_win_new_unbacked
    SizeOf,       \* their height and width, [y, x]
    Places,       \* for each window, its possible absolute positions, [y, x]
    Contents      \* for each window, what its lines, from 0, may be

ASSUME WindowsAssumption ==
    /\ Null \notin Windows /\ Backed \subseteq Windows
    \* A client gives each window attributes of its own, so that a cell tells whose it is.
    /\ Windows \subseteq Attrs /\ DefaultAttr \notin Windows
    /\ IsFiniteSet(Windows)

\* The lists are what WindowTree keeps them: every window is in one list, once, and
\* among any windows there is one whose parent is not one of them.
ASSUME StacksAssumption ==
    \A s \in Stacks :
        /\ s \in [Windows \cup {Null} -> Seq(Windows)]
        /\ \A w \in Windows : \E p \in Windows \cup {Null} : \E i \in DOMAIN s[p] : s[p][i] = w
        /\ \A p, q \in Windows \cup {Null} : \A i \in DOMAIN s[p], j \in DOMAIN s[q] :
               s[p][i] = s[q][j] => p = q /\ i = j
        /\ \A S \in SUBSET Windows :
               S # {} => \E w \in S : \A p \in S : \A i \in DOMAIN s[p] : s[p][i] # w

ASSUME GeometryAssumption ==
    /\ SizeOf \in [Windows -> [y : Nat, x : Nat]]
    /\ \A w \in Windows : Places[w] \subseteq [y : Int, x : Int]

VARIABLES
    stack,        \* the lists, in the order of next
    shown,        \* win->shown
    place,        \* t3_win_get_abs_y and t3_win_get_abs_x
    content,      \* win->lines
    opaque,       \* win->default_attrs is not 0 (it is then the window's own attribute)
    fills         \* the terminal's default attributes are more than a foreground colour

winVars == <<stack, shown, place, content, opaque, fills>>
allVars == <<vars, winVars>>

-----------------------------------------------------------------------------
ParentOf(w) == CHOOSE p \in Windows \cup {Null} : \E i \in DOMAIN stack[p] : stack[p][i] = w
Ancestors(w) ==
    LET above[v \in Windows \cup {Null}] ==
            IF v = Null THEN {} ELSE {v} \cup above[ParentOf(v)]
    IN  above[ParentOf(w)]

\* _t3_win_is_shown.
IsShown(w) == \A v \in Ancestors(w) \cup {w} : shown[v]

TailOf(p) == IF stack[p] = <<>> THEN Null ELSE stack[p][Len(stack[p])]

\* The second loop of get_previous_window: the nearest shown window in front of w on
\* its list, or else in front of its parent, and so on.
Climb(w) ==
    LET up[v \in Windows \cup {Null}] ==
            IF v = Null THEN Null
            ELSE LET s      == stack[ParentOf(v)]
                     before == {i \in DOMAIN s : shown[s[i]] /\ \E j \in DOMAIN s : i < j /\ s[j] = v}
                 IN  IF before # {} THEN s[Max(before)] ELSE up[ParentOf(v)]
    IN  up[w]

\* The mistake of giving up the children when the last of them is hidden.
WrongPreviousWindow(w) ==
    IF shown[w] /\ TailOf(w) # Null /\ shown[TailOf(w)] THEN TailOf(w) ELSE Climb(w)

\* get_previous_window.
PreviousWindow(w) ==
    LET last == TailOf(w)
    IN  IF ~shown[w] \/ last = Null THEN Climb(w)
        ELSE IF shown[last] THEN last ELSE Climb(last)

\* The windows in the order in which the loops visit them, then Null for ever.
Visited ==
    LET last == TailOf(Null)
        visit[i \in 1 .. Cardinality(Windows)] ==
            IF i = 1 THEN (IF last # Null /\ ~shown[last] THEN PreviousWindow(last) ELSE last)
            ELSE LET w == visit[i - 1] IN IF w = Null THEN Null ELSE PreviousWindow(w)
    IN  visit

\* parent_y, parent_max_y, parent_x and parent_max_x.
Clip(w) ==
    LET up == Ancestors(w) IN
    IF up = {} THEN [top |-> 0, bottom |-> height, left |-> 0, right |-> width]
    ELSE [top    |-> Max({place[v].y : v \in up}),
          bottom |-> Min({place[v].y + SizeOf[v].y : v \in up}),
          left   |-> Max({place[v].x : v \in up} \cup {0}),
          right  |-> Min({place[v].x + SizeOf[v].x : v \in up} \cup {width})]

InWindow(w, row) == place[w].y <= row /\ row < place[w].y + SizeOf[w].y

\* write_spaces_to_terminal_window.  A negative count writes as many blocks as its last
\* three bits say, of which only the first has been set: the others are whatever bytes
\* the stack holds.
WriteSpaces(s, a, n) ==
    LET m == IF n >= 0 THEN n ELSE n % 8
    IN  IF n < 0 /\ m > 1 /\ s.x < width THEN [s EXCEPT !.damaged = TRUE]
        ELSE WriteBlocks(s, Spaces(m, a))

\* The part of a window before the first character of its line.
DrawLead(s, w, line, clip) ==
    LET x     == place[w].x
        start == IF x + line.start > clip.right THEN clip.right - x ELSE line.start
    IN  IF ~opaque[w] THEN [s EXCEPT !.x = x + start]
        ELSE IF x >= clip.left THEN WriteSpaces([s EXCEPT !.x = x], w, start)
        ELSE WriteSpaces([s EXCEPT !.x = clip.left], w, start - clip.left + x)

\* How many blocks lie wholly to the left of the clipping edge,
Clipped(line, x, clip) ==
    Min({k \in 0 .. Len(line.blocks) :
            k = Len(line.blocks) \/ x + line.start + WidthTo(line.blocks, k + 1) > clip.left})

\* ... and the drawing from the edge on: the state, and the number of blocks passed.
DrawFromEdge(s, w, line, clip) ==
    LET k   == Clipped(line, place[w].x, clip)
        at  == place[w].x + line.start + WidthTo(line.blocks, k)
        cut == k < Len(line.blocks) /\ at < clip.left
        on  == [s EXCEPT !.x = clip.left]
    IN  IF cut
        THEN <<WriteSpaces(on, line.blocks[k + 1].attr,
                           at + WidthOf(line.blocks[k + 1]) - clip.left), k + 1>>
        ELSE <<on, k>>

\* The blocks after the first k, up to the right edge.
DrawText(s, line, k, clip) ==
    LET cells(m) == WidthTo(line.blocks, m) - WidthTo(line.blocks, k)
        m == Max({k} \cup {i \in k .. Len(line.blocks) : s.x + cells(i) <= clip.right})
        t == WriteBlocks(s, SubSeq(line.blocks, k + 1, m))
    IN  IF m < Len(line.blocks) /\ s.x + cells(m) = clip.right - 1
        THEN WriteSpaces(t, line.blocks[m + 1].attr, 1) ELSE t

\* The mistake of not looking whether the text already reaches the edge.
WrongDrawRest(s, w, line, clip) ==
    LET end == line.start + line.width
        x   == place[w].x
    IN  IF opaque[w] /\ end < SizeOf[w].x
        THEN WriteSpaces(s, w, Min({x + SizeOf[w].x, clip.right}) - x - end)
        ELSE s

\* The part of a window after the last character of its line.
DrawRest(s, w, line, clip) ==
    LET end == line.start + line.width
        x   == place[w].x
    IN  IF opaque[w] /\ end < SizeOf[w].x /\ x + end < clip.right
        THEN WriteSpaces(s, w, Min({x + SizeOf[w].x, clip.right}) - x - end)
        ELSE s

\* The body of the loop of _t3_win_refresh_term_line.
DrawWindow(s, w) ==
    LET row  == s.y
        clip == Clip(w)
        x    == place[w].x
        line == content[w][row - place[w].y]
        from == IF x + line.start >= clip.left THEN <<DrawLead(s, w, line, clip), 0>>
                ELSE DrawFromEdge(s, w, line, clip)
    IN  IF \/ w \notin Backed \/ ~InWindow(w, row)
           \/ row < clip.top \/ row >= clip.bottom
           \/ x >= clip.right \/ x + line.start + line.width < clip.left
        THEN s
        ELSE DrawRest(DrawText(from[1], line, from[2], clip), w, line, clip)

DrawWindows(s) ==
    LET order == Visited
        after[i \in 0 .. Cardinality(Windows)] ==
            IF i = 0 THEN s
            ELSE LET t == after[i - 1] IN IF order[i] = Null THEN t ELSE DrawWindow(t, order[i])
    IN  after[Cardinality(Windows)]

\* The mistake of putting the last space of an empty line without the first.
WrongFillLine(s) ==
    IF ~fills \/ s.line.start + s.line.width >= width THEN s
    ELSE WriteSpaces([s EXCEPT !.x = width - 1], DefaultAttr, 1)

\* The end of _t3_win_refresh_term_line: one space at either end makes the writing fill
\* what is between it and the text.
FillLine(s) ==
    LET one(t, x) == WriteSpaces([t EXCEPT !.x = x], DefaultAttr, 1)
        front == IF s.line.start # 0 THEN one(s, 0) ELSE s
        some  == IF front.line.width = 0 THEN one(front, 0) ELSE front
    IN  IF ~fills THEN s
        ELSE IF front.line.start + front.line.width < width THEN one(some, width - 1)
        ELSE front

-----------------------------------------------------------------------------
RefreshInit ==
    /\ Init
    /\ stack \in Stacks
    /\ shown = [w \in Windows |-> FALSE]
    /\ place \in [Windows -> UNION {Places[w] : w \in Windows}]
    /\ \A w \in Windows : place[w] \in Places[w]
    /\ content \in [Windows -> UNION {Contents[w] : w \in Windows}]
    /\ \A w \in Windows : content[w] \in Contents[w]
    /\ opaque = [w \in Windows |-> FALSE]
    /\ fills = FALSE

\* t3_win_show and t3_win_hide, where they change something.
Show(w) ==
    /\ ~shown[w]
    /\ shown' = [shown EXCEPT ![w] = TRUE]
    /\ UNCHANGED <<vars, stack, place, content, opaque, fills>>
Hide(w) ==
    /\ shown[w]
    /\ shown' = [shown EXCEPT ![w] = FALSE]
    /\ UNCHANGED <<vars, stack, place, content, opaque, fills>>

\* t3_win_set_default_attrs, of a window and of the terminal, likewise.
SetDefaultAttrs(w, b) ==
    /\ opaque[w] # b
    /\ opaque' = [opaque EXCEPT ![w] = b]
    /\ UNCHANGED <<vars, stack, shown, place, content, fills>>
SetTerminalAttrs(b) ==
    /\ fills # b
    /\ fills' = b
    /\ UNCHANGED <<vars, stack, shown, place, content, opaque>>

\* _t3_win_refresh_term_line.
RefreshLine(row) ==
    /\ ~damaged
    /\ UNCHANGED <<client, height, width, winVars>>
    /\ LET cleared == [line |-> EmptyLine, y |-> row, x |-> paint.x, cache |-> cache,
                       damaged |-> FALSE]
       IN  Becomes(FillLine(DrawWindows(cleared)))

RefreshNext ==
    \/ \E w \in Windows : Show(w) \/ Hide(w)
    \/ \E w \in Windows, b \in BOOLEAN : SetDefaultAttrs(w, b)
    \/ \E b \in BOOLEAN : SetTerminalAttrs(b)
    \/ \E row \in 0 .. height - 1 : RefreshLine(row)

RefreshSpec == RefreshInit /\ [][RefreshNext]_allVars

-----------------------------------------------------------------------------
(* What a line should show, without the order in which it is painted. *)

\* Whether window v is in front of window w: its descendant, or the two are, or descend
\* from, siblings in that order.
InFront(v, w) ==
    LET family(a) == {u \in Windows : a \in Ancestors(u) \cup {u}} IN
    \/ w \in Ancestors(v)
    \/ \E p \in Windows \cup {Null} : \E i, j \in DOMAIN stack[p] :
           i < j /\ v \in family(stack[p][i]) /\ w \in family(stack[p][j])

\* Whether window w, with its ancestors, has column x of row.
Covers(w, row, x) ==
    \A v \in Ancestors(w) \cup {w} :
        InWindow(v, row) /\ x >= place[v].x /\ x < place[v].x + SizeOf[v].x

\* Column x of a line: the character there, and whether it is its first or second half.
Cell(line, x) ==
    LET before(k) == line.start + WidthTo(line.blocks, k - 1)
        here == {k \in DOMAIN line.blocks :
                    before(k) <= x /\ x < before(k) + WidthOf(line.blocks[k])}
        k == CHOOSE i \in here : TRUE
    IN  IF here = {} THEN [ch |-> Space, attr |-> DefaultAttr, half |-> 0]
        ELSE [ch |-> line.blocks[k].ch, attr |-> line.blocks[k].attr, half |-> x - before(k)]

CellOf(w, row, x) ==
    LET c == Cell(content[w][row - place[w].y], x - place[w].x)
    IN  IF c.attr = DefaultAttr THEN [c EXCEPT !.attr = w] ELSE c

\* The foremost shown window of those that paint the cell.
Owner(row, x) ==
    LET paints == {w \in Backed : /\ IsShown(w) /\ Covers(w, row, x)
                                  /\ \/ opaque[w]
                                     \/ Cell(content[w][row - place[w].y], x - place[w].x).attr
                                            # DefaultAttr}
        front == {w \in paints : \A v \in paints \ {w} : ~InFront(v, w)}
    IN  IF front = {} THEN Null ELSE CHOOSE w \in front : TRUE

\* What the cell shows: half a double-width character is a space.
Expected(row, x) ==
    LET w     == Owner(row, x)
        c     == CellOf(w, row, x)
        other == IF c.half = 0 THEN x + 1 ELSE x - 1
    IN  IF w = Null THEN [ch |-> Space, attr |-> DefaultAttr, half |-> 0]
        ELSE IF CharWidth[c.ch] = 2 /\ ~(other \in 0 .. width - 1 /\ Owner(row, other) = w)
        THEN [ch |-> Space, attr |-> c.attr, half |-> 0]
        ELSE c

\* What the run refresh_clip is about: a window with a background whose text lies to the
\* left of an ancestor,
TextBeyondEdge(w, row) ==
    LET line == content[w][row - place[w].y]
    IN  opaque[w] /\ place[w].x + line.start + line.width < Clip(w).left

\* ... and one whose ancestors, and the terminal, have no column in common.
Disjoint(w) == Clip(w).left >= Clip(w).right

Misdrawn(row) ==
    \E w \in Backed : IsShown(w) /\ InWindow(w, row) /\ (TextBeyondEdge(w, row) \/ Disjoint(w))

RowShows(row) ==
    /\ ~damaged'
    /\ \A x \in 0 .. width - 1 : Cell(lines'[row], x) = Expected(row, x)

\* Redrawing a line gives every cell to the foremost window that paints it, whatever is
\* hidden, clipped or cut in half: by the text of the clipping comments, nothing a
\* parent clips and everything else.
ShowsForemost == [][\A row \in 0 .. height - 1 : RefreshLine(row) => RowShows(row)]_allVars

\* The same but for the rows of the windows that are clipped wrongly.
ShowsForemostText ==
    [][\A row \in 0 .. height - 1 : RefreshLine(row) /\ ~Misdrawn(row) => RowShows(row)]_allVars

\* Only of a shown window with a background, and only where its ancestors and the terminal
\* are a column or more apart, is a negative number of spaces drawn; nothing else that
\* is drawn is undefined, wherever windows, texts and edges lie.
MiscountsOnlyApart ==
    [][\A row \in 0 .. height - 1 :
           RefreshLine(row) /\ damaged' =>
               \E w \in Backed : /\ IsShown(w) /\ InWindow(w, row) /\ opaque[w]
                                 /\ Clip(w).left > Clip(w).right]_allVars

\* Where the terminal has a background, a line is painted over its whole width.
FillsTheLine ==
    [][\A row \in 0 .. height - 1 :
           RefreshLine(row) /\ fills =>
               lines'[row].start = 0 /\ lines'[row].width = width]_allVars

\* The mistake of not looking at the parent.
WrongAtLocation(row, x) ==
    LET order == Visited
        here == {i \in DOMAIN order : /\ order[i] # Null /\ InWindow(order[i], row)
                                      /\ x >= place[order[i]].x
                                      /\ x < place[order[i]].x + SizeOf[order[i]].x}
    IN  IF here = {} THEN Null ELSE order[Max(here)]

\* t3_win_at_location: the last window of the iteration that has the cell.
AtLocation(row, x) ==
    LET order == Visited
        here == {i \in DOMAIN order :
                    /\ order[i] # Null
                    /\ LET w    == order[i]
                           up   == Ancestors(w)
                       IN  /\ InWindow(w, row)
                           /\ x >= place[w].x /\ x < place[w].x + SizeOf[w].x
                           /\ up # {} =>
                                /\ row >= Max({place[v].y : v \in up})
                                /\ row < Min({place[v].y + SizeOf[v].y : v \in up})
                                /\ x >= Max({place[v].x : v \in up})
                                /\ x < Min({place[v].x + SizeOf[v].x : v \in up})}
    IN  IF here = {} THEN Null ELSE order[Max(here)]

\* t3_win_at_location finds the foremost shown window at every cell, so that a click is
\* given to the window that the user sees there.
FindsForemost ==
    \A row \in 0 .. height - 1, x \in 0 .. width - 1 :
        LET here == {w \in Windows : IsShown(w) /\ Covers(w, row, x)}
        IN  IF here = {} THEN AtLocation(row, x) = Null
            ELSE AtLocation(row, x) \in {w \in here : \A v \in here \ {w} : ~InFront(v, w)}
=============================================================================
