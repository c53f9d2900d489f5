--------------------------- MODULE WindowGeometry ---------------------------
(***************************************************************************)
(* Where a window is on the terminal (t3_win_get_abs_x, t3_win_get_abs_y): *)
(* a point of the window is put at an offset from a point of its anchor,   *)
(* and the result is shifted into the window it is restricted to.  Which   *)
(* windows refer to which is the business of WindowTree and stays fixed.   *)
(***************************************************************************)
EXTENDS Integers

CONSTANTS
    Windows, Terminal, Null,
    Structures,    \* choices of [parent, anchor, restrict] for every window
    Offsets,       \* the positions passed to t3_win_new and t3_win_move
    Sizes,         \* the heights and widths passed to t3_win_new and t3_win_resize
    ScreenSize     \* the size of the terminal, [y, x]

\* t3_win_anchor_t.
AnchorPoints == {"topleft", "topright", "bottomleft", "bottomright", "center",
                 "topcenter", "bottomcenter", "centerleft", "centerright"}
Relations == [parent : AnchorPoints, child : AnchorPoints]
TopLeft == [parent |-> "topleft", child |-> "topleft"]
Axes == {"y", "x"}

AllWindows == Windows \cup {Terminal}
RefsOf(s, w) == {s[w].parent, s[w].anchor, s[w].restrict}

ASSUME WindowsAssumption == Terminal \notin Windows /\ Null \notin AllWindows
\* WindowTree makes no loops (has_loops): some window of each set refers to none of them.
ASSUME StructuresAssumption ==
    \A s \in Structures :
        /\ s \in [Windows -> [parent : AllWindows \cup {Null}, anchor : AllWindows \cup {Null},
                            restrict : AllWindows \cup {Null}]]
        /\ \A S \in SUBSET Windows : S # {} => \E w \in S : RefsOf(s, w) \cap S = {}
ASSUME SizesAssumption == Sizes \subseteq Nat \ {0} /\ ScreenSize \in [Axes -> Nat \ {0}]
ASSUME OffsetsAssumption == Offsets \subseteq Int

VARIABLES
    refs,       \* parent, anchor and restrictw of every window
    relation,
    offset,     \* win->y and win->x: [Axes -> Int] for each window
    size        \* win->height and win->width

vars == <<refs, relation, offset, size>>

-----------------------------------------------------------------------------
(* The operators named Wrong... are not part of the model.  Each is a variant of the *)
(* definition it precedes with one mistake in it, for a run to find.                 *)

\* The mistake of forgetting a case label.
WrongFarEdge == [y |-> {"bottomleft", "bottomright", "bottomcenter"},
                 x |-> {"topright", "bottomright"}]

\* The points that the switch statements take to the far edge of an axis, and to the middle.
FarEdge == [y |-> {"bottomleft", "bottomright", "bottomcenter"},
            x |-> {"topright", "bottomright", "centerright"}]
Middle == [y |-> {"centerleft", "centerright", "center"},
           x |-> {"topcenter", "bottomcenter", "center"}]

\* How far point p of window w is from its top-left corner along axis d.
PointShift(d, w, p) ==
    IF p \in FarEdge[d] THEN size[w][d] ELSE IF p \in Middle[d] THEN size[w][d] \div 2 ELSE 0

\* The mistake of testing the edges in the other order.
WrongRestricted(pos, len, first, n) ==
    LET fromStart == IF pos < first THEN first ELSE pos
    IN  IF fromStart + len > first + n THEN first + n - len ELSE fromStart

\* The shift of a position into the span of n cells from first.
Restricted(pos, len, first, n) ==
    LET fromEnd == IF pos + len > first + n THEN first + n - len ELSE pos
    IN  IF fromEnd < first THEN 0 ELSE fromEnd

\* The position of window w along axis d, given those of the windows it refers to.
Placed(d, abs, w) ==
    LET r    == refs[w].restrict
        near == IF refs[w].anchor = Null THEN refs[w].parent ELSE refs[w].anchor
        from == IF relation[w].parent \in FarEdge[d] \cup Middle[d]
                THEN abs[refs[w].anchor] + PointShift(d, refs[w].anchor, relation[w].parent)
                ELSE abs[near]
        pos  == from + offset[w][d] - PointShift(d, w, relation[w].child)
    IN  IF r = Null THEN pos ELSE Restricted(pos, size[w][d], abs[r], size[r][d])

\* t3_win_get_abs_y and t3_win_get_abs_x.
AbsPosition(d) ==
    LET abs[w \in AllWindows \cup {Null}] == IF w = Null THEN 0 ELSE Placed(d, abs, w)
    IN  abs

-----------------------------------------------------------------------------
NoRefs == [parent |-> Null, anchor |-> Null, restrict |-> Null]

Init ==
    /\ \E s \in Structures : refs = [w \in AllWindows |-> IF w = Terminal THEN NoRefs ELSE s[w]]
    /\ relation = [w \in AllWindows |-> TopLeft]
    /\ \E o \in [Axes -> Offsets], s \in [Axes -> Sizes] :
           /\ offset = [w \in AllWindows |-> IF w = Terminal THEN [d \in Axes |-> 0] ELSE o]
           /\ size = [w \in AllWindows |-> IF w = Terminal THEN ScreenSize ELSE s]

\* t3_win_move.
Move(w, o) ==
    /\ offset' = [offset EXCEPT ![w] = o]
    /\ UNCHANGED <<refs, relation, size>>

\* t3_win_resize, as far as the placement goes.
Resize(w, s) ==
    /\ size' = [size EXCEPT ![w] = s]
    /\ UNCHANGED <<refs, relation, offset>>

\* t3_win_set_anchor with the anchor the window already has.
SetRelation(w, r) ==
    /\ refs[w].anchor = Null => r = TopLeft
    /\ relation' = [relation EXCEPT ![w] = r]
    /\ UNCHANGED <<refs, offset, size>>

Next ==
    \/ \E w \in Windows, o \in [Axes -> Offsets] : Move(w, o)
    \/ \E w \in Windows, s \in [Axes -> Sizes] : Resize(w, s)
    \/ \E w \in Windows, r \in Relations : SetRelation(w, r)

Spec == Init /\ [][Next]_vars

-----------------------------------------------------------------------------
\* Where the point of a window is, in halves of its size.
Halves == [topleft    |-> [y |-> 0, x |-> 0], topcenter    |-> [y |-> 0, x |-> 1],
           topright   |-> [y |-> 0, x |-> 2], centerleft   |-> [y |-> 1, x |-> 0],
           center     |-> [y |-> 1, x |-> 1], centerright  |-> [y |-> 1, x |-> 2],
           bottomleft |-> [y |-> 2, x |-> 0], bottomcenter |-> [y |-> 2, x |-> 1],
           bottomright |-> [y |-> 2, x |-> 2]]
PointOf(d, w, p) == AbsPosition(d)[w] + (size[w][d] * Halves[p][d]) \div 2

\* The point of a window that its relation names is at the given offset from the
\* named point of its anchor, over every chain of windows, on both axes.
PointsMeet ==
    \A w \in Windows, d \in Axes :
        refs[w].anchor # Null /\ refs[w].restrict = Null =>
            PointOf(d, w, relation[w].child)
                = PointOf(d, refs[w].anchor, relation[w].parent) + offset[w][d]

\* What t3_win_set_restrict asks for: window w is inside window r when it fits there.
InsideOf(w, r) ==
    \A d \in Axes :
        LET abs == AbsPosition(d) IN
        size[w][d] <= size[r][d] =>
            abs[r] <= abs[w] /\ abs[w] + size[w][d] <= abs[r] + size[r][d]

\* A window restricted to the terminal is inside the terminal wherever it, its anchor
\* and its parent are put, and starts at the edge when it is too large.
InsideTerminal ==
    \A w \in Windows : refs[w].restrict = Terminal =>
        /\ InsideOf(w, Terminal)
        /\ \A d \in Axes : size[w][d] >= ScreenSize[d] => AbsPosition(d)[w] = 0

\* A window restricted to another window is inside that window.
InsideRestriction == \A w \in Windows : refs[w].restrict # Null => InsideOf(w, refs[w].restrict)
=============================================================================
