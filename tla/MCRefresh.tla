----------------------------- MODULE MCRefresh ------------------------------
(***************************************************************************)
(* Refresh for TLC: three windows, of which one can be the parent or the   *)
(* ancestor of the others.                                                 *)
(***************************************************************************)
EXTENDS Refresh, TLC

CONSTANTS rear, mid, fore

MCWindows == {rear, mid, fore}
List(s, p) == IF p \in DOMAIN s THEN s[p] ELSE <<>>
Lists(s) == [p \in MCWindows \cup {Null} |-> List(s, p)]

\* A chain of parents; two siblings in a parent; a family in front of a single window.
SomeStacks == {
    Lists((Null :> <<rear>>) @@ (rear :> <<mid>>) @@ (mid :> <<fore>>)),
    Lists((Null :> <<rear>>) @@ (rear :> <<fore, mid>>)),
    Lists((Null :> <<mid, rear>>) @@ (mid :> <<fore>>))}

At(y, x) == [y |-> y, x |-> x]
Sizes3 == (rear :> At(2, 3)) @@ (mid :> At(1, 3)) @@ (fore :> At(1, 4))
Places3 == (rear :> {At(-1, 1)}) @@ (mid :> {At(0, 0), At(0, 2), At(0, -4)}) @@ (fore :> {At(0, -2), At(0, 1)})

Text(start, w, chars) ==
    [start  |-> start,
     width  |-> LET upto[i \in 0 .. Len(chars)] ==
                        IF i = 0 THEN 0 ELSE upto[i - 1] + CharWidth[chars[i]]
                IN  upto[Len(chars)],
     blocks |-> [i \in DOMAIN chars |-> [ch |-> chars[i], attr |-> w, marks |-> 0]]]
OneRow(line) == (0 :> line)
Contents3 ==
    (rear :> {(0 :> Text(0, rear, <<"narrow">>)) @@ (1 :> Text(1, rear, <<"wide">>))})
    @@ (mid :> {OneRow(Text(1, mid, <<"wide">>))})
    @@ (fore :> {OneRow(Text(0, fore, <<"wide", "wide">>)), OneRow(Text(2, fore, <<"narrow">>))})

\* The size of the terminal; only _t3_win_refresh_term_line writes in its window.
TheTerminal == {[chars |-> {}, heights |-> {1}, widths |-> {4}, run |-> 1, marks |-> 0, clears |-> {0}]}

WidthOfChar == [c \in Chars |-> IF c = "wide" THEN 2 ELSE 1]
BytesOfChar == [c \in Chars |-> IF c = "wide" THEN 5 ELSE 3]
=============================================================================
