-------------------------- MODULE MCWindowGeometry --------------------------
(***************************************************************************)
(* WindowGeometry for TLC: a window that is placed and one that it is      *)
(* placed, clipped or restricted by.                                       *)
(***************************************************************************)
EXTENDS WindowGeometry, TLC

CONSTANTS base, win, Restricts

Screen == [y |-> 3, x |-> 5]
TwoWindows == {base, win}
NearAndFar == {-2, 3}

Ref(p, a, r) == [parent |-> p, anchor |-> a, restrict |-> r]

\* base may be kept inside the terminal, win hangs from base in every way.
TwoWindowStructures ==
    {(base :> Ref(Null, Null, rb)) @@ (win :> Ref(p, a, r)) :
        rb \in {Null, Terminal}, p \in {Null, base}, a \in {Null, base}, r \in Restricts}
=============================================================================
