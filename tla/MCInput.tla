------------------------------ MODULE MCInput -------------------------------
(***************************************************************************)
(* Input for TLC.                                                          *)
(***************************************************************************)
EXTENDS Input

Terminal(enc, combining, doubleWidth) ==
    [encoding |-> enc, combining |-> combining, doubleWidth |-> doubleWidth]

\* A terminal of Unicode 5.0 where the locale may say something else, and others.
SomeKinds == {Terminal("utf8", 2, 1), Terminal("gb18030", 0, 0), Terminal("singlebyte", -1, -1)}

At(y, x) == [y |-> y, x |-> x]
TwoSizes == {At(2, 5), At(3, 4)}
Static == At(2, 3)
=============================================================================
