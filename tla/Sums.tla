-------------------------------- MODULE Sums --------------------------------
(***************************************************************************)
(* How a line is measured: the sum of a quantity of its first blocks.  And *)
(* what is asked of a set of sizes.                                        *)
(***************************************************************************)
EXTENDS Integers

\* The sum of w[1] to w[k].
SumTo(w, k) == LET to[i \in 0 .. k] == IF i = 0 THEN 0 ELSE to[i - 1] + w[i] IN to[k]

\* S has a greatest number.
IsBounded(S) == \E m \in S : \A n \in S : n <= m
=============================================================================
