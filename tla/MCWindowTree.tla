---------------------------- MODULE MCWindowTree ----------------------------
(***************************************************************************)
(* WindowTree for TLC, and the mapping of its pointers to WindowStack.     *)
(***************************************************************************)
EXTENDS WindowTree, Sequences, FiniteSets, TLC

\* The windows of parent p, met by following next from head[p].
StackOf(p) ==
    LET at[i \in Nat] == IF i = 1 THEN list.head[p]
                         ELSE IF at[i - 1] = Null THEN Null ELSE list.next[at[i - 1]]
        used == {i \in 1 .. Cardinality(Windows) : at[i] # Null}
    IN  [i \in 1 .. Cardinality(used) |-> at[i]]

Abstract == INSTANCE WindowStack WITH stack <- [p \in OrNull(Windows) |-> StackOf(p)]

\* The pointers implement the sequences: following next from the head of a parent
\* gives every window of that parent once, by depth, the latest of equal depth first,
\* and a reference is refused exactly when it closes a cycle.
ImplementsWindowStack == Abstract!Spec

Symmetry == Permutations(Windows)
=============================================================================
