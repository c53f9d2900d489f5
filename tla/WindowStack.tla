---------------------------- MODULE WindowStack -----------------------------
(***************************************************************************)
(* What window.c promises of the tree of windows, without pointers: every  *)
(* parent has a sequence of windows, front to back, ordered by depth, and  *)
(* the references among windows never form a cycle.  A window goes in      *)
(* front of the siblings of its own depth.                                 *)
(***************************************************************************)
EXTENDS Integers, Sequences

CONSTANTS Windows, Terminal, Null, Depths, Relations, TopLeft

VARIABLES live, parent, anchor, restrict, relation, depth,
          stack,     \* the windows of each parent (Null: of the terminal), front to back
          deleting

vars == <<live, parent, anchor, restrict, relation, depth, stack, deleting>>

AllWindows == Windows \cup {Terminal}
OrNull(S) == S \cup {Null}

\* There is no set of windows each of which refers to another one of the set.
Acyclic(par, anc, res) ==
    \A S \in SUBSET AllWindows :
        S # {} => \E v \in S : {par[v], anc[v], res[v]} \cap S = {}

\* The sequence s without w.
Without(s, w) == LET IsOther(v) == v # w IN SelectSeq(s, IsOther)

\* The sequence s with w, of depth d, in front of those that are not above it.
With(s, dep, w, d) ==
    LET Above(v) == dep[v] < d
        NotAbove(v) == dep[v] >= d
    IN  SelectSeq(s, Above) \o <<w>> \o SelectSeq(s, NotAbove)

Init ==
    /\ live = {}
    /\ parent = [w \in AllWindows |-> Null]
    /\ anchor = [w \in AllWindows |-> Null]
    /\ restrict = [w \in AllWindows |-> Null]
    /\ relation = [w \in AllWindows |-> TopLeft]
    /\ depth = [w \in AllWindows |-> 0]
    /\ stack = [p \in OrNull(Windows) |-> <<>>]
    /\ deleting = Null

New(w, p, d) ==
    /\ deleting = Null
    /\ w \notin live /\ p \in OrNull(live)
    /\ live' = live \cup {w}
    /\ parent' = [parent EXCEPT ![w] = p]
    /\ depth' = [depth EXCEPT ![w] = d]
    /\ UNCHANGED <<anchor, restrict, relation, deleting>>
    /\ stack' = [stack EXCEPT ![p] = With(@, depth, w, d)]

\* Moving w to parent p.
Move(w, p) ==
    /\ parent' = [parent EXCEPT ![w] = p]
    /\ stack' = [stack EXCEPT ![parent[w]] = Without(@, w), ![p] = With(@, depth, w, depth[w])]

SetParent(w, p) ==
    /\ deleting = Null
    /\ w \in live /\ p \in OrNull(live) \ {parent[w]}
    /\ UNCHANGED <<live, anchor, restrict, relation, depth, deleting>>
    /\ Move(w, p)
    /\ Acyclic(parent', anchor, restrict)

SetAnchor(w, a, r) ==
    /\ deleting = Null
    /\ w \in live /\ a \in OrNull(live)
    /\ a = Null => r = TopLeft
    /\ anchor' = [anchor EXCEPT ![w] = a]
    /\ relation' = [relation EXCEPT ![w] = r]
    /\ UNCHANGED <<live, parent, restrict, depth, deleting>>
    /\ UNCHANGED stack
    /\ Acyclic(parent, anchor', restrict)

SetDepth(w, d) ==
    /\ deleting = Null
    /\ w \in live
    /\ depth' = [depth EXCEPT ![w] = d]
    /\ UNCHANGED <<live, parent, anchor, restrict, relation, deleting>>
    /\ stack' = [stack EXCEPT ![parent[w]] = With(Without(@, w), depth, w, d)]

SetRestrict(w, r) ==
    /\ deleting = Null
    /\ w \in live /\ r \in OrNull(live \cup {Terminal})
    /\ restrict' = [restrict EXCEPT ![w] = r]
    /\ UNCHANGED <<live, parent, anchor, relation, depth, deleting>>
    /\ UNCHANGED stack
    /\ Acyclic(parent, anchor, restrict')

DelBegin(w) ==
    /\ deleting = Null
    /\ w \in live
    /\ deleting' = w
    /\ UNCHANGED <<live, parent, anchor, restrict, relation, depth>>
    /\ stack' = [stack EXCEPT ![parent[w]] = Without(@, w)]

\* The children of a deleted window become windows without parent.
DelChild ==
    /\ deleting # Null
    /\ UNCHANGED <<live, anchor, restrict, relation, depth, deleting>>
    /\ stack[deleting] # <<>>
    /\ Move(Head(stack[deleting]), Null)

DelFree ==
    /\ deleting # Null
    /\ live' = live \ {deleting}
    /\ parent' = [parent EXCEPT ![deleting] = Null]
    /\ anchor' = [anchor EXCEPT ![deleting] = Null]
    /\ restrict' = [restrict EXCEPT ![deleting] = Null]
    /\ relation' = [relation EXCEPT ![deleting] = TopLeft]
    /\ depth' = [depth EXCEPT ![deleting] = 0]
    /\ deleting' = Null
    /\ stack[deleting] = <<>>
    /\ UNCHANGED stack

Next ==
    \/ \E w \in Windows, p \in OrNull(Windows), d \in Depths : New(w, p, d)
    \/ \E w \in Windows, p \in OrNull(Windows) : SetParent(w, p)
    \/ \E w \in Windows, a \in OrNull(Windows), r \in Relations : SetAnchor(w, a, r)
    \/ \E w \in Windows, d \in Depths : SetDepth(w, d)
    \/ \E w \in Windows, r \in OrNull(AllWindows) : SetRestrict(w, r)
    \/ \E w \in Windows : DelBegin(w)
    \/ DelChild
    \/ DelFree

Spec == Init /\ [][Next]_vars
=============================================================================
