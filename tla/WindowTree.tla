----------------------------- MODULE WindowTree -----------------------------
(***************************************************************************)
(* The tree of windows kept by window.c: every window has a parent (used   *)
(* for clipping), an anchor (used for placement) and a restrict window     *)
(* (used to limit the placement), and sits in the depth-sorted doubly      *)
(* linked list of its parent.  The list of the windows without parent is   *)
(* kept in the globals _t3_head and _t3_tail: here head[Null], tail[Null]. *)
(* A member of Windows is one allocation, not an address: where malloc     *)
(* gives the memory of a freed window to a new one, a pointer to the old   *)
(* one is no reference to the new one.                                     *)
(***************************************************************************)
EXTENDS Integers

CONSTANTS
    Windows,      \* the windows a client may create
    Terminal,     \* _t3_terminal_window: restricts windows, is in no list
    Null,         \* the NULL pointer
    Depths,       \* the depths a client passes
    Relations,    \* the valid anchor relations
    TopLeft       \* T3_ANCHOR_TOPLEFT for both parent and child

ASSUME WindowsAssumption == Null \notin Windows /\ Terminal \notin Windows /\ Terminal # Null
ASSUME DepthsAssumption == Depths \subseteq Int /\ 0 \in Depths
ASSUME RelationsAssumption == TopLeft \in Relations

VARIABLES
    live,         \* the allocated windows
    parent, anchor, restrict, relation, depth,
    list,         \* the list pointers: next, prev per window, head, tail per parent
    deleting      \* the window t3_win_del is taking apart, or Null

vars == <<live, parent, anchor, restrict, relation, depth, list, deleting>>

AllWindows == Windows \cup {Terminal}
OrNull(S) == S \cup {Null}

-----------------------------------------------------------------------------
(* The operators named Wrong... are not part of the model.  Each is a variant of the *)
(* definition it precedes with one mistake in it, for a run to find.                 *)

(* insert_window and _t3_remove_window, as functions on the list pointers. *)

\* The values ptr takes in the search loop of insert_window: head first, then
\* the next of every window that is above depth d.
ClosedUnderSearch(V, L, dep, p, d) ==
    /\ L.head[p] \in V
    /\ \A v \in V : v # Null /\ dep[v] < d => L.next[v] \in V

\* The mistake of going past the siblings of the same depth.
WrongSearchEndsAt(L, dep, p, d, ptr) ==
    /\ ptr # Null => dep[ptr] > d
    /\ \A V \in SUBSET OrNull(Windows) : ClosedUnderSearch(V, L, dep, p, d + 1) => ptr \in V

\* The loop ends with ptr: a value it takes, and NULL or not above depth d.
SearchEndsAt(L, dep, p, d, ptr) ==
    /\ ptr # Null => dep[ptr] >= d
    /\ \A V \in SUBSET OrNull(Windows) : ClosedUnderSearch(V, L, dep, p, d) => ptr \in V

\* insert_window(w) with parent p, the search having ended at ptr.
Insert(L, p, w, ptr) ==
    LET before == IF ptr = Null THEN L.tail[p] ELSE L.prev[ptr] IN
    IF L.head[p] = Null
    THEN [next |-> [L.next EXCEPT ![w] = Null],
          prev |-> [L.prev EXCEPT ![w] = Null],
          head |-> [L.head EXCEPT ![p] = w],
          tail |-> [L.tail EXCEPT ![p] = w]]
    ELSE [next |-> IF before = Null THEN [L.next EXCEPT ![w] = ptr]
                                    ELSE [L.next EXCEPT ![w] = ptr, ![before] = w],
          prev |-> IF ptr = Null THEN [L.prev EXCEPT ![w] = before]
                                 ELSE [L.prev EXCEPT ![w] = before, ![ptr] = w],
          head |-> IF before = Null THEN [L.head EXCEPT ![p] = w] ELSE L.head,
          tail |-> IF ptr = Null THEN [L.tail EXCEPT ![p] = w] ELSE L.tail]

\* The mistake of not updating the next of the window before w.
WrongRemoveNext(L, p, w) ==
    LET n == L.next[w]
        b == L.prev[w]
    IN  [L EXCEPT !.prev = IF n = Null THEN @ ELSE [@ EXCEPT ![n] = b],
                  !.head[p] = IF b = Null THEN n ELSE @,
                  !.tail[p] = IF n = Null THEN b ELSE @]

\* _t3_remove_window(w) with parent p; the pointers of w itself are left as they are.
Remove(L, p, w) ==
    LET n == L.next[w]
        b == L.prev[w]
    IN  [next |-> IF b = Null THEN L.next ELSE [L.next EXCEPT ![b] = n],
         prev |-> IF n = Null THEN L.prev ELSE [L.prev EXCEPT ![n] = b],
         head |-> IF b = Null THEN [L.head EXCEPT ![p] = n] ELSE L.head,
         tail |-> IF n = Null THEN [L.tail EXCEPT ![p] = b] ELSE L.tail]

\* free(w): nothing refers to the pointers of w any more.
Forget(L, w) ==
    [next |-> [L.next EXCEPT ![w] = Null], prev |-> [L.prev EXCEPT ![w] = Null],
     head |-> [L.head EXCEPT ![w] = Null], tail |-> [L.tail EXCEPT ![w] = Null]]

-----------------------------------------------------------------------------
(* has_loops. *)

\* The windows that w refers to.
Refs(par, anc, res, w) == {par[w], anc[w], res[w]} \ {Null}

ClosedUnderRefs(C, par, anc, res) == \A c \in C : Refs(par, anc, res, c) \subseteq C

\* The mistake of not following the references any further.
WrongHasLoops(par, anc, res, w, start) == start \in Refs(par, anc, res, w)

\* start is reached from w over one or more references.
HasLoops(par, anc, res, w, start) ==
    \A C \in SUBSET AllWindows :
        Refs(par, anc, res, w) \subseteq C /\ ClosedUnderRefs(C, par, anc, res) => start \in C

-----------------------------------------------------------------------------
EmptyList == [next |-> [w \in Windows |-> Null], prev |-> [w \in Windows |-> Null],
              head |-> [p \in OrNull(Windows) |-> Null],
              tail |-> [p \in OrNull(Windows) |-> Null]]

Init ==
    /\ live = {}
    /\ parent = [w \in AllWindows |-> Null]
    /\ anchor = [w \in AllWindows |-> Null]
    /\ restrict = [w \in AllWindows |-> Null]
    /\ relation = [w \in AllWindows |-> TopLeft]
    /\ depth = [w \in AllWindows |-> 0]
    /\ list = EmptyList
    /\ deleting = Null

\* Whether a window refers to w.
ReferredTo(w) == \E v \in live : w \in Refs(parent, anchor, restrict, v)

\* t3_win_new and t3_win_new_unbacked: calloc clears every field but parent and depth.
New(w, p, d) ==
    /\ deleting = Null
    /\ w \notin live /\ ~ReferredTo(w) /\ p \in OrNull(live)
    /\ live' = live \cup {w}
    /\ parent' = [parent EXCEPT ![w] = p]
    /\ anchor' = [anchor EXCEPT ![w] = Null]
    /\ restrict' = [restrict EXCEPT ![w] = Null]
    /\ relation' = [relation EXCEPT ![w] = TopLeft]
    /\ depth' = [depth EXCEPT ![w] = d]
    /\ \E ptr \in OrNull(Windows) :
           /\ SearchEndsAt(list, depth', p, d, ptr)
           /\ list' = Insert(list, p, w, ptr)
    /\ UNCHANGED deleting

\* t3_win_new when the lines cannot be allocated: the window is already in the
\* list and is taken out again by t3_win_del, which finds no children.
NewFails(w, p, d) ==
    /\ deleting = Null
    /\ w \notin live /\ ~ReferredTo(w) /\ p \in OrNull(live)
    /\ \E ptr \in OrNull(Windows) :
           /\ SearchEndsAt(list, [depth EXCEPT ![w] = d], p, d, ptr)
           /\ list' = Forget(Remove(Insert(list, p, w, ptr), p, w), w)
    /\ UNCHANGED <<live, parent, anchor, restrict, relation, depth, deleting>>

\* The body of t3_win_set_parent: the new parent is tried, put back when it
\* closes a loop, and otherwise w moves to the list of the new parent.
Reparent(w, p) ==
    LET tried   == [parent EXCEPT ![w] = p]
        without == Remove(list, parent[w], w)
    IN  IF p = parent[w] \/ HasLoops(tried, anchor, restrict, w, w)
        THEN UNCHANGED <<parent, list>>
        ELSE /\ parent' = tried
             /\ \E ptr \in OrNull(Windows) :
                    /\ SearchEndsAt(without, depth, p, depth[w], ptr)
                    /\ list' = Insert(without, p, w, ptr)

SetParent(w, p) ==
    /\ deleting = Null
    /\ w \in live /\ p \in OrNull(live)
    /\ Reparent(w, p)
    /\ UNCHANGED <<live, anchor, restrict, relation, depth, deleting>>

\* The mistake of allowing any relation without an anchor.
WrongSetAnchor(w, a, r) ==
    LET tried == [anchor EXCEPT ![w] = a] IN
    /\ deleting = Null
    /\ w \in live /\ a \in OrNull(live)
    /\ a # anchor[w] => ~HasLoops(parent, tried, restrict, w, w)
    /\ anchor' = tried
    /\ relation' = [relation EXCEPT ![w] = r]
    /\ UNCHANGED <<live, parent, restrict, depth, list, deleting>>

\* t3_win_set_anchor with a valid relation; an invalid one changes nothing.
SetAnchor(w, a, r) ==
    LET tried == [anchor EXCEPT ![w] = a] IN
    /\ deleting = Null
    /\ w \in live /\ a \in OrNull(live)
    /\ a = Null => r = TopLeft
    /\ a # anchor[w] => ~HasLoops(parent, tried, restrict, w, w)
    /\ anchor' = tried
    /\ relation' = [relation EXCEPT ![w] = r]
    /\ UNCHANGED <<live, parent, restrict, depth, list, deleting>>

\* The mistake of leaving the window where it is in its list.
WrongSetDepth(w, d) ==
    /\ deleting = Null
    /\ w \in live
    /\ depth' = [depth EXCEPT ![w] = d]
    /\ UNCHANGED <<live, parent, anchor, restrict, relation, list, deleting>>

\* t3_win_set_depth.
SetDepth(w, d) ==
    LET without == Remove(list, parent[w], w) IN
    /\ deleting = Null
    /\ w \in live
    /\ depth' = [depth EXCEPT ![w] = d]
    /\ \E ptr \in OrNull(Windows) :
           /\ SearchEndsAt(without, depth', parent[w], d, ptr)
           /\ list' = Insert(without, parent[w], w, ptr)
    /\ UNCHANGED <<live, parent, anchor, restrict, relation, deleting>>

\* t3_win_set_restrict: the window itself cancels the restriction, NULL stands
\* for the terminal and is not tested for loops.
SetRestrict(w, r) ==
    LET tried == [restrict EXCEPT ![w] = r] IN
    /\ deleting = Null
    /\ w \in live /\ r \in OrNull(live)
    /\ \/ r = w    /\ restrict' = [restrict EXCEPT ![w] = Null]
       \/ r = Null /\ restrict' = [restrict EXCEPT ![w] = Terminal]
       \/ /\ r \notin {w, Null, restrict[w]}
          /\ ~HasLoops(parent, anchor, tried, w, w)
          /\ restrict' = tried
    /\ UNCHANGED <<live, parent, anchor, relation, depth, list, deleting>>

\* The mistake of freeing the window before its children are given away.
WrongDelBegin(w) ==
    /\ deleting = Null
    /\ w \in live
    /\ live' = live \ {w}
    /\ list' = Remove(list, parent[w], w)
    /\ deleting' = w
    /\ UNCHANGED <<parent, anchor, restrict, relation, depth>>

\* t3_win_del up to its loop.  It does not look at the anchors and restrict windows that
\* refer to w (the FIXME there), which are left as they are.
DelBegin(w) ==
    /\ deleting = Null
    /\ w \in live
    /\ list' = Remove(list, parent[w], w)
    /\ deleting' = w
    /\ UNCHANGED <<live, parent, anchor, restrict, relation, depth>>

\* The mistake of taking the child out of the list without changing its parent.
WrongDelChild ==
    /\ deleting # Null
    /\ list.head[deleting] # Null
    /\ list' = Remove(list, deleting, list.head[deleting])
    /\ UNCHANGED <<live, parent, anchor, restrict, relation, depth, deleting>>

\* One iteration of the loop of t3_win_del: t3_win_set_parent(win->head, NULL).
DelChild ==
    /\ deleting # Null
    /\ list.head[deleting] # Null
    /\ Reparent(list.head[deleting], Null)
    /\ UNCHANGED <<live, anchor, restrict, relation, depth, deleting>>

\* The loop is over: the memory is freed.  What a window that still refers to it finds there
\* is undefined; here it is a window that refers to nothing.
DelFree ==
    /\ deleting # Null
    /\ list.head[deleting] = Null
    /\ live' = live \ {deleting}
    /\ parent' = [parent EXCEPT ![deleting] = Null]
    /\ anchor' = [anchor EXCEPT ![deleting] = Null]
    /\ restrict' = [restrict EXCEPT ![deleting] = Null]
    /\ relation' = [relation EXCEPT ![deleting] = TopLeft]
    /\ depth' = [depth EXCEPT ![deleting] = 0]
    /\ list' = Forget(list, deleting)
    /\ deleting' = Null

Next ==
    \/ \E w \in Windows, p \in OrNull(Windows), d \in Depths : New(w, p, d)
    \/ \E w \in Windows, p \in OrNull(Windows), d \in Depths : NewFails(w, p, d)
    \/ \E w \in Windows, p \in OrNull(Windows) : SetParent(w, p)
    \/ \E w \in Windows, a \in OrNull(Windows), r \in Relations : SetAnchor(w, a, r)
    \/ \E w \in Windows, d \in Depths : SetDepth(w, d)
    \/ \E w \in Windows, r \in OrNull(Windows) : SetRestrict(w, r)
    \/ \E w \in Windows : DelBegin(w)
    \/ DelChild
    \/ DelFree

Spec == Init /\ [][Next]_vars

-----------------------------------------------------------------------------
(* Correctness. *)

ListPointers == [next : [Windows -> OrNull(Windows)], prev : [Windows -> OrNull(Windows)],
                 head : [OrNull(Windows) -> OrNull(Windows)],
                 tail : [OrNull(Windows) -> OrNull(Windows)]]

TypeOK ==
    /\ live \subseteq Windows
    /\ parent \in [AllWindows -> OrNull(Windows)]
    /\ anchor \in [AllWindows -> OrNull(Windows)]
    /\ restrict \in [AllWindows -> OrNull(AllWindows)]
    /\ relation \in [AllWindows -> Relations]
    /\ depth \in [AllWindows -> Depths]
    /\ list \in ListPointers
    /\ deleting \in OrNull(live)

\* No window is reached from itself over parents, anchors and restrict windows:
\* there is no set of windows each of which refers to another one of the set.
LoopFree(par, anc, res) ==
    \A S \in SUBSET AllWindows :
        S # {} => \E v \in S : Refs(par, anc, res, v) \cap S = {}

\* The recursions of has_loops, t3_win_get_abs_x and t3_win_get_abs_y, the loop of
\* _t3_win_is_shown and that of t3_win_del rely on this to end: no sequence of calls
\* makes a window reach itself over parents, anchors and restrict windows.
NoLoops == LoopFree(parent, anchor, restrict)

\* A window without anchor has the relation TOPLEFT: t3_win_get_abs_x and
\* t3_win_get_abs_y dereference the anchor under every other relation.
RelationNeedsAnchor == \A w \in live : anchor[w] = Null => relation[w] = TopLeft

\* The references of window w that lead to freed memory.
Dangling(w) == Refs(parent, anchor, restrict, w) \ (live \cup {Terminal})

\* No call leaves a window with a freed parent, whatever is deleted and in which order, not even
\* while t3_win_del is halfway.  Anchors and restrict windows t3_win_del does not clear: it
\* makes those dangle that still lead to the window it frees, no others, and no other call
\* makes any dangle.
NoDangling ==
    [][\A w \in live' :
           /\ parent'[w] \in OrNull(live')
           /\ Dangling(w)' \ Dangling(w) \subseteq
                  IF DelFree THEN {deleting} \cap {anchor[w], restrict[w]} ELSE {}]_vars

\* The windows that are in a list: all but the one being deleted.
Linked == live \ {deleting}

(* What the pointers L have in common with parents and depths; M are the       *)
(* windows in a list, P the owners of a list.                                  *)

PointsInside(L, M, P) ==
    /\ \A p \in P : {L.head[p], L.tail[p]} \subseteq OrNull(M)
    /\ \A w \in M : {L.next[w], L.prev[w]} \subseteq OrNull(M)

NeighboursAgree(L, par, M) ==
    \A w \in M :
        /\ L.next[w] # Null => L.prev[L.next[w]] = w /\ par[L.next[w]] = par[w]
        /\ L.prev[w] # Null => L.next[L.prev[w]] = w /\ par[L.prev[w]] = par[w]

EndsAgree(L, par, M, P) ==
    /\ \A w \in M : /\ L.next[w] = Null => L.tail[par[w]] = w
                    /\ L.prev[w] = Null => L.head[par[w]] = w
    /\ \A p \in P : /\ L.head[p] # Null => par[L.head[p]] = p /\ L.prev[L.head[p]] = Null
                    /\ L.tail[p] # Null => par[L.tail[p]] = p /\ L.next[L.tail[p]] = Null
                    /\ L.head[p] = Null <=> L.tail[p] = Null

\* Every window is found from the head of a list: there is no set of windows each
\* of which is preceded by another one of the set.
NoRings(L, M) == \A S \in SUBSET M : S # {} => \E w \in S : L.prev[w] \notin S

DepthSorted(L, dep, M) == \A w \in M : L.next[w] # Null => dep[w] <= dep[L.next[w]]

WellLinked(L, par, dep, M, P) ==
    /\ PointsInside(L, M, P)
    /\ NeighboursAgree(L, par, M)
    /\ EndsAgree(L, par, M, P)
    /\ NoRings(L, M)
    /\ DepthSorted(L, dep, M)

\* The lists are what their readers (painting, t3_win_at_location, t3_win_del) take
\* them for: next and prev agree, every window is in the list of its parent and in
\* no other, no pointer leads to a freed window, and a window is never behind a
\* sibling with a greater depth.
ListsAgree == WellLinked(list, parent, depth, Linked, OrNull(live))

\* Every search of insert_window ends, at one place.
SearchEnds ==
    \A p \in OrNull(live), d \in Depths :
        \E ptr \in OrNull(Windows) :
            /\ SearchEndsAt(list, depth, p, d, ptr)
            /\ \A q \in OrNull(Windows) : SearchEndsAt(list, depth, p, d, q) => q = ptr

\* A t3_win_new that runs out of memory after the window went into its list
\* leaves every list as it was.
FailedNewIsInvisible ==
    [][\A w \in Windows, p \in OrNull(Windows), d \in Depths :
           NewFails(w, p, d) => list' = list]_vars

\* The windows of which w is the parent.
Children(w) == {v \in live : parent[v] = w}

\* t3_win_del comes to its end and loses nobody: every round of its loop, which tests
\* only the head of the list, gives one child of the window to the terminal, and when
\* the window is freed it has none left.
DelGivesAwayChildren ==
    [][/\ DelChild => \E v \in Children(deleting) :
                          /\ Children(deleting)' = Children(deleting) \ {v}
                          /\ parent'[v] = Null
       /\ DelFree => Children(deleting) = {}]_vars

-----------------------------------------------------------------------------
\* The pointers L of w lead nowhere.
Blank(L, w) == {L.next[w], L.prev[w], L.head[w], L.tail[w]} = {Null}

\* What else holds between two steps: the parent of a window is allocated, and a window that
\* is not refers to nothing.
NothingLeftBehind ==
    /\ \A w \in live : parent[w] \in OrNull(live)
    /\ \A w \in AllWindows \ live : Refs(parent, anchor, restrict, w) = {}
    /\ \A w \in Windows \ live : Blank(list, w)

\* The inductive invariant.
IInv == /\ TypeOK
        /\ NoLoops
        /\ RelationNeedsAnchor
        /\ ListsAgree
        /\ NothingLeftBehind
=============================================================================
