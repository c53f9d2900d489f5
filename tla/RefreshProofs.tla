---------------------------- MODULE RefreshProofs ----------------------------
(***************************************************************************)
(* Proofs about Refresh, for any number of windows in any tree: the        *)
(* windows are visited from back to front, and the last visited one that   *)
(* has a cell is the foremost there.                                       *)
(***************************************************************************)
EXTENDS Refresh, Counting, FiniteSetTheorems

OrNull == Windows \cup {Null}

-----------------------------------------------------------------------------
(* The tree. *)

\* What StacksAssumption says of the lists s: each window is in one of them, once, and
\* among any windows there is one whose parent is not one of them.
InOneList(s) ==
    /\ s \in [OrNull -> Seq(Windows)]
    /\ \A w \in Windows : \E p \in OrNull : \E i \in DOMAIN s[p] : s[p][i] = w
    /\ \A p, q \in OrNull : \A i \in DOMAIN s[p], j \in DOMAIN s[q] :
           s[p][i] = s[q][j] => p = q /\ i = j
NoneAboveItself(s) ==
    \A S \in SUBSET Windows :
        S # {} => \E w \in S : \A p \in S : \A i \in DOMAIN s[p] : s[p][i] # w
Orderly == InOneList(stack) /\ NoneAboveItself(stack)

\* The place of a window in the list of its parent.
Index(w) == CHOOSE i \in DOMAIN stack[ParentOf(w)] : stack[ParentOf(w)][i] = w

LEMMA InList ==
    ASSUME Orderly, NEW w \in Windows
    PROVE  /\ ParentOf(w) \in OrNull
           /\ Index(w) \in DOMAIN stack[ParentOf(w)]
           /\ stack[ParentOf(w)][Index(w)] = w
<1>1. \E p \in OrNull : \E i \in DOMAIN stack[p] : stack[p][i] = w
  BY DEF Orderly, InOneList
<1>2. ParentOf(w) \in OrNull /\ \E i \in DOMAIN stack[ParentOf(w)] : stack[ParentOf(w)][i] = w
  BY <1>1, Zenon DEF ParentOf, OrNull
<1> QED BY <1>2, Zenon DEF Index

LEMMA Lists ==
    ASSUME Orderly, NEW p \in OrNull
    PROVE  /\ Len(stack[p]) \in Nat /\ DOMAIN stack[p] = 1 .. Len(stack[p])
           /\ \A i \in DOMAIN stack[p] : stack[p][i] \in Windows
<1>1. stack[p] \in Seq(Windows)
  BY DEF Orderly, InOneList
<1> QED BY <1>1

\* The window at a place of a list has the owner of the list for its parent.
LEMMA ListHas ==
    ASSUME Orderly, NEW p \in OrNull, NEW i \in DOMAIN stack[p]
    PROVE  /\ stack[p][i] \in Windows
           /\ ParentOf(stack[p][i]) = p /\ Index(stack[p][i]) = i
<1>1. stack[p][i] \in Windows
  BY Lists
<1>2. /\ ParentOf(stack[p][i]) \in OrNull
      /\ Index(stack[p][i]) \in DOMAIN stack[ParentOf(stack[p][i])]
      /\ stack[ParentOf(stack[p][i])][Index(stack[p][i])] = stack[p][i]
  BY <1>1, InList
<1>3. \A q \in OrNull : \A j \in DOMAIN stack[q] : stack[q][j] = stack[p][i] => q = p /\ j = i
  BY DEF Orderly, InOneList
<1> QED BY <1>1, <1>2, <1>3

\* What holds of a window if it holds of its parent, and of Null, holds of all.
LEMMA FromTheTop ==
    ASSUME Orderly, NEW T, Null \in T, \A w \in Windows : ParentOf(w) \in T => w \in T
    PROVE  \A w \in OrNull : w \in T
<1> DEFINE S == Windows \ T
<1> SUFFICES ASSUME S # {} PROVE FALSE
  BY DEF OrNull
<1>1. S \in SUBSET Windows /\ S # {}
  OBVIOUS
<1>2. PICK w \in S : \A p \in S : \A i \in DOMAIN stack[p] : stack[p][i] # w
  BY <1>1 DEF Orderly, NoneAboveItself
<1>3. ParentOf(w) \notin S /\ ParentOf(w) \in OrNull
  BY <1>2, InList
<1> QED BY <1>2, <1>3 DEF OrNull

-----------------------------------------------------------------------------
(* Functions that follow the parents. *)

\* f gives, for the windows of D, the result of step for the result of the parent.
Solves(D, f, a, step) ==
    /\ D \subseteq OrNull /\ Null \in D /\ f[Null] = a
    /\ \A w \in D \ {Null} : ParentOf(w) \in D /\ f[w] = step[w][f[ParentOf(w)]]

LEMMA SolutionsAgree ==
    ASSUME Orderly, NEW D, NEW E, NEW f, NEW g, NEW a, NEW step,
           Solves(D, f, a, step), Solves(E, g, a, step)
    PROVE  \A w \in D \cap E : f[w] = g[w]
<1> DEFINE T == {w \in OrNull : w \in D \cap E => f[w] = g[w]}
<1>1. Null \in T
  BY DEF Solves, OrNull
<1>2. ASSUME NEW w \in Windows, ParentOf(w) \in T PROVE w \in T
  <2>1. w # Null /\ w \in OrNull
    BY WindowsAssumption DEF OrNull
  <2> SUFFICES ASSUME w \in D \cap E PROVE f[w] = g[w]
    BY <2>1
  <2>2. f[w] = step[w][f[ParentOf(w)]] /\ g[w] = step[w][g[ParentOf(w)]]
    BY <2>1 DEF Solves
  <2>3. ParentOf(w) \in D \cap E
    BY <2>1 DEF Solves
  <2> QED BY <1>2, <2>2, <2>3
<1> HIDE DEF T
<1>3. \A w \in OrNull : w \in T
  BY <1>1, <1>2, FromTheTop
<1> QED BY <1>3 DEF T, Solves

\* step takes no result out of S, and f has the results that it gives.
StepsIn(S, step) == \A w \in Windows : \A s \in S : step[w][s] \in S
FollowsParents(f, a, step) ==
    f[Null] = a /\ \A w \in Windows : f[w] = step[w][f[ParentOf(w)]]

LEMMA ParentsRecursion ==
    ASSUME Orderly, NEW S, NEW a \in S, NEW step, StepsIn(S, step)
    PROVE  \E f : f \in [OrNull -> S] /\ FollowsParents(f, a, step)
<1> DEFINE Ok(D, f) == Solves(D, f, a, step)
           T == {w \in OrNull : \E D, f : w \in D /\ Ok(D, f)}
<1>1. Null \in T
  <2>1. Ok({Null}, [w \in {Null} |-> a])
    BY DEF Solves, OrNull
  <2> QED BY <2>1 DEF OrNull
<1>2. ASSUME NEW w \in Windows, ParentOf(w) \in T PROVE w \in T
  <2>1. PICK D, f : ParentOf(w) \in D /\ Ok(D, f)
    BY <1>2
  <2>2. CASE w \in D
    BY <2>1, <2>2 DEF OrNull
  <2>3. CASE w \notin D
    <3> DEFINE E == D \cup {w}
               g == [v \in E |-> IF v = w THEN step[w][f[ParentOf(w)]] ELSE f[v]]
    <3>1. \A v \in D : g[v] = f[v]
      BY <2>3
    <3>2. g[w] = step[w][g[ParentOf(w)]]
      BY <2>1, <3>1
    <3> HIDE DEF g
    <3>3. Ok(E, g)
      BY <2>1, <3>1, <3>2 DEF Solves, OrNull
    <3> QED BY <3>3 DEF OrNull
  <2> QED BY <2>2, <2>3
<1> HIDE DEF T
<1>3. \A w \in OrNull : w \in T
  BY <1>1, <1>2, FromTheTop
<1> DEFINE D(w) == CHOOSE E : \E f : w \in E /\ Ok(E, f)
           sol(w) == CHOOSE f : Ok(D(w), f)
           h == [w \in OrNull |-> sol(w)[w]]
<1>4. ASSUME NEW w \in OrNull PROVE w \in D(w) /\ Ok(D(w), sol(w))
  <2>1. \E E : \E f : w \in E /\ Ok(E, f)
    BY <1>3 DEF T
  <2>2. \E f : w \in D(w) /\ Ok(D(w), f)
    BY <2>1, Zenon
  <2> QED BY <2>2, Zenon
<1> HIDE DEF D, sol
<1>5. h[Null] = a
  BY <1>4 DEF Solves, OrNull
<1>6. ASSUME NEW w \in Windows PROVE h[w] = step[w][h[ParentOf(w)]]
  <2> DEFINE p == ParentOf(w)
  <2>1. p \in OrNull /\ w \in OrNull /\ w # Null
    BY InList, WindowsAssumption DEF OrNull
  <2>2. /\ w \in D(w) /\ Ok(D(w), sol(w))
        /\ p \in D(p) /\ Ok(D(p), sol(p))
    BY <1>4, <2>1
  <2>3. p \in D(w) /\ sol(w)[w] = step[w][sol(w)[p]]
    BY <2>1, <2>2 DEF Solves
  <2>4. sol(w)[p] = sol(p)[p]
    BY <2>2, <2>3, SolutionsAgree
  <2> QED BY <2>1, <2>3, <2>4
<1>7. h = [w \in OrNull |-> h[w]]
  OBVIOUS
<1> HIDE DEF h
<1> DEFINE U == {w \in OrNull : h[w] \in S}
<1>8. Null \in U
  BY <1>5 DEF OrNull
<1>9. \A w \in Windows : ParentOf(w) \in U => w \in U
  BY <1>6, InList DEF OrNull, StepsIn
<1> HIDE DEF U
<1>10. \A w \in OrNull : w \in U
  BY <1>8, <1>9, FromTheTop
<1>11. h \in [OrNull -> S]
  BY <1>7, <1>10 DEF U
<1> QED BY <1>5, <1>6, <1>11 DEF FollowsParents

-----------------------------------------------------------------------------
(* Ancestors. *)

LEMMA AncestorsFollow ==
    ASSUME Orderly, NEW w \in Windows
    PROVE  Ancestors(w) = IF ParentOf(w) = Null THEN {}
                          ELSE {ParentOf(w)} \cup Ancestors(ParentOf(w))
<1> DEFINE IsAbove(g) == g = [v \in Windows \cup {Null} |->
                                 IF v = Null THEN {} ELSE {v} \cup g[ParentOf(v)]]
           above == CHOOSE g : IsAbove(g)
           step == [v \in Windows |-> [s \in SUBSET Windows |-> {v} \cup s]]
<1>1. \A v \in Windows : \A s \in SUBSET Windows : step[v][s] = {v} \cup s
  OBVIOUS
<1> HIDE DEF step
<1> DEFINE S == SUBSET Windows
<1>2. PICK f : f \in [OrNull -> S] /\ FollowsParents(f, {}, step)
  <2>1. StepsIn(S, step) /\ {} \in S
    BY <1>1 DEF StepsIn
  <2> HIDE DEF S
  <2> QED BY <2>1, ParentsRecursion
<1>3. IsAbove(f)
  <2>1. \A v \in Windows : f[v] = {v} \cup f[ParentOf(v)]
    BY <1>1, <1>2, InList DEF FollowsParents
  <2>2. f = [v \in OrNull |-> f[v]]
    BY <1>2
  <2> QED BY <1>2, <2>1, <2>2, WindowsAssumption DEF OrNull, FollowsParents
<1>4. IsAbove(above)
  BY <1>3, Zenon
<1>5. \A v \in Windows : Ancestors(v) = above[ParentOf(v)]
  BY Zenon DEF Ancestors
<1> HIDE DEF above
<1>6. ParentOf(w) \in OrNull
  BY InList
<1>7. above[ParentOf(w)] = IF ParentOf(w) = Null THEN {}
                           ELSE {ParentOf(w)} \cup above[ParentOf(ParentOf(w))]
  BY <1>4, <1>6 DEF OrNull
<1>8. ParentOf(w) # Null => Ancestors(ParentOf(w)) = above[ParentOf(ParentOf(w))]
  BY <1>5, <1>6 DEF OrNull
<1> QED BY <1>5, <1>7, <1>8

\* A window and its ancestors.
PathOf(w) == Ancestors(w) \cup {w}

LEMMA PathFollows ==
    ASSUME Orderly, NEW w \in Windows
    PROVE  Ancestors(w) = IF ParentOf(w) = Null THEN {} ELSE PathOf(ParentOf(w))
BY AncestorsFollow DEF PathOf

\* The ancestors of an ancestor of a window are ancestors of it, and it is none of them.
LEMMA AncestorsAbove ==
    ASSUME Orderly, NEW w \in Windows
    PROVE  /\ Ancestors(w) \subseteq Windows
           /\ \A v \in PathOf(w) : v \in Windows /\ PathOf(v) \subseteq PathOf(w)
           /\ w \notin Ancestors(w)
<1> DEFINE T == {u \in OrNull : u \in Windows =>
                     /\ Ancestors(u) \subseteq Windows
                     /\ \A v \in PathOf(u) : PathOf(v) \subseteq PathOf(u)}
<1>1. Null \in T
  BY WindowsAssumption DEF OrNull
<1>2. ASSUME NEW u \in Windows, ParentOf(u) \in T PROVE u \in T
  <2>1. CASE ParentOf(u) = Null
    <3>1. Ancestors(u) = {}
      BY <2>1, PathFollows
    <3> QED BY <3>1 DEF PathOf, OrNull
  <2>2. CASE ParentOf(u) # Null
    <3>1. Ancestors(u) = PathOf(ParentOf(u)) /\ ParentOf(u) \in Windows
      BY <2>2, PathFollows, InList DEF OrNull
    <3>2. Ancestors(u) \subseteq Windows
      BY <1>2, <3>1 DEF PathOf
    <3>3. ASSUME NEW v \in PathOf(u) PROVE PathOf(v) \subseteq PathOf(u)
      <4>1. CASE v = u
        BY <4>1
      <4>2. CASE v \in PathOf(ParentOf(u))
        <5>1. PathOf(v) \subseteq PathOf(ParentOf(u))
          BY <1>2, <3>1, <4>2
        <5> QED BY <3>1, <5>1 DEF PathOf
      <4> QED BY <3>1, <4>1, <4>2 DEF PathOf
    <3> QED BY <3>2, <3>3 DEF OrNull
  <2> QED BY <2>1, <2>2
<1> HIDE DEF T
<1>3. \A u \in OrNull : u \in T
  BY <1>1, <1>2, FromTheTop
<1>4. \A u \in Windows : /\ Ancestors(u) \subseteq Windows
                         /\ \A v \in PathOf(u) : PathOf(v) \subseteq PathOf(u)
  BY <1>3 DEF T, OrNull
<1>5. w \notin Ancestors(w)
  <2> DEFINE S == {u \in Windows : u \in Ancestors(u)}
  <2> SUFFICES ASSUME S # {} PROVE FALSE
    OBVIOUS
  <2>1. PICK u \in S : \A p \in S : \A i \in DOMAIN stack[p] : stack[p][i] # u
    BY DEF Orderly, NoneAboveItself
  <2>2. u \in Windows /\ u \in Ancestors(u)
    OBVIOUS
  <2>3. ParentOf(u) \notin S
    BY <2>1, InList
  <2>4. ParentOf(u) \in Windows /\ u \in PathOf(ParentOf(u)) /\ Ancestors(u) = PathOf(ParentOf(u))
    BY <2>2, PathFollows, InList DEF OrNull
  <2>5. ParentOf(u) \in Ancestors(u)
    BY <2>4 DEF PathOf
  <2>6. ParentOf(u) # u
    BY <2>2, <2>3
  <2>7. u \in Ancestors(ParentOf(u))
    BY <2>4, <2>6 DEF PathOf
  <2>8. ParentOf(u) \in PathOf(u)
    BY <2>5 DEF PathOf
  \* The parent is on its own path from u.
  <2>9. ParentOf(u) \in Ancestors(ParentOf(u))
    <3>1. CASE ParentOf(ParentOf(u)) = Null
      BY <2>4, <2>7, <3>1, PathFollows
    <3>2. CASE ParentOf(ParentOf(u)) # Null
      <4>1. /\ Ancestors(ParentOf(u)) = PathOf(ParentOf(ParentOf(u)))
            /\ ParentOf(ParentOf(u)) \in Windows
        BY <2>4, <3>2, PathFollows, InList DEF OrNull
      <4>2. PathOf(u) \subseteq PathOf(ParentOf(ParentOf(u)))
        BY <1>4, <2>7, <4>1
      <4> QED BY <2>8, <4>1, <4>2
    <3> QED BY <3>1, <3>2
  <2> QED BY <2>3, <2>4, <2>9
<1>6. \A v \in PathOf(w) : v \in Windows
  BY <1>4 DEF PathOf
<1> QED BY <1>4, <1>5, <1>6

-----------------------------------------------------------------------------
(* The second loop of get_previous_window. *)

\* The shown windows in front of a window on its list.
ShownBefore(v) ==
    {i \in DOMAIN stack[ParentOf(v)] : shown[stack[ParentOf(v)][i]] /\ i < Index(v)}

LEMMA LastOfPlaces ==
    ASSUME NEW n \in Nat, NEW T \in SUBSET (1 .. n), T # {}
    PROVE  Max(T) \in T /\ \A i \in T : i <= Max(T)
<1>1. T \in SUBSET Int /\ \A i \in T : i <= n
  OBVIOUS
<1>2. n \in Int /\ T # {}
  OBVIOUS
<1>3. PICK m \in T : \A i \in T : i <= m
  BY <1>1, <1>2, GreatestNumber
<1> QED BY <1>1, <1>3, MaxOfNumbers

LEMMA NearestBefore ==
    ASSUME Orderly, NEW v \in Windows, ShownBefore(v) # {}
    PROVE  /\ Max(ShownBefore(v)) \in ShownBefore(v)
           /\ \A i \in ShownBefore(v) : i <= Max(ShownBefore(v))
           /\ stack[ParentOf(v)][Max(ShownBefore(v))] \in Windows
<1>1. ParentOf(v) \in OrNull
  BY InList
<1>2. /\ Len(stack[ParentOf(v)]) \in Nat
      /\ ShownBefore(v) \in SUBSET (1 .. Len(stack[ParentOf(v)]))
  BY <1>1, Lists DEF ShownBefore
<1>3. /\ Max(ShownBefore(v)) \in ShownBefore(v)
      /\ \A i \in ShownBefore(v) : i <= Max(ShownBefore(v))
  BY <1>2, LastOfPlaces
<1>4. Max(ShownBefore(v)) \in DOMAIN stack[ParentOf(v)]
  BY <1>3 DEF ShownBefore
<1> QED BY <1>1, <1>3, <1>4, Lists

LEMMA ClimbFollows ==
    ASSUME Orderly, NEW w \in Windows
    PROVE  /\ Climb(Null) = Null
           /\ Climb(w) = IF ShownBefore(w) # {} THEN stack[ParentOf(w)][Max(ShownBefore(w))]
                         ELSE Climb(ParentOf(w))
<1> DEFINE found(v) ==
               {i \in DOMAIN stack[ParentOf(v)] :
                   /\ shown[stack[ParentOf(v)][i]]
                   /\ \E j \in DOMAIN stack[ParentOf(v)] : i < j /\ stack[ParentOf(v)][j] = v}
           next(v, r) == IF found(v) # {} THEN stack[ParentOf(v)][Max(found(v))] ELSE r
           IsUp(g) == g = [v \in Windows \cup {Null} |->
                              IF v = Null THEN Null ELSE next(v, g[ParentOf(v)])]
           up == CHOOSE g : IsUp(g)
           step == [v \in Windows |-> [r \in OrNull |-> next(v, r)]]
<1>1. ASSUME NEW v \in Windows PROVE found(v) = ShownBefore(v)
  <2>1. ParentOf(v) \in OrNull /\ Index(v) \in DOMAIN stack[ParentOf(v)]
        /\ stack[ParentOf(v)][Index(v)] = v
    BY InList
  <2>2. \A j \in DOMAIN stack[ParentOf(v)] : stack[ParentOf(v)][j] = v => j = Index(v)
    BY <2>1, ListHas
  <2> QED BY <2>1, <2>2 DEF ShownBefore
<1>2. \A v : Climb(v) = up[v]
  BY Zenon DEF Climb
<1> HIDE DEF found
<1>3. \A v \in Windows : \A r \in OrNull : step[v][r] = next(v, r)
  OBVIOUS
<1>4. \A v \in Windows : \A r \in OrNull : next(v, r) \in OrNull
  BY <1>1, NearestBefore DEF OrNull
<1>5. \A v \in Windows : \A r :
          next(v, r) = IF ShownBefore(v) # {} THEN stack[ParentOf(v)][Max(ShownBefore(v))] ELSE r
  BY <1>1
<1> HIDE DEF step, next
<1>6. PICK f : f \in [OrNull -> OrNull] /\ FollowsParents(f, Null, step)
  <2>1. StepsIn(OrNull, step) /\ Null \in OrNull
    BY <1>3, <1>4 DEF StepsIn, OrNull
  <2> QED BY <2>1, ParentsRecursion
<1>7. IsUp(f)
  <2>1. \A v \in Windows : f[v] = next(v, f[ParentOf(v)])
    BY <1>3, <1>6, InList DEF FollowsParents
  <2>2. f = [v \in OrNull |-> f[v]]
    BY <1>6
  <2> QED BY <1>6, <2>1, <2>2, WindowsAssumption DEF OrNull, FollowsParents
<1>8. IsUp(up)
  BY <1>7, Zenon
<1> HIDE DEF up
<1>9. up[Null] = Null /\ up[w] = next(w, up[ParentOf(w)])
  BY <1>8, WindowsAssumption
<1> QED BY <1>2, <1>5, <1>9

-----------------------------------------------------------------------------
(* The order from back to front. *)

LEMMA PathMembers ==
    ASSUME Orderly, NEW u \in Windows, NEW a \in PathOf(u)
    PROVE  /\ a \in Windows /\ PathOf(a) \subseteq PathOf(u) /\ Ancestors(a) \subseteq Ancestors(u)
           /\ ParentOf(a) # Null => ParentOf(a) \in Ancestors(u) /\ ParentOf(a) \in Windows
<1>1. a \in Windows /\ PathOf(a) \subseteq PathOf(u)
  BY AncestorsAbove
<1>2. Ancestors(a) \subseteq Ancestors(u)
  <2>1. CASE a = u
    BY <2>1
  <2>2. CASE a # u
    <3>1. a \in Ancestors(u)
      BY <2>2 DEF PathOf
    <3>2. ParentOf(u) # Null /\ Ancestors(u) = PathOf(ParentOf(u))
      BY <3>1, PathFollows
    <3>3. ParentOf(u) \in Windows
      BY <3>2, InList DEF OrNull
    <3>4. PathOf(a) \subseteq Ancestors(u)
      BY <3>1, <3>2, <3>3, AncestorsAbove
    <3> QED BY <3>4 DEF PathOf
  <2> QED BY <2>1, <2>2
<1>3. ASSUME ParentOf(a) # Null PROVE ParentOf(a) \in Ancestors(a) /\ ParentOf(a) \in Windows
  <2>1. Ancestors(a) = PathOf(ParentOf(a)) /\ ParentOf(a) \in Windows
    BY <1>1, <1>3, PathFollows, InList DEF OrNull
  <2> QED BY <2>1 DEF PathOf
<1> QED BY <1>1, <1>2, <1>3

\* Of two windows on a path, one is on the path of the other.
LEMMA PathIsChain ==
    ASSUME Orderly, NEW u \in Windows, NEW a \in PathOf(u), NEW b \in PathOf(u)
    PROVE  a \in PathOf(b) \/ b \in Ancestors(a)
<1> DEFINE T == {v \in OrNull : v \in Windows =>
                     \A c, d \in PathOf(v) : c \in PathOf(d) \/ d \in Ancestors(c)}
<1>1. Null \in T
  BY WindowsAssumption DEF OrNull
<1>2. ASSUME NEW v \in Windows, ParentOf(v) \in T PROVE v \in T
  <2>1. ASSUME NEW c \in PathOf(v), NEW d \in PathOf(v)
        PROVE  c \in PathOf(d) \/ d \in Ancestors(c)
    <3>1. CASE c = v \/ d = v
      BY <3>1 DEF PathOf
    <3>2. CASE c # v /\ d # v
      <4>1. c \in Ancestors(v) /\ d \in Ancestors(v)
        BY <3>2 DEF PathOf
      <4>2. ParentOf(v) # Null /\ Ancestors(v) = PathOf(ParentOf(v))
        BY <4>1, PathFollows
      <4>3. ParentOf(v) \in Windows
        BY <4>2, InList DEF OrNull
      <4> QED BY <1>2, <4>1, <4>2, <4>3
    <3> QED BY <3>1, <3>2
  <2> QED BY <2>1 DEF OrNull
<1> HIDE DEF T
<1>3. \A v \in OrNull : v \in T
  BY <1>1, <1>2, FromTheTop
<1> QED BY <1>3 DEF T, OrNull

\* A path has only one child of a window.
LEMMA OneChild ==
    ASSUME Orderly, NEW u \in Windows, NEW a \in PathOf(u), NEW b \in PathOf(u),
           ParentOf(a) = ParentOf(b)
    PROVE  a = b
<1>1. a \in Windows /\ b \in Windows
  BY PathMembers
<1>2. Ancestors(a) = Ancestors(b)
  BY <1>1, PathFollows
<1>3. a \notin Ancestors(a) /\ b \notin Ancestors(b)
  BY <1>1, AncestorsAbove
<1>4. a \in PathOf(b) \/ b \in Ancestors(a)
  BY PathIsChain
<1> QED BY <1>2, <1>3, <1>4 DEF PathOf

\* v, or an ancestor of it, is in front of w, or an ancestor of it, on a list.
Beside(v, w) ==
    \E a \in PathOf(v), b \in PathOf(w) : ParentOf(a) = ParentOf(b) /\ Index(a) < Index(b)

LEMMA InFrontMeans ==
    ASSUME Orderly, NEW v \in Windows, NEW w \in Windows
    PROVE  InFront(v, w) <=> w \in Ancestors(v) \/ Beside(v, w)
<1> DEFINE Listed == \E p \in OrNull : \E i, j \in DOMAIN stack[p] :
                         i < j /\ stack[p][i] \in PathOf(v) /\ stack[p][j] \in PathOf(w)
<1>1. InFront(v, w) <=> w \in Ancestors(v) \/ Listed
  BY Zenon DEF InFront, PathOf, OrNull
<1>2. ASSUME Listed PROVE Beside(v, w)
  <2>1. PICK p \in OrNull : \E i, j \in DOMAIN stack[p] :
            i < j /\ stack[p][i] \in PathOf(v) /\ stack[p][j] \in PathOf(w)
    BY <1>2
  <2>2. PICK i, j \in DOMAIN stack[p] :
            i < j /\ stack[p][i] \in PathOf(v) /\ stack[p][j] \in PathOf(w)
    BY <2>1
  <2>3. /\ ParentOf(stack[p][i]) = p /\ Index(stack[p][i]) = i
        /\ ParentOf(stack[p][j]) = p /\ Index(stack[p][j]) = j
    BY ListHas
  <2> QED BY <2>2, <2>3 DEF Beside
<1>3. ASSUME Beside(v, w) PROVE Listed
  <2>1. PICK a \in PathOf(v), b \in PathOf(w) : ParentOf(a) = ParentOf(b) /\ Index(a) < Index(b)
    BY <1>3 DEF Beside
  <2>2. a \in Windows /\ b \in Windows
    BY PathMembers
  <2>3. /\ ParentOf(a) \in OrNull
        /\ Index(a) \in DOMAIN stack[ParentOf(a)] /\ stack[ParentOf(a)][Index(a)] = a
        /\ Index(b) \in DOMAIN stack[ParentOf(a)] /\ stack[ParentOf(a)][Index(b)] = b
    BY <2>1, <2>2, InList
  <2> QED BY <2>1, <2>3
<1> QED BY <1>1, <1>2, <1>3

LEMMA IndexIsNumber == ASSUME Orderly, NEW w \in Windows PROVE Index(w) \in Nat
<1>1. ParentOf(w) \in OrNull /\ Index(w) \in DOMAIN stack[ParentOf(w)]
  BY InList
<1> QED BY <1>1, Lists

\* No window is in front of itself,
LEMMA NotInFrontOfItself ==
    ASSUME Orderly, NEW w \in Windows
    PROVE  ~InFront(w, w)
<1>1. w \notin Ancestors(w)
  BY AncestorsAbove
<1>2. ASSUME NEW a \in PathOf(w), NEW b \in PathOf(w), ParentOf(a) = ParentOf(b),
             Index(a) < Index(b)
      PROVE  FALSE
  <2>1. a = b /\ a \in Windows
    BY <1>2, OneChild, PathMembers
  <2>2. Index(a) \in Nat
    BY <2>1, IndexIsNumber
  <2> QED BY <1>2, <2>1, <2>2
<1> QED BY <1>1, <1>2, InFrontMeans DEF Beside

\* ... and what is in front of a window is in front of what that one is in front of.
LEMMA InFrontOfAll ==
    ASSUME Orderly, NEW u \in Windows, NEW v \in Windows, NEW w \in Windows,
           InFront(u, v), InFront(v, w)
    PROVE  InFront(u, w)
<1>1. /\ v \in Ancestors(u) \/ Beside(u, v)
      /\ w \in Ancestors(v) \/ Beside(v, w)
  BY InFrontMeans
<1>2. CASE v \in Ancestors(u) /\ w \in Ancestors(v)
  <2>1. v \in PathOf(u)
    BY <1>2 DEF PathOf
  <2>2. w \in Ancestors(u)
    BY <1>2, <2>1, PathMembers
  <2> QED BY <2>2, InFrontMeans
<1>3. CASE v \in Ancestors(u) /\ Beside(v, w)
  <2>1. v \in PathOf(u)
    BY <1>3 DEF PathOf
  <2>2. Beside(u, w)
    BY <1>3, <2>1, PathMembers DEF Beside
  <2> QED BY <2>2, InFrontMeans
<1>4. CASE Beside(u, v)
  <2>1. PICK a \in PathOf(u), b \in PathOf(v) : ParentOf(a) = ParentOf(b) /\ Index(a) < Index(b)
    BY <1>4 DEF Beside
  <2>2. a \in Windows /\ b \in Windows
    BY PathMembers
  \* What is above a and b is above u.
  <2>3. Ancestors(b) \subseteq Ancestors(u)
    <3>1. Ancestors(a) = Ancestors(b)
      BY <2>1, <2>2, PathFollows
    <3> QED BY <3>1, PathMembers
  <2>4. CASE w \in Ancestors(v)
    <3>1. w \in PathOf(v)
      BY <2>4 DEF PathOf
    <3>2. CASE b \in PathOf(w)
      BY <2>1, <3>2, InFrontMeans DEF Beside
    <3>3. CASE w \in Ancestors(b)
      BY <2>3, <3>3, InFrontMeans
    <3> QED BY <3>1, <3>2, <3>3, PathIsChain
  <2>5. CASE Beside(v, w)
    <3>1. PICK c \in PathOf(v), d \in PathOf(w) : ParentOf(c) = ParentOf(d) /\ Index(c) < Index(d)
      BY <2>5 DEF Beside
    <3>2. c \in Windows /\ d \in Windows
      BY PathMembers
    <3>3. Ancestors(c) \subseteq Ancestors(w)
      <4>1. Ancestors(c) = Ancestors(d)
        BY <3>1, <3>2, PathFollows
      <4> QED BY <4>1, PathMembers
    <3>4. CASE b = c
      <4>1. /\ Index(a) \in Nat /\ Index(b) \in Nat /\ Index(d) \in Nat
        BY <2>2, <3>2, IndexIsNumber
      <4>2. ParentOf(a) = ParentOf(d) /\ Index(a) < Index(d)
        BY <2>1, <3>1, <3>4, <4>1
      <4>3. Beside(u, w)
        BY <4>2 DEF Beside
      <4> QED BY <4>3, InFrontMeans
    <3>5. CASE b \in Ancestors(c)
      <4>1. b \in PathOf(w)
        BY <3>3, <3>5 DEF PathOf
      <4>2. Beside(u, w)
        BY <2>1, <4>1 DEF Beside
      <4> QED BY <4>2, InFrontMeans
    <3>6. CASE c \in Ancestors(b)
      <4>1. c \in PathOf(u)
        BY <2>3, <3>6 DEF PathOf
      <4>2. Beside(u, w)
        BY <3>1, <4>1 DEF Beside
      <4> QED BY <4>2, InFrontMeans
    <3>7. b \in PathOf(c) \/ c \in Ancestors(b)
      BY PathIsChain
    <3> QED BY <3>4, <3>5, <3>6, <3>7 DEF PathOf
  <2> QED BY <1>1, <2>4, <2>5
<1> QED BY <1>1, <1>2, <1>3, <1>4

-----------------------------------------------------------------------------
(* The shown window after a shown window. *)

Showing == {w \in Windows : IsShown(w)}
RootOrShown(p) == p = Null \/ p \in Showing

\* r is the rearmost of the windows of A, Null if there are none.
IsRearmost(r, A) ==
    IF A = {} THEN r = Null ELSE r \in A /\ \A u \in A : u = r \/ InFront(u, r)

LEMMA ShownPath ==
    ASSUME Orderly, NEW w \in Showing
    PROVE  /\ w \in Windows /\ RootOrShown(ParentOf(w))
           /\ \A a \in PathOf(w) : a \in Windows /\ shown[a]
<1>1. w \in Windows /\ \A a \in PathOf(w) : shown[a]
  BY DEF Showing, IsShown, PathOf
<1>2. ASSUME ParentOf(w) # Null PROVE ParentOf(w) \in Showing
  <2>1. w \in PathOf(w)
    BY DEF PathOf
  <2>2. ParentOf(w) \in Ancestors(w) /\ ParentOf(w) \in Windows
    BY <1>1, <1>2, <2>1, PathMembers
  <2>3. PathOf(ParentOf(w)) \subseteq PathOf(w)
    BY <1>1, <2>2, PathMembers DEF PathOf
  <2> QED BY <1>1, <2>2, <2>3 DEF Showing, IsShown, PathOf
<1> QED BY <1>1, <1>2, PathMembers DEF RootOrShown

LEMMA ShownInParent ==
    ASSUME Orderly, NEW w \in Windows, shown[w], RootOrShown(ParentOf(w))
    PROVE  w \in Showing
<1>1. CASE ParentOf(w) = Null
  <2>1. Ancestors(w) = {}
    BY <1>1, PathFollows
  <2> QED BY <2>1 DEF Showing, IsShown
<1>2. CASE ParentOf(w) # Null
  <2>1. Ancestors(w) = PathOf(ParentOf(w)) /\ ParentOf(w) \in Showing
    BY <1>2, PathFollows DEF RootOrShown
  <2>2. \A a \in Ancestors(w) : shown[a]
    BY <2>1, ShownPath
  <2> QED BY <2>2 DEF Showing, IsShown
<1> QED BY <1>1, <1>2

\* Where a window has an ancestor, or has none, a child of it is on the path.
LEMMA ChildOnPath ==
    ASSUME Orderly, NEW u \in Windows, NEW p, p = Null \/ p \in Ancestors(u)
    PROVE  \E c \in PathOf(u) : ParentOf(c) = p
<1> DEFINE T == {v \in OrNull : v \in Windows /\ (p = Null \/ p \in Ancestors(v)) =>
                                    \E c \in PathOf(v) : ParentOf(c) = p}
<1>1. Null \in T
  BY WindowsAssumption DEF OrNull
<1>2. ASSUME NEW v \in Windows, ParentOf(v) \in T PROVE v \in T
  <2> SUFFICES ASSUME p = Null \/ p \in Ancestors(v)
               PROVE  \E c \in PathOf(v) : ParentOf(c) = p
    BY DEF OrNull
  <2>1. CASE ParentOf(v) = p
    BY <2>1 DEF PathOf
  <2>2. CASE ParentOf(v) # p
    <3>1. ParentOf(v) # Null
      BY <2>2, PathFollows
    <3>2. Ancestors(v) = PathOf(ParentOf(v)) /\ ParentOf(v) \in Windows
      BY <3>1, PathFollows, InList DEF OrNull
    <3>3. p = Null \/ p \in Ancestors(ParentOf(v))
      BY <2>2, <3>2 DEF PathOf
    <3>4. \E c \in PathOf(ParentOf(v)) : ParentOf(c) = p
      BY <1>2, <3>2, <3>3
    <3> QED BY <3>2, <3>4 DEF PathOf
  <2> QED BY <2>1, <2>2
<1> HIDE DEF T
<1>3. \A v \in OrNull : v \in T
  BY <1>1, <1>2, FromTheTop
<1> QED BY <1>3 DEF T, OrNull

ShownBeside(v) == {u \in Showing : Beside(u, v)}

\* The second loop of get_previous_window finds the rearmost of the shown windows that
\* are on the front side of a window.
LEMMA ClimbFinds ==
    ASSUME Orderly, NEW w \in Windows, RootOrShown(ParentOf(w))
    PROVE  IsRearmost(Climb(w), ShownBeside(w))
<1> DEFINE T == {v \in OrNull : v \in Windows /\ RootOrShown(ParentOf(v)) =>
                                    IsRearmost(Climb(v), ShownBeside(v))}
<1>1. Null \in T
  BY WindowsAssumption DEF OrNull
<1>2. ASSUME NEW v \in Windows, ParentOf(v) \in T PROVE v \in T
  <2> SUFFICES ASSUME RootOrShown(ParentOf(v)) PROVE IsRearmost(Climb(v), ShownBeside(v))
    BY DEF OrNull
  <2>0. /\ ParentOf(v) \in OrNull /\ v \in PathOf(v)
        /\ Index(v) \in DOMAIN stack[ParentOf(v)] /\ Index(v) \in Nat
    BY InList, IndexIsNumber DEF PathOf
  <2>1. ASSUME NEW u \in Showing, NEW a \in PathOf(u), ParentOf(a) = ParentOf(v),
               Index(a) < Index(v)
        PROVE  Index(a) \in ShownBefore(v)
    <3>1. a \in Windows /\ shown[a]
      BY ShownPath
    <3>2. Index(a) \in DOMAIN stack[ParentOf(v)] /\ stack[ParentOf(v)][Index(a)] = a
      BY <2>1, <3>1, InList
    <3> QED BY <2>1, <3>1, <3>2 DEF ShownBefore
  <2>2. CASE ShownBefore(v) # {}
    <3> DEFINE m == Max(ShownBefore(v))
               r == stack[ParentOf(v)][m]
    <3>1. m \in ShownBefore(v) /\ (\A i \in ShownBefore(v) : i <= m) /\ Climb(v) = r
      BY <2>2, NearestBefore, ClimbFollows
    <3>2. m \in DOMAIN stack[ParentOf(v)] /\ shown[r] /\ m < Index(v)
      BY <3>1 DEF ShownBefore
    <3>3. r \in Windows /\ ParentOf(r) = ParentOf(v) /\ Index(r) = m
      BY <2>0, <3>2, ListHas
    <3> HIDE DEF r, m
    <3>4. r \in Showing
      BY <3>2, <3>3, ShownInParent
    <3>5. r \in PathOf(r)
      BY DEF PathOf
    <3>6. r \in ShownBeside(v)
      BY <2>0, <3>2, <3>3, <3>4, <3>5 DEF ShownBeside, Beside
    <3>7. ASSUME NEW u \in ShownBeside(v) PROVE u = r \/ InFront(u, r)
      <4>1. u \in Showing /\ u \in Windows
        BY DEF ShownBeside, Showing
      <4>2. PICK a \in PathOf(u), b \in PathOf(v) : ParentOf(a) = ParentOf(b) /\ Index(a) < Index(b)
        BY DEF ShownBeside, Beside
      <4>3. CASE b = v
        <5>1. Index(a) \in ShownBefore(v)
          BY <2>1, <4>1, <4>2, <4>3
        <5>2. Index(a) <= m /\ Index(a) \in Nat /\ m \in Nat /\ a \in Windows
          BY <3>1, <3>3, <4>1, <5>1, IndexIsNumber, PathMembers
        <5>3. CASE Index(a) < m
          <6>1. Beside(u, r)
            BY <3>3, <3>5, <4>2, <4>3, <5>3 DEF Beside
          <6> QED BY <3>3, <4>1, <6>1, InFrontMeans
        <5>4. CASE Index(a) = m
          <6>1. stack[ParentOf(a)][Index(a)] = a /\ stack[ParentOf(r)][Index(r)] = r
            BY <3>3, <5>2, InList
          <6>2. a = r
            BY <3>3, <4>2, <4>3, <5>4, <6>1
          <6>3. u = r \/ r \in Ancestors(u)
            BY <6>2 DEF PathOf
          <6> QED BY <3>3, <4>1, <6>3, InFrontMeans
        <5> QED BY <5>2, <5>3, <5>4
      <4>4. CASE b # v
        <5>1. b \in Ancestors(r)
          <6>1. Ancestors(r) = Ancestors(v)
            BY <3>3, PathFollows
          <6> QED BY <4>4, <6>1 DEF PathOf
        <5>2. Beside(u, r)
          BY <4>2, <5>1 DEF Beside, PathOf
        <5> QED BY <3>3, <4>1, <5>2, InFrontMeans
      <4> QED BY <4>3, <4>4
    <3> QED BY <3>1, <3>6, <3>7 DEF IsRearmost
  <2>3. CASE ShownBefore(v) = {}
    <3>1. Climb(v) = Climb(ParentOf(v)) /\ Climb(Null) = Null
      BY <2>3, ClimbFollows
    <3>2. ASSUME NEW u \in ShownBeside(v)
          PROVE  \E a \in PathOf(u), b \in Ancestors(v) :
                     ParentOf(a) = ParentOf(b) /\ Index(a) < Index(b)
      <4>1. u \in Showing
        BY DEF ShownBeside
      <4>2. PICK a \in PathOf(u), b \in PathOf(v) : ParentOf(a) = ParentOf(b) /\ Index(a) < Index(b)
        BY DEF ShownBeside, Beside
      <4>3. b # v
        BY <2>1, <2>3, <4>1, <4>2
      <4> QED BY <4>2, <4>3 DEF PathOf
    <3>3. CASE ParentOf(v) = Null
      <4>1. Ancestors(v) = {}
        BY <3>3, PathFollows
      <4>2. ShownBeside(v) = {}
        BY <3>2, <4>1
      <4> QED BY <3>1, <3>3, <4>2 DEF IsRearmost
    <3>4. CASE ParentOf(v) # Null
      <4>1. Ancestors(v) = PathOf(ParentOf(v)) /\ ParentOf(v) \in Showing
        BY <3>4, PathFollows DEF RootOrShown
      <4>2. ParentOf(v) \in Windows /\ RootOrShown(ParentOf(ParentOf(v)))
        BY <4>1, ShownPath
      <4>3. IsRearmost(Climb(ParentOf(v)), ShownBeside(ParentOf(v)))
        BY <1>2, <4>2
      <4>4. ShownBeside(v) \subseteq ShownBeside(ParentOf(v))
        BY <3>2, <4>1 DEF ShownBeside, Beside
      <4>5. ShownBeside(ParentOf(v)) \subseteq ShownBeside(v)
        BY <4>1 DEF ShownBeside, Beside, PathOf
      <4>6. ShownBeside(ParentOf(v)) = ShownBeside(v)
        BY <4>4, <4>5
      <4> QED BY <3>1, <4>3, <4>6
    <3> QED BY <3>3, <3>4
  <2> QED BY <2>2, <2>3
<1> HIDE DEF T
<1>3. \A v \in OrNull : v \in T
  BY <1>1, <1>2, FromTheTop
<1> QED BY <1>3 DEF T, OrNull

\* The shown windows in front of a window; of the terminal, all.
ShownInFront(p) == {u \in Showing : p = Null \/ InFront(u, p)}

LEMMA Tails ==
    ASSUME Orderly, NEW p \in OrNull
    PROVE  /\ TailOf(p) = Null <=> DOMAIN stack[p] = {}
           /\ TailOf(p) # Null =>
                 /\ TailOf(p) \in Windows /\ ParentOf(TailOf(p)) = p
                 /\ \A c \in Windows : ParentOf(c) = p =>
                        c = TailOf(p) \/ Index(c) < Index(TailOf(p))
<1>1. /\ stack[p] \in Seq(Windows) /\ Len(stack[p]) \in Nat
      /\ DOMAIN stack[p] = 1 .. Len(stack[p])
  BY Lists DEF Orderly, InOneList
<1>2. CASE stack[p] = <<>>
  BY <1>1, <1>2 DEF TailOf
<1>3. CASE stack[p] # <<>>
  <2>1. Len(stack[p]) \in DOMAIN stack[p] /\ TailOf(p) = stack[p][Len(stack[p])]
    BY <1>1, <1>3 DEF TailOf
  <2>2. TailOf(p) \in Windows /\ ParentOf(TailOf(p)) = p /\ Index(TailOf(p)) = Len(stack[p])
    BY <2>1, ListHas
  <2>3. ASSUME NEW c \in Windows, ParentOf(c) = p
        PROVE  c = TailOf(p) \/ Index(c) < Index(TailOf(p))
    <3>1. Index(c) \in DOMAIN stack[p] /\ stack[p][Index(c)] = c
      BY <2>3, InList
    <3>2. Index(c) \in 1 .. Len(stack[p])
      BY <1>1, <3>1
    <3> QED BY <1>1, <2>1, <2>2, <3>1, <3>2
  <2>4. DOMAIN stack[p] # {} /\ TailOf(p) # Null
    BY <2>1, <2>2, WindowsAssumption
  <2> QED BY <2>2, <2>3, <2>4
<1> QED BY <1>2, <1>3

\* The last shown window of a list, or what the second loop finds in front of a hidden
\* one, is the rearmost in front of the owner.
LEMMA LastFinds ==
    ASSUME Orderly, NEW p \in OrNull, RootOrShown(p), TailOf(p) # Null
    PROVE  IsRearmost(IF shown[TailOf(p)] THEN TailOf(p) ELSE Climb(TailOf(p)), ShownInFront(p))
<1> DEFINE last == TailOf(p)
<1>1. /\ last \in Windows /\ ParentOf(last) = p
      /\ \A c \in Windows : ParentOf(c) = p => c = last \/ Index(c) < Index(last)
  BY Tails
<1> HIDE DEF last
<1>2. last \in PathOf(last) /\ Ancestors(last) = IF p = Null THEN {} ELSE PathOf(p)
  BY <1>1, PathFollows DEF PathOf
<1>3. ASSUME NEW u \in ShownInFront(p)
      PROVE  /\ u \in Showing /\ u \in Windows
             /\ \/ \E c \in PathOf(u) : ParentOf(c) = p /\ c \in Windows /\ shown[c]
                \/ p # Null /\ Beside(u, p)
  <2>1. u \in Showing /\ u \in Windows
    BY DEF ShownInFront, Showing
  <2>2. CASE p = Null \/ p \in Ancestors(u)
    <3>1. PICK c \in PathOf(u) : ParentOf(c) = p
      BY <2>1, <2>2, ChildOnPath
    <3> QED BY <2>1, <3>1, ShownPath
  <2>3. CASE ~(p = Null \/ p \in Ancestors(u))
    <3>1. InFront(u, p) /\ p \in Windows
      BY <2>3 DEF ShownInFront, OrNull
    <3> QED BY <2>1, <2>3, <3>1, InFrontMeans
  <2> QED BY <2>1, <2>2, <2>3
\* What is beside the owner is beside the last window of the list.
<1>4. ASSUME NEW u, p # Null, Beside(u, p) PROVE Beside(u, last)
  <2>1. PathOf(p) \subseteq PathOf(last)
    BY <1>2, <1>4 DEF PathOf
  <2> QED BY <1>4, <2>1 DEF Beside
<1>5. CASE shown[last]
  <2>1. last \in Showing
    BY <1>1, <1>5, ShownInParent
  <2>2. last \in ShownInFront(p)
    <3>1. p = Null \/ p \in Ancestors(last)
      BY <1>2 DEF PathOf
    <3>2. p # Null => p \in Windows
      BY DEF OrNull
    <3> QED BY <1>1, <2>1, <3>1, <3>2, InFrontMeans DEF ShownInFront
  <2>3. ASSUME NEW u \in ShownInFront(p) PROVE u = last \/ InFront(u, last)
    <3>1. u \in Windows
      BY <1>3
    <3>2. CASE \E c \in PathOf(u) : ParentOf(c) = p /\ c \in Windows /\ shown[c]
      <4>1. PICK c \in PathOf(u) : ParentOf(c) = p /\ c \in Windows
        BY <3>2
      <4>2. CASE c = last
        BY <1>1, <3>1, <4>2, InFrontMeans DEF PathOf
      <4>3. CASE Index(c) < Index(last)
        <5>1. Beside(u, last)
          BY <1>1, <1>2, <4>1, <4>3 DEF Beside
        <5> QED BY <1>1, <3>1, <5>1, InFrontMeans
      <4> QED BY <1>1, <4>1, <4>2, <4>3
    <3>3. CASE p # Null /\ Beside(u, p)
      BY <1>1, <1>4, <3>1, <3>3, InFrontMeans
    <3> QED BY <1>3, <3>2, <3>3
  <2>4. IsRearmost(last, ShownInFront(p))
    BY <2>2, <2>3 DEF IsRearmost
  <2> QED BY <1>5, <2>4 DEF last
<1>6. CASE ~shown[last]
  <2>1. ShownInFront(p) \subseteq ShownBeside(last)
    <3>1. ASSUME NEW u \in ShownInFront(p) PROVE u \in ShownBeside(last)
      <4>1. CASE \E c \in PathOf(u) : ParentOf(c) = p /\ c \in Windows /\ shown[c]
        <5>1. PICK c \in PathOf(u) : ParentOf(c) = p /\ c \in Windows /\ shown[c]
          BY <4>1
        <5>2. Index(c) < Index(last)
          BY <1>1, <1>6, <5>1
        <5>3. Beside(u, last)
          BY <1>1, <1>2, <5>1, <5>2 DEF Beside
        <5> QED BY <1>3, <5>3 DEF ShownBeside
      <4>2. CASE p # Null /\ Beside(u, p)
        BY <1>3, <1>4, <4>2 DEF ShownBeside
      <4> QED BY <1>3, <4>1, <4>2
    <3> QED BY <3>1
  <2>2. ShownBeside(last) \subseteq ShownInFront(p)
    <3>1. ASSUME NEW u \in ShownBeside(last) PROVE u \in ShownInFront(p)
      <4>1. u \in Showing /\ u \in Windows
        BY DEF ShownBeside, Showing
      <4>2. PICK a \in PathOf(u), b \in PathOf(last) :
                ParentOf(a) = ParentOf(b) /\ Index(a) < Index(b)
        BY DEF ShownBeside, Beside
      <4>3. CASE p = Null
        BY <4>1, <4>3 DEF ShownInFront
      <4>4. CASE p # Null
        <5>1. p \in Windows
          BY <4>4 DEF OrNull
        <5>2. CASE b = last
          <6>1. p \in Ancestors(u)
            BY <1>1, <4>1, <4>2, <4>4, <5>2, PathMembers
          <6> QED BY <4>1, <5>1, <6>1, InFrontMeans DEF ShownInFront
        <5>3. CASE b # last
          <6>1. b \in PathOf(p)
            BY <1>2, <4>4, <5>3 DEF PathOf
          <6>2. Beside(u, p)
            BY <4>2, <6>1 DEF Beside
          <6> QED BY <4>1, <5>1, <6>2, InFrontMeans DEF ShownInFront
        <5> QED BY <5>2, <5>3
      <4> QED BY <4>3, <4>4
    <3> QED BY <3>1
  <2>3. ShownInFront(p) = ShownBeside(last)
    BY <2>1, <2>2
  <2>4. IsRearmost(Climb(last), ShownInFront(p))
    BY <1>1, <2>3, ClimbFinds
  <2> QED BY <1>6, <2>4 DEF last
<1> QED BY <1>5, <1>6

\* get_previous_window finds the rearmost of the shown windows in front of a shown one.
LEMMA PreviousFinds ==
    ASSUME Orderly, NEW w \in Showing
    PROVE  IsRearmost(PreviousWindow(w), ShownInFront(w))
<1>1. w \in Windows /\ w \in OrNull /\ w # Null /\ RootOrShown(w) /\ RootOrShown(ParentOf(w))
      /\ shown[w]
  BY ShownPath, WindowsAssumption DEF OrNull, RootOrShown, PathOf
<1>2. CASE TailOf(w) = Null
  <2>1. PreviousWindow(w) = Climb(w)
    BY <1>2 DEF PreviousWindow
  <2>2. ASSUME NEW u \in Showing PROVE w \notin Ancestors(u)
    <3>1. u \in Windows
      BY DEF Showing
    <3> SUFFICES ASSUME w \in Ancestors(u) PROVE FALSE
      OBVIOUS
    <3>2. PICK c \in PathOf(u) : ParentOf(c) = w
      BY <3>1, ChildOnPath
    <3>3. Index(c) \in DOMAIN stack[w]
      BY <3>1, <3>2, PathMembers, InList
    <3> QED BY <1>1, <1>2, <3>3, Tails
  <2>3. ShownInFront(w) = ShownBeside(w)
    <3>1. \A u \in Showing : u \in Windows /\ (InFront(u, w) <=> Beside(u, w))
      BY <1>1, <2>2, InFrontMeans DEF Showing
    <3> QED BY <1>1, <3>1 DEF ShownInFront, ShownBeside
  <2> QED BY <1>1, <2>1, <2>3, ClimbFinds
<1>3. CASE TailOf(w) # Null
  <2>1. PreviousWindow(w) = IF shown[TailOf(w)] THEN TailOf(w) ELSE Climb(TailOf(w))
    BY <1>1, <1>3 DEF PreviousWindow
  <2> QED BY <1>1, <1>3, <2>1, LastFinds
<1> QED BY <1>2, <1>3

\* The windows are visited from the rearmost of all.
FirstVisited == LET last == TailOf(Null)
                IN  IF last # Null /\ ~shown[last] THEN PreviousWindow(last) ELSE last

LEMMA FirstFinds ==
    ASSUME Orderly
    PROVE  IsRearmost(FirstVisited, Showing)
<1>1. ShownInFront(Null) = Showing /\ Null \in OrNull /\ RootOrShown(Null)
  BY DEF ShownInFront, OrNull, RootOrShown
<1>2. CASE TailOf(Null) = Null
  <2>1. FirstVisited = Null
    BY <1>2 DEF FirstVisited
  <2>2. ASSUME NEW u \in Showing PROVE FALSE
    <3>1. u \in Windows
      BY DEF Showing
    <3>2. PICK c \in PathOf(u) : ParentOf(c) = Null
      BY <3>1, ChildOnPath
    <3>3. Index(c) \in DOMAIN stack[Null]
      BY <3>1, <3>2, PathMembers, InList
    <3> QED BY <1>1, <1>2, <3>3, Tails
  <2> QED BY <2>1, <2>2 DEF IsRearmost
<1>3. CASE TailOf(Null) # Null
  <2>1. IsRearmost(IF shown[TailOf(Null)] THEN TailOf(Null) ELSE Climb(TailOf(Null)), Showing)
    BY <1>1, <1>3, LastFinds
  <2>2. FirstVisited = IF shown[TailOf(Null)] THEN TailOf(Null) ELSE Climb(TailOf(Null))
    BY <1>3 DEF FirstVisited, PreviousWindow
  <2> QED BY <2>1, <2>2
<1> QED BY <1>2, <1>3

-----------------------------------------------------------------------------
(* The iteration. *)

Count == Cardinality(Windows)

LEMMA CountIsNumber == Count \in Nat /\ (Windows # {} => Count > 0)
<1>1. IsFiniteSet(Windows)
  BY WindowsAssumption
<1>2. Count \in Nat
  BY <1>1, FS_CardinalityType DEF Count
<1>3. Count = 0 <=> Windows = {}
  BY <1>1, FS_EmptySet DEF Count
<1> QED BY <1>2, <1>3

LEMMA VisitedFollows ==
    ASSUME Orderly
    PROVE  /\ DOMAIN Visited = 1 .. Count
           /\ 1 \in 1 .. Count => Visited[1] = FirstVisited
           /\ \A i \in 1 .. Count : i # 1 =>
                  Visited[i] = IF Visited[i - 1] = Null THEN Null
                               ELSE PreviousWindow(Visited[i - 1])
<1> DEFINE after(r) == IF r = Null THEN Null ELSE PreviousWindow(r)
           IsVisit(g) == g = [i \in 1 .. Cardinality(Windows) |->
                                 IF i = 1 THEN FirstVisited ELSE after(g[i - 1])]
           visit == CHOOSE g : IsVisit(g)
           S == Showing \cup {Null}
           step == [i \in 1 .. Count |-> [r \in S |-> after(r)]]
<1>1. Count \in Nat
  BY CountIsNumber
<1>2. \A r \in S : after(r) \in S
  BY PreviousFinds DEF IsRearmost, ShownInFront
<1>3. FirstVisited \in S
  BY FirstFinds DEF IsRearmost
<1>4. \A i \in 1 .. Count : \A r \in S : step[i][r] = after(r)
  OBVIOUS
<1>5. Visited = visit
  BY Zenon DEF Visited, FirstVisited
<1> HIDE DEF after, S, step
<1>6. StaysIn(S, Count, step)
  BY <1>2, <1>4 DEF StaysIn
<1>7. PICK f : f \in [0 .. Count -> S] /\ Follows(f, Count, FirstVisited, step)
  BY <1>1, <1>3, <1>6, Recursion
<1> DEFINE g == [i \in 1 .. Count |-> f[i - 1]]
<1>8. ASSUME NEW i \in 1 .. Count
      PROVE  g[i] = IF i = 1 THEN FirstVisited ELSE after(g[i - 1])
  <2>1. CASE i = 1
    BY <1>7, <2>1 DEF Follows
  <2>2. CASE i # 1
    <3>1. i - 1 \in 1 .. Count /\ (i - 1) - 1 \in 0 .. Count
      BY <1>1, <2>2
    <3>2. f[i - 1] = step[i - 1][f[(i - 1) - 1]]
      BY <1>7, <3>1 DEF Follows
    <3>3. f[i - 1] = after(f[(i - 1) - 1])
      BY <1>4, <1>7, <3>1, <3>2
    <3> QED BY <2>2, <3>1, <3>3
  <2> QED BY <2>1, <2>2
<1>9. g = [i \in 1 .. Count |-> g[i]]
  OBVIOUS
<1> HIDE DEF g
<1>10. IsVisit(g)
  BY <1>8, <1>9 DEF Count
<1>11. IsVisit(visit)
  BY <1>10, Zenon
<1> HIDE DEF visit
<1>12. /\ DOMAIN visit = 1 .. Count
       /\ \A i \in 1 .. Count : visit[i] = IF i = 1 THEN FirstVisited ELSE after(visit[i - 1])
  BY <1>11 DEF Count
<1> QED BY <1>5, <1>12 DEF after

\* What is known when the iteration has come to place i: the windows visited so far are
\* shown and in order, and those not visited yet are in front of the last one.
InOrder(i) ==
    /\ Visited[i] = Null => \A u \in Showing : \E k \in 1 .. i - 1 : Visited[k] = u
    /\ Visited[i] # Null =>
           /\ Visited[i] \in Showing
           /\ \A k \in 1 .. i - 1 : Visited[k] \in Showing /\ InFront(Visited[i], Visited[k])
           /\ \A u \in Showing : \/ u = Visited[i] \/ InFront(u, Visited[i])
                                 \/ \E k \in 1 .. i - 1 : Visited[k] = u

LEMMA AllInOrder == ASSUME Orderly PROVE \A i \in 1 .. Count : InOrder(i)
<1> DEFINE T == {i \in Nat : i + 1 \in 1 .. Count => InOrder(i + 1)}
<1>0. Count \in Nat /\ Null \notin Showing /\ Showing \subseteq Windows
  BY CountIsNumber, WindowsAssumption DEF Showing
<1>1. 0 \in T
  <2> SUFFICES ASSUME 1 \in 1 .. Count PROVE InOrder(1)
    OBVIOUS
  <2>1. IsRearmost(Visited[1], Showing)
    BY VisitedFollows, FirstFinds
  <2> QED BY <1>0, <2>1 DEF InOrder, IsRearmost
<1>2. ASSUME NEW n \in T PROVE n + 1 \in T
  <2> SUFFICES ASSUME (n + 1) + 1 \in 1 .. Count PROVE InOrder((n + 1) + 1)
    OBVIOUS
  <2> DEFINE i == n + 1
             j == i + 1
  <2>1. i \in 1 .. Count /\ j \in 1 .. Count /\ j # 1 /\ j - 1 = i /\ i \in 1 .. j - 1
    BY <1>0
  <2>2. \A k \in 1 .. j - 1 : k = i \/ k \in 1 .. i - 1
    BY <2>1
  <2>3. \A k \in 1 .. i - 1 : k \in 1 .. j - 1
    BY <2>1
  <2>4. InOrder(i)
    BY <2>1
  <2>5. Visited[j] = IF Visited[i] = Null THEN Null ELSE PreviousWindow(Visited[i])
    BY <2>1, VisitedFollows
  <2> HIDE DEF i, j
  <2>6. CASE Visited[i] = Null
    <3>1. Visited[j] = Null /\ \A u \in Showing : \E k \in 1 .. j - 1 : Visited[k] = u
      BY <2>3, <2>4, <2>5, <2>6 DEF InOrder
    <3> QED BY <3>1 DEF InOrder, i, j
  <2>7. CASE Visited[i] # Null
    <3>1. Visited[i] \in Showing /\ Visited[j] = PreviousWindow(Visited[i])
      BY <2>4, <2>5, <2>7 DEF InOrder
    <3>2. IsRearmost(Visited[j], ShownInFront(Visited[i]))
      BY <3>1, PreviousFinds
    <3>3. \A u \in Showing : u \in ShownInFront(Visited[i]) <=> InFront(u, Visited[i])
      BY <2>7 DEF ShownInFront
    <3>4. \A u \in Showing : \/ u = Visited[i] \/ u \in ShownInFront(Visited[i])
                             \/ \E k \in 1 .. i - 1 : Visited[k] = u
      BY <2>4, <2>7, <3>3 DEF InOrder
    <3>5. CASE ShownInFront(Visited[i]) = {}
      <4>1. Visited[j] = Null
        BY <3>2, <3>5 DEF IsRearmost
      <4>2. \A u \in Showing : \E k \in 1 .. j - 1 : Visited[k] = u
        BY <2>1, <2>3, <3>4, <3>5
      <4> QED BY <4>1, <4>2 DEF InOrder, i, j
    <3>6. CASE ShownInFront(Visited[i]) # {}
      <4>1. /\ Visited[j] \in ShownInFront(Visited[i])
            /\ \A u \in ShownInFront(Visited[i]) : u = Visited[j] \/ InFront(u, Visited[j])
        BY <3>2, <3>6 DEF IsRearmost
      <4>2. Visited[j] \in Showing /\ Visited[j] # Null /\ InFront(Visited[j], Visited[i])
        BY <1>0, <3>3, <4>1 DEF ShownInFront
      <4>3. ASSUME NEW k \in 1 .. j - 1
            PROVE  Visited[k] \in Showing /\ InFront(Visited[j], Visited[k])
        <5>1. CASE k = i
          BY <3>1, <4>2, <5>1
        <5>2. CASE k \in 1 .. i - 1
          <6>1. Visited[k] \in Showing /\ InFront(Visited[i], Visited[k])
            BY <2>4, <2>7, <5>2 DEF InOrder
          <6> QED BY <1>0, <3>1, <4>2, <6>1, InFrontOfAll
        <5> QED BY <2>2, <5>1, <5>2
      <4>4. \A u \in Showing : \/ u = Visited[j] \/ InFront(u, Visited[j])
                               \/ \E k \in 1 .. j - 1 : Visited[k] = u
        BY <2>1, <2>3, <3>4, <4>1
      <4>5. InOrder(j)
        BY <4>2, <4>3, <4>4 DEF InOrder
      <4> QED BY <4>5 DEF i, j
    <3> QED BY <3>5, <3>6
  <2> QED BY <2>6, <2>7 DEF i, j
<1> HIDE DEF T
<1>3. T = Nat
  <2>1. T \in SUBSET Nat
    BY DEF T
  <2> QED BY <1>1, <1>2, <2>1, InductionOnSet
<1>4. ASSUME NEW i \in 1 .. Count PROVE InOrder(i)
  <2>1. i - 1 \in Nat /\ (i - 1) + 1 = i
    OBVIOUS
  <2>2. i - 1 \in T
    BY <1>3, <2>1
  <2> QED BY <2>1, <2>2 DEF T
<1> QED BY <1>4

\* Every shown window is visited.
LEMMA AllVisited ==
    ASSUME Orderly, NEW u \in Showing
    PROVE  \E k \in 1 .. Count : Visited[k] = u
<1> SUFFICES ASSUME \A k \in 1 .. Count : Visited[k] # u PROVE FALSE
  OBVIOUS
<1>1. Count \in Nat /\ Count > 0 /\ u \in Windows /\ Null \notin Showing /\ Showing \subseteq Windows
  BY CountIsNumber, WindowsAssumption DEF Showing
<1>2. Count \in 1 .. Count /\ InOrder(Count) /\ \A k \in 1 .. Count - 1 : k \in 1 .. Count
  BY <1>1, AllInOrder
<1>3. Visited[Count] # Null
  BY <1>2 DEF InOrder
<1>4. \A k \in 1 .. Count : Visited[k] \in Showing
  <2>1. \A k \in 1 .. Count : k = Count \/ k \in 1 .. Count - 1
    BY <1>1
  <2> QED BY <1>2, <1>3, <2>1 DEF InOrder
<1> DEFINE g == [k \in 1 .. Count + 1 |-> IF k = Count + 1 THEN u ELSE Visited[k]]
<1>5. g \in [1 .. Count + 1 -> Windows]
  BY <1>1, <1>4
<1>6. IsFiniteSet(1 .. Count + 1) /\ Cardinality(1 .. Count + 1) = Count + 1
  BY <1>1, FS_Interval
<1>7. \E k, l \in 1 .. Count + 1 : k # l /\ g[k] = g[l]
  <2>1. IsFiniteSet(Windows) /\ Cardinality(Windows) < Cardinality(1 .. Count + 1)
    BY <1>1, <1>6, WindowsAssumption DEF Count
  <2> HIDE DEF g
  <2> QED BY <1>5, <1>6, <2>1, FS_PigeonHole
<1>8. PICK k, l \in 1 .. Count + 1 : k < l /\ g[k] = g[l]
  BY <1>1, <1>7
<1>9. CASE l = Count + 1
  BY <1>1, <1>8, <1>9
<1>10. CASE l # Count + 1
  <2>1. k \in 1 .. Count /\ l \in 1 .. Count /\ k \in 1 .. l - 1 /\ Visited[k] = Visited[l]
    BY <1>1, <1>8, <1>10
  <2>2. InOrder(l) /\ Visited[l] \in Windows /\ Visited[l] # Null
    BY <1>1, <1>4, <2>1, AllInOrder
  <2>3. InFront(Visited[l], Visited[l])
    BY <2>1, <2>2 DEF InOrder
  <2> QED BY <2>2, <2>3, NotInFrontOfItself
<1> QED BY <1>9, <1>10

\* The drawing loop and t3_win_at_location visit every shown window and no other, each
\* after all that it is in front of.
BackToFront ==
    /\ \A u \in Windows : IsShown(u) <=> \E i \in DOMAIN Visited : Visited[i] = u
    /\ \A i, j \in DOMAIN Visited :
           i < j /\ Visited[j] # Null =>
               InFront(Visited[j], Visited[i]) /\ ~InFront(Visited[i], Visited[j])

LEMMA VisitsInOrder == Orderly => BackToFront
<1> SUFFICES ASSUME Orderly PROVE BackToFront
  OBVIOUS
<1>0. DOMAIN Visited = 1 .. Count /\ Count \in Nat
  BY VisitedFollows, CountIsNumber
<1>1. ASSUME NEW u \in Windows PROVE IsShown(u) <=> \E i \in DOMAIN Visited : Visited[i] = u
  <2>1. ASSUME IsShown(u) PROVE \E i \in DOMAIN Visited : Visited[i] = u
    BY <1>0, <2>1, AllVisited DEF Showing
  <2>2. ASSUME NEW i \in DOMAIN Visited, Visited[i] = u PROVE IsShown(u)
    <3>1. InOrder(i) /\ Visited[i] # Null
      BY <1>0, <2>2, AllInOrder, WindowsAssumption
    <3>2. Visited[i] \in Showing
      BY <3>1 DEF InOrder
    <3> QED BY <2>2, <3>2 DEF Showing
  <2> QED BY <2>1, <2>2
<1>2. ASSUME NEW i \in DOMAIN Visited, NEW j \in DOMAIN Visited, i < j, Visited[j] # Null
      PROVE  InFront(Visited[j], Visited[i]) /\ ~InFront(Visited[i], Visited[j])
  <2>1. i \in 1 .. j - 1 /\ InOrder(j)
    BY <1>0, <1>2, AllInOrder
  <2>2. /\ Visited[i] \in Windows /\ Visited[j] \in Windows
        /\ InFront(Visited[j], Visited[i])
    BY <1>2, <2>1 DEF InOrder, Showing
  <2> QED BY <2>2, InFrontOfAll, NotInFrontOfItself
<1> QED BY <1>1, <1>2 DEF BackToFront

-----------------------------------------------------------------------------
(* The cells of a window. *)

\* A finite set of windows has one with the greatest value of f.
LEMMA GreatestOf ==
    ASSUME NEW A, IsFiniteSet(A), A # {}, NEW f \in [A -> Int]
    PROVE  \E m \in A : \A v \in A : f[v] <= f[m]
<1> DEFINE n == Cardinality(A)
<1>1. n \in Nat /\ n # 0 /\ ExistsBijection(1 .. n, A)
  BY FS_CardinalityType, FS_EmptySet
<1>2. PICK g \in [1 .. n -> A] : \A v \in A : \E i \in 1 .. n : g[i] = v
  BY <1>1 DEF ExistsBijection, Bijection, Surjection
<1> HIDE DEF n
<1> DEFINE e == [i \in 1 .. n |-> f[g[i]]]
           HasGreatest(k) == \E m \in 1 .. k : \A i \in 1 .. k : e[i] <= e[m]
           T == {k \in Nat : k + 1 <= n => HasGreatest(k + 1)}
<1>3. /\ \A i \in 1 .. n : e[i] \in Int
      /\ \A i \in 1 .. n : e[i] = f[g[i]]
  BY <1>2
<1> HIDE DEF e
<1>4. 0 \in T
  <2> SUFFICES ASSUME 1 <= n PROVE HasGreatest(1)
    OBVIOUS
  <2>1. e[1] \in Int /\ \A i \in 1 .. 1 : i = 1
    BY <1>1, <1>3
  <2> QED BY <2>1
<1>5. ASSUME NEW k \in T PROVE k + 1 \in T
  <2> DEFINE l == (k + 1) + 1
  <2> SUFFICES ASSUME l <= n PROVE HasGreatest(l)
    OBVIOUS
  <2>1. HasGreatest(k + 1)
    BY <1>1
  <2>2. PICK m \in 1 .. k + 1 : \A i \in 1 .. k + 1 : e[i] <= e[m]
    BY <2>1
  <2>3. /\ l \in 1 .. n /\ m \in 1 .. n /\ m \in 1 .. l /\ l \in 1 .. l
        /\ \A i \in 1 .. l : i = l \/ i \in 1 .. k + 1
        /\ 1 .. l \subseteq 1 .. n
    BY <1>1
  <2>4. \A i \in 1 .. l : e[i] \in Int
    BY <1>3, <2>3
  <2> HIDE DEF l
  <2>5. CASE e[l] <= e[m]
    <3>1. \A i \in 1 .. l : e[i] <= e[m]
      BY <2>2, <2>3, <2>5
    <3> QED BY <2>3, <3>1
  <2>6. CASE e[m] < e[l]
    <3>1. ASSUME NEW i \in 1 .. l PROVE e[i] <= e[l]
      <4>1. e[i] \in Int /\ e[l] \in Int /\ e[m] \in Int
        BY <2>3, <2>4
      <4>2. i = l \/ e[i] <= e[m]
        BY <2>2, <2>3
      <4> QED BY <2>6, <4>1, <4>2
    <3> QED BY <2>3, <3>1
  <2>7. e[l] <= e[m] \/ e[m] < e[l]
    BY <2>3, <2>4
  <2> QED BY <2>5, <2>6, <2>7
<1> HIDE DEF T, HasGreatest
<1>6. T = Nat
  <2>1. T \in SUBSET Nat
    BY DEF T
  <2> QED BY <1>4, <1>5, <2>1, InductionOnSet
<1>7. HasGreatest(n)
  <2>1. n - 1 \in Nat /\ (n - 1) + 1 = n
    BY <1>1
  <2>2. (n - 1) + 1 <= n => HasGreatest((n - 1) + 1)
    BY <1>6, <2>1 DEF T
  <2> QED BY <1>1, <2>1, <2>2
<1>8. PICK m \in 1 .. n : \A i \in 1 .. n : e[i] <= e[m]
  BY <1>7 DEF HasGreatest
<1>9. g[m] \in A /\ \A v \in A : f[v] <= f[g[m]]
  BY <1>2, <1>3, <1>8
<1> QED BY <1>9

\* Being at or after the last start, or before the first end.
LEMMA AfterAll ==
    ASSUME NEW A, IsFiniteSet(A), A # {}, NEW f \in [A -> Int], NEW n \in Int
    PROVE  n >= Max({f[v] : v \in A}) <=> \A v \in A : n >= f[v]
<1> DEFINE S == {f[v] : v \in A}
<1>1. PICK m \in A : \A v \in A : f[v] <= f[m]
  BY GreatestOf
<1>2. S \in SUBSET Int /\ f[m] \in S /\ \A x \in S : x <= f[m]
  BY <1>1
<1>3. \A v \in A : f[v] \in S
  OBVIOUS
<1>4. \A x \in S : \E v \in A : x = f[v]
  OBVIOUS
<1> HIDE DEF S
<1>5. Max(S) \in S /\ \A x \in S : x <= Max(S)
  BY <1>2, MaxOfNumbers
<1> DEFINE t == Max(S)
<1>6. t \in Int /\ (\E v \in A : t = f[v]) /\ \A v \in A : f[v] \in Int /\ f[v] <= t
  BY <1>2, <1>3, <1>4, <1>5
<1> HIDE DEF t
<1>7. n >= t <=> \A v \in A : n >= f[v]
  BY <1>6
<1> QED BY <1>7 DEF S, t

LEMMA BeforeAll ==
    ASSUME NEW A, IsFiniteSet(A), A # {}, NEW f \in [A -> Int], NEW n \in Int
    PROVE  n < Min({f[v] : v \in A}) <=> \A v \in A : n < f[v]
<1> DEFINE S == {f[v] : v \in A}
           h == [v \in A |-> -f[v]]
<1>1. PICK m \in A : \A v \in A : f[m] <= f[v]
  <2>1. h \in [A -> Int]
    OBVIOUS
  <2>2. \A v \in A : h[v] = -f[v] /\ f[v] \in Int
    OBVIOUS
  <2> HIDE DEF h
  <2>3. PICK m \in A : \A v \in A : h[v] <= h[m]
    BY <2>1, GreatestOf
  <2> QED BY <2>2, <2>3
<1>2. S \in SUBSET Int /\ f[m] \in S /\ \A x \in S : f[m] <= x
  BY <1>1
<1>3. \A v \in A : f[v] \in S
  OBVIOUS
<1>4. \A x \in S : \E v \in A : x = f[v]
  OBVIOUS
<1> HIDE DEF S
<1>5. Min(S) \in S /\ \A x \in S : Min(S) <= x
  BY <1>2 DEF Min
<1> DEFINE t == Min(S)
<1>6. t \in Int /\ (\E v \in A : t = f[v]) /\ \A v \in A : f[v] \in Int /\ t <= f[v]
  BY <1>2, <1>3, <1>4, <1>5
<1> HIDE DEF t
<1>7. n < t <=> \A v \in A : n < f[v]
  BY <1>6
<1> QED BY <1>7 DEF S, t

\* What t3_win_at_location tests for a window is that it has the cell.
Placing == place \in [Windows -> [y : Int, x : Int]]

HasCell(w, row, x) ==
    LET up == Ancestors(w)
    IN  /\ InWindow(w, row)
        /\ x >= place[w].x /\ x < place[w].x + SizeOf[w].x
        /\ up # {} =>
             /\ row >= Max({place[v].y : v \in up})
             /\ row < Min({place[v].y + SizeOf[v].y : v \in up})
             /\ x >= Max({place[v].x : v \in up})
             /\ x < Min({place[v].x + SizeOf[v].x : v \in up})

LEMMA CellMeans ==
    ASSUME Orderly, Placing, NEW w \in Windows, NEW row \in Int, NEW x \in Int
    PROVE  HasCell(w, row, x) <=> Covers(w, row, x)
<1> DEFINE up == Ancestors(w)
           top == [v \in up |-> place[v].y]
           bottom == [v \in up |-> place[v].y + SizeOf[v].y]
           left == [v \in up |-> place[v].x]
           right == [v \in up |-> place[v].x + SizeOf[v].x]
<1>1. up \subseteq Windows /\ IsFiniteSet(up)
  BY AncestorsAbove, FS_Subset, WindowsAssumption
<1> HIDE DEF up
<1>2. \A v \in Windows : /\ place[v].y \in Int /\ place[v].x \in Int
                         /\ SizeOf[v].y \in Int /\ SizeOf[v].x \in Int
  BY GeometryAssumption DEF Placing
<1>3. /\ top \in [up -> Int] /\ bottom \in [up -> Int]
      /\ left \in [up -> Int] /\ right \in [up -> Int]
  BY <1>1, <1>2
<1>4. /\ {place[v].y : v \in up} = {top[v] : v \in up}
      /\ {place[v].y + SizeOf[v].y : v \in up} = {bottom[v] : v \in up}
      /\ {place[v].x : v \in up} = {left[v] : v \in up}
      /\ {place[v].x + SizeOf[v].x : v \in up} = {right[v] : v \in up}
  OBVIOUS
<1>5. \A v \in up : /\ InWindow(v, row) <=> row >= top[v] /\ row < bottom[v]
                    /\ left[v] = place[v].x /\ right[v] = place[v].x + SizeOf[v].x
  BY <1>1, <1>2 DEF InWindow
<1> HIDE DEF top, bottom, left, right
<1>6. CASE up = {}
  BY <1>6 DEF HasCell, Covers, up
<1>7. CASE up # {}
  <2>1. /\ row >= Max({place[v].y : v \in up}) <=> \A v \in up : row >= top[v]
        /\ row < Min({place[v].y + SizeOf[v].y : v \in up}) <=> \A v \in up : row < bottom[v]
        /\ x >= Max({place[v].x : v \in up}) <=> \A v \in up : x >= left[v]
        /\ x < Min({place[v].x + SizeOf[v].x : v \in up}) <=> \A v \in up : x < right[v]
    <3>1. row >= Max({top[v] : v \in up}) <=> \A v \in up : row >= top[v]
      BY <1>1, <1>3, <1>7, AfterAll
    <3>2. row < Min({bottom[v] : v \in up}) <=> \A v \in up : row < bottom[v]
      BY <1>1, <1>3, <1>7, BeforeAll
    <3>3. x >= Max({left[v] : v \in up}) <=> \A v \in up : x >= left[v]
      BY <1>1, <1>3, <1>7, AfterAll
    <3>4. x < Min({right[v] : v \in up}) <=> \A v \in up : x < right[v]
      BY <1>1, <1>3, <1>7, BeforeAll
    <3> QED BY <1>4, <3>1, <3>2, <3>3, <3>4
  <2>2. HasCell(w, row, x) <=>
            /\ InWindow(w, row) /\ x >= place[w].x /\ x < place[w].x + SizeOf[w].x
            /\ row >= Max({place[v].y : v \in up})
            /\ row < Min({place[v].y + SizeOf[v].y : v \in up})
            /\ x >= Max({place[v].x : v \in up})
            /\ x < Min({place[v].x + SizeOf[v].x : v \in up})
    BY <1>7, Zenon DEF HasCell, up
  <2>3. Covers(w, row, x) <=>
            /\ InWindow(w, row) /\ x >= place[w].x /\ x < place[w].x + SizeOf[w].x
            /\ \A v \in up : InWindow(v, row) /\ x >= left[v] /\ x < right[v]
    BY <1>5 DEF Covers, up
  <2> QED BY <1>5, <2>1, <2>2, <2>3
<1> QED BY <1>6, <1>7

-----------------------------------------------------------------------------
(* t3_win_at_location. *)

LEMMA LastIsForemost ==
    ASSUME Orderly, Placing, NEW row \in Int, NEW x \in Int
    PROVE  LET here == {w \in Windows : IsShown(w) /\ Covers(w, row, x)}
           IN  IF here = {} THEN AtLocation(row, x) = Null
               ELSE AtLocation(row, x) \in {w \in here : \A v \in here \ {w} : ~InFront(v, w)}
<1> DEFINE here == {w \in Windows : IsShown(w) /\ Covers(w, row, x)}
           D == {i \in DOMAIN Visited : Visited[i] # Null /\ HasCell(Visited[i], row, x)}
<1>1. AtLocation(row, x) = IF D = {} THEN Null ELSE Visited[Max(D)]
  BY Zenon DEF AtLocation, HasCell
<1>2. BackToFront /\ DOMAIN Visited = 1 .. Count /\ Count \in Nat
  BY VisitsInOrder, VisitedFollows, CountIsNumber
<1>3. ASSUME NEW i \in D PROVE Visited[i] \in here
  <2>1. InOrder(i) /\ Visited[i] # Null
    BY <1>2, AllInOrder
  <2>2. Visited[i] \in Showing
    BY <2>1 DEF InOrder
  <2> QED BY <2>2, CellMeans DEF Showing
<1>4. ASSUME NEW w \in here PROVE \E i \in D : Visited[i] = w
  <2>1. PICK i \in DOMAIN Visited : Visited[i] = w
    BY <1>2 DEF BackToFront
  <2>2. w # Null /\ HasCell(w, row, x)
    BY CellMeans, WindowsAssumption
  <2> QED BY <2>1, <2>2
<1>5. D \in SUBSET (1 .. Count)
  BY <1>2
<1>6. ASSUME NEW i \in D PROVE i \in DOMAIN Visited /\ Visited[i] # Null
  OBVIOUS
<1>7. here \subseteq Windows
  OBVIOUS
<1> HIDE DEF D, here
<1>8. CASE D = {}
  <2>1. here = {} /\ AtLocation(row, x) = Null
    BY <1>1, <1>4, <1>8
  <2> QED BY <2>1 DEF here
<1>9. CASE D # {}
  <2> DEFINE m == Max(D)
  <2>1. m \in D /\ (\A i \in D : i <= m) /\ AtLocation(row, x) = Visited[m]
    BY <1>1, <1>2, <1>5, <1>9, LastOfPlaces
  <2> HIDE DEF m
  <2>2. Visited[m] \in here
    BY <1>3, <2>1
  <2>3. ASSUME NEW v \in here \ {Visited[m]} PROVE ~InFront(v, Visited[m])
    <3>1. PICK i \in D : Visited[i] = v
      BY <1>4
    <3>2. i # m /\ i \in Nat /\ m \in Nat /\ i <= m
      BY <1>2, <1>5, <2>1, <3>1
    <3>3. i < m
      BY <3>2
    <3> QED BY <1>2, <1>6, <2>1, <3>1, <3>3 DEF BackToFront
  <2>4. here # {} /\ AtLocation(row, x) \in {w \in here : \A v \in here \ {w} : ~InFront(v, w)}
    BY <2>1, <2>2, <2>3
  <2> QED BY <2>4 DEF here
<1> QED BY <1>8, <1>9

-----------------------------------------------------------------------------
\* The lists and the places are as WindowTree and WindowGeometry leave them.
TreeInv == Orderly /\ Placing /\ height \in Int /\ width \in Int

LEMMA InitTree == RefreshInit => TreeInv
<1> SUFFICES ASSUME RefreshInit PROVE TreeInv
  OBVIOUS
<1>1. Orderly
  <2>1. stack \in Stacks
    BY DEF RefreshInit
  <2>2. InOneList(stack)
    BY <2>1, StacksAssumption, Zenon DEF InOneList, OrNull
  <2>3. NoneAboveItself(stack)
    BY <2>1, StacksAssumption, Zenon DEF NoneAboveItself
  <2> QED BY <2>2, <2>3 DEF Orderly
<1>2. Placing
  <2>1. place \in [Windows -> UNION {Places[w] : w \in Windows}]
        /\ \A w \in Windows : place[w] \in Places[w]
    BY DEF RefreshInit
  <2>2. \A w \in Windows : place[w] \in [y : Int, x : Int]
    BY <2>1, GeometryAssumption
  <2> QED BY <2>1, <2>2 DEF Placing
<1>3. height \in Int /\ width \in Int
  BY ClientsAssumption DEF RefreshInit, Init
<1> QED BY <1>1, <1>2, <1>3 DEF TreeInv

LEMMA StepTree == TreeInv /\ [RefreshNext]_allVars => TreeInv'
<1> SUFFICES ASSUME TreeInv, [RefreshNext]_allVars PROVE TreeInv'
  OBVIOUS
<1>1. UNCHANGED <<stack, place, height, width>>
  <2>1. CASE UNCHANGED allVars
    BY <2>1 DEF allVars, winVars, vars
  <2>2. ASSUME NEW w \in Windows, Show(w) \/ Hide(w) PROVE UNCHANGED <<stack, place, height, width>>
    BY <2>2 DEF Show, Hide, vars
  <2>3. ASSUME NEW w \in Windows, NEW b \in BOOLEAN, SetDefaultAttrs(w, b)
        PROVE  UNCHANGED <<stack, place, height, width>>
    BY <2>3 DEF SetDefaultAttrs, vars
  <2>4. ASSUME NEW b \in BOOLEAN, SetTerminalAttrs(b)
        PROVE  UNCHANGED <<stack, place, height, width>>
    BY <2>4 DEF SetTerminalAttrs, vars
  <2>5. ASSUME NEW row \in 0 .. height - 1, RefreshLine(row)
        PROVE  UNCHANGED <<stack, place, height, width>>
    BY <2>5, Zenon DEF RefreshLine, winVars
  <2> QED BY <2>1, <2>2, <2>3, <2>4, <2>5, Zenon DEF RefreshNext
<1> QED BY <1>1 DEF TreeInv, Orderly, Placing

LEMMA TreeIsKept == RefreshSpec => []TreeInv
BY InitTree, StepTree, PTL DEF RefreshSpec

\* The windows are drawn from back to front, every shown one once and no hidden one,
\* whichever of them and of their parents are shown: what a window covers it is drawn
\* over, in the loop of _t3_win_refresh_term_line as in the search for a click.
THEOREM DrawnBackToFront == RefreshSpec => []BackToFront
<1>1. TreeInv => BackToFront
  BY VisitsInOrder DEF TreeInv
<1> QED BY <1>1, TreeIsKept, PTL

\* t3_win_at_location finds the foremost of the shown windows that have a cell, for any
\* number of windows, in any tree, of any sizes and at any places.
THEOREM ClicksFindForemost == RefreshSpec => []FindsForemost
<1>1. TreeInv => FindsForemost
  <2> SUFFICES ASSUME TreeInv, NEW row \in 0 .. height - 1, NEW x \in 0 .. width - 1
               PROVE  LET here == {w \in Windows : IsShown(w) /\ Covers(w, row, x)}
                      IN  IF here = {} THEN AtLocation(row, x) = Null
                          ELSE AtLocation(row, x)
                                   \in {w \in here : \A v \in here \ {w} : ~InFront(v, w)}
    BY Zenon DEF FindsForemost
  <2>1. row \in Int /\ x \in Int
    BY DEF TreeInv
  <2> QED BY <2>1, LastIsForemost DEF TreeInv
<1> QED BY <1>1, TreeIsKept, PTL
=============================================================================
