------------------------ MODULE WindowGeometryProofs ------------------------
(***************************************************************************)
(* Proofs about WindowGeometry, for every number of windows and every way  *)
(* in which they refer to each other without a loop.                       *)
(***************************************************************************)
EXTENDS WindowGeometry, TLAPS

Places == AllWindows \cup {Null}

\* The references, relations, offsets and sizes are what the functions make them.
PlaceInv ==
    /\ refs \in [AllWindows -> [parent : Places, anchor : Places, restrict : Places]]
    /\ refs[Terminal] = NoRefs
    /\ \A S \in SUBSET Windows : S # {} => \E w \in S : RefsOf(refs, w) \cap S = {}
    /\ relation \in [AllWindows -> Relations]
    /\ \A w \in AllWindows : refs[w].anchor = Null => relation[w] = TopLeft
    /\ offset \in [AllWindows -> [Axes -> Int]] /\ \A d \in Axes : offset[Terminal][d] = 0
    /\ size \in [AllWindows -> [Axes -> Nat \ {0}]] /\ size[Terminal] = ScreenSize

LEMMA InitPlaces == Init => PlaceInv
<1> SUFFICES ASSUME Init PROVE PlaceInv
  OBVIOUS
<1>1. PICK s \in Structures : refs = [w \in AllWindows |-> IF w = Terminal THEN NoRefs ELSE s[w]]
  BY DEF Init
<1>2. /\ s \in [Windows -> [parent : Places, anchor : Places, restrict : Places]]
      /\ \A S \in SUBSET Windows : S # {} => \E w \in S : RefsOf(s, w) \cap S = {}
  BY StructuresAssumption DEF Places
<1>3. NoRefs \in [parent : Places, anchor : Places, restrict : Places] /\ NoRefs.anchor = Null
  BY DEF NoRefs, Places
<1>4. refs \in [AllWindows -> [parent : Places, anchor : Places, restrict : Places]]
  BY <1>1, <1>2, <1>3 DEF AllWindows
<1>5. refs[Terminal] = NoRefs /\ \A w \in Windows : refs[w] = s[w]
  BY <1>1, WindowsAssumption DEF AllWindows
<1>6. \A S \in SUBSET Windows : S # {} => \E w \in S : RefsOf(refs, w) \cap S = {}
  BY <1>2, <1>5 DEF RefsOf
<1>7. relation \in [AllWindows -> Relations] /\ \A w \in AllWindows : relation[w] = TopLeft
  BY DEF Init, TopLeft, Relations, AnchorPoints
<1>8. PICK o \in [Axes -> Offsets], z \in [Axes -> Sizes] :
          /\ offset = [w \in AllWindows |-> IF w = Terminal THEN [d \in Axes |-> 0] ELSE o]
          /\ size = [w \in AllWindows |-> IF w = Terminal THEN ScreenSize ELSE z]
  BY DEF Init
<1>9. Terminal \in AllWindows
  BY DEF AllWindows
<1>10. offset \in [AllWindows -> [Axes -> Int]] /\ \A d \in Axes : offset[Terminal][d] = 0
  <2>1. o \in [Axes -> Int]
    BY OffsetsAssumption
  <2>4. [d \in Axes |-> 0] \in [Axes -> Int]
    OBVIOUS
  <2>2. offset \in [AllWindows -> [Axes -> Int]]
    BY <1>8, <2>1, <2>4
  <2>3. offset[Terminal] = [d \in Axes |-> 0]
    BY <1>8, <1>9
  <2> QED BY <2>2, <2>3
<1>11. size \in [AllWindows -> [Axes -> Nat \ {0}]] /\ size[Terminal] = ScreenSize
  BY <1>8, <1>9, SizesAssumption
<1> QED BY <1>4, <1>5, <1>6, <1>7, <1>10, <1>11 DEF PlaceInv

LEMMA NextPlaces == PlaceInv /\ [Next]_vars => PlaceInv'
<1> SUFFICES ASSUME PlaceInv, [Next]_vars PROVE PlaceInv'
  OBVIOUS
<1>0. \A w \in Windows : w \in AllWindows /\ w # Terminal
  BY WindowsAssumption DEF AllWindows
<1>1. ASSUME NEW w \in Windows, NEW o \in [Axes -> Offsets], Move(w, o) PROVE PlaceInv'
  <2>1. /\ offset' = [offset EXCEPT ![w] = o] /\ refs' = refs /\ relation' = relation
        /\ size' = size
    BY <1>1 DEF Move
  <2>2. /\ offset' \in [AllWindows -> [Axes -> Int]]
        /\ \A d \in Axes : offset'[Terminal][d] = 0
    <3>1. o \in [Axes -> Int]
      BY OffsetsAssumption
    <3>2. Terminal \in AllWindows /\ Terminal # w /\ w \in AllWindows
      BY <1>0 DEF AllWindows
    <3> QED BY <2>1, <3>1, <3>2 DEF PlaceInv
  <2> QED BY <2>1, <2>2 DEF PlaceInv, RefsOf
<1>2. ASSUME NEW w \in Windows, NEW z \in [Axes -> Sizes], Resize(w, z) PROVE PlaceInv'
  <2>1. /\ size' = [size EXCEPT ![w] = z] /\ refs' = refs /\ relation' = relation
        /\ offset' = offset
    BY <1>2 DEF Resize
  <2>2. size' \in [AllWindows -> [Axes -> Nat \ {0}]] /\ size'[Terminal] = ScreenSize
    <3>1. z \in [Axes -> Nat \ {0}]
      BY SizesAssumption
    <3>2. Terminal \in AllWindows /\ Terminal # w /\ w \in AllWindows
      BY <1>0 DEF AllWindows
    <3> QED BY <2>1, <3>1, <3>2 DEF PlaceInv
  <2> QED BY <2>1, <2>2 DEF PlaceInv, RefsOf
<1>3. ASSUME NEW w \in Windows, NEW r \in Relations, SetRelation(w, r) PROVE PlaceInv'
  <2>1. /\ relation' = [relation EXCEPT ![w] = r] /\ refs' = refs /\ size' = size
        /\ offset' = offset
        /\ refs[w].anchor = Null => r = TopLeft
    BY <1>3 DEF SetRelation
  <2>2. /\ relation' \in [AllWindows -> Relations]
        /\ \A v \in AllWindows : refs'[v].anchor = Null => relation'[v] = TopLeft
    <3>1. relation' \in [AllWindows -> Relations]
      BY <1>0, <2>1 DEF PlaceInv
    <3>2. ASSUME NEW v \in AllWindows, refs'[v].anchor = Null PROVE relation'[v] = TopLeft
      <4>1. relation \in [AllWindows -> Relations] /\ (refs[v].anchor = Null => relation[v] = TopLeft)
        BY DEF PlaceInv
      <4>2. relation'[v] = IF v = w THEN r ELSE relation[v]
        BY <1>0, <2>1, <4>1
      <4>3. CASE v = w
        BY <2>1, <3>2, <4>2, <4>3
      <4>4. CASE v # w
        BY <2>1, <3>2, <4>1, <4>2, <4>4
      <4> QED BY <4>3, <4>4
    <3> QED BY <3>1, <3>2
  <2>3. /\ refs' \in [AllWindows -> [parent : Places, anchor : Places, restrict : Places]]
        /\ refs'[Terminal] = NoRefs
        /\ \A S \in SUBSET Windows : S # {} => \E v \in S : RefsOf(refs', v) \cap S = {}
        /\ offset' \in [AllWindows -> [Axes -> Int]] /\ \A d \in Axes : offset'[Terminal][d] = 0
        /\ size' \in [AllWindows -> [Axes -> Nat \ {0}]] /\ size'[Terminal] = ScreenSize
    BY <2>1 DEF PlaceInv, RefsOf
  <2> QED BY <2>2, <2>3 DEF PlaceInv
<1>4. CASE UNCHANGED vars
  BY <1>4 DEF vars, PlaceInv, RefsOf
<1> QED BY <1>1, <1>2, <1>3, <1>4 DEF Next

\* The invariant holds in all behaviours.
THEOREM PlacesInOrder == Spec => []PlaceInv
BY InitPlaces, NextPlaces, PTL DEF Spec

-----------------------------------------------------------------------------
(* AbsPosition is a function that follows the references; that there is one *)
(* is due to the absence of loops.                                          *)

\* g is what the functions return for the windows of D, which refer to windows of D.
Solves(d, D, g) ==
    /\ D \subseteq Places /\ Null \in D
    /\ \A w \in D \ {Null} : RefsOf(refs, w) \subseteq D
    /\ g = [w \in D |-> IF w = Null THEN 0 ELSE Placed(d, g, w)]

LEMMA LoopFree ==
    ASSUME PlaceInv, NEW S \in SUBSET AllWindows, S # {}
    PROVE  \E w \in S : RefsOf(refs, w) \cap S = {}
<1>1. CASE Terminal \in S
  <2>1. RefsOf(refs, Terminal) = {Null}
    BY DEF PlaceInv, RefsOf, NoRefs
  <2>2. Null \notin S
    BY WindowsAssumption
  <2> QED BY <1>1, <2>1, <2>2
<1>2. CASE Terminal \notin S
  <2>1. S \in SUBSET Windows
    BY <1>2 DEF AllWindows
  <2> QED BY <2>1 DEF PlaceInv
<1> QED BY <1>1, <1>2

LEMMA RefsArePlaces ==
    ASSUME PlaceInv, NEW w \in AllWindows
    PROVE  RefsOf(refs, w) \subseteq Places
<1>1. refs[w] \in [parent : Places, anchor : Places, restrict : Places]
  BY DEF PlaceInv
<1> QED BY <1>1 DEF RefsOf

\* The position of a window depends on those of the windows it refers to.
LEMMA SamePlace ==
    ASSUME NEW d, NEW w, NEW g, NEW h, \A v \in RefsOf(refs, w) : g[v] = h[v]
    PROVE  Placed(d, g, w) = Placed(d, h, w)
<1>1. /\ g[refs[w].parent] = h[refs[w].parent] /\ g[refs[w].anchor] = h[refs[w].anchor]
      /\ g[refs[w].restrict] = h[refs[w].restrict]
  BY DEF RefsOf
<1>2. g[IF refs[w].anchor = Null THEN refs[w].parent ELSE refs[w].anchor]
          = h[IF refs[w].anchor = Null THEN refs[w].parent ELSE refs[w].anchor]
  BY <1>1
<1> QED BY <1>1, <1>2, Zenon DEF Placed

LEMMA PlacesAgree ==
    ASSUME PlaceInv, NEW d, NEW D, NEW E, NEW g, NEW h, Solves(d, D, g), Solves(d, E, h)
    PROVE  \A w \in D \cap E : g[w] = h[w]
<1> DEFINE T == {w \in D \cap E : g[w] # h[w]}
<1>1. /\ \A w \in D : g[w] = IF w = Null THEN 0 ELSE Placed(d, g, w)
      /\ \A w \in E : h[w] = IF w = Null THEN 0 ELSE Placed(d, h, w)
  BY DEF Solves
<1> SUFFICES ASSUME T # {} PROVE FALSE
  OBVIOUS
<1>2. T \in SUBSET AllWindows /\ Null \notin T
  BY <1>1 DEF Solves, Places
<1>3. PICK w \in T : RefsOf(refs, w) \cap T = {}
  BY <1>2, LoopFree
<1>4. RefsOf(refs, w) \subseteq D \cap E /\ w # Null
  BY <1>2, <1>3 DEF Solves
<1>5. \A v \in RefsOf(refs, w) : g[v] = h[v]
  BY <1>3, <1>4
<1>6. Placed(d, g, w) = Placed(d, h, w)
  BY <1>5, SamePlace
<1> QED BY <1>1, <1>3, <1>4, <1>6

LEMMA AllSolved ==
    ASSUME PlaceInv, NEW d
    PROVE  \E g : Solves(d, Places, g)
<1> DEFINE Ds == {D \in SUBSET Places : \E g : Solves(d, D, g)}
           U == UNION Ds
           sol(D) == CHOOSE g : Solves(d, D, g)
           of(w) == CHOOSE D \in Ds : w \in D
           h == [w \in U |-> sol(of(w))[w]]
<1>1. {Null} \in Ds
  <2>1. Solves(d, {Null}, [w \in {Null} |-> 0])
    BY DEF Solves, Places
  <2> QED BY <2>1 DEF Places
<1>2. \A D \in Ds : Solves(d, D, sol(D))
  OBVIOUS
<1>3. \A w \in U : of(w) \in Ds /\ w \in of(w)
  OBVIOUS
<1> HIDE DEF sol, of
<1>4. ASSUME NEW D \in Ds, NEW w \in D PROVE h[w] = sol(D)[w]
  <2>1. w \in U /\ of(w) \in Ds /\ w \in of(w)
    BY <1>3
  <2>2. sol(of(w))[w] = sol(D)[w]
    <3>1. Solves(d, D, sol(D)) /\ Solves(d, of(w), sol(of(w)))
      BY <1>2, <2>1
    <3>2. w \in of(w) \cap D
      BY <2>1
    <3> QED BY <3>1, <3>2, PlacesAgree
  <2> QED BY <2>1, <2>2
<1>5. Solves(d, U, h)
  <2>1. U \subseteq Places /\ Null \in U
    BY <1>1
  <2>2. ASSUME NEW w \in U \ {Null}
        PROVE  RefsOf(refs, w) \subseteq U /\ h[w] = Placed(d, h, w)
    <3>1. PICK D \in Ds : w \in D
      OBVIOUS
    <3>2. Solves(d, D, sol(D))
      BY <1>2
    <3>3. RefsOf(refs, w) \subseteq D
      BY <3>1, <3>2 DEF Solves
    <3>4. \A v \in RefsOf(refs, w) : sol(D)[v] = h[v]
      BY <1>4, <3>3
    <3>5. Placed(d, sol(D), w) = Placed(d, h, w)
      BY <3>4, SamePlace
    <3>6. sol(D)[w] = Placed(d, sol(D), w)
      BY <3>1, <3>2 DEF Solves
    <3>7. h[w] = sol(D)[w]
      BY <1>4, <3>1
    <3> QED BY <3>3, <3>5, <3>6, <3>7
  <2>3. h[Null] = 0
    <3>1. Null \in {Null}
      OBVIOUS
    <3>2. h[Null] = sol({Null})[Null]
      BY <1>1, <1>4, <3>1
    <3>3. Solves(d, {Null}, sol({Null}))
      BY <1>1, <1>2
    <3> QED BY <3>2, <3>3 DEF Solves
  <2>4. \A w \in U : h[w] = IF w = Null THEN 0 ELSE Placed(d, h, w)
    BY <2>2, <2>3
  <2>5. h = [w \in U |-> h[w]]
    OBVIOUS
  <2> HIDE DEF h, U
  <2>6. h = [w \in U |-> IF w = Null THEN 0 ELSE Placed(d, h, w)]
    BY <2>4, <2>5
  <2> QED BY <2>1, <2>2, <2>6 DEF Solves
<1> HIDE DEF h
<1>6. U = Places
  <2> SUFFICES ASSUME U # Places PROVE FALSE
    OBVIOUS
  <2>1. U \subseteq Places /\ Null \in U
    BY <1>5 DEF Solves
  <2>2. Places \ U \in SUBSET AllWindows /\ Places \ U # {}
    BY <2>1 DEF Places
  <2>3. PICK w \in Places \ U : RefsOf(refs, w) \cap (Places \ U) = {}
    BY <2>2, LoopFree
  <2>4. RefsOf(refs, w) \subseteq U /\ w # Null
    BY <2>1, <2>2, <2>3, RefsArePlaces
  <2> DEFINE E == U \cup {w}
             k == [v \in E |-> IF v \in U THEN h[v] ELSE Placed(d, h, w)]
  <2>5. \A v \in U : k[v] = h[v]
    OBVIOUS
  <2>6. ASSUME NEW v \in E \ {Null}
        PROVE  RefsOf(refs, v) \subseteq E /\ k[v] = Placed(d, k, v)
    <3>1. RefsOf(refs, v) \subseteq U /\ k[v] = Placed(d, h, v)
      <4>1. CASE v \in U
        <5>1. RefsOf(refs, v) \subseteq U /\ h[v] = Placed(d, h, v)
          BY <1>5, <2>6, <4>1 DEF Solves
        <5> QED BY <4>1, <5>1
      <4>2. CASE v \notin U
        BY <2>4, <4>2
      <4> QED BY <4>1, <4>2
    <3>2. \A u \in RefsOf(refs, v) : h[u] = k[u]
      BY <2>5, <3>1
    <3>3. Placed(d, h, v) = Placed(d, k, v)
      <4> HIDE DEF k
      <4> QED BY <3>2, SamePlace
    <3> QED BY <3>1, <3>3
  <2>7. k[Null] = 0 /\ Null \in E /\ E \subseteq Places /\ w \in E
    BY <1>5, <2>1, <2>5 DEF Solves
  <2>8. k = [v \in E |-> k[v]]
    OBVIOUS
  <2> HIDE DEF k, E
  <2>9. k = [v \in E |-> IF v = Null THEN 0 ELSE Placed(d, k, v)]
    BY <2>6, <2>7, <2>8
  <2>10. Solves(d, E, k)
    BY <2>6, <2>7, <2>9 DEF Solves
  <2>11. E \in Ds
    BY <2>7, <2>10
  <2> QED BY <2>3, <2>7, <2>11
<1> QED BY <1>5, <1>6

\* t3_win_get_abs_y and t3_win_get_abs_x return for each window what they compute from
\* the results for the windows it refers to.
LEMMA Position ==
    ASSUME PlaceInv, NEW d
    PROVE  /\ AbsPosition(d)[Null] = 0
           /\ \A w \in AllWindows : AbsPosition(d)[w] = Placed(d, AbsPosition(d), w)
<1> DEFINE f == CHOOSE g : g = [w \in AllWindows \cup {Null} |->
                                   IF w = Null THEN 0 ELSE Placed(d, g, w)]
<1>1. \E g : g = [w \in AllWindows \cup {Null} |-> IF w = Null THEN 0 ELSE Placed(d, g, w)]
  <2>1. PICK g : Solves(d, Places, g)
    BY AllSolved
  <2> QED BY <2>1 DEF Solves, Places
<1>2. f = [w \in AllWindows \cup {Null} |-> IF w = Null THEN 0 ELSE Placed(d, f, w)]
  BY <1>1, Zenon
<1>3. AbsPosition(d) = f
  BY DEF AbsPosition
<1> HIDE DEF f
<1>4. Null \notin AllWindows
  BY WindowsAssumption
<1> QED BY <1>2, <1>3, <1>4

\* The points of a window are whole cells from its corner.
LEMMA ShiftIsNumber ==
    ASSUME PlaceInv, NEW d \in Axes, NEW w \in AllWindows, NEW p
    PROVE  PointShift(d, w, p) \in Nat /\ size[w][d] \in Nat
<1>1. size[w][d] \in Nat
  BY DEF PlaceInv
<1> DEFINE n == size[w][d]
<1> HIDE DEF n
<1>2. n \in Nat /\ n \div 2 \in Nat
  BY <1>1 DEF n
<1> QED BY <1>2 DEF PointShift, n

\* A point at the far edge or in the middle is one of an anchor.
LEMMA AnchorNamed ==
    ASSUME PlaceInv, NEW d \in Axes, NEW w \in AllWindows,
           relation[w].parent \in FarEdge[d] \cup Middle[d]
    PROVE  refs[w].anchor \in AllWindows
<1>1. relation[w] # TopLeft
  BY DEF TopLeft, FarEdge, Middle, Axes
<1> QED BY <1>1 DEF PlaceInv, Places

\* The position of a window before it is shifted into the one it is restricted to.
Start(d, abs, w) ==
    LET near == IF refs[w].anchor = Null THEN refs[w].parent ELSE refs[w].anchor
        from == IF relation[w].parent \in FarEdge[d] \cup Middle[d]
                THEN abs[refs[w].anchor] + PointShift(d, refs[w].anchor, relation[w].parent)
                ELSE abs[near]
    IN  from + offset[w][d] - PointShift(d, w, relation[w].child)

LEMMA PlacedFromStart ==
    ASSUME NEW d, NEW abs, NEW w
    PROVE  Placed(d, abs, w)
               = IF refs[w].restrict = Null THEN Start(d, abs, w)
                 ELSE Restricted(Start(d, abs, w), size[w][d], abs[refs[w].restrict],
                                 size[refs[w].restrict][d])
BY DEF Placed, Start

LEMMA StartIsNumber ==
    ASSUME PlaceInv, NEW d \in Axes, NEW w \in AllWindows, NEW abs,
           abs[refs[w].parent] \in Int, abs[refs[w].anchor] \in Int
    PROVE  Start(d, abs, w) \in Int
<1> DEFINE near == IF refs[w].anchor = Null THEN refs[w].parent ELSE refs[w].anchor
           from == IF relation[w].parent \in FarEdge[d] \cup Middle[d]
                   THEN abs[refs[w].anchor] + PointShift(d, refs[w].anchor, relation[w].parent)
                   ELSE abs[near]
<1>1. from \in Int
  <2>1. CASE relation[w].parent \in FarEdge[d] \cup Middle[d]
    <3>1. PointShift(d, refs[w].anchor, relation[w].parent) \in Nat
      BY <2>1, AnchorNamed, ShiftIsNumber
    <3> QED BY <2>1, <3>1
  <2>2. CASE relation[w].parent \notin FarEdge[d] \cup Middle[d]
    BY <2>2
  <2> QED BY <2>1, <2>2
<1>2. PointShift(d, w, relation[w].child) \in Nat
  BY ShiftIsNumber
<1>3. offset[w][d] \in Int
  BY DEF PlaceInv
<1>4. Start(d, abs, w) = from + offset[w][d] - PointShift(d, w, relation[w].child)
  BY DEF Start
<1> HIDE DEF from
<1> QED BY <1>1, <1>2, <1>3, <1>4

\* They return a number for every window.
LEMMA PositionIsNumber ==
    ASSUME PlaceInv, NEW d \in Axes, NEW w \in Places
    PROVE  AbsPosition(d)[w] \in Int
<1> DEFINE abs == AbsPosition(d)
           T == {v \in AllWindows : abs[v] \notin Int}
<1>1. abs[Null] = 0 /\ \A v \in AllWindows : abs[v] = Placed(d, abs, v)
  BY Position
<1> HIDE DEF abs
<1>2. T = {}
  <2> SUFFICES ASSUME T # {} PROVE FALSE
    OBVIOUS
  <2>1. PICK v \in T : RefsOf(refs, v) \cap T = {}
    BY LoopFree
  <2>2. \A u \in RefsOf(refs, v) : abs[u] \in Int
    <3>1. RefsOf(refs, v) \subseteq Places
      BY RefsArePlaces
    <3> QED BY <1>1, <2>1, <3>1 DEF Places
  <2>3. /\ abs[refs[v].parent] \in Int /\ abs[refs[v].anchor] \in Int
        /\ abs[refs[v].restrict] \in Int
    BY <2>2 DEF RefsOf
  <2>4. v \in AllWindows /\ abs[v] = Placed(d, abs, v) /\ abs[v] \notin Int
    BY <1>1, <2>1
  <2> DEFINE r == refs[v].restrict
  <2>5. Start(d, abs, v) \in Int
    BY <2>3, <2>4, StartIsNumber
  <2>6. size[v][d] \in Nat
    BY <2>4, ShiftIsNumber
  <2>7. r # Null => size[r][d] \in Nat
    <3>1. r \in Places
      BY <2>4 DEF PlaceInv
    <3> QED BY <3>1, ShiftIsNumber DEF Places
  <2>8. r # Null => Restricted(Start(d, abs, v), size[v][d], abs[r], size[r][d]) \in Int
    BY <2>3, <2>5, <2>6, <2>7 DEF Restricted
  <2> QED BY <2>4, <2>5, <2>8, PlacedFromStart
<1>3. w \in AllWindows \/ w = Null
  BY DEF Places
<1> QED BY <1>1, <1>2, <1>3 DEF abs

-----------------------------------------------------------------------------
\* The switch statements name the points of the anchor correctly.
LEMMA ShiftOfPoint ==
    ASSUME PlaceInv, NEW d \in Axes, NEW w \in AllWindows, NEW p \in AnchorPoints
    PROVE  /\ PointShift(d, w, p) = (size[w][d] * Halves[p][d]) \div 2
           /\ p \notin FarEdge[d] \cup Middle[d] => PointShift(d, w, p) = 0
<1> DEFINE n == size[w][d]
<1>1. n \in Nat
  BY ShiftIsNumber
<1>2. /\ p \in FarEdge[d] <=> Halves[p][d] = 2
      /\ p \in Middle[d] <=> Halves[p][d] = 1
      /\ Halves[p][d] \in {0, 1, 2}
  BY DEF FarEdge, Middle, Halves, Axes, AnchorPoints
<1> HIDE DEF n
<1>3. (n * 0) \div 2 = 0 /\ (n * 1) \div 2 = n \div 2 /\ (n * 2) \div 2 = n
  BY <1>1
<1>4. CASE Halves[p][d] = 2
  BY <1>2, <1>3, <1>4 DEF PointShift, n
<1>5. CASE Halves[p][d] = 1
  BY <1>2, <1>3, <1>5 DEF PointShift, n
<1>6. CASE Halves[p][d] = 0
  BY <1>2, <1>3, <1>6 DEF PointShift, n
<1> QED BY <1>2, <1>4, <1>5, <1>6

LEMMA PlacesMeet == PlaceInv => PointsMeet
<1> SUFFICES ASSUME PlaceInv, NEW w \in Windows, NEW d \in Axes,
                    refs[w].anchor # Null, refs[w].restrict = Null
             PROVE  PointOf(d, w, relation[w].child)
                        = PointOf(d, refs[w].anchor, relation[w].parent) + offset[w][d]
  BY DEF PointsMeet
<1> DEFINE abs == AbsPosition(d)
           a == refs[w].anchor
           p == relation[w].parent
           c == relation[w].child
<1>1. w \in AllWindows
  BY DEF AllWindows
<1>2. a \in AllWindows /\ p \in AnchorPoints /\ c \in AnchorPoints /\ offset[w][d] \in Int
  <2>1. refs[w] \in [parent : Places, anchor : Places, restrict : Places]
    BY <1>1 DEF PlaceInv
  <2>2. relation[w] \in Relations
    BY <1>1 DEF PlaceInv
  <2>3. offset[w][d] \in Int
    BY <1>1 DEF PlaceInv
  <2> QED BY <2>1, <2>2, <2>3 DEF Places, Relations
<1>3. /\ PointShift(d, w, c) = (size[w][d] * Halves[c][d]) \div 2
      /\ PointShift(d, a, p) = (size[a][d] * Halves[p][d]) \div 2
      /\ p \notin FarEdge[d] \cup Middle[d] => PointShift(d, a, p) = 0
  BY <1>1, <1>2, ShiftOfPoint
<1>4. PointShift(d, w, c) \in Nat /\ PointShift(d, a, p) \in Nat
  BY <1>1, <1>2, ShiftIsNumber
<1>5. abs[w] = Start(d, abs, w)
  BY <1>1, Position, PlacedFromStart
<1>6. abs[a] \in Int
  BY <1>2, PositionIsNumber DEF Places
<1>7. PointOf(d, w, c) = abs[w] + PointShift(d, w, c)
  BY <1>3 DEF PointOf
<1>8. PointOf(d, a, p) = abs[a] + PointShift(d, a, p)
  BY <1>3 DEF PointOf
<1> HIDE DEF abs
<1>9. Start(d, abs, w) = abs[a] + PointShift(d, a, p) + offset[w][d] - PointShift(d, w, c)
  <2> DEFINE from == IF p \in FarEdge[d] \cup Middle[d] THEN abs[a] + PointShift(d, a, p) ELSE abs[a]
  <2>1. Start(d, abs, w) = from + offset[w][d] - PointShift(d, w, c)
    BY DEF Start
  <2>2. from = abs[a] + PointShift(d, a, p)
    BY <1>3, <1>4, <1>6
  <2> QED BY <2>1, <2>2
<1> HIDE DEF a, p, c
<1>10. PointOf(d, w, c) = PointOf(d, a, p) + offset[w][d]
  BY <1>2, <1>4, <1>5, <1>6, <1>7, <1>8, <1>9
<1> QED BY <1>10 DEF a, p, c

\* The points that a relation names are at the offset from each other, in every behaviour
\* and over every chain of anchors.
THEOREM AnchoredPointsMeet == Spec => []PointsMeet
BY PlacesInOrder, PlacesMeet, PTL

-----------------------------------------------------------------------------
\* The two tests of the restriction, in the order they are made, from the first cell.
LEMMA RestrictedInside ==
    ASSUME NEW pos \in Int, NEW len \in Nat, NEW n \in Nat
    PROVE  /\ len <= n => /\ 0 <= Restricted(pos, len, 0, n)
                          /\ Restricted(pos, len, 0, n) + len <= n
           /\ len >= n => Restricted(pos, len, 0, n) = 0
BY DEF Restricted

LEMMA TerminalAtOrigin ==
    ASSUME PlaceInv, NEW d \in Axes
    PROVE  AbsPosition(d)[Terminal] = 0
<1> DEFINE abs == AbsPosition(d)
<1>1. Terminal \in AllWindows
  BY DEF AllWindows
<1>2. refs[Terminal] = NoRefs /\ relation[Terminal] = TopLeft /\ offset[Terminal][d] = 0
  BY <1>1 DEF PlaceInv, NoRefs
<1>3. abs[Null] = 0 /\ abs[Terminal] = Placed(d, abs, Terminal)
  BY <1>1, Position
<1> HIDE DEF abs
<1>4. "topleft" \notin FarEdge[d] \cup Middle[d]
  BY DEF FarEdge, Middle, Axes
<1>5. PointShift(d, Terminal, "topleft") = 0
  BY <1>4 DEF PointShift
<1>6. Start(d, abs, Terminal) = 0
  BY <1>2, <1>3, <1>4, <1>5 DEF Start, TopLeft, NoRefs
<1>7. abs[Terminal] = 0
  BY <1>2, <1>3, <1>6, PlacedFromStart DEF NoRefs
<1> QED BY <1>7 DEF abs

LEMMA PlacesInside == PlaceInv => InsideTerminal
<1> SUFFICES ASSUME PlaceInv, NEW w \in Windows, refs[w].restrict = Terminal, NEW d \in Axes
             PROVE  /\ size[w][d] <= size[Terminal][d] =>
                           /\ AbsPosition(d)[Terminal] <= AbsPosition(d)[w]
                           /\ AbsPosition(d)[w] + size[w][d]
                                  <= AbsPosition(d)[Terminal] + size[Terminal][d]
                    /\ size[w][d] >= ScreenSize[d] => AbsPosition(d)[w] = 0
  BY DEF InsideTerminal, InsideOf
<1> DEFINE abs == AbsPosition(d)
<1>1. w \in AllWindows /\ Terminal \in AllWindows /\ Terminal # Null
  BY WindowsAssumption DEF AllWindows
<1>2. refs[w].parent \in Places /\ refs[w].anchor \in Places
  BY <1>1, RefsArePlaces DEF RefsOf
<1>3. abs[refs[w].parent] \in Int /\ abs[refs[w].anchor] \in Int
  BY <1>2, PositionIsNumber
<1>4. Start(d, abs, w) \in Int
  BY <1>1, <1>3, StartIsNumber
<1>5. size[w][d] \in Nat /\ size[Terminal][d] \in Nat
  BY <1>1, ShiftIsNumber
<1>6. size[Terminal][d] = ScreenSize[d]
  BY DEF PlaceInv
<1>7. abs[Terminal] = 0
  BY TerminalAtOrigin
<1>8. abs[w] = Placed(d, abs, w)
  BY <1>1, Position
<1> HIDE DEF abs
<1>9. abs[w] = Restricted(Start(d, abs, w), size[w][d], 0, size[Terminal][d])
  BY <1>1, <1>7, <1>8, PlacedFromStart
<1>10. /\ size[w][d] <= size[Terminal][d] =>
              /\ abs[Terminal] <= abs[w]
              /\ abs[w] + size[w][d] <= abs[Terminal] + size[Terminal][d]
       /\ size[w][d] >= ScreenSize[d] => abs[w] = 0
  <2>1. abs[w] \in Int
    BY <1>1, PositionIsNumber DEF Places, abs
  <2> QED BY <1>4, <1>5, <1>6, <1>7, <1>9, <2>1, RestrictedInside
<1> QED BY <1>10 DEF abs

\* A window restricted to the terminal is inside it, or starts at its edge when too large.
THEOREM RestrictedWindowsInside == Spec => []InsideTerminal
BY PlacesInOrder, PlacesInside, PTL
=============================================================================
