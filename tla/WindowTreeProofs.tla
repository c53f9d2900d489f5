-------------------------- MODULE WindowTreeProofs --------------------------
(***************************************************************************)
(* Proofs about WindowTree, for any set of windows, depths and relations:  *)
(* the references never form a cycle and the lists stay well formed.       *)
(***************************************************************************)
EXTENDS WindowTree, TLAPS

-----------------------------------------------------------------------------
(* References. *)

\* Giving one window new references keeps the tree free of loops when has_loops,
\* called as the setters call it, does not reach that window from itself.
LEMMA NoLoopThroughNewRef ==
    ASSUME NEW w \in AllWindows,
           NEW par, NEW anc, NEW res, NEW par2, NEW anc2, NEW res2,
           LoopFree(par, anc, res),
           \A v \in AllWindows \ {w} : Refs(par2, anc2, res2, v) = Refs(par, anc, res, v),
           ~HasLoops(par2, anc2, res2, w, w)
    PROVE  LoopFree(par2, anc2, res2)
<1> DEFINE R(v) == Refs(par, anc, res, v)
           R2(v) == Refs(par2, anc2, res2, v)
<1>1. PICK C \in SUBSET AllWindows : R2(w) \subseteq C /\ (\A c \in C : R2(c) \subseteq C) /\ w \notin C
  BY DEF HasLoops, ClosedUnderRefs
<1>2. SUFFICES ASSUME NEW S \in SUBSET AllWindows, S # {}, \A v \in S : R2(v) \cap S # {}
               PROVE  FALSE
  BY DEF LoopFree
<1>3. \A v \in AllWindows \ {w} : R2(v) = R(v)
  OBVIOUS
<1>4. \A T \in SUBSET AllWindows : T # {} => \E v \in T : R(v) \cap T = {}
  BY DEF LoopFree
<1> HIDE DEF R, R2
<1>5. CASE S \cap C # {}
  <2>1. \A v \in S \cap C : R(v) \cap (S \cap C) # {}
    BY <1>1, <1>2, <1>3
  <2> QED BY <1>4, <1>5, <2>1
<1>6. CASE S \cap C = {}
  <2>1. w \notin S
    BY <1>1, <1>2, <1>6
  <2>2. \A v \in S : R(v) \cap S # {}
    BY <1>2, <1>3, <2>1
  <2> QED BY <1>2, <1>4, <2>2
<1> QED BY <1>5, <1>6

\* References that disappear, or that lead to the terminal window, close no loop:
\* the terminal window refers to nothing.
LEMMA NoLoopThroughTerminal ==
    ASSUME NEW par, NEW anc, NEW res, NEW par2, NEW anc2, NEW res2,
           LoopFree(par, anc, res),
           \A v \in AllWindows :
               Refs(par2, anc2, res2, v) \subseteq Refs(par, anc, res, v) \cup {Terminal},
           Refs(par2, anc2, res2, Terminal) = {}
    PROVE  LoopFree(par2, anc2, res2)
<1> DEFINE R(v) == Refs(par, anc, res, v)
           R2(v) == Refs(par2, anc2, res2, v)
<1>1. SUFFICES ASSUME NEW S \in SUBSET AllWindows, S # {}, \A v \in S : R2(v) \cap S # {}
               PROVE  FALSE
  BY DEF LoopFree
<1>2. \A v \in S : R2(v) \subseteq R(v) \cup {Terminal}
  OBVIOUS
<1>3. \E v \in S : R(v) \cap S = {}
  BY <1>1 DEF LoopFree
<1>4. R2(Terminal) = {}
  OBVIOUS
<1> HIDE DEF R, R2
<1> QED BY <1>1, <1>2, <1>3, <1>4

\* A new window, which nothing refers to yet, closes no loop.
LEMMA NoLoopThroughNewWindow ==
    ASSUME NEW w \in AllWindows,
           NEW par, NEW anc, NEW res, NEW par2, NEW anc2, NEW res2,
           LoopFree(par, anc, res),
           \A v \in AllWindows \ {w} : /\ Refs(par2, anc2, res2, v) = Refs(par, anc, res, v)
                                       /\ w \notin Refs(par, anc, res, v),
           w \notin Refs(par2, anc2, res2, w)
    PROVE  LoopFree(par2, anc2, res2)
<1> DEFINE R(v) == Refs(par, anc, res, v)
           R2(v) == Refs(par2, anc2, res2, v)
<1>1. SUFFICES ASSUME NEW S \in SUBSET AllWindows, S # {}, \A v \in S : R2(v) \cap S # {}
               PROVE  FALSE
  BY DEF LoopFree
<1>2. \A v \in AllWindows \ {w} : R2(v) = R(v) /\ w \notin R(v)
  OBVIOUS
<1>3. w \notin R2(w)
  OBVIOUS
<1>4. S \ {w} # {} => \E v \in S \ {w} : R(v) \cap (S \ {w}) = {}
  BY DEF LoopFree
<1> HIDE DEF R, R2
<1>5. \A v \in S \ {w} : R(v) \cap (S \ {w}) # {}
  BY <1>1, <1>2
<1>6. S \ {w} # {}
  BY <1>1, <1>3
<1> QED BY <1>4, <1>5, <1>6

\* has_loops finds nothing where no window reaches itself.
LEMMA NoLoopNoneFound ==
    ASSUME NEW par, NEW anc, NEW res, LoopFree(par, anc, res),
           \A x \in AllWindows : Refs(par, anc, res, x) \subseteq AllWindows,
           NEW v \in AllWindows
    PROVE  ~HasLoops(par, anc, res, v, v)
<1> DEFINE R(x) == Refs(par, anc, res, x)
           Closed(C) == \A c \in C : R(c) \subseteq C
           U == UNION {C \in SUBSET AllWindows : Closed(C) /\ v \notin C}
           S == {x \in AllWindows : \A C \in SUBSET AllWindows : R(x) \subseteq C /\ Closed(C) => v \in C}
<1>1. SUFFICES ASSUME v \in S PROVE FALSE
  BY DEF HasLoops, ClosedUnderRefs
<1>2. PICK x \in S : R(x) \cap S = {}
  BY <1>1 DEF LoopFree
<1>3. \A y \in AllWindows : R(y) \subseteq AllWindows
  OBVIOUS
<1> HIDE DEF R
<1>4. U \in SUBSET AllWindows /\ Closed(U) /\ v \notin U
  OBVIOUS
<1>5. \A y \in AllWindows \ S : R(y) \subseteq U
  OBVIOUS
<1>6. R(x) \subseteq AllWindows \ S
  BY <1>2, <1>3
<1>7. Closed(U \cup R(x)) /\ v \notin U \cup R(x) /\ U \cup R(x) \in SUBSET AllWindows
  <2> HIDE DEF U, S
  <2> QED BY <1>1, <1>3, <1>4, <1>5, <1>6
<1>8. R(x) \subseteq U \cup R(x)
  OBVIOUS
<1> HIDE DEF U
<1> QED BY <1>7, <1>8

-----------------------------------------------------------------------------
(* Lists. *)

\* Taking a window out of a well-formed list leaves the lists well formed.
LEMMA RemoveKeepsLists ==
    ASSUME NEW M \in SUBSET Windows, NEW P \in SUBSET OrNull(Windows),
           NEW par \in [AllWindows -> OrNull(Windows)], NEW dep \in [AllWindows -> Int],
           NEW L \in ListPointers, WellLinked(L, par, dep, M, P),
           \A v \in M : par[v] \in P,
           NEW w \in M
    PROVE  /\ Remove(L, par[w], w) \in ListPointers
           /\ WellLinked(Remove(L, par[w], w), par, dep, M \ {w}, P)
<1> DEFINE p == par[w]
           n == L.next[w]
           b == L.prev[w]
           K == Remove(L, p, w)
<1> USE WindowsAssumption
<1>0. n \in OrNull(M) /\ b \in OrNull(M) /\ p \in P /\ Null \notin M /\ w # Null
  BY DEF WellLinked, PointsInside, OrNull
<1>1. K \in ListPointers
  BY <1>0 DEF Remove, ListPointers, OrNull
<1>2. /\ \A v \in M : K.next[v] = IF v = b THEN n ELSE L.next[v]
      /\ \A v \in M : K.prev[v] = IF v = n THEN b ELSE L.prev[v]
      /\ \A q \in P : K.head[q] = IF b = Null /\ q = p THEN n ELSE L.head[q]
      /\ \A q \in P : K.tail[q] = IF n = Null /\ q = p THEN b ELSE L.tail[q]
  BY <1>0 DEF Remove, ListPointers, OrNull
<1>3. /\ \A v \in M : L.next[v] \in OrNull(M) /\ L.prev[v] \in OrNull(M)
      /\ \A q \in P : L.head[q] \in OrNull(M) /\ L.tail[q] \in OrNull(M)
  BY DEF WellLinked, PointsInside, OrNull
<1>4. NeighboursAgree(L, par, M) /\ EndsAgree(L, par, M, P) /\ NoRings(L, M) /\ DepthSorted(L, dep, M)
  BY DEF WellLinked
<1>5. n # w /\ b # w
  <2>1. L.prev[w] # w
    <3>1. {w} \in SUBSET M /\ {w} # {}
      OBVIOUS
    <3>2. \E v \in {w} : L.prev[v] \notin {w}
      BY <1>4, <3>1 DEF NoRings
    <3> QED BY <3>2
  <2>2. L.next[w] = w => L.prev[w] = w
    BY <1>0, <1>4 DEF NeighboursAgree
  <2> QED BY <2>1, <2>2
<1> HIDE DEF K, n, b, p
<1>6. /\ n # Null => L.prev[n] = w /\ par[n] = p
      /\ b # Null => L.next[b] = w /\ par[b] = p
  BY <1>4 DEF NeighboursAgree, n, b, p
<1>7. /\ \A v \in M : L.next[v] = w => v = b
      /\ \A v \in M : L.prev[v] = w => v = n
      /\ \A q \in P : L.head[q] = w => q = p /\ b = Null
      /\ \A q \in P : L.tail[q] = w => q = p /\ n = Null
  BY <1>0, <1>4 DEF NeighboursAgree, EndsAgree, n, b, p
<1>8. PointsInside(K, M \ {w}, P)
  BY <1>0, <1>2, <1>3, <1>5, <1>7 DEF PointsInside, OrNull
<1>9. NeighboursAgree(K, par, M \ {w})
  <2> SUFFICES ASSUME NEW v \in M \ {w}
               PROVE /\ K.next[v] # Null => K.prev[K.next[v]] = v /\ par[K.next[v]] = par[v]
                     /\ K.prev[v] # Null => K.next[K.prev[v]] = v /\ par[K.prev[v]] = par[v]
    BY DEF NeighboursAgree
  <2>1. K.next[v] # Null => K.prev[K.next[v]] = v /\ par[K.next[v]] = par[v]
    BY <1>0, <1>2, <1>3, <1>4, <1>5, <1>6, <1>7 DEF NeighboursAgree, OrNull
  <2>2. K.prev[v] # Null => K.next[K.prev[v]] = v /\ par[K.prev[v]] = par[v]
    BY <1>0, <1>2, <1>3, <1>4, <1>5, <1>6, <1>7 DEF NeighboursAgree, OrNull
  <2> QED BY <2>1, <2>2
<1>10. EndsAgree(K, par, M \ {w}, P)
  <2>1. ASSUME NEW v \in M \ {w}
        PROVE  /\ K.next[v] = Null => K.tail[par[v]] = v
               /\ K.prev[v] = Null => K.head[par[v]] = v
    BY <1>0, <1>2, <1>3, <1>4, <1>5, <1>6, <1>7 DEF EndsAgree, NeighboursAgree, OrNull
  <2>2. ASSUME NEW q \in P
        PROVE  /\ K.head[q] # Null => par[K.head[q]] = q /\ K.prev[K.head[q]] = Null
               /\ K.tail[q] # Null => par[K.tail[q]] = q /\ K.next[K.tail[q]] = Null
    BY <1>0, <1>2, <1>3, <1>4, <1>5, <1>6, <1>7 DEF EndsAgree, NeighboursAgree, OrNull
  <2>3. ASSUME NEW q \in P
        PROVE  K.head[q] = Null <=> K.tail[q] = Null
    BY <1>0, <1>2, <1>3, <1>4, <1>5, <1>6, <1>7 DEF EndsAgree, NeighboursAgree, OrNull
  <2> QED BY <2>1, <2>2, <2>3 DEF EndsAgree
<1>11. NoRings(K, M \ {w})
  <2> SUFFICES ASSUME NEW S \in SUBSET (M \ {w}), S # {}, \A v \in S : K.prev[v] \in S
               PROVE  FALSE
    BY DEF NoRings
  <2>1. CASE n \notin S
    BY <1>2, <1>4, <2>1 DEF NoRings
  <2>2. CASE n \in S
    <3>1. b \in S
      BY <1>2, <2>2
    <3>2. \A v \in S \cup {w} : L.prev[v] \in S \cup {w}
      BY <1>2, <1>6, <2>2, <3>1 DEF b
    <3> QED BY <1>4, <3>2 DEF NoRings
  <2> QED BY <2>1, <2>2
<1>12. DepthSorted(K, dep, M \ {w})
  BY <1>0, <1>2, <1>3, <1>4, <1>6 DEF DepthSorted, OrNull, AllWindows, n
<1> QED BY <1>1, <1>8, <1>9, <1>10, <1>11, <1>12 DEF WellLinked, K, p

\* What the search of insert_window finds: nothing, and then every window of the
\* list is above depth d, or the window of that list that d goes in front of.
LEMMA SearchFindsPlace ==
    ASSUME NEW M \in SUBSET Windows, NEW P \in SUBSET OrNull(Windows),
           NEW par \in [AllWindows -> OrNull(Windows)], NEW dep \in [AllWindows -> Int],
           NEW L \in ListPointers, WellLinked(L, par, dep, M, P),
           \A v \in M : par[v] \in P,
           NEW p \in P, NEW d \in Int, NEW ptr \in OrNull(Windows),
           SearchEndsAt(L, dep, p, d, ptr)
    PROVE  /\ ptr = Null => L.tail[p] = Null \/ dep[L.tail[p]] < d
           /\ ptr # Null => /\ ptr \in M /\ par[ptr] = p /\ dep[ptr] >= d
                            /\ L.prev[ptr] # Null => dep[L.prev[ptr]] < d
<1> USE WindowsAssumption
<1> DEFINE Passed(v) == par[v] = p /\ (L.prev[v] # Null => dep[L.prev[v]] < d)
           V == {v \in M : Passed(v)}
                \cup (IF L.tail[p] = Null \/ dep[L.tail[p]] < d THEN {Null} ELSE {})
<1>1. V \in SUBSET OrNull(Windows)
  BY DEF OrNull
<1>2. PointsInside(L, M, P) /\ NeighboursAgree(L, par, M) /\ EndsAgree(L, par, M, P)
  BY DEF WellLinked
<1>3. Null \notin M /\ M \subseteq AllWindows
  BY DEF AllWindows
<1>4. L.head[p] \in V
  BY <1>2, <1>3 DEF PointsInside, EndsAgree, OrNull
<1>5. ASSUME NEW v \in V, v # Null, dep[v] < d
      PROVE  L.next[v] \in V
  <2>1. v \in M /\ par[v] = p
    BY <1>5
  <2>2. CASE L.next[v] = Null
    BY <1>2, <1>5, <2>1, <2>2 DEF EndsAgree
  <2>3. CASE L.next[v] # Null
    <3>1. L.next[v] \in M /\ L.prev[L.next[v]] = v /\ par[L.next[v]] = p
      BY <1>2, <2>1, <2>3 DEF PointsInside, NeighboursAgree, OrNull
    <3> QED BY <1>5, <3>1
  <2> QED BY <2>2, <2>3
<1>6. ClosedUnderSearch(V, L, dep, p, d)
  BY <1>4, <1>5 DEF ClosedUnderSearch
<1>7. ptr \in V
  BY <1>1, <1>6 DEF SearchEndsAt
<1>8. ptr # Null => dep[ptr] >= d
  BY DEF SearchEndsAt
<1> QED BY <1>3, <1>7, <1>8

\* Putting a window where the search ended keeps the lists well formed.
LEMMA InsertKeepsLists ==
    ASSUME NEW M \in SUBSET Windows, NEW P \in SUBSET OrNull(Windows),
           NEW par \in [AllWindows -> OrNull(Windows)], NEW dep \in [AllWindows -> Int],
           NEW L \in ListPointers, WellLinked(L, par, dep, M, P),
           \A v \in M : par[v] \in P,
           NEW p \in P, NEW w \in Windows \ M, par[w] = p,
           NEW ptr \in OrNull(Windows), SearchEndsAt(L, dep, p, dep[w], ptr)
    PROVE  /\ Insert(L, p, w, ptr) \in ListPointers
           /\ WellLinked(Insert(L, p, w, ptr), par, dep, M \cup {w}, P)
<1> DEFINE b == IF ptr = Null THEN L.tail[p] ELSE L.prev[ptr]
           d == dep[w]
           K == Insert(L, p, w, ptr)
<1> USE WindowsAssumption
<1>0. Null \notin M /\ w # Null /\ w \in AllWindows /\ M \subseteq AllWindows /\ d \in Int
  BY DEF AllWindows
<1>1. /\ \A v \in M : L.next[v] \in OrNull(M) /\ L.prev[v] \in OrNull(M)
      /\ \A q \in P : L.head[q] \in OrNull(M) /\ L.tail[q] \in OrNull(M)
  BY DEF WellLinked, PointsInside, OrNull
<1>2. NeighboursAgree(L, par, M) /\ EndsAgree(L, par, M, P) /\ NoRings(L, M) /\ DepthSorted(L, dep, M)
  BY DEF WellLinked
<1>3. /\ ptr = Null => L.tail[p] = Null \/ dep[L.tail[p]] < d
      /\ ptr # Null => /\ ptr \in M /\ par[ptr] = p /\ dep[ptr] >= d
                       /\ L.prev[ptr] # Null => dep[L.prev[ptr]] < d
  BY <1>0, SearchFindsPlace
<1>4. b \in OrNull(M) /\ ptr \in OrNull(M)
  BY <1>1, <1>3 DEF OrNull
<1>5. L.head[p] = Null => ptr = Null /\ b = Null
  <2> SUFFICES ASSUME L.head[p] = Null PROVE ptr = Null
    BY <1>2 DEF EndsAgree
  <2>1. ClosedUnderSearch({Null}, L, dep, p, d)
    BY DEF ClosedUnderSearch
  <2>2. {Null} \in SUBSET OrNull(Windows)
    BY DEF OrNull
  <2> QED BY <2>1, <2>2 DEF SearchEndsAt
<1>6. /\ b # Null => par[b] = p /\ L.next[b] = ptr /\ dep[b] < d
      /\ b = Null => L.head[p] = ptr
      /\ ptr # Null => L.prev[ptr] = b
      /\ ptr = Null => L.tail[p] = b
  BY <1>1, <1>2, <1>3, <1>4 DEF NeighboursAgree, EndsAgree, OrNull
<1>7. K \in ListPointers
  BY <1>4 DEF Insert, ListPointers, OrNull
<1>8. /\ \A v \in M : K.next[v] = IF v = b THEN w ELSE L.next[v]
      /\ \A v \in M : K.prev[v] = IF v = ptr THEN w ELSE L.prev[v]
      /\ K.next[w] = ptr /\ K.prev[w] = b
      /\ \A q \in P : K.head[q] = IF b = Null /\ q = p THEN w ELSE L.head[q]
      /\ \A q \in P : K.tail[q] = IF ptr = Null /\ q = p THEN w ELSE L.tail[q]
  <2>1. CASE L.head[p] = Null
    BY <1>0, <1>4, <1>5, <2>1 DEF Insert, ListPointers, OrNull
  <2>2. CASE L.head[p] # Null
    BY <1>0, <1>4, <2>2 DEF Insert, ListPointers, OrNull
  <2> QED BY <2>1, <2>2
<1> HIDE DEF K, b, d
<1>9. PointsInside(K, M \cup {w}, P)
  BY <1>0, <1>1, <1>4, <1>8 DEF PointsInside, OrNull
<1>10. NeighboursAgree(K, par, M \cup {w})
  <2>1. ASSUME NEW v \in M, K.next[v] # Null
        PROVE  K.prev[K.next[v]] = v /\ par[K.next[v]] = par[v]
    BY <1>0, <1>1, <1>2, <1>4, <1>6, <1>8, <2>1 DEF NeighboursAgree, OrNull
  <2>2. ASSUME NEW v \in M, K.prev[v] # Null
        PROVE  K.next[K.prev[v]] = v /\ par[K.prev[v]] = par[v]
    BY <1>0, <1>1, <1>2, <1>3, <1>4, <1>6, <1>8, <2>2 DEF NeighboursAgree, OrNull
  <2>3. /\ K.next[w] # Null => K.prev[K.next[w]] = w /\ par[K.next[w]] = par[w]
        /\ K.prev[w] # Null => K.next[K.prev[w]] = w /\ par[K.prev[w]] = par[w]
    BY <1>3, <1>4, <1>6, <1>8 DEF OrNull
  <2> QED BY <2>1, <2>2, <2>3 DEF NeighboursAgree
<1>11. EndsAgree(K, par, M \cup {w}, P)
  <2>1. ASSUME NEW v \in M \cup {w}
        PROVE  /\ K.next[v] = Null => K.tail[par[v]] = v
               /\ K.prev[v] = Null => K.head[par[v]] = v
    BY <1>0, <1>1, <1>2, <1>4, <1>6, <1>8 DEF EndsAgree, OrNull
  <2>2. ASSUME NEW q \in P
        PROVE  /\ K.head[q] # Null => par[K.head[q]] = q /\ K.prev[K.head[q]] = Null
               /\ K.tail[q] # Null => par[K.tail[q]] = q /\ K.next[K.tail[q]] = Null
    BY <1>0, <1>1, <1>2, <1>4, <1>6, <1>8 DEF EndsAgree, OrNull
  <2>3. ASSUME NEW q \in P
        PROVE  K.head[q] = Null <=> K.tail[q] = Null
    BY <1>0, <1>1, <1>2, <1>4, <1>6, <1>8 DEF EndsAgree, OrNull
  <2> QED BY <2>1, <2>2, <2>3 DEF EndsAgree
<1>12. NoRings(K, M \cup {w})
  <2> SUFFICES ASSUME NEW S \in SUBSET (M \cup {w}), S # {}, \A v \in S : K.prev[v] \in S
               PROVE  FALSE
    BY DEF NoRings
  <2>1. CASE w \notin S
    <3>1. S \in SUBSET M /\ \A v \in S : L.prev[v] \in S
      BY <1>8, <2>1
    <3> QED BY <1>2, <3>1 DEF NoRings
  <2>2. CASE w \in S
    <3>1. b \in S \ {w}
      BY <1>0, <1>4, <1>8, <2>2 DEF OrNull
    <3>2. S \ {w} \in SUBSET M
      OBVIOUS
    <3>3. \A v \in S \ {w} : L.prev[v] \in S \ {w}
      BY <1>0, <1>1, <1>6, <1>8, <3>1, <3>2 DEF OrNull
    <3> QED BY <1>2, <3>1, <3>2, <3>3 DEF NoRings
  <2> QED BY <2>1, <2>2
<1>13. DepthSorted(K, dep, M \cup {w})
  <2>1. dep[w] = d /\ d \in Int /\ \A v \in M : dep[v] \in Int
    BY <1>0 DEF d
  <2>2. ASSUME NEW v \in M, K.next[v] # Null
        PROVE  dep[v] <= dep[K.next[v]]
    BY <1>2, <1>6, <1>8, <2>1, <2>2 DEF DepthSorted
  <2>3. K.next[w] # Null => dep[w] <= dep[K.next[w]]
    BY <1>3, <1>8, <2>1
  <2> QED BY <2>2, <2>3 DEF DepthSorted
<1> QED BY <1>7, <1>9, <1>10, <1>11, <1>12, <1>13 DEF WellLinked, K

\* Well-formed lists do not depend on the parent and depth of a window in no list.
LEMMA ListsIgnoreOthers ==
    ASSUME NEW M \in SUBSET Windows, NEW P \in SUBSET OrNull(Windows),
           NEW par, NEW dep, NEW par2, NEW dep2,
           NEW L \in ListPointers, WellLinked(L, par, dep, M, P),
           \A v \in M : par2[v] = par[v] /\ dep2[v] = dep[v]
    PROVE  WellLinked(L, par2, dep2, M, P)
<1>1. /\ \A v \in M : L.next[v] \in OrNull(M) /\ L.prev[v] \in OrNull(M)
      /\ \A q \in P : L.head[q] \in OrNull(M) /\ L.tail[q] \in OrNull(M)
  BY DEF WellLinked, PointsInside, OrNull
<1>2. NeighboursAgree(L, par2, M)
  BY <1>1 DEF WellLinked, NeighboursAgree, OrNull
<1>3. EndsAgree(L, par2, M, P)
  BY <1>1 DEF WellLinked, EndsAgree, OrNull
<1>4. DepthSorted(L, dep2, M)
  BY <1>1 DEF WellLinked, DepthSorted, OrNull
<1> QED BY <1>2, <1>3, <1>4 DEF WellLinked

\* Neither operation touches the pointers of a window outside the lists.
LEMMA BlankAfterRemove ==
    ASSUME NEW M \in SUBSET Windows, NEW P \in SUBSET OrNull(Windows),
           NEW par, NEW dep, NEW L \in ListPointers, WellLinked(L, par, dep, M, P),
           NEW w \in M, NEW v \in Windows \ M, v # par[w], Blank(L, v)
    PROVE  Blank(Remove(L, par[w], w), v)
<1>1. v # L.next[w] /\ v # L.prev[w]
  BY WindowsAssumption DEF WellLinked, PointsInside, OrNull
<1> QED BY <1>1 DEF Remove, Blank, ListPointers

LEMMA BlankAfterInsert ==
    ASSUME NEW M \in SUBSET Windows, NEW P \in SUBSET OrNull(Windows),
           NEW par \in [AllWindows -> OrNull(Windows)], NEW dep \in [AllWindows -> Int],
           NEW L \in ListPointers, WellLinked(L, par, dep, M, P),
           \A u \in M : par[u] \in P,
           NEW p \in P, NEW w \in Windows \ M,
           NEW ptr \in OrNull(Windows), SearchEndsAt(L, dep, p, dep[w], ptr),
           NEW v \in Windows \ M, v # w, v # p, Blank(L, v)
    PROVE  Blank(Insert(L, p, w, ptr), v)
<1>1. dep[w] \in Int
  BY DEF AllWindows
<1>2. ptr \in OrNull(M)
  BY <1>1, SearchFindsPlace DEF OrNull
<1>3. v # ptr /\ v # L.tail[p] /\ (ptr # Null => v # L.prev[ptr])
  BY <1>2, WindowsAssumption DEF WellLinked, PointsInside, OrNull
<1> QED BY <1>3 DEF Insert, Blank, ListPointers

\* A parent whose list is empty has no windows.
LEMMA EmptyListNoChildren ==
    ASSUME NEW M \in SUBSET Windows, NEW P \in SUBSET OrNull(Windows),
           NEW par, NEW dep, NEW L \in ListPointers, WellLinked(L, par, dep, M, P),
           NEW p \in P, L.head[p] = Null
    PROVE  \A v \in M : par[v] # p
<1> DEFINE S == {v \in M : par[v] = p}
<1>1. SUFFICES ASSUME S # {} PROVE FALSE
  OBVIOUS
<1>2. PICK v \in S : L.prev[v] \notin S
  BY <1>1 DEF WellLinked, NoRings
<1>3. L.prev[v] = Null
  BY <1>2 DEF WellLinked, PointsInside, NeighboursAgree, OrNull
<1>4. L.head[p] = v
  BY <1>3 DEF WellLinked, EndsAgree
<1> QED BY <1>4, WindowsAssumption

-----------------------------------------------------------------------------
(* The invariant. *)

LEMMA Typing ==
    ASSUME IInv
    PROVE  /\ Linked \in SUBSET Windows
           /\ OrNull(live) \in SUBSET OrNull(Windows)
           /\ parent \in [AllWindows -> OrNull(Windows)]
           /\ depth \in [AllWindows -> Int]
           /\ list \in ListPointers
           /\ \A v \in live : parent[v] \in OrNull(live)
           /\ Null \notin live
           /\ WellLinked(list, parent, depth, Linked, OrNull(live))
<1>1. Linked \in SUBSET Windows /\ OrNull(live) \in SUBSET OrNull(Windows)
  BY DEF IInv, TypeOK, Linked, OrNull
<1>2. parent \in [AllWindows -> OrNull(Windows)] /\ depth \in [AllWindows -> Int] /\ list \in ListPointers
  BY DepthsAssumption DEF IInv, TypeOK
<1>3. \A v \in live : parent[v] \in OrNull(live)
  BY DEF IInv, NothingLeftBehind
<1>4. Null \notin live
  BY WindowsAssumption DEF IInv, TypeOK
<1> QED BY <1>1, <1>2, <1>3, <1>4 DEF IInv, ListsAgree

\* A window that moves to another parent, as t3_win_set_parent and t3_win_del do it.
LEMMA ReparentKeepsIInv ==
    ASSUME IInv, NEW w \in Linked, NEW p \in OrNull(live),
           Reparent(w, p),
           UNCHANGED <<live, anchor, restrict, relation, depth, deleting>>
    PROVE  IInv'
<1> USE WindowsAssumption
<1>0. w \in live /\ w \in Windows /\ w \in AllWindows /\ w # deleting
  BY DEF Linked, IInv, TypeOK, AllWindows
<1>1. CASE UNCHANGED <<parent, list>>
  BY <1>1 DEF IInv, TypeOK, NoLoops, RelationNeedsAnchor, ListsAgree, Linked, NothingLeftBehind
<1>2. CASE ~UNCHANGED <<parent, list>>
  <2> DEFINE without == Remove(list, parent[w], w)
  <2>1. ~HasLoops([parent EXCEPT ![w] = p], anchor, restrict, w, w) /\ parent' = [parent EXCEPT ![w] = p]
    BY <1>2 DEF Reparent
  <2>2. PICK ptr \in OrNull(Windows) : /\ SearchEndsAt(without, depth, p, depth[w], ptr)
                                       /\ list' = Insert(without, p, w, ptr)
    BY <1>2 DEF Reparent
  <2>3. parent' \in [AllWindows -> OrNull(Windows)] /\ p \in OrNull(Windows)
    BY <2>1, Typing DEF OrNull
  <2>4. without \in ListPointers /\ WellLinked(without, parent, depth, Linked \ {w}, OrNull(live))
    <3>1. \A v \in Linked : parent[v] \in OrNull(live)
      BY Typing DEF Linked
    <3> QED BY <3>1, Typing, RemoveKeepsLists
  <2>5. parent'[w] = p /\ \A v \in AllWindows \ {w} : parent'[v] = parent[v]
    BY <1>0, <2>1, Typing
  <2>6. WellLinked(without, parent', depth, Linked \ {w}, OrNull(live))
    <3>1. \A v \in Linked \ {w} : parent'[v] = parent[v] /\ depth[v] = depth[v]
      BY <2>5, Typing DEF AllWindows
    <3>2. Linked \ {w} \in SUBSET Windows
      BY Typing
    <3> QED BY <2>4, <3>1, <3>2, Typing, ListsIgnoreOthers
  <2>7. list' \in ListPointers /\ WellLinked(list', parent', depth, Linked, OrNull(live))
    <3>1. \A v \in Linked \ {w} : parent'[v] \in OrNull(live)
      BY <2>5, Typing DEF Linked, AllWindows
    <3>2. Linked \ {w} \in SUBSET Windows /\ w \in Windows \ (Linked \ {w})
      BY <1>0, Typing
    <3>3. (Linked \ {w}) \cup {w} = Linked
      OBVIOUS
    <3> HIDE DEF without
    <3>4. /\ Insert(without, p, w, ptr) \in ListPointers
          /\ WellLinked(Insert(without, p, w, ptr), parent', depth, (Linked \ {w}) \cup {w}, OrNull(live))
      BY <2>2, <2>3, <2>4, <2>5, <2>6, <3>1, <3>2, Typing, InsertKeepsLists
    <3> QED BY <2>2, <3>3, <3>4
  <2>8. TypeOK'
    BY <2>3, <2>7 DEF IInv, TypeOK
  <2>9. NoLoops'
    <3>1. \A v \in AllWindows \ {w} : Refs(parent', anchor, restrict, v) = Refs(parent, anchor, restrict, v)
      BY <2>5 DEF Refs
    <3>2. ~HasLoops(parent', anchor, restrict, w, w)
      BY <2>1
    <3>3. LoopFree(parent', anchor, restrict)
      BY <1>0, <3>1, <3>2, NoLoopThroughNewRef DEF IInv, NoLoops
    <3> QED BY <3>3 DEF NoLoops
  <2>10. \A v \in live : parent'[v] \in OrNull(live)
    BY <2>5, Typing DEF IInv, TypeOK, AllWindows
  <2>11. ListsAgree'
    BY <2>7 DEF ListsAgree, Linked
  <2>12. NothingLeftBehind'
    <3>1. \A v \in AllWindows \ live : Refs(parent', anchor, restrict, v) = {}
      BY <1>0, <2>5 DEF IInv, NothingLeftBehind, Refs
    <3>2. ASSUME NEW v \in Windows \ live PROVE Blank(list', v)
      <4>1. v # p /\ v # parent[w] /\ v # w /\ v \notin OrNull(Linked)
        BY <1>0, Typing DEF OrNull, Linked
      <4>2. Blank(list, v)
        BY DEF IInv, NothingLeftBehind
      <4>3. Blank(without, v)
        BY <4>1, <4>2, Typing, BlankAfterRemove DEF Linked
      <4> HIDE DEF without
      <4>4. \A u \in Linked \ {w} : parent'[u] \in OrNull(live)
        BY <2>5, Typing DEF Linked, AllWindows
      <4>5. Linked \ {w} \in SUBSET Windows /\ {w, v} \subseteq Windows \ (Linked \ {w})
        BY <1>0, <4>1, Typing DEF OrNull
      <4> QED BY <2>2, <2>3, <2>4, <2>5, <2>6, <4>1, <4>3, <4>4, <4>5, Typing, BlankAfterInsert
    <3> QED BY <2>10, <3>1, <3>2 DEF IInv, NothingLeftBehind
  <2>13. RelationNeedsAnchor'
    BY DEF IInv, RelationNeedsAnchor
  <2> QED BY <2>8, <2>9, <2>11, <2>12, <2>13 DEF IInv
<1> QED BY <1>1, <1>2

LEMMA InitIInv == Init => IInv
<1> SUFFICES ASSUME Init PROVE IInv
  OBVIOUS
<1> USE WindowsAssumption DEF Init
<1>1. TypeOK
  BY DepthsAssumption, RelationsAssumption DEF TypeOK, EmptyList, ListPointers, OrNull
<1>2. \A v \in AllWindows : Refs(parent, anchor, restrict, v) = {}
  BY DEF Refs
<1>3. NoLoops
  BY <1>2 DEF NoLoops, LoopFree
<1>4. ListsAgree
  BY DEF ListsAgree, WellLinked, PointsInside, NeighboursAgree, EndsAgree, NoRings, DepthSorted,
         Linked, EmptyList, OrNull
<1>5. RelationNeedsAnchor /\ NothingLeftBehind
  BY <1>2 DEF RelationNeedsAnchor, NothingLeftBehind, Blank, EmptyList, OrNull
<1> QED BY <1>1, <1>3, <1>4, <1>5 DEF IInv

LEMMA NewKeepsIInv ==
    ASSUME IInv, NEW w \in Windows, NEW p \in OrNull(Windows), NEW d \in Depths, New(w, p, d)
    PROVE  IInv'
<1> USE WindowsAssumption
<1>0. /\ deleting = Null /\ w \notin live /\ p \in OrNull(live) /\ Linked = live /\ p # w
      /\ live' = live \cup {w} /\ deleting' = Null /\ Linked' = live \cup {w}
      /\ w \in AllWindows /\ d \in Int
  BY Typing, DepthsAssumption DEF New, Linked, OrNull, AllWindows
<1>1. /\ parent' = [parent EXCEPT ![w] = p]
      /\ anchor' = [anchor EXCEPT ![w] = Null]
      /\ restrict' = [restrict EXCEPT ![w] = Null]
      /\ relation' = [relation EXCEPT ![w] = TopLeft]
      /\ depth' = [depth EXCEPT ![w] = d]
  BY DEF New
<1>2. PICK ptr \in OrNull(Windows) : /\ SearchEndsAt(list, depth', p, d, ptr)
                                     /\ list' = Insert(list, p, w, ptr)
  BY DEF New
<1>3. /\ parent' \in [AllWindows -> OrNull(Windows)] /\ depth' \in [AllWindows -> Int]
      /\ parent'[w] = p /\ depth'[w] = d
      /\ \A v \in AllWindows \ {w} : parent'[v] = parent[v] /\ depth'[v] = depth[v]
  BY <1>0, <1>1, Typing
<1>4. WellLinked(list, parent', depth', Linked, OrNull(live) \cup {w})
  <2>1. list.head[w] = Null /\ list.tail[w] = Null
    BY <1>0 DEF IInv, NothingLeftBehind, Blank
  <2>2. WellLinked(list, parent, depth, Linked, OrNull(live) \cup {w})
    BY <2>1, Typing DEF WellLinked, PointsInside, EndsAgree, OrNull
  <2>3. \A v \in Linked : parent'[v] = parent[v] /\ depth'[v] = depth[v]
    BY <1>0, <1>3, Typing DEF AllWindows
  <2>4. OrNull(live) \cup {w} \in SUBSET OrNull(Windows)
    BY Typing DEF OrNull
  <2> QED BY <2>2, <2>3, <2>4, Typing, ListsIgnoreOthers
<1>5. list' \in ListPointers /\ WellLinked(list', parent', depth', Linked', OrNull(live'))
  <2>1. OrNull(live') = OrNull(live) \cup {w} /\ OrNull(live') \in SUBSET OrNull(Windows)
    BY <1>0, Typing DEF OrNull
  <2>2. \A v \in Linked : parent'[v] \in OrNull(live')
    BY <1>0, <1>3, Typing DEF OrNull, AllWindows
  <2>3. w \in Windows \ Linked /\ p \in OrNull(live') /\ Linked' = Linked \cup {w}
    BY <1>0 DEF OrNull
  <2> QED BY <1>2, <1>3, <1>4, <2>1, <2>2, <2>3, Typing, InsertKeepsLists
<1>6. TypeOK'
  BY <1>0, <1>1, <1>3, <1>5, DepthsAssumption, RelationsAssumption DEF IInv, TypeOK, OrNull
<1>7. /\ \A v \in AllWindows \ {w} : Refs(parent, anchor, restrict, v)' = Refs(parent, anchor, restrict, v)
      /\ Refs(parent, anchor, restrict, w)' = {p} \ {Null}
      /\ \A v \in AllWindows : w \notin Refs(parent, anchor, restrict, v)
  <2>1. \A v \in AllWindows \ {w} : Refs(parent, anchor, restrict, v)' = Refs(parent, anchor, restrict, v)
    BY <1>1, <1>3 DEF IInv, TypeOK, Refs
  <2>2. Refs(parent, anchor, restrict, w)' = {p} \ {Null}
    BY <1>0, <1>1, <1>3 DEF IInv, TypeOK, Refs
  <2>3. \A v \in AllWindows : w \notin Refs(parent, anchor, restrict, v)
    BY DEF New, ReferredTo, IInv, NothingLeftBehind
  <2> QED BY <2>1, <2>2, <2>3
<1>8. NoLoops'
  <2>1. w \notin Refs(parent, anchor, restrict, w)'
    BY <1>0, <1>7
  <2>2. LoopFree(parent', anchor', restrict')
    BY <1>0, <1>7, <2>1, NoLoopThroughNewWindow DEF IInv, NoLoops
  <2> QED BY <2>2 DEF NoLoops
<1>9. \A v \in live' : parent'[v] \in OrNull(live')
  BY <1>0, <1>3, Typing DEF IInv, TypeOK, OrNull, AllWindows
<1>10. RelationNeedsAnchor'
  BY <1>0, <1>1 DEF IInv, TypeOK, RelationNeedsAnchor, AllWindows
<1>11. ListsAgree'
  BY <1>5 DEF ListsAgree
<1>12. NothingLeftBehind'
  <2>1. \A v \in AllWindows \ live' : Refs(parent, anchor, restrict, v)' = {}
    BY <1>0, <1>7 DEF IInv, NothingLeftBehind
  <2>2. ASSUME NEW v \in Windows \ live' PROVE Blank(list', v)
    <3>1. v \notin OrNull(Linked) /\ v # w /\ v # p /\ v \in Windows \ live
      BY <1>0 DEF OrNull
    <3>2. Blank(list, v)
      BY <3>1 DEF IInv, NothingLeftBehind
    <3>3. p \in OrNull(live) \cup {w} /\ OrNull(live) \cup {w} \in SUBSET OrNull(Windows)
      BY <1>0, Typing DEF OrNull
    <3>4. \A u \in Linked : parent'[u] \in OrNull(live) \cup {w}
      BY <1>0, <1>3, Typing DEF AllWindows
    <3>5. SearchEndsAt(list, depth', p, depth'[w], ptr)
      BY <1>2, <1>3
    <3>6. {w, v} \subseteq Windows \ Linked /\ Linked \in SUBSET Windows /\ list \in ListPointers
      BY <1>0, <3>1, Typing DEF OrNull
    <3>7. Blank(Insert(list, p, w, ptr), v)
      BY <1>3, <1>4, <3>1, <3>2, <3>3, <3>4, <3>5, <3>6, BlankAfterInsert
    <3> QED BY <1>2, <3>7
  <2> QED BY <1>0, <1>9, <2>1, <2>2 DEF NothingLeftBehind
<1> QED BY <1>6, <1>8, <1>10, <1>11, <1>12 DEF IInv

\* t3_win_new out of memory: t3_win_del undoes the insertion, pointer by pointer.
LEMMA FailedNewRestores ==
    ASSUME IInv, NEW w \in Windows, NEW p \in OrNull(Windows), NEW d \in Depths, NewFails(w, p, d)
    PROVE  list' = list
<1> USE WindowsAssumption
<1>1. /\ deleting = Null /\ w \notin live /\ p \in OrNull(live) /\ Linked = live /\ p # w
      /\ d \in Int /\ w # Null
  BY Typing, DepthsAssumption DEF NewFails, Linked, OrNull
<1>2. PICK ptr \in OrNull(Windows) :
          /\ SearchEndsAt(list, [depth EXCEPT ![w] = d], p, d, ptr)
          /\ list' = Forget(Remove(Insert(list, p, w, ptr), p, w), w)
  BY DEF NewFails
<1> DEFINE b == IF ptr = Null THEN list.tail[p] ELSE list.prev[ptr]
           dep == [depth EXCEPT ![w] = d]
           K == Insert(list, p, w, ptr)
           F == Forget(Remove(K, p, w), w)
<1>3. Blank(list, w)
  BY <1>1 DEF IInv, NothingLeftBehind
<1>4. dep \in [AllWindows -> Int] /\ \A v \in Linked : parent[v] \in OrNull(live)
  BY <1>1, Typing
<1>5. WellLinked(list, parent, dep, Linked, OrNull(live))
  <2>1. \A v \in Linked : parent[v] = parent[v] /\ dep[v] = depth[v]
    BY <1>1, Typing DEF AllWindows
  <2> QED BY <2>1, Typing, ListsIgnoreOthers
<1>6. /\ ptr = Null => list.tail[p] = Null \/ dep[list.tail[p]] < d
      /\ ptr # Null => /\ ptr \in Linked /\ parent[ptr] = p /\ dep[ptr] >= d
                       /\ list.prev[ptr] # Null => dep[list.prev[ptr]] < d
  <2>1. Linked \in SUBSET Windows /\ OrNull(live) \in SUBSET OrNull(Windows) /\ list \in ListPointers
        /\ parent \in [AllWindows -> OrNull(Windows)]
    BY Typing
  <2>2. SearchEndsAt(list, dep, p, d, ptr)
    BY <1>2
  <2> HIDE DEF dep
  <2> QED BY <1>1, <1>4, <1>5, <2>1, <2>2, SearchFindsPlace
<1>7. NeighboursAgree(list, parent, live) /\ EndsAgree(list, parent, live, OrNull(live))
  BY <1>1, Typing DEF WellLinked
<1>8. b \in OrNull(live) /\ ptr \in OrNull(live) /\ w # b /\ w # ptr
  BY <1>1, <1>6, Typing DEF WellLinked, PointsInside, OrNull
<1>9. /\ b # Null => list.next[b] = ptr
      /\ b = Null => list.head[p] = ptr
      /\ ptr # Null => list.prev[ptr] = b
      /\ ptr = Null => list.tail[p] = b
  BY <1>1, <1>6, <1>7, <1>8 DEF NeighboursAgree, EndsAgree, OrNull
<1>10. list.head[p] = Null => ptr = Null /\ b = Null
  <2> SUFFICES ASSUME list.head[p] = Null PROVE ptr = Null
    BY <1>1, <1>7 DEF EndsAgree
  <2>1. ClosedUnderSearch({Null}, list, dep, p, d)
    BY DEF ClosedUnderSearch
  <2>2. {Null} \in SUBSET OrNull(Windows)
    BY DEF OrNull
  <2> QED BY <1>2, <2>1, <2>2 DEF SearchEndsAt
<1>11. list \in ListPointers /\ p \in OrNull(Windows) /\ {b, ptr} \subseteq OrNull(Windows)
  BY <1>1, <1>8, Typing DEF OrNull
<1>12. /\ K \in ListPointers /\ K.next[w] = ptr /\ K.prev[w] = b
       /\ K.next = IF b = Null THEN [list.next EXCEPT ![w] = ptr]
                                ELSE [list.next EXCEPT ![w] = ptr, ![b] = w]
       /\ K.prev = IF ptr = Null THEN [list.prev EXCEPT ![w] = b]
                                  ELSE [list.prev EXCEPT ![w] = b, ![ptr] = w]
       /\ K.head = IF b = Null THEN [list.head EXCEPT ![p] = w] ELSE list.head
       /\ K.tail = IF ptr = Null THEN [list.tail EXCEPT ![p] = w] ELSE list.tail
  <2> HIDE DEF b
  <2>1. CASE list.head[p] = Null
    <3>1. K = [next |-> [list.next EXCEPT ![w] = Null], prev |-> [list.prev EXCEPT ![w] = Null],
               head |-> [list.head EXCEPT ![p] = w], tail |-> [list.tail EXCEPT ![p] = w]]
      BY <2>1 DEF Insert
    <3>2. b = Null /\ ptr = Null
      BY <1>10, <2>1
    <3> HIDE DEF K
    <3> QED BY <1>11, <3>1, <3>2 DEF ListPointers, OrNull
  <2>2. CASE list.head[p] # Null
    <3>1. K = [next |-> IF b = Null THEN [list.next EXCEPT ![w] = ptr]
                                    ELSE [list.next EXCEPT ![w] = ptr, ![b] = w],
               prev |-> IF ptr = Null THEN [list.prev EXCEPT ![w] = b]
                                      ELSE [list.prev EXCEPT ![w] = b, ![ptr] = w],
               head |-> IF b = Null THEN [list.head EXCEPT ![p] = w] ELSE list.head,
               tail |-> IF ptr = Null THEN [list.tail EXCEPT ![p] = w] ELSE list.tail]
      BY <2>2 DEF Insert, b
    <3> HIDE DEF K
    <3>2. K \in ListPointers
      BY <1>11, <3>1 DEF ListPointers, OrNull
    <3>3. K.next[w] = ptr /\ K.prev[w] = b
      BY <1>8, <1>11, <3>1 DEF ListPointers, OrNull
    <3> QED BY <3>1, <3>2, <3>3
  <2> QED BY <2>1, <2>2
<1> HIDE DEF b, K
<1>13. \A v \in Windows : /\ F.next[v] = list.next[v]
                          /\ F.prev[v] = list.prev[v]
  BY <1>1, <1>3, <1>8, <1>9, <1>11, <1>12 DEF Remove, Forget, Blank, ListPointers, OrNull
<1>14. \A q \in OrNull(Windows) : /\ F.head[q] = list.head[q]
                                  /\ F.tail[q] = list.tail[q]
  BY <1>1, <1>3, <1>8, <1>9, <1>11, <1>12 DEF Remove, Forget, Blank, ListPointers, OrNull
<1>15. F \in ListPointers
  BY <1>1, <1>8, <1>11, <1>12 DEF Remove, Forget, ListPointers, OrNull
<1> HIDE DEF F
<1>16. F.next = list.next /\ F.prev = list.prev /\ F.head = list.head /\ F.tail = list.tail
  BY <1>11, <1>13, <1>14, <1>15 DEF ListPointers
<1>17. F = list
  BY <1>11, <1>15, <1>16 DEF ListPointers
<1> QED BY <1>2, <1>17 DEF F, K

LEMMA SetParentKeepsIInv ==
    ASSUME IInv, NEW w \in Windows, NEW p \in OrNull(Windows), SetParent(w, p)
    PROVE  IInv'
<1>1. w \in Linked /\ p \in OrNull(live)
  BY WindowsAssumption DEF SetParent, Linked
<1> QED BY <1>1, ReparentKeepsIInv DEF SetParent

LEMMA SetAnchorKeepsIInv ==
    ASSUME IInv, NEW w \in Windows, NEW a \in OrNull(Windows), NEW r \in Relations,
           SetAnchor(w, a, r)
    PROVE  IInv'
<1> USE WindowsAssumption
<1>0. /\ deleting = Null /\ w \in live /\ a \in OrNull(live) /\ w \in AllWindows
      /\ a = Null => r = TopLeft
      /\ a # anchor[w] => ~HasLoops(parent, anchor', restrict, w, w)
      /\ anchor' = [anchor EXCEPT ![w] = a] /\ relation' = [relation EXCEPT ![w] = r]
      /\ UNCHANGED <<live, parent, restrict, depth, list, deleting>>
  BY DEF SetAnchor, AllWindows
<1>1. TypeOK'
  BY <1>0 DEF IInv, TypeOK
<1>2. \A v \in AllWindows \ {w} : Refs(parent, anchor', restrict, v) = Refs(parent, anchor, restrict, v)
  BY <1>0 DEF IInv, TypeOK, Refs
<1>3. NoLoops'
  <2>1. CASE a = anchor[w]
    <3>1. anchor' = anchor
      BY <1>0, <2>1 DEF IInv, TypeOK
    <3> QED BY <1>0, <3>1 DEF IInv, NoLoops
  <2>2. CASE a # anchor[w]
    <3>1. LoopFree(parent, anchor', restrict)
      BY <1>0, <1>2, <2>2, NoLoopThroughNewRef DEF IInv, NoLoops
    <3> QED BY <1>0, <3>1 DEF NoLoops
  <2> QED BY <2>1, <2>2
<1>4. RelationNeedsAnchor'
  BY <1>0 DEF IInv, TypeOK, RelationNeedsAnchor, AllWindows
<1>5. ListsAgree'
  BY <1>0 DEF IInv, ListsAgree, Linked
<1>6. NothingLeftBehind'
  <2>1. \A v \in AllWindows \ live : Refs(parent, anchor', restrict, v) = {}
    BY <1>0, <1>2 DEF IInv, NothingLeftBehind
  <2> QED BY <1>0, <2>1 DEF IInv, NothingLeftBehind
<1> QED BY <1>1, <1>3, <1>4, <1>5, <1>6 DEF IInv

LEMMA SetDepthKeepsIInv ==
    ASSUME IInv, NEW w \in Windows, NEW d \in Depths, SetDepth(w, d)
    PROVE  IInv'
<1> USE WindowsAssumption
<1> DEFINE without == Remove(list, parent[w], w)
<1>0. /\ deleting = Null /\ w \in live /\ w \in AllWindows /\ w \in Linked /\ d \in Int
      /\ depth' = [depth EXCEPT ![w] = d]
      /\ UNCHANGED <<live, parent, anchor, restrict, relation, deleting>>
  BY DepthsAssumption DEF SetDepth, AllWindows, Linked
<1>1. PICK ptr \in OrNull(Windows) : /\ SearchEndsAt(without, depth', parent[w], d, ptr)
                                     /\ list' = Insert(without, parent[w], w, ptr)
  BY DEF SetDepth
<1>2. /\ depth' \in [AllWindows -> Int] /\ depth'[w] = d
      /\ \A v \in AllWindows \ {w} : depth'[v] = depth[v]
  BY <1>0, Typing
<1>3. /\ \A v \in Linked : parent[v] \in OrNull(live)
      /\ Linked \ {w} \in SUBSET Windows /\ w \in Windows \ (Linked \ {w})
      /\ (Linked \ {w}) \cup {w} = Linked
      /\ parent[w] \in OrNull(live)
  BY <1>0, Typing DEF Linked
<1>4. without \in ListPointers /\ WellLinked(without, parent, depth, Linked \ {w}, OrNull(live))
  BY <1>0, <1>3, Typing, RemoveKeepsLists
<1> HIDE DEF without
<1>5. WellLinked(without, parent, depth', Linked \ {w}, OrNull(live))
  <2>1. \A v \in Linked \ {w} : parent[v] = parent[v] /\ depth'[v] = depth[v]
    BY <1>2, Typing DEF AllWindows
  <2> QED BY <1>3, <1>4, <2>1, Typing, ListsIgnoreOthers
<1>6. SearchEndsAt(without, depth', parent[w], depth'[w], ptr)
  BY <1>1, <1>2
<1>7. list' \in ListPointers /\ WellLinked(list', parent, depth', Linked, OrNull(live))
  <2>1. /\ Insert(without, parent[w], w, ptr) \in ListPointers
        /\ WellLinked(Insert(without, parent[w], w, ptr), parent, depth', (Linked \ {w}) \cup {w}, OrNull(live))
    BY <1>2, <1>3, <1>4, <1>5, <1>6, Typing, InsertKeepsLists
  <2> QED BY <1>1, <1>3, <2>1
<1>8. TypeOK'
  BY <1>0, <1>7 DEF IInv, TypeOK
<1>9. NoLoops' /\ RelationNeedsAnchor'
  BY <1>0 DEF IInv, NoLoops, RelationNeedsAnchor
<1>10. ListsAgree'
  BY <1>0, <1>7 DEF ListsAgree, Linked
<1>11. NothingLeftBehind'
  <2>1. ASSUME NEW v \in Windows \ live PROVE Blank(list', v)
    <3>1. v # parent[w] /\ v # w /\ v \notin OrNull(Linked)
      BY <1>0, <1>3, Typing DEF OrNull, Linked
    <3>2. Blank(list, v)
      BY DEF IInv, NothingLeftBehind
    <3>3. v \in Windows \ Linked /\ v \in Windows \ (Linked \ {w})
      BY <3>1 DEF OrNull
    <3>4. Blank(without, v)
      BY <1>0, <1>3, <3>1, <3>2, <3>3, Typing, BlankAfterRemove DEF without
    <3>5. Blank(Insert(without, parent[w], w, ptr), v)
      BY <1>2, <1>3, <1>4, <1>5, <1>6, <3>1, <3>3, <3>4, Typing, BlankAfterInsert
    <3> QED BY <1>1, <3>5
  <2> QED BY <1>0, <2>1 DEF IInv, NothingLeftBehind
<1> QED BY <1>8, <1>9, <1>10, <1>11 DEF IInv

LEMMA SetRestrictKeepsIInv ==
    ASSUME IInv, NEW w \in Windows, NEW r \in OrNull(Windows), SetRestrict(w, r)
    PROVE  IInv'
<1> USE WindowsAssumption
<1>0. /\ deleting = Null /\ w \in live /\ w \in AllWindows /\ r \in OrNull(live)
      /\ UNCHANGED <<live, parent, anchor, relation, depth, list, deleting>>
  BY DEF SetRestrict, AllWindows
<1>1. PICK s \in OrNull(live \cup {Terminal}) :
          /\ restrict' = [restrict EXCEPT ![w] = s]
          /\ s \in {Null, Terminal} \/ ~HasLoops(parent, anchor, restrict', w, w)
  <2>1. CASE r = w /\ restrict' = [restrict EXCEPT ![w] = Null]
    BY <2>1 DEF OrNull
  <2>2. CASE r = Null /\ restrict' = [restrict EXCEPT ![w] = Terminal]
    BY <2>2 DEF OrNull
  <2>3. CASE ~HasLoops(parent, anchor, [restrict EXCEPT ![w] = r], w, w)
             /\ restrict' = [restrict EXCEPT ![w] = r]
    BY <1>0, <2>3 DEF OrNull
  <2> QED BY <2>1, <2>2, <2>3 DEF SetRestrict
<1>2. TypeOK'
  BY <1>0, <1>1 DEF IInv, TypeOK, OrNull, AllWindows
<1>3. \A v \in AllWindows \ {w} : Refs(parent, anchor, restrict', v) = Refs(parent, anchor, restrict, v)
  BY <1>0, <1>1 DEF IInv, TypeOK, Refs
<1>4. NoLoops'
  <2>1. CASE s \in {Null, Terminal}
    <3>1. \A v \in AllWindows :
              Refs(parent, anchor, restrict', v) \subseteq Refs(parent, anchor, restrict, v) \cup {Terminal}
      BY <1>0, <1>1, <2>1 DEF IInv, TypeOK, Refs
    <3>2. Terminal \in AllWindows \ live /\ Terminal # w
      BY <1>0 DEF IInv, TypeOK, AllWindows
    <3>3. Refs(parent, anchor, restrict', Terminal) = {}
      BY <1>3, <3>2 DEF IInv, NothingLeftBehind
    <3>4. LoopFree(parent, anchor, restrict')
      BY <3>1, <3>3, NoLoopThroughTerminal DEF IInv, NoLoops
    <3> QED BY <1>0, <3>4 DEF NoLoops
  <2>2. CASE ~HasLoops(parent, anchor, restrict', w, w)
    <3>1. LoopFree(parent, anchor, restrict')
      BY <1>0, <1>3, <2>2, NoLoopThroughNewRef DEF IInv, NoLoops
    <3> QED BY <1>0, <3>1 DEF NoLoops
  <2> QED BY <1>1, <2>1, <2>2
<1>5. RelationNeedsAnchor' /\ ListsAgree'
  BY <1>0 DEF IInv, RelationNeedsAnchor, ListsAgree, Linked
<1>6. NothingLeftBehind'
  <2>1. \A v \in AllWindows \ live : Refs(parent, anchor, restrict', v) = {}
    BY <1>0, <1>3 DEF IInv, NothingLeftBehind
  <2> QED BY <1>0, <2>1 DEF IInv, NothingLeftBehind
<1> QED BY <1>2, <1>4, <1>5, <1>6 DEF IInv

LEMMA DelBeginKeepsIInv ==
    ASSUME IInv, NEW w \in Windows, DelBegin(w)
    PROVE  IInv'
<1> USE WindowsAssumption
<1>0. /\ deleting = Null /\ w \in live /\ w \in Linked /\ deleting' = w
      /\ list' = Remove(list, parent[w], w)
      /\ Linked' = Linked \ {w}
      /\ UNCHANGED <<live, parent, anchor, restrict, relation, depth>>
  BY Typing DEF DelBegin, Linked
<1>1. list' \in ListPointers /\ WellLinked(list', parent, depth, Linked', OrNull(live))
  <2>1. \A v \in Linked : parent[v] \in OrNull(live)
    BY Typing DEF Linked
  <2> QED BY <1>0, <2>1, Typing, RemoveKeepsLists
<1>2. TypeOK'
  BY <1>0, <1>1 DEF IInv, TypeOK, OrNull
<1>3. NoLoops' /\ RelationNeedsAnchor'
  BY <1>0 DEF IInv, NoLoops, RelationNeedsAnchor
<1>4. ListsAgree'
  BY <1>0, <1>1 DEF ListsAgree
<1>5. NothingLeftBehind'
  <2>1. ASSUME NEW v \in Windows \ live PROVE Blank(list', v)
    <3>1. v # parent[w] /\ v \in Windows \ Linked
      BY <1>0, Typing DEF OrNull, Linked
    <3>2. Blank(list, v)
      BY DEF IInv, NothingLeftBehind
    <3> QED BY <1>0, <3>1, <3>2, Typing, BlankAfterRemove
  <2> QED BY <1>0, <2>1 DEF IInv, NothingLeftBehind
<1> QED BY <1>2, <1>3, <1>4, <1>5 DEF IInv

LEMMA DelChildKeepsIInv ==
    ASSUME IInv, DelChild
    PROVE  IInv'
<1>1. deleting \in OrNull(live) /\ list.head[deleting] \in Linked /\ Null \in OrNull(live)
  BY Typing DEF IInv, TypeOK, DelChild, WellLinked, PointsInside, OrNull
<1> QED BY <1>1, ReparentKeepsIInv DEF DelChild

LEMMA DelFreeKeepsIInv ==
    ASSUME IInv, DelFree
    PROVE  IInv'
<1> USE WindowsAssumption
<1> PICK w : w = deleting
  OBVIOUS
<1>0. /\ w # Null /\ w \in live /\ w \in Windows /\ w \in AllWindows /\ list.head[w] = Null
      /\ live' = live \ {w} /\ deleting' = Null
      /\ parent' = [parent EXCEPT ![w] = Null]
      /\ anchor' = [anchor EXCEPT ![w] = Null]
      /\ restrict' = [restrict EXCEPT ![w] = Null]
      /\ relation' = [relation EXCEPT ![w] = TopLeft]
      /\ depth' = [depth EXCEPT ![w] = 0]
      /\ list' = Forget(list, w)
  BY DEF DelFree, IInv, TypeOK, OrNull, AllWindows
<1>1. Linked' = Linked /\ Linked = live \ {w}
  BY <1>0, Typing DEF Linked
<1>2. TypeOK'
  BY <1>0, DepthsAssumption, RelationsAssumption DEF IInv, TypeOK, Forget, ListPointers, OrNull
<1>3. \A v \in Linked : parent[v] # w
  <2>1. w \in OrNull(live)
    BY <1>0 DEF OrNull
  <2> QED BY <1>0, <2>1, Typing, EmptyListNoChildren
<1>4. \A v \in live' : parent'[v] \in OrNull(live')
  BY <1>0, <1>1, <1>3, Typing DEF OrNull, AllWindows
<1>5. /\ \A v \in AllWindows \ {w} :
             Refs(parent', anchor', restrict', v) = Refs(parent, anchor, restrict, v)
      /\ Refs(parent', anchor', restrict', w) = {}
  BY <1>0 DEF IInv, TypeOK, Refs
<1>6. NoLoops'
  <2>1. Refs(parent', anchor', restrict', Terminal) = {}
    <3>1. Terminal \in AllWindows \ live /\ Terminal # w
      BY <1>0 DEF IInv, TypeOK, AllWindows
    <3> QED BY <1>5, <3>1 DEF IInv, NothingLeftBehind
  <2>2. LoopFree(parent', anchor', restrict')
    BY <1>5, <2>1, NoLoopThroughTerminal DEF IInv, NoLoops
  <2> QED BY <2>2 DEF NoLoops
<1>7. RelationNeedsAnchor'
  BY <1>0 DEF IInv, TypeOK, RelationNeedsAnchor, AllWindows
<1>8. ListsAgree'
  <2>1. /\ \A v \in Linked : list'.next[v] = list.next[v] /\ list'.prev[v] = list.prev[v]
        /\ \A p \in OrNull(live) \ {w} : list'.head[p] = list.head[p] /\ list'.tail[p] = list.tail[p]
    BY <1>0, <1>1, Typing DEF Forget, ListPointers
  <2>2. /\ OrNull(live') = OrNull(live) \ {w}
        /\ \A v \in Linked : parent[v] \in OrNull(live) \ {w}
    BY <1>0, <1>1, <1>3, Typing DEF OrNull
  <2>3. /\ \A v \in Linked : list.next[v] \in OrNull(Linked) /\ list.prev[v] \in OrNull(Linked)
        /\ \A q \in OrNull(live) : list.head[q] \in OrNull(Linked) /\ list.tail[q] \in OrNull(Linked)
    BY Typing DEF WellLinked, PointsInside
  <2>4. \A v \in Linked : parent'[v] = parent[v] /\ depth'[v] = depth[v]
    BY <1>0, <1>1, Typing DEF AllWindows
  <2>5. PointsInside(list', Linked, OrNull(live'))
    BY <2>1, <2>2, <2>3 DEF PointsInside
  <2>6. NeighboursAgree(list', parent', Linked)
    BY <2>1, <2>3, <2>4, Typing DEF WellLinked, NeighboursAgree, OrNull
  <2>7. EndsAgree(list', parent', Linked, OrNull(live'))
    <3>1. ASSUME NEW v \in Linked
          PROVE  /\ list'.next[v] = Null => list'.tail[parent'[v]] = v
                 /\ list'.prev[v] = Null => list'.head[parent'[v]] = v
      BY <2>1, <2>2, <2>4, Typing DEF WellLinked, EndsAgree
    <3>2. ASSUME NEW p \in OrNull(live')
          PROVE  /\ list'.head[p] # Null => parent'[list'.head[p]] = p /\ list'.prev[list'.head[p]] = Null
                 /\ list'.tail[p] # Null => parent'[list'.tail[p]] = p /\ list'.next[list'.tail[p]] = Null
                 /\ list'.head[p] = Null <=> list'.tail[p] = Null
      BY <2>1, <2>2, <2>3, <2>4, Typing DEF WellLinked, EndsAgree, OrNull
    <3> QED BY <3>1, <3>2 DEF EndsAgree
  <2>8. NoRings(list', Linked)
    BY <2>1, Typing DEF WellLinked, NoRings
  <2>9. DepthSorted(list', depth', Linked)
    BY <2>1, <2>3, <2>4, Typing DEF WellLinked, DepthSorted, OrNull
  <2> QED BY <1>1, <2>5, <2>6, <2>7, <2>8, <2>9 DEF ListsAgree, WellLinked
<1>9. NothingLeftBehind'
  <2>1. \A v \in AllWindows \ live' : Refs(parent', anchor', restrict', v) = {}
    BY <1>0, <1>5 DEF IInv, NothingLeftBehind
  <2>2. Blank(list', w)
    BY <1>0, Typing DEF Blank, Forget, ListPointers, OrNull
  <2>3. \A v \in Windows \ live : Blank(list', v)
    BY <1>0, Typing DEF IInv, NothingLeftBehind, Blank, Forget, ListPointers, OrNull
  <2> QED BY <1>0, <1>4, <2>1, <2>2, <2>3 DEF NothingLeftBehind
<1> QED BY <1>2, <1>6, <1>7, <1>8, <1>9 DEF IInv

LEMMA NextKeepsIInv == IInv /\ [Next]_vars => IInv'
<1> SUFFICES ASSUME IInv, [Next]_vars PROVE IInv'
  OBVIOUS
<1>1. CASE \E w \in Windows, p \in OrNull(Windows), d \in Depths : New(w, p, d)
  BY <1>1, NewKeepsIInv
<1>2. CASE \E w \in Windows, p \in OrNull(Windows), d \in Depths : NewFails(w, p, d)
  <2>1. UNCHANGED <<live, parent, anchor, restrict, relation, depth, deleting>>
    BY <1>2 DEF NewFails
  <2>2. list' = list
    BY <1>2, FailedNewRestores
  <2> QED BY <2>1, <2>2 DEF IInv, TypeOK, NoLoops, RelationNeedsAnchor, ListsAgree, Linked,
                           NothingLeftBehind
<1>3. CASE \E w \in Windows, p \in OrNull(Windows) : SetParent(w, p)
  BY <1>3, SetParentKeepsIInv
<1>4. CASE \E w \in Windows, a \in OrNull(Windows), r \in Relations : SetAnchor(w, a, r)
  BY <1>4, SetAnchorKeepsIInv
<1>5. CASE \E w \in Windows, d \in Depths : SetDepth(w, d)
  BY <1>5, SetDepthKeepsIInv
<1>6. CASE \E w \in Windows, r \in OrNull(Windows) : SetRestrict(w, r)
  BY <1>6, SetRestrictKeepsIInv
<1>7. CASE \E w \in Windows : DelBegin(w)
  BY <1>7, DelBeginKeepsIInv
<1>8. CASE DelChild
  BY <1>8, DelChildKeepsIInv
<1>9. CASE DelFree
  BY <1>9, DelFreeKeepsIInv
<1>10. CASE UNCHANGED vars
  BY <1>10 DEF vars, IInv, TypeOK, NoLoops, RelationNeedsAnchor, ListsAgree, Linked,
               NothingLeftBehind
<1> QED BY <1>1, <1>2, <1>3, <1>4, <1>5, <1>6, <1>7, <1>8, <1>9, <1>10 DEF Next

-----------------------------------------------------------------------------
(* The theorems. *)

LEMMA Invariance == Spec => []IInv
  BY InitIInv, NextKeepsIInv, PTL DEF Spec

\* Every variable keeps its type.
THEOREM TypeCorrect == Spec => []TypeOK
<1>1. IInv => TypeOK
  BY DEF IInv
<1> QED BY <1>1, Invariance, PTL

\* has_loops lets no sequence of calls, whatever the windows, make a window reach
\* itself over parents, anchors and restrict windows.
THEOREM NeverLoops == Spec => []NoLoops
<1>1. IInv => NoLoops
  BY DEF IInv
<1> QED BY <1>1, Invariance, PTL

\* The relation of a window without anchor is always TOPLEFT, so that no position is
\* computed through a NULL anchor.
THEOREM AnchorWhereNeeded == Spec => []RelationNeedsAnchor
<1>1. IInv => RelationNeedsAnchor
  BY DEF IInv
<1> QED BY <1>1, Invariance, PTL

\* A reference dangles only from the moment on the window it leads to is freed, and then
\* only as an anchor or restrict window.
LEMMA DanglesOnlyWhenFreed ==
    ASSUME IInv, IInv', Next, NEW w \in live'
    PROVE  Dangling(w)' \ Dangling(w) \subseteq
               IF DelFree THEN {deleting} \cap {anchor[w], restrict[w]} ELSE {}
<1> USE WindowsAssumption
<1> DEFINE R == Refs(parent, anchor, restrict, w)
           R2 == Refs(parent', anchor', restrict', w)
<1>0. w \in AllWindows /\ w # Terminal
  BY DEF IInv, TypeOK, AllWindows
<1>1. SUFFICES \/ live' = live /\ R2 \subseteq R \cup live \cup {Terminal}
               \/ live \subseteq live' /\ R2 \subseteq R \cup live
               \/ DelFree /\ live' = live \ {deleting} /\ R2 \subseteq R /\ parent[w] # deleting
  BY DEF Dangling, Refs
<1>2. ASSUME NEW v \in Windows, NEW p \in OrNull(Windows), NEW d \in Depths, New(v, p, d)
      PROVE  live \subseteq live' /\ R2 \subseteq R \cup live
  BY <1>0, <1>2 DEF New, IInv, TypeOK, Refs, OrNull
<1>3. ASSUME NEW v \in Windows, NEW p \in OrNull(Windows), NEW d \in Depths, NewFails(v, p, d)
      PROVE  live' = live /\ R2 \subseteq R
  BY <1>3 DEF NewFails
<1>4. ASSUME NEW v, NEW p \in OrNull(live), Reparent(v, p), UNCHANGED <<live, anchor, restrict>>
      PROVE  live' = live /\ R2 \subseteq R \cup live
  BY <1>0, <1>4 DEF Reparent, IInv, TypeOK, Refs, OrNull
<1>5. ASSUME NEW v \in Windows, NEW a \in OrNull(Windows), NEW r \in Relations, SetAnchor(v, a, r)
      PROVE  live' = live /\ R2 \subseteq R \cup live
  BY <1>0, <1>5 DEF SetAnchor, IInv, TypeOK, Refs, OrNull
<1>6. ASSUME NEW v \in Windows, NEW r \in OrNull(Windows), SetRestrict(v, r)
      PROVE  live' = live /\ R2 \subseteq R \cup live \cup {Terminal}
  BY <1>0, <1>6 DEF SetRestrict, IInv, TypeOK, Refs, OrNull
<1>7. CASE DelFree
  <2>1. live' = live \ {deleting} /\ w \in live /\ w # deleting /\ deleting \in Windows
    BY <1>7 DEF DelFree, IInv, TypeOK, OrNull
  <2>2. R2 = R
    BY <1>0, <1>7, <2>1 DEF DelFree, IInv, TypeOK, Refs
  <2>3. parent'[w] \in OrNull(live') /\ parent'[w] = parent[w] /\ deleting # Null
    <3>1. parent' = [parent EXCEPT ![deleting] = Null] /\ deleting # Null
      BY <1>7 DEF DelFree
    <3> QED BY <1>0, <2>1, <3>1 DEF IInv, TypeOK, NothingLeftBehind
  <2> QED BY <1>7, <2>1, <2>2, <2>3 DEF OrNull
<1>8. CASE \/ \E v \in Windows, d \in Depths : SetDepth(v, d)
           \/ \E v \in Windows : DelBegin(v)
  BY <1>8 DEF SetDepth, DelBegin
<1>9. CASE \E v \in Windows, p \in OrNull(Windows) : SetParent(v, p)
  BY <1>4, <1>9 DEF SetParent
<1>10. CASE DelChild
  BY <1>4, <1>10 DEF DelChild, OrNull
<1> QED BY <1>2, <1>3, <1>5, <1>6, <1>7, <1>8, <1>9, <1>10 DEF Next

\* No window is ever left with a freed parent, and of the anchors and restrict windows
\* t3_win_del makes those dangle that lead to the window it frees, and nothing makes any
\* other dangle.
THEOREM NeverDangling == Spec => NoDangling
<1>1. IInv /\ IInv' /\ [Next]_vars =>
          [\A w \in live' :
               /\ parent'[w] \in OrNull(live')
               /\ Dangling(w)' \ Dangling(w) \subseteq
                      IF DelFree THEN {deleting} \cap {anchor[w], restrict[w]} ELSE {}]_vars
  <2> SUFFICES ASSUME IInv, IInv', Next, NEW w \in live'
               PROVE  /\ parent'[w] \in OrNull(live')
                      /\ Dangling(w)' \ Dangling(w) \subseteq
                             IF DelFree THEN {deleting} \cap {anchor[w], restrict[w]} ELSE {}
    OBVIOUS
  <2>1. parent'[w] \in OrNull(live')
    BY DEF IInv, NothingLeftBehind
  <2> QED BY <2>1, DanglesOnlyWhenFreed
<1> QED BY <1>1, Invariance, PTL DEF Spec, NoDangling

\* Whether a window is anchored or restricted to w.
HeldOnTo(w) == \E v \in live : w \in {anchor[v], restrict[v]}

\* A client that anchors and restricts nothing to a window any more when it deletes it
\* never has a window that refers to freed memory: nothing else is asked of it.
THEOREM LettingGoSuffices ==
    Spec /\ [][\A w \in Windows : DelBegin(w) => ~HeldOnTo(w)]_vars
        => [](\A w \in live : Dangling(w) = {})
<1> DEFINE Whole == \A w \in live : Dangling(w) = {}
           LetGo == deleting # Null => ~HeldOnTo(deleting)
           Polite == \A w \in Windows : DelBegin(w) => ~HeldOnTo(w)
<1>1. Init => Whole /\ LetGo
  BY DEF Init
<1>2. IInv /\ IInv' /\ Whole /\ LetGo /\ [Next]_vars /\ [Polite]_vars => Whole' /\ LetGo'
  <2>1. CASE UNCHANGED vars
    BY <2>1 DEF vars, Dangling, HeldOnTo
  <2>2. ASSUME IInv, IInv', Whole, LetGo, Next, Polite PROVE Whole'
    <3> SUFFICES ASSUME NEW w \in live' PROVE Dangling(w)' = {}
      OBVIOUS
    <3>1. Dangling(w) = {}
      <4>1. w \in AllWindows
        BY <2>2 DEF IInv, TypeOK, AllWindows
      <4> QED BY <2>2, <4>1 DEF IInv, NothingLeftBehind, Dangling
    <3>2. DelFree => deleting \notin {anchor[w], restrict[w]}
      <4> SUFFICES ASSUME DelFree PROVE w \in live /\ deleting # Null
        BY <2>2 DEF HeldOnTo
      <4> QED BY DEF DelFree
    <3> QED BY <2>2, <3>1, <3>2, DanglesOnlyWhenFreed
  <2>3. ASSUME IInv, Whole, LetGo, Next, Polite PROVE LetGo'
    <3>1. CASE deleting = Null
      <4>1. CASE \E w \in Windows : DelBegin(w)
        BY <2>3, <4>1 DEF DelBegin, HeldOnTo
      <4>2. CASE ~\E w \in Windows : DelBegin(w)
        BY <2>3, <3>1, <4>2 DEF Next, New, NewFails, SetParent, SetAnchor, SetDepth, SetRestrict,
                                DelChild, DelFree
      <4> QED BY <4>1, <4>2
    <3>2. CASE deleting # Null
      <4>1. DelChild \/ DelFree
        BY <2>3, <3>2 DEF Next, New, NewFails, SetParent, SetAnchor, SetDepth, SetRestrict, DelBegin
      <4> QED BY <2>3, <3>2, <4>1 DEF DelChild, DelFree, HeldOnTo
    <3> QED BY <3>1, <3>2
  <2> QED BY <2>1, <2>2, <2>3
<1> QED BY <1>1, <1>2, Invariance, PTL DEF Spec

\* The doubly linked lists are well formed and sorted by depth after every call, and
\* after every iteration of the loop of t3_win_del.
THEOREM ListsWellFormed == Spec => []ListsAgree
<1>1. IInv => ListsAgree
  BY DEF IInv
<1> QED BY <1>1, Invariance, PTL

\* A t3_win_new that fails after its insertion gives every list back as it was.
THEOREM FailedNewUndone == Spec => FailedNewIsInvisible
<1>1. IInv => [\A w \in Windows, p \in OrNull(Windows), d \in Depths :
                  NewFails(w, p, d) => list' = list]_vars
  BY FailedNewRestores
<1> QED BY <1>1, Invariance, PTL DEF FailedNewIsInvisible

\* A round of the loop of t3_win_del is not refused: giving the first child to the
\* terminal closes no loop, and takes one child from the window.
LEMMA DelChildGivesOne ==
    ASSUME IInv, DelChild
    PROVE  \E v \in Children(deleting) :
               Children(deleting)' = Children(deleting) \ {v} /\ parent'[v] = Null
<1> USE WindowsAssumption
<1> PICK w, v : w = deleting /\ v = list.head[deleting]
  OBVIOUS
<1> DEFINE tried == [parent EXCEPT ![v] = Null]
<1>1. w # Null /\ w \in live /\ v # Null /\ w \in OrNull(live)
  BY DEF DelChild, IInv, TypeOK, OrNull
<1>2. v \in Linked /\ parent[v] = w
  BY <1>1, Typing DEF WellLinked, PointsInside, EndsAgree, OrNull
<1>3. v \in live /\ v \in Windows /\ v \in AllWindows /\ v # Terminal
  BY <1>2 DEF Linked, IInv, TypeOK, AllWindows
<1>4. \A x \in AllWindows : tried[x] = IF x = v THEN Null ELSE parent[x]
  BY DEF IInv, TypeOK
<1>5. \A x \in AllWindows : Refs(tried, anchor, restrict, x) \subseteq Refs(parent, anchor, restrict, x)
  BY <1>4 DEF Refs
<1>6. Refs(tried, anchor, restrict, Terminal) = {}
  <2>1. Terminal \in AllWindows \ live
    BY DEF IInv, TypeOK, AllWindows
  <2> QED BY <1>5, <2>1 DEF IInv, NothingLeftBehind
<1>7. LoopFree(tried, anchor, restrict)
  <2> HIDE DEF tried
  <2>1. \A x \in AllWindows : Refs(tried, anchor, restrict, x)
                                  \subseteq Refs(parent, anchor, restrict, x) \cup {Terminal}
    BY <1>5
  <2> QED BY <1>6, <2>1, NoLoopThroughTerminal DEF IInv, NoLoops
<1>8. \A x \in AllWindows : Refs(tried, anchor, restrict, x) \subseteq AllWindows
  <2>1. \A x \in AllWindows : Refs(parent, anchor, restrict, x) \subseteq AllWindows
    BY DEF IInv, TypeOK, Refs, OrNull, AllWindows
  <2> QED BY <1>5, <2>1
<1>9. ~HasLoops(tried, anchor, restrict, v, v)
  <2> HIDE DEF tried
  <2> QED BY <1>3, <1>7, <1>8, NoLoopNoneFound
<1>10. parent' = tried
  BY <1>1, <1>2, <1>9 DEF DelChild, Reparent
<1>11. live' = live /\ deleting' = w
  BY DEF DelChild
<1>12. v \in Children(w)
  BY <1>2, <1>3 DEF Children
<1>13. \A x \in live : x \in AllWindows
  BY DEF IInv, TypeOK, AllWindows
<1>14. Children(deleting)' = Children(w) \ {v} /\ parent'[v] = Null
  <2> HIDE DEF tried
  <2> QED BY <1>1, <1>3, <1>4, <1>10, <1>11, <1>13 DEF Children
<1> QED BY <1>12, <1>14

\* t3_win_del never gets stuck on a child it cannot give away, and frees a window only
\* when it is nobody's parent, though its loop looks at nothing but the head of a list.
THEOREM ChildrenGivenAway == Spec => DelGivesAwayChildren
<1>1. ASSUME IInv, DelFree PROVE Children(deleting) = {}
  <2>1. /\ deleting # Null /\ deleting \in live /\ deleting \in OrNull(live)
        /\ list.head[deleting] = Null
    BY <1>1 DEF DelFree, IInv, TypeOK, OrNull
  <2>2. \A v \in Linked : parent[v] # deleting
    BY <1>1, <2>1, Typing, EmptyListNoChildren
  <2>3. parent[deleting] # deleting
    <3>1. {deleting} \in SUBSET AllWindows
      BY <1>1, <2>1 DEF IInv, TypeOK, AllWindows
    <3>2. \E x \in {deleting} : Refs(parent, anchor, restrict, x) \cap {deleting} = {}
      BY <1>1, <3>1 DEF IInv, NoLoops, LoopFree
    <3> QED BY <2>1, <3>2 DEF Refs
  <2> QED BY <2>2, <2>3 DEF Children, Linked
<1>2. IInv => [/\ DelChild => \E v \in Children(deleting) :
                                 /\ Children(deleting)' = Children(deleting) \ {v}
                                 /\ parent'[v] = Null
               /\ DelFree => Children(deleting) = {}]_vars
  BY <1>1, DelChildGivesOne
<1> QED BY <1>2, Invariance, PTL DEF DelGivesAwayChildren

\* A well-formed list is searched to an end: were there none, the whole list would be
\* passed, and with it its tail, after which comes NULL.
LEMMA SearchFindsEnd ==
    ASSUME NEW M \in SUBSET Windows, NEW P \in SUBSET OrNull(Windows),
           NEW par \in [AllWindows -> OrNull(Windows)], NEW dep \in [AllWindows -> Int],
           NEW L \in ListPointers, WellLinked(L, par, dep, M, P),
           NEW p \in P, NEW d \in Int
    PROVE  \E ptr \in OrNull(Windows) : SearchEndsAt(L, dep, p, d, ptr)
<1> DEFINE Closed(V) == ClosedUnderSearch(V, L, dep, p, d)
           I == {v \in OrNull(Windows) : \A V \in SUBSET OrNull(Windows) : Closed(V) => v \in V}
           Mine == {v \in M : par[v] = p}
<1> USE WindowsAssumption
<1>1. SUFFICES ASSUME \A v \in I : v # Null /\ dep[v] < d PROVE FALSE
  <2>1. \A v \in OrNull(Windows) : v # Null => v \in AllWindows /\ dep[v] \in Int
    BY DEF OrNull, AllWindows
  <2> QED BY <2>1 DEF SearchEndsAt
<1>2. L.head[p] \in I
  BY DEF ClosedUnderSearch, ListPointers, OrNull
<1>3. \A v \in I : L.next[v] \in I
  <2> SUFFICES ASSUME NEW v \in I PROVE L.next[v] \in I
    OBVIOUS
  <2>1. v \in Windows /\ v # Null /\ dep[v] < d
    BY <1>1 DEF OrNull
  <2>2. L.next[v] \in OrNull(Windows)
    BY <2>1 DEF ListPointers
  <2>3. ASSUME NEW V \in SUBSET OrNull(Windows), Closed(V) PROVE L.next[v] \in V
    BY <2>1, <2>3 DEF ClosedUnderSearch
  <2> QED BY <2>2, <2>3
<1>4. Null \notin I
  BY <1>1
<1>5. I \subseteq OrNull(Windows)
  OBVIOUS
<1> HIDE DEF I
<1>6. Mine \subseteq I
  <2>1. SUFFICES ASSUME Mine \ I # {} PROVE FALSE
    OBVIOUS
  <2>2. PICK w \in Mine \ I : L.prev[w] \notin Mine \ I
    BY <2>1 DEF WellLinked, NoRings
  <2>3. CASE L.prev[w] = Null
    BY <1>2, <2>2, <2>3 DEF WellLinked, EndsAgree
  <2>4. CASE L.prev[w] # Null
    <3>1. L.prev[w] \in Mine /\ L.next[L.prev[w]] = w
      BY <2>2, <2>4 DEF WellLinked, PointsInside, NeighboursAgree, OrNull
    <3> QED BY <1>3, <2>2, <3>1
  <2> QED BY <2>3, <2>4
<1>7. L.tail[p] \in Mine /\ L.next[L.tail[p]] = Null
  BY <1>2, <1>4 DEF WellLinked, EndsAgree, PointsInside, OrNull
<1> QED BY <1>3, <1>4, <1>6, <1>7

\* ... and to one end only: what comes after a window does not depend on how the search
\* got there.
LEMMA SearchEndsOnce ==
    ASSUME NEW L \in ListPointers, NEW dep \in [AllWindows -> Int],
           NEW p \in OrNull(Windows), NEW d \in Int,
           NEW ptr \in OrNull(Windows), SearchEndsAt(L, dep, p, d, ptr),
           NEW q \in OrNull(Windows), SearchEndsAt(L, dep, p, d, q)
    PROVE  q = ptr
<1> DEFINE Steps(C) == \A v \in C : v # Null /\ dep[v] < d => L.next[v] \in C
           Before == {v \in OrNull(Windows) :
                          \A C \in SUBSET OrNull(Windows) : v \in C /\ Steps(C) => ptr \in C}
<1> USE WindowsAssumption
<1>1. \A v \in {ptr, q} : ~(v # Null /\ dep[v] < d)
  <2>1. \A v \in {ptr, q} : v # Null => v \in AllWindows /\ dep[v] \in Int /\ dep[v] >= d
    BY DEF SearchEndsAt, OrNull, AllWindows
  <2> QED BY <2>1
<1>2. \A C \in SUBSET OrNull(Windows) : L.head[p] \in C /\ Steps(C) => ptr \in C /\ q \in C
  BY DEF SearchEndsAt, ClosedUnderSearch
<1>3. L.head[p] \in Before
  BY <1>2 DEF ListPointers
<1>4. Steps(Before)
  <2> SUFFICES ASSUME NEW v \in Before, v # Null, dep[v] < d PROVE L.next[v] \in Before
    OBVIOUS
  <2>1. L.next[v] \in OrNull(Windows) /\ v \in OrNull(Windows) /\ ptr # v
    BY <1>1 DEF ListPointers, OrNull
  <2>2. ASSUME NEW C \in SUBSET OrNull(Windows), L.next[v] \in C, Steps(C) PROVE ptr \in C
    <3>1. Steps(C \cup {v}) /\ C \cup {v} \in SUBSET OrNull(Windows)
      BY <2>1, <2>2
    <3>2. ptr \in C \cup {v}
      BY <3>1
    <3> QED BY <2>1, <3>2
  <2> QED BY <2>1, <2>2
<1>5. Before \in SUBSET OrNull(Windows)
  OBVIOUS
<1>6. q \in Before
  <2> HIDE DEF Before
  <2> QED BY <1>2, <1>3, <1>4, <1>5
<1>7. {q} \in SUBSET OrNull(Windows) /\ Steps({q})
  BY <1>1
<1> QED BY <1>6, <1>7

\* insert_window always finds one place for a window: its loop neither goes round for
\* ever nor depends on anything but the list and the depths.
THEOREM SearchesEnd == Spec => []SearchEnds
<1>1. ASSUME IInv PROVE SearchEnds
  <2> SUFFICES ASSUME NEW p \in OrNull(live), NEW d \in Depths
               PROVE  \E ptr \in OrNull(Windows) :
                          /\ SearchEndsAt(list, depth, p, d, ptr)
                          /\ \A q \in OrNull(Windows) : SearchEndsAt(list, depth, p, d, q) => q = ptr
    BY DEF SearchEnds
  <2>1. /\ Linked \in SUBSET Windows /\ OrNull(live) \in SUBSET OrNull(Windows)
        /\ list \in ListPointers /\ WellLinked(list, parent, depth, Linked, OrNull(live))
        /\ parent \in [AllWindows -> OrNull(Windows)] /\ depth \in [AllWindows -> Int] /\ d \in Int
    BY <1>1, DepthsAssumption DEF IInv, TypeOK, ListsAgree, Linked, OrNull
  <2>2. PICK ptr \in OrNull(Windows) : SearchEndsAt(list, depth, p, d, ptr)
    BY <2>1, SearchFindsEnd
  <2>3. \A q \in OrNull(Windows) : SearchEndsAt(list, depth, p, d, q) => q = ptr
    BY <2>1, <2>2, SearchEndsOnce
  <2> QED BY <2>2, <2>3
<1> QED BY <1>1, Invariance, PTL
=============================================================================
