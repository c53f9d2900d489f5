--------------------------- MODULE LinePaintProofs ---------------------------
(***************************************************************************)
(* Proofs about LinePaint.                                                 *)
(***************************************************************************)
EXTENDS LinePaint, Counting, SequenceTheorems

-----------------------------------------------------------------------------
(* The sizes of blocks.                                                     *)

\* The blocks on the lines of client c.
BlocksOf(c) ==
    [ch : c.chars \cup {Space}, attr : Attrs \cup {DefaultAttr}, marks : 0 .. c.marks]

\* The clients' sizes and numbers of combining characters have a greatest one.
LEMMA Bounds ==
    /\ MaxHeight \in Nat \ {0} /\ \A h \in Heights : h \in Nat \ {0} /\ h <= MaxHeight
    /\ Max(Widths) \in Nat \ {0} /\ \A w \in Widths : w \in Nat \ {0} /\ w <= Max(Widths)
    /\ MaxMarks \in Nat /\ \A c \in Clients : c.marks <= MaxMarks
<1>1. Heights \subseteq Nat \ {0} /\ Widths \subseteq Nat \ {0}
  BY ClientsAssumption DEF Heights, Widths
<1>2. {c.marks : c \in Clients} \subseteq Nat
  BY ClientsAssumption
<1>3. ASSUME NEW S \in SUBSET Nat, IsBounded(S)
      PROVE  Max(S) \in S /\ \A n \in S : n <= Max(S)
  <2>1. PICK m \in S : \A n \in S : n <= m
    BY <1>3 DEF IsBounded
  <2> QED BY <2>1, MaxOfNumbers
<1>4. Max(Heights) \in Heights /\ \A n \in Heights : n <= Max(Heights)
  BY <1>1, <1>3, ClientsAssumption
<1>5. Max(Widths) \in Widths /\ \A n \in Widths : n <= Max(Widths)
  BY <1>1, <1>3, ClientsAssumption
<1>6. MaxMarks \in {c.marks : c \in Clients} /\ \A n \in {c.marks : c \in Clients} : n <= MaxMarks
  BY <1>2, <1>3, ClientsAssumption DEF MaxMarks
<1> QED BY <1>1, <1>2, <1>4, <1>5, <1>6 DEF MaxHeight

\* The sizes of one client's window, too.
LEMMA ClientBounds ==
    ASSUME NEW c \in Clients
    PROVE  /\ \A h \in c.heights : h \in Nat \ {0} /\ h <= Max(c.heights)
           /\ \A w \in c.widths : w \in Nat \ {0} /\ w <= Max(c.widths)
           /\ Max(c.heights) \in 1 .. MaxHeight /\ Max(c.widths) \in 1 .. Max(Widths)
           /\ c.heights \subseteq 1 .. MaxHeight /\ c.widths \subseteq 1 .. Max(Widths)
<1>1. c.heights \subseteq Nat \ {0} /\ c.widths \subseteq Nat \ {0}
  BY ClientsAssumption
<1>2. ASSUME NEW S \in SUBSET Nat, IsBounded(S)
      PROVE  Max(S) \in S /\ \A n \in S : n <= Max(S)
  <2>1. PICK m \in S : \A n \in S : n <= m
    BY <1>2 DEF IsBounded
  <2> QED BY <2>1, MaxOfNumbers
<1>3. Max(c.heights) \in c.heights /\ \A n \in c.heights : n <= Max(c.heights)
  BY <1>1, <1>2, ClientsAssumption
<1>4. Max(c.widths) \in c.widths /\ \A n \in c.widths : n <= Max(c.widths)
  BY <1>1, <1>2, ClientsAssumption
<1>5. c.heights \subseteq Heights /\ c.widths \subseteq Widths
  BY DEF Heights, Widths
<1> QED BY <1>1, <1>3, <1>4, <1>5, Bounds

\* A block takes one or two cells, and some bytes.
LEMMA BlockSize ==
    ASSUME NEW c \in Clients, NEW b \in BlocksOf(c)
    PROVE  WidthOf(b) \in {1, 2} /\ BytesOf(b) \in Nat \ {0}
<1>1. b.ch \in Chars /\ b.marks \in Nat
  BY CharsAssumption, ClientsAssumption DEF BlocksOf
<1>2. CharWidth[b.ch] \in {1, 2} /\ CharBytes[b.ch] \in Nat \ {0}
  BY <1>1, CharsAssumption
<1> QED BY <1>1, <1>2 DEF WidthOf, BytesOf, MarkBytes

-----------------------------------------------------------------------------
(* The cells and bytes of the first blocks of a line.                       *)

\* No blocks take nothing.
LEMMA NoBlocks ==
    ASSUME NEW s
    PROVE  WidthTo(s, 0) = 0 /\ BytesTo(s, 0) = 0
BY SumZero DEF WidthTo, BytesTo

\* What the first blocks take depends on these only.
LEMMA SameBlocks ==
    ASSUME NEW s, NEW t, NEW k \in Nat, \A i \in 1 .. k : s[i] = t[i]
    PROVE  WidthTo(s, k) = WidthTo(t, k) /\ BytesTo(s, k) = BytesTo(t, k)
<1>1. \A i \in 1 .. k : [j \in 1 .. k |-> WidthOf(s[j])][i] = [j \in 1 .. k |-> WidthOf(t[j])][i]
  OBVIOUS
<1>2. \A i \in 1 .. k : [j \in 1 .. k |-> BytesOf(s[j])][i] = [j \in 1 .. k |-> BytesOf(t[j])][i]
  OBVIOUS
<1>3. WidthTo(s, k) = WidthTo(t, k)
  BY <1>1, SumSame DEF WidthTo
<1>4. BytesTo(s, k) = BytesTo(t, k)
  BY <1>2, SumSame DEF BytesTo
<1> QED BY <1>3, <1>4

\* One block more takes its width more.
LEMMA NextBlock ==
    ASSUME NEW s, NEW k \in Nat
    PROVE  WidthTo(s, k + 1) = WidthTo(s, k) + WidthOf(s[k + 1])
<1> DEFINE w == [i \in 1 .. k + 1 |-> WidthOf(s[i])]
           v == [i \in 1 .. k |-> WidthOf(s[i])]
<1>1. \A i \in 1 .. k : w[i] = v[i]
  OBVIOUS
<1>2. w[k + 1] = WidthOf(s[k + 1])
  OBVIOUS
<1> HIDE DEF w, v
<1>3. SumTo(w, k) = SumTo(v, k)
  BY <1>1, SumSame
<1>4. SumTo(w, k + 1) = SumTo(w, k) + w[k + 1]
  BY SumNext
<1>5. WidthTo(s, k + 1) = SumTo(w, k + 1) /\ WidthTo(s, k) = SumTo(v, k)
  BY DEF w, v, WidthTo
<1> QED BY <1>2, <1>3, <1>4, <1>5

\* More blocks take more.
LEMMA MoreBlocks ==
    ASSUME NEW c \in Clients, NEW s \in Seq(BlocksOf(c)), NEW k \in 0 .. Len(s), NEW j \in 0 .. k
    PROVE  /\ WidthTo(s, j) \in Nat /\ WidthTo(s, k) \in Nat
           /\ BytesTo(s, j) \in Nat /\ BytesTo(s, k) \in Nat
           /\ j < k => WidthTo(s, j) < WidthTo(s, k) /\ BytesTo(s, j) < BytesTo(s, k)
<1> DEFINE w == [i \in 1 .. k |-> WidthOf(s[i])]
           v == [i \in 1 .. k |-> BytesOf(s[i])]
           wj == [i \in 1 .. j |-> WidthOf(s[i])]
           vj == [i \in 1 .. j |-> BytesOf(s[i])]
<1>1. \A i \in 1 .. k : w[i] \in Nat \ {0} /\ v[i] \in Nat \ {0}
  <2> SUFFICES ASSUME NEW i \in 1 .. k PROVE w[i] \in Nat \ {0} /\ v[i] \in Nat \ {0}
    OBVIOUS
  <2>1. s[i] \in BlocksOf(c)
    BY ElementOfSeq
  <2> QED BY <2>1, BlockSize
<1>2. \A i \in 1 .. j : wj[i] = w[i] /\ vj[i] = v[i]
  OBVIOUS
<1>3. WidthTo(s, k) = SumTo(w, k) /\ BytesTo(s, k) = SumTo(v, k)
  BY DEF WidthTo, BytesTo
<1>4. WidthTo(s, j) = SumTo(wj, j) /\ BytesTo(s, j) = SumTo(vj, j)
  BY DEF WidthTo, BytesTo
<1> HIDE DEF w, v, wj, vj
<1>5. SumTo(wj, j) = SumTo(w, j)
  BY <1>2, SumSame
<1>6. SumTo(vj, j) = SumTo(v, j)
  BY <1>2, SumSame
<1>7. k \in Nat /\ j \in Nat
  BY LenProperties
<1>8. SumTo(w, k) \in Nat /\ SumTo(v, k) \in Nat
  <2>1. (\A i \in 1 .. k : w[i] \in Nat) /\ (\A i \in 1 .. k : v[i] \in Nat)
    BY <1>1
  <2> QED BY <1>7, <2>1, SumNat
<1>9. SumTo(w, j) \in Nat /\ SumTo(v, j) \in Nat
  <2>1. (\A i \in 1 .. j : w[i] \in Nat) /\ (\A i \in 1 .. j : v[i] \in Nat)
    BY <1>1, <1>7
  <2> QED BY <1>7, <2>1, SumNat
<1>10. ASSUME j < k PROVE SumTo(w, j) < SumTo(w, k) /\ SumTo(v, j) < SumTo(v, k)
  <2>1. (\A i \in 1 .. k : w[i] \in Nat \ {0}) /\ (\A i \in 1 .. k : v[i] \in Nat \ {0})
    BY <1>1
  <2> QED BY <1>7, <1>10, <2>1, SumGrows
<1> QED BY <1>3, <1>4, <1>5, <1>6, <1>8, <1>9, <1>10

\* Where t holds the k blocks of s after the m-th, it takes their cells.
LEMMA BlocksBetween ==
    ASSUME NEW c \in Clients, NEW s \in Seq(BlocksOf(c)), NEW t,
           NEW m \in 0 .. Len(s), NEW k \in Nat, m + k <= Len(s),
           \A i \in 1 .. k : t[i] = s[m + i]
    PROVE  WidthTo(s, m + k) = WidthTo(s, m) + WidthTo(t, k)
<1> DEFINE w == [i \in 1 .. m + k |-> WidthOf(s[i])]
           wm == [i \in 1 .. m |-> WidthOf(s[i])]
           v == [i \in 1 .. k |-> WidthOf(t[i])]
<1>0. m \in Nat
  BY LenProperties
<1>1. \A i \in 1 .. m + k : w[i] \in Nat
  <2> SUFFICES ASSUME NEW i \in 1 .. m + k PROVE w[i] \in Nat
    OBVIOUS
  <2>1. s[i] \in BlocksOf(c)
    BY <1>0, ElementOfSeq
  <2> QED BY <2>1, BlockSize
<1>2. \A i \in 1 .. m : wm[i] = w[i]
  BY <1>0
<1>3. \A i \in 1 .. k : v[i] = w[m + i]
  BY <1>0
<1>4. /\ WidthTo(s, m + k) = SumTo(w, m + k)
      /\ WidthTo(s, m) = SumTo(wm, m) /\ WidthTo(t, k) = SumTo(v, k)
  BY DEF WidthTo
<1> HIDE DEF w, wm, v
<1>5. SumTo(wm, m) = SumTo(w, m)
  BY <1>0, <1>2, SumSame
<1>6. SumTo(w, m + k) = SumTo(w, m) + SumTo(v, k)
  BY <1>0, <1>1, <1>3, SumShift
<1> QED BY <1>4, <1>5, <1>6

\* The cells of all blocks of s.
CellsOf(s) == WidthTo(s, Len(s))

\* Two runs of blocks one after the other.
LEMMA CellsOfBoth ==
    ASSUME NEW c \in Clients, NEW s \in Seq(BlocksOf(c)), NEW t \in Seq(BlocksOf(c))
    PROVE  /\ s \o t \in Seq(BlocksOf(c)) /\ Len(s \o t) = Len(s) + Len(t)
           /\ CellsOf(s \o t) = CellsOf(s) + CellsOf(t)
           /\ \A k \in 0 .. Len(s) :
                  WidthTo(s \o t, k) = WidthTo(s, k) /\ BytesTo(s \o t, k) = BytesTo(s, k)
<1>1. /\ s \o t \in Seq(BlocksOf(c)) /\ Len(s \o t) = Len(s) + Len(t)
      /\ \A i \in 1 .. Len(s) : (s \o t)[i] = s[i]
      /\ \A i \in 1 .. Len(t) : t[i] = (s \o t)[Len(s) + i]
  BY ConcatProperties, LenProperties
<1>2. Len(s) \in Nat /\ Len(t) \in Nat
  BY LenProperties
<1>3. ASSUME NEW k \in 0 .. Len(s)
      PROVE  WidthTo(s \o t, k) = WidthTo(s, k) /\ BytesTo(s \o t, k) = BytesTo(s, k)
  <2>1. k \in Nat /\ \A i \in 1 .. k : (s \o t)[i] = s[i]
    BY <1>1, <1>2
  <2> QED BY <2>1, SameBlocks
<1>4. WidthTo(s \o t, Len(s) + Len(t)) = WidthTo(s \o t, Len(s)) + WidthTo(t, Len(t))
  <2>1. Len(s) \in 0 .. Len(s \o t) /\ Len(s) + Len(t) <= Len(s \o t)
    BY <1>1, <1>2
  <2> QED BY <1>1, <1>2, <2>1, BlocksBetween
<1>5. WidthTo(s \o t, Len(s)) = WidthTo(s, Len(s))
  BY <1>2, <1>3
<1> QED BY <1>1, <1>3, <1>4, <1>5 DEF CellsOf

\* The first k blocks of s.
LEMMA CellsOfFirst ==
    ASSUME NEW c \in Clients, NEW s \in Seq(BlocksOf(c)), NEW k \in 0 .. Len(s)
    PROVE  /\ SubSeq(s, 1, k) \in Seq(BlocksOf(c)) /\ Len(SubSeq(s, 1, k)) = k
           /\ \A j \in 0 .. k : /\ WidthTo(SubSeq(s, 1, k), j) = WidthTo(s, j)
                                /\ BytesTo(SubSeq(s, 1, k), j) = BytesTo(s, j)
           /\ CellsOf(SubSeq(s, 1, k)) = WidthTo(s, k)
<1>1. Len(s) \in Nat /\ k \in Nat
  BY LenProperties
<1>2. \A i \in 1 .. k : s[i] \in BlocksOf(c)
  BY <1>1, ElementOfSeq
<1>3. /\ SubSeq(s, 1, k) \in Seq(BlocksOf(c)) /\ Len(SubSeq(s, 1, k)) = k
      /\ \A i \in 1 .. k : SubSeq(s, 1, k)[i] = s[i]
  BY <1>1, <1>2, SubSeqProperties
<1>4. ASSUME NEW j \in 0 .. k
      PROVE  /\ WidthTo(SubSeq(s, 1, k), j) = WidthTo(s, j)
             /\ BytesTo(SubSeq(s, 1, k), j) = BytesTo(s, j)
  <2>1. j \in Nat /\ \A i \in 1 .. j : SubSeq(s, 1, k)[i] = s[i]
    BY <1>1, <1>3
  <2> QED BY <2>1, SameBlocks
<1> QED BY <1>1, <1>3, <1>4 DEF CellsOf

\* The blocks of s after the k-th.
LEMMA CellsOfRest ==
    ASSUME NEW c \in Clients, NEW s \in Seq(BlocksOf(c)), NEW k \in 0 .. Len(s)
    PROVE  /\ SubSeq(s, k + 1, Len(s)) \in Seq(BlocksOf(c))
           /\ CellsOf(SubSeq(s, k + 1, Len(s))) = CellsOf(s) - WidthTo(s, k)
<1>1. Len(s) \in Nat /\ k \in Nat
  BY LenProperties
<1>2. \A i \in k + 1 .. Len(s) : s[i] \in BlocksOf(c)
  BY <1>1, ElementOfSeq
<1> DEFINE t == SubSeq(s, k + 1, Len(s))
<1>3. /\ t \in Seq(BlocksOf(c)) /\ Len(t) = Len(s) - k
      /\ \A i \in 1 .. Len(s) - k : t[i] = s[k + i]
  BY <1>1, <1>2, SubSeqProperties
<1> HIDE DEF t
<1>4. PICK n \in Nat : n = Len(s) - k
  BY <1>1
<1>5. WidthTo(s, k + n) = WidthTo(s, k) + WidthTo(t, n)
  BY <1>1, <1>3, <1>4, BlocksBetween
<1>6. k + n = Len(s) /\ WidthTo(s, k) \in Nat /\ WidthTo(t, n) \in Nat
  BY <1>1, <1>3, <1>4, MoreBlocks
<1>7. CellsOf(t) = CellsOf(s) - WidthTo(s, k)
  BY <1>3, <1>4, <1>5, <1>6 DEF CellsOf
<1> QED BY <1>3, <1>7 DEF t

\* n spaces take n cells.
LEMMA CellsOfSpaces ==
    ASSUME NEW c \in Clients, NEW n \in Nat, NEW a \in Attrs \cup {DefaultAttr}
    PROVE  /\ Spaces(n, a) \in Seq(BlocksOf(c)) /\ Len(Spaces(n, a)) = n
           /\ CellsOf(Spaces(n, a)) = n
<1>1. Char(Space, a) \in BlocksOf(c) /\ WidthOf(Char(Space, a)) = 1
  BY CharsAssumption, ClientsAssumption DEF Char, BlocksOf, WidthOf
<1>2. Spaces(n, a) \in Seq(BlocksOf(c)) /\ Len(Spaces(n, a)) = n
  BY <1>1 DEF Spaces
<1> DEFINE w == [i \in 1 .. n |-> WidthOf(Spaces(n, a)[i])]
<1>3. \A i \in 1 .. n : w[i] = 1
  BY <1>1 DEF Spaces
<1> HIDE DEF w
<1>4. SumTo(w, n) = n
  BY <1>3, SumOfOnes
<1> QED BY <1>2, <1>4 DEF CellsOf, WidthTo, w

\* The bytes of n spaces.
SpaceBytes(n) == SumTo([i \in 1 .. n |-> CharBytes[Space]], n)

\* Blocks of one size: k of them take k cells, and as many bytes as k spaces.
LEMMA CellsOfOneSize ==
    ASSUME NEW c \in Clients, OneSize(c), NEW s \in Seq(BlocksOf(c)), NEW k \in 0 .. Len(s)
    PROVE  WidthTo(s, k) = k /\ BytesTo(s, k) = SpaceBytes(k)
<1>1. k \in Nat
  BY LenProperties
<1>2. ASSUME NEW i \in 1 .. k PROVE WidthOf(s[i]) = 1 /\ BytesOf(s[i]) = CharBytes[Space]
  <2>1. s[i] \in BlocksOf(c)
    BY <1>1, LenProperties, ElementOfSeq
  <2>2. CharBytes[Space] \in Nat
    BY CharsAssumption
  <2>3. s[i].ch \in c.chars \cup {Space} /\ s[i].marks = 0
    BY <2>1 DEF OneSize, BlocksOf
  <2> QED BY <2>2, <2>3 DEF OneSize, WidthOf, BytesOf, MarkBytes
<1> DEFINE w == [i \in 1 .. k |-> WidthOf(s[i])]
           v == [i \in 1 .. k |-> BytesOf(s[i])]
           u == [i \in 1 .. k |-> CharBytes[Space]]
<1>3. \A i \in 1 .. k : w[i] = 1
  BY <1>2
<1>4. \A i \in 1 .. k : v[i] = u[i]
  BY <1>2
<1>5. WidthTo(s, k) = SumTo(w, k) /\ BytesTo(s, k) = SumTo(v, k) /\ SpaceBytes(k) = SumTo(u, k)
  BY DEF WidthTo, BytesTo, SpaceBytes
<1> HIDE DEF w, v, u
<1>6. SumTo(w, k) = k
  BY <1>1, <1>3, SumOfOnes
<1>7. SumTo(v, k) = SumTo(u, k)
  BY <1>1, <1>4, SumSame
<1> QED BY <1>5, <1>6, <1>7

-----------------------------------------------------------------------------
(* Writing on a line.  A line is in order when its width is that of its     *)
(* data; a cached position is in order when a block starts there and the    *)
(* cached width is that of the blocks before it, or, with blocks of one     *)
(* size, would start there if the line were long enough.                    *)

LinesOf(c) == [start : Nat, width : Nat, blocks : Seq(BlocksOf(c))]
Caches == [line : Int, pos : Nat, width : Nat]
StatesOf(c) == [line : LinesOf(c), y : Nat, x : Nat, cache : Caches, damaged : BOOLEAN]

LineFits(l) == l.width = CellsOf(l.blocks)
Starts(l, q) ==
    \E k \in 0 .. Len(l.blocks) :
        q.pos = BytesTo(l.blocks, k) /\ q.width = l.start + WidthTo(l.blocks, k)
CacheFits(c, l, q) ==
    \/ l.blocks = <<>>
    \/ ~ OneSize(c) /\ Starts(l, q)
    \/ OneSize(c) /\ q.width >= l.start /\ q.pos = SpaceBytes(q.width - l.start)

Good(c, s) ==
    /\ s \in StatesOf(c) /\ LineFits(s.line) /\ ~ s.damaged
    /\ s.cache.line = s.y => CacheFits(c, s.line, s.cache)

\* A line that holds blocks takes cells, and one that takes none holds none.
LEMMA EmptyLines ==
    ASSUME NEW c \in Clients, NEW l \in LinesOf(c), LineFits(l)
    PROVE  l.blocks = <<>> <=> l.width = 0
<1>1. l.blocks \in Seq(BlocksOf(c)) /\ Len(l.blocks) \in Nat
  BY LenProperties DEF LinesOf
<1>2. CASE l.blocks = <<>>
  BY <1>2, NoBlocks DEF LineFits, CellsOf
<1>3. CASE l.blocks # <<>>
  <2>1. Len(l.blocks) # 0
    BY <1>1, <1>3, EmptySeq
  <2>2. WidthTo(l.blocks, 0) < WidthTo(l.blocks, Len(l.blocks)) /\ WidthTo(l.blocks, 0) = 0
    BY <1>1, <2>1, MoreBlocks, NoBlocks
  <2> QED BY <1>1, <1>3, <2>2 DEF LineFits, CellsOf
<1> QED BY <1>2, <1>3

\* A cached position of a block in a line that reaches further: the search is entered
\* at that block.
LEMMA EntryFound ==
    ASSUME NEW c \in Clients, NEW s, Good(c, s), s.cache.line = s.y, s.line.blocks # <<>>,
           s.cache.width < s.line.start + s.line.width
    PROVE  /\ BlocksBefore(s) # {}
           /\ Entry(s) \in 0 .. Len(s.line.blocks) - 1
           /\ s.cache.width = s.line.start + WidthTo(s.line.blocks, Entry(s))
<1> DEFINE old == s.line.blocks
           q == s.cache
<1>1. /\ s.line \in LinesOf(c) /\ old \in Seq(BlocksOf(c)) /\ Len(old) \in Nat
      /\ s.line.start \in Nat /\ s.line.width \in Nat /\ q.width \in Nat
      /\ s.line.width = WidthTo(old, Len(old))
  <2>1. s.line \in LinesOf(c) /\ q \in Caches
    BY DEF Good, StatesOf
  <2>2. old \in Seq(BlocksOf(c)) /\ s.line.start \in Nat /\ s.line.width \in Nat /\ q.width \in Nat
    BY <2>1 DEF LinesOf, Caches
  <2> QED BY <2>1, <2>2, LenProperties DEF Good, LineFits, CellsOf
<1>2. CacheFits(c, s.line, q)
  BY DEF Good
<1>3. Starts(s.line, q)
  <2>1. CASE ~ OneSize(c)
    BY <1>2, <2>1 DEF CacheFits
  <2>2. CASE OneSize(c)
    <3>1. q.width >= s.line.start /\ q.pos = SpaceBytes(q.width - s.line.start)
      BY <1>2, <2>2 DEF CacheFits
    <3>2. WidthTo(old, Len(old)) = Len(old)
      BY <1>1, <2>2, CellsOfOneSize
    <3>3. PICK k \in 0 .. Len(old) : k = q.width - s.line.start
      BY <1>1, <3>1, <3>2
    <3>4. WidthTo(old, k) = k /\ BytesTo(old, k) = SpaceBytes(k)
      BY <1>1, <2>2, CellsOfOneSize
    <3> QED BY <1>1, <3>1, <3>3, <3>4 DEF Starts
  <2> QED BY <2>1, <2>2
<1>4. PICK k \in 0 .. Len(old) : q.pos = BytesTo(old, k) /\ q.width = s.line.start + WidthTo(old, k)
  BY <1>3 DEF Starts
<1>5. k \in BlocksBefore(s)
  BY <1>4 DEF BlocksBefore
<1>6. ASSUME NEW j \in BlocksBefore(s) PROVE j = k
  <2>1. j \in 0 .. Len(old) /\ BytesTo(old, j) = BytesTo(old, k)
    BY <1>4, <1>6 DEF BlocksBefore
  <2>2. ~ (j < k)
    <3> SUFFICES ASSUME j < k PROVE FALSE
      OBVIOUS
    <3>1. j \in 0 .. k
      BY <1>1, <2>1
    <3>2. BytesTo(old, j) < BytesTo(old, k) /\ BytesTo(old, j) \in Nat
      BY <1>1, <3>1, MoreBlocks
    <3> QED BY <2>1, <3>2
  <2>3. ~ (k < j)
    <3> SUFFICES ASSUME k < j PROVE FALSE
      OBVIOUS
    <3>1. k \in 0 .. j
      BY <1>1, <2>1
    <3>2. BytesTo(old, k) < BytesTo(old, j) /\ BytesTo(old, k) \in Nat
      BY <1>1, <2>1, <3>1, MoreBlocks
    <3> QED BY <2>1, <3>2
  <2> QED BY <1>1, <2>1, <2>2, <2>3
<1>7. Entry(s) = k
  BY <1>5, <1>6 DEF Entry
<1>8. k # Len(old)
  BY <1>1, <1>4
<1> QED BY <1>1, <1>4, <1>5, <1>7, <1>8

\* From there the loops count the columns where the blocks end.
LEMMA EndsFromEntry ==
    ASSUME NEW c \in Clients, NEW s, s.line \in LinesOf(c), NEW k \in 0 .. Len(s.line.blocks),
           s.cache.width = s.line.start + WidthTo(s.line.blocks, k),
           NEW i \in 0 .. Len(s.line.blocks)
    PROVE  /\ EndFrom(s, k, i) = s.line.start + WidthTo(s.line.blocks, i)
           /\ EndFrom(s, k, i) \in Nat
<1>1. s.line.blocks \in Seq(BlocksOf(c)) /\ s.line.start \in Nat
  BY DEF LinesOf
<1>2. Len(s.line.blocks) \in Nat
  BY <1>1, LenProperties
<1>3. WidthTo(s.line.blocks, k) \in Nat /\ WidthTo(s.line.blocks, i) \in Nat
  BY <1>1, <1>2, MoreBlocks
<1> QED BY <1>1, <1>3 DEF EndFrom

\* What an operation that writes on the line of s, of a window of w columns, leaves:
\* a state in order, with its line within the window, and with no position cached for
\* another line.
Written(c, s, t, w) ==
    /\ Good(c, t) /\ t.y = s.y
    /\ t.cache.line \in {-1, s.y}
    /\ t.line.start + t.line.width <= w

With(s, l, q) == [s EXCEPT !.line = l, !.cache = q]

\* A state with another line and another cached position is in order when these are.
LEMMA GoodWith ==
    ASSUME NEW c \in Clients, NEW s, Good(c, s), NEW w \in Nat,
           NEW l \in LinesOf(c), LineFits(l), l.start + l.width <= w,
           NEW q \in Caches, q.line \in {-1, s.y}, q.line = s.y => CacheFits(c, l, q)
    PROVE  Written(c, s, With(s, l, q), w) /\ With(s, l, q).x = s.x
<1>1. s \in StatesOf(c) /\ ~ s.damaged
  BY DEF Good
<1>2. /\ With(s, l, q) \in StatesOf(c) /\ With(s, l, q).line = l /\ With(s, l, q).cache = q
      /\ With(s, l, q).x = s.x /\ With(s, l, q).y = s.y /\ With(s, l, q).damaged = s.damaged
  BY <1>1 DEF StatesOf, With
<1> QED BY <1>1, <1>2 DEF Written, Good

\* Five runs of blocks one after the other.
Joined(s1, s2, s3, s4, s5) == s1 \o s2 \o s3 \o s4 \o s5

LEMMA CellsOfFive ==
    ASSUME NEW c \in Clients, NEW s1 \in Seq(BlocksOf(c)), NEW s2 \in Seq(BlocksOf(c)),
           NEW s3 \in Seq(BlocksOf(c)), NEW s4 \in Seq(BlocksOf(c)), NEW s5 \in Seq(BlocksOf(c)),
           NEW n \in 0 .. Len(s1)
    PROVE  /\ Joined(s1, s2, s3, s4, s5) \in Seq(BlocksOf(c))
           /\ n \in 0 .. Len(Joined(s1, s2, s3, s4, s5))
           /\ CellsOf(Joined(s1, s2, s3, s4, s5))
                  = CellsOf(s1) + CellsOf(s2) + CellsOf(s3) + CellsOf(s4) + CellsOf(s5)
           /\ WidthTo(Joined(s1, s2, s3, s4, s5), n) = WidthTo(s1, n)
           /\ BytesTo(Joined(s1, s2, s3, s4, s5), n) = BytesTo(s1, n)
<1>1. ASSUME NEW s \in Seq(BlocksOf(c)), NEW t \in Seq(BlocksOf(c)), n \in 0 .. Len(s)
      PROVE  /\ s \o t \in Seq(BlocksOf(c)) /\ n \in 0 .. Len(s \o t)
             /\ CellsOf(s \o t) = CellsOf(s) + CellsOf(t)
             /\ WidthTo(s \o t, n) = WidthTo(s, n) /\ BytesTo(s \o t, n) = BytesTo(s, n)
  <2>1. Len(s) \in Nat /\ Len(t) \in Nat
    BY LenProperties
  <2> QED BY <1>1, <2>1, CellsOfBoth
<1> DEFINE t2 == s1 \o s2
           t3 == t2 \o s3
           t4 == t3 \o s4
           t5 == t4 \o s5
<1>2. /\ t2 \in Seq(BlocksOf(c)) /\ n \in 0 .. Len(t2) /\ CellsOf(t2) = CellsOf(s1) + CellsOf(s2)
      /\ WidthTo(t2, n) = WidthTo(s1, n) /\ BytesTo(t2, n) = BytesTo(s1, n)
  BY <1>1
<1> HIDE DEF t2
<1>3. /\ t3 \in Seq(BlocksOf(c)) /\ n \in 0 .. Len(t3) /\ CellsOf(t3) = CellsOf(t2) + CellsOf(s3)
      /\ WidthTo(t3, n) = WidthTo(t2, n) /\ BytesTo(t3, n) = BytesTo(t2, n)
  BY <1>1, <1>2
<1> HIDE DEF t3
<1>4. /\ t4 \in Seq(BlocksOf(c)) /\ n \in 0 .. Len(t4) /\ CellsOf(t4) = CellsOf(t3) + CellsOf(s4)
      /\ WidthTo(t4, n) = WidthTo(t3, n) /\ BytesTo(t4, n) = BytesTo(t3, n)
  BY <1>1, <1>3
<1> HIDE DEF t4
<1>5. /\ t5 \in Seq(BlocksOf(c)) /\ n \in 0 .. Len(t5) /\ CellsOf(t5) = CellsOf(t4) + CellsOf(s5)
      /\ WidthTo(t5, n) = WidthTo(t4, n) /\ BytesTo(t5, n) = BytesTo(t4, n)
  BY <1>1, <1>4
<1> HIDE DEF t5
<1>6. t5 = Joined(s1, s2, s3, s4, s5)
  BY DEF t5, t4, t3, t2, Joined
<1> QED BY <1>2, <1>3, <1>4, <1>5, <1>6

\* The blocks that Replace leaves: their cells, and those of the ones before.
Patched(old, new, first, last, front, a, back, b) ==
    SubSeq(old, 1, first - 1) \o Spaces(front, a) \o new
    \o Spaces(back, b) \o SubSeq(old, last + 1, Len(old))

Patches(c, old, new, first, last, front, a, back, b, n) ==
    /\ c \in Clients /\ old \in Seq(BlocksOf(c)) /\ new \in Seq(BlocksOf(c))
    /\ first \in 1 .. Len(old) /\ last \in first .. Len(old) /\ n = first - 1
    /\ front \in Nat /\ a \in Attrs \cup {DefaultAttr}
    /\ back \in Nat /\ b \in Attrs \cup {DefaultAttr}

LEMMA ReplacedBlocks ==
    ASSUME NEW c, NEW old, NEW new, NEW first, NEW last, NEW front, NEW a, NEW back, NEW b, NEW n,
           Patches(c, old, new, first, last, front, a, back, b, n)
    PROVE  LET t == Patched(old, new, first, last, front, a, back, b) IN
           /\ t \in Seq(BlocksOf(c)) /\ n \in 0 .. Len(t)
           /\ CellsOf(t) = WidthTo(old, n) + front + CellsOf(new) + back
                           + (CellsOf(old) - WidthTo(old, last))
           /\ WidthTo(t, n) = WidthTo(old, n) /\ BytesTo(t, n) = BytesTo(old, n)
<1> USE DEF Patches
<1> DEFINE t == Patched(old, new, first, last, front, a, back, b)
<1>0. Len(old) \in Nat
  BY LenProperties
<1>1. n \in 0 .. Len(old)
  BY <1>0
<1> DEFINE s1 == SubSeq(old, 1, n)
           s2 == Spaces(front, a)
           s4 == Spaces(back, b)
           s5 == SubSeq(old, last + 1, Len(old))
<1>2. n \in 0 .. n /\ last \in 0 .. Len(old)
  BY <1>0, <1>1
<1>3. /\ s1 \in Seq(BlocksOf(c)) /\ Len(s1) = n /\ CellsOf(s1) = WidthTo(old, n)
      /\ WidthTo(s1, n) = WidthTo(old, n) /\ BytesTo(s1, n) = BytesTo(old, n)
  BY <1>2, CellsOfFirst
<1>4. s2 \in Seq(BlocksOf(c)) /\ CellsOf(s2) = front
  BY CellsOfSpaces
<1>5. s4 \in Seq(BlocksOf(c)) /\ CellsOf(s4) = back
  BY CellsOfSpaces
<1>6. s5 \in Seq(BlocksOf(c)) /\ CellsOf(s5) = CellsOf(old) - WidthTo(old, last)
  BY <1>2, CellsOfRest
<1>7. t = Joined(s1, s2, new, s4, s5)
  BY DEF Joined, Patched
<1> HIDE DEF s1, s2, s4, s5, t
<1>8. n \in 0 .. Len(s1)
  BY <1>2, <1>3
<1>9. /\ t \in Seq(BlocksOf(c)) /\ n \in 0 .. Len(t)
      /\ CellsOf(t) = CellsOf(s1) + CellsOf(s2) + CellsOf(new) + CellsOf(s4) + CellsOf(s5)
      /\ WidthTo(t, n) = WidthTo(s1, n) /\ BytesTo(t, n) = BytesTo(s1, n)
  <2>1. s1 \in Seq(BlocksOf(c)) /\ s2 \in Seq(BlocksOf(c))
    BY <1>3, <1>4
  <2>2. s4 \in Seq(BlocksOf(c)) /\ s5 \in Seq(BlocksOf(c))
    BY <1>5, <1>6
  <2>3. CellsOf(Joined(s1, s2, new, s4, s5))
            = CellsOf(s1) + CellsOf(s2) + CellsOf(new) + CellsOf(s4) + CellsOf(s5)
    BY <2>1, <2>2, <1>8, CellsOfFive
  <2>4. Joined(s1, s2, new, s4, s5) \in Seq(BlocksOf(c))
    BY <2>1, <2>2, <1>8, CellsOfFive
  <2>5. n \in 0 .. Len(Joined(s1, s2, new, s4, s5))
    BY <2>1, <2>2, <1>8, CellsOfFive
  <2>6. WidthTo(Joined(s1, s2, new, s4, s5), n) = WidthTo(s1, n)
    BY <2>1, <2>2, <1>8, CellsOfFive
  <2>7. BytesTo(Joined(s1, s2, new, s4, s5), n) = BytesTo(s1, n)
    BY <2>1, <2>2, <1>8, CellsOfFive
  <2> QED BY <1>7, <2>3, <2>4, <2>5, <2>6, <2>7
<1> QED BY <1>1, <1>3, <1>4, <1>5, <1>6, <1>9 DEF t

\* The arithmetic of Replace.
Overlap(start, width0, x, wd, w, before, upto) ==
    /\ x < start + width0 /\ x + wd > start /\ x + wd <= w /\ start + width0 <= w
    /\ upto <= width0
    /\ IF x >= start THEN start + before <= x ELSE before = 0
    /\ start + upto >= x + wd \/ upto = width0
LeftBefore(x, start, col) == IF x >= start THEN x - col ELSE 0
LeftAfter(end, x, wd) == Max({end - x - wd, 0})
NewWidth(start, width0, x, wd) ==
    Max({width0, wd + x - start}) + Max({start - x, 0})
NewStart(start, x) == Min({start, x})

LEMMA ReplacedWidth ==
    ASSUME NEW start \in Nat, NEW width0 \in Nat, NEW x \in Nat, NEW wd \in Nat, NEW w \in Nat,
           NEW before \in Nat, NEW upto \in Nat, Overlap(start, width0, x, wd, w, before, upto)
    PROVE  /\ LeftBefore(x, start, start + before) \in Nat
           /\ LeftAfter(start + upto, x, wd) \in Nat
           /\ NewWidth(start, width0, x, wd) \in Nat
           /\ NewStart(start, x) \in Nat /\ (start <= x => NewStart(start, x) = start)
           /\ NewWidth(start, width0, x, wd)
                  = before + LeftBefore(x, start, start + before) + wd
                    + LeftAfter(start + upto, x, wd) + (width0 - upto)
           /\ NewStart(start, x) + NewWidth(start, width0, x, wd) <= w
<1> DEFINE u == start + upto - x - wd
           v == wd + x - start
           z == start - x
<1>1. u \in Int /\ v \in Int /\ z \in Int
  OBVIOUS
<1> HIDE DEF u, v, z
<1>2. Max({u, 0}) = IF u >= 0 THEN u ELSE 0
  BY <1>1, MaxOfTwo
<1>3. Max({width0, v}) = IF width0 >= v THEN width0 ELSE v
  BY <1>1, MaxOfTwo
<1>4. Max({z, 0}) = IF z >= 0 THEN z ELSE 0
  BY <1>1, MaxOfTwo
<1>5. NewStart(start, x) = IF start <= x THEN start ELSE x
  BY MinOfTwo DEF NewStart
<1>6. LeftAfter(start + upto, x, wd) = IF u >= 0 THEN u ELSE 0
  BY <1>2 DEF LeftAfter, u
<1>7. NewWidth(start, width0, x, wd)
          = (IF width0 >= v THEN width0 ELSE v) + (IF z >= 0 THEN z ELSE 0)
  BY <1>3, <1>4 DEF NewWidth, v, z
<1>8. CASE x >= start /\ start + upto >= x + wd
  BY <1>5, <1>6, <1>7, <1>8 DEF Overlap, LeftBefore, u, v, z
<1>9. CASE x >= start /\ ~ (start + upto >= x + wd)
  BY <1>5, <1>6, <1>7, <1>9 DEF Overlap, LeftBefore, u, v, z
<1>10. CASE ~ (x >= start) /\ start + upto >= x + wd
  BY <1>5, <1>6, <1>7, <1>10 DEF Overlap, LeftBefore, u, v, z
<1>11. CASE ~ (x >= start) /\ ~ (start + upto >= x + wd)
  BY <1>5, <1>6, <1>7, <1>11 DEF Overlap, LeftBefore, u, v, z
<1> QED BY <1>8, <1>9, <1>10, <1>11

\* Replace, given the first and the last block that the new ones overlap.
Overlaps(c, s, w, new, wd, first, last, col, end) ==
    /\ Good(c, s) /\ new \in Seq(BlocksOf(c)) /\ wd = CellsOf(new) /\ wd \in Nat
    /\ s.x < s.line.start + s.line.width /\ s.x + wd > s.line.start /\ s.x + wd <= w
    /\ s.line.start + s.line.width <= w
    /\ first \in 1 .. Len(s.line.blocks) /\ last \in first .. Len(s.line.blocks)
    /\ col = s.line.start + WidthTo(s.line.blocks, first - 1)
    /\ end = s.line.start + WidthTo(s.line.blocks, last)
    /\ IF s.x >= s.line.start THEN col <= s.x ELSE first = 1
    /\ end >= s.x + wd \/ last = Len(s.line.blocks)

LEMMA ReplaceWrites ==
    ASSUME NEW c \in Clients, NEW s, NEW w \in Nat, NEW new, NEW wd, NEW first, NEW last,
           NEW col, NEW end, Overlaps(c, s, w, new, wd, first, last, col, end)
    PROVE  /\ Written(c, s, Replace(s, new, wd, first, last, col, end), w)
           /\ Replace(s, new, wd, first, last, col, end).x = s.x
<1> DEFINE old   == s.line.blocks
           x     == s.x
           start == s.line.start
           width0 == s.line.width
           front == LeftBefore(x, start, col)
           back  == LeftAfter(end, x, wd)
           a     == old[first].attr
           b     == old[last].attr
           t     == Patched(old, new, first, last, front, a, back, b)
           l     == [start |-> NewStart(start, x), width |-> NewWidth(start, width0, x, wd),
                     blocks |-> t]
           q     == IF start > x THEN NoCache
                    ELSE [line |-> s.y, pos |-> BytesTo(old, first - 1), width |-> col]
<1>0. /\ Good(c, s) /\ new \in Seq(BlocksOf(c)) /\ wd = CellsOf(new) /\ wd \in Nat
      /\ x < start + width0 /\ x + wd > start /\ x + wd <= w
      /\ start + width0 <= w
      /\ first \in 1 .. Len(old) /\ last \in first .. Len(old)
  BY DEF Overlaps
<1>1. /\ s.line \in LinesOf(c) /\ old \in Seq(BlocksOf(c)) /\ Len(old) \in Nat
      /\ start \in Nat /\ width0 \in Nat /\ x \in Nat /\ s.y \in Nat
      /\ width0 = CellsOf(old)
  <2>1. s.line \in LinesOf(c) /\ x \in Nat /\ s.y \in Nat /\ LineFits(s.line)
    BY <1>0 DEF Good, StatesOf
  <2>2. old \in Seq(BlocksOf(c)) /\ start \in Nat /\ width0 \in Nat
    BY <2>1 DEF LinesOf
  <2> QED BY <2>1, <2>2, LenProperties DEF LineFits
<1>2. a \in Attrs \cup {DefaultAttr} /\ b \in Attrs \cup {DefaultAttr}
  <2>1. old[first] \in BlocksOf(c) /\ old[last] \in BlocksOf(c)
    BY <1>0, <1>1, ElementOfSeq
  <2> QED BY <2>1 DEF BlocksOf
<1>3. PICK n \in 0 .. Len(old) : n = first - 1
  BY <1>0, <1>1
<1> DEFINE before == WidthTo(old, n)
           upto == WidthTo(old, last)
<1>4. before \in Nat /\ upto \in Nat /\ upto <= width0 /\ BytesTo(old, n) \in Nat
  <2>1. last \in 0 .. Len(old) /\ Len(old) \in 0 .. Len(old) /\ n \in 0 .. n
    BY <1>0, <1>1
  <2>2. before \in Nat
    BY <1>1, <2>1, MoreBlocks
  <2>3. upto \in Nat
    BY <1>1, <2>1, MoreBlocks
  <2>4. last < Len(old) => upto < WidthTo(old, Len(old))
    BY <1>1, <2>1, MoreBlocks
  <2>5. BytesTo(old, n) \in Nat
    BY <1>1, <2>1, MoreBlocks
  <2>6. last < Len(old) \/ last = Len(old)
    BY <1>0, <1>1
  <2>7. CellsOf(old) \in Nat
    BY <1>1
  <2> HIDE DEF old
  <2> QED BY <1>1, <2>2, <2>3, <2>4, <2>5, <2>6, <2>7 DEF CellsOf
<1>5. col = start + before /\ end = start + upto /\ BytesTo(old, n) = BytesTo(old, first - 1)
  BY <1>3 DEF Overlaps
<1>6. /\ IF x >= start THEN start + before <= x ELSE before = 0
      /\ start + upto >= x + wd \/ upto = width0
  <2>1. first = 1 => before = 0
    BY <1>3, NoBlocks
  <2>2. last = Len(old) => upto = width0
    BY <1>1 DEF CellsOf
  <2> HIDE DEF before, upto, old
  <2>3. /\ IF x >= start THEN col <= x ELSE first = 1
        /\ end >= x + wd \/ last = Len(old)
    BY DEF Overlaps, old
  <2> QED BY <1>1, <1>4, <1>5, <2>1, <2>2, <2>3
<1>7. Overlap(start, width0, x, wd, w, before, upto)
  BY <1>0, <1>4, <1>6 DEF Overlap
<1> HIDE DEF before, upto, x, start, width0, old, a, b
<1>8. start + before = col /\ start + upto = end
  BY <1>5
<1>9. /\ front \in Nat /\ back \in Nat
      /\ NewStart(start, x) \in Nat /\ (start <= x => NewStart(start, x) = start)
      /\ NewWidth(start, width0, x, wd) \in Nat
      /\ NewStart(start, x) + NewWidth(start, width0, x, wd) <= w
      /\ NewWidth(start, width0, x, wd) = before + front + wd + back + (width0 - upto)
  <2>1. front = LeftBefore(x, start, start + before) /\ back = LeftAfter(start + upto, x, wd)
    BY <1>8
  <2> HIDE DEF front, back
  <2>2. start \in Nat /\ width0 \in Nat /\ x \in Nat /\ wd \in Nat /\ before \in Nat /\ upto \in Nat
    BY <1>0, <1>1, <1>4
  <2>3. /\ LeftBefore(x, start, start + before) \in Nat
        /\ LeftAfter(start + upto, x, wd) \in Nat
        /\ NewWidth(start, width0, x, wd) \in Nat
        /\ NewStart(start, x) \in Nat /\ (start <= x => NewStart(start, x) = start)
        /\ NewWidth(start, width0, x, wd)
               = before + LeftBefore(x, start, start + before) + wd
                 + LeftAfter(start + upto, x, wd) + (width0 - upto)
        /\ NewStart(start, x) + NewWidth(start, width0, x, wd) <= w
    BY <1>7, <2>2, ReplacedWidth
  <2> QED BY <2>1, <2>3
<1> HIDE DEF front, back
<1>11. /\ t \in Seq(BlocksOf(c)) /\ n \in 0 .. Len(t)
       /\ CellsOf(t) = before + front + wd + back + (width0 - upto)
       /\ WidthTo(t, n) = before /\ BytesTo(t, n) = BytesTo(old, n)
  <2>1. t = Patched(old, new, first, last, front, a, back, b)
    OBVIOUS
  <2> HIDE DEF t
  <2>2. Patches(c, old, new, first, last, front, a, back, b, n)
    BY <1>0, <1>1, <1>2, <1>3, <1>9 DEF Patches
  <2>3. t \in Seq(BlocksOf(c)) /\ n \in 0 .. Len(t)
    BY <2>1, <2>2, ReplacedBlocks
  <2>4. CellsOf(t) = WidthTo(old, n) + front + CellsOf(new) + back
                     + (CellsOf(old) - WidthTo(old, last))
    BY <2>1, <2>2, ReplacedBlocks
  <2>5. WidthTo(t, n) = WidthTo(old, n) /\ BytesTo(t, n) = BytesTo(old, n)
    BY <2>1, <2>2, ReplacedBlocks
  <2> QED BY <1>0, <1>1, <2>3, <2>4, <2>5 DEF before, upto
<1> HIDE DEF t
<1>12. l \in LinesOf(c) /\ LineFits(l) /\ l.start + l.width <= w /\ l.start = NewStart(start, x)
  BY <1>9, <1>11 DEF LinesOf, LineFits
<1>13. q \in Caches /\ q.line \in {-1, s.y}
  BY <1>1, <1>3, <1>4, <1>5 DEF Caches, NoCache
<1>14. ASSUME q.line = s.y PROVE CacheFits(c, l, q)
  <2>1. ~ (start > x) /\ q.pos = BytesTo(old, n) /\ q.width = start + before
    BY <1>1, <1>14, <1>5 DEF NoCache
  <2>2. l.start = start
    BY <1>1, <1>9, <1>12, <2>1
  <2>3. q.pos = BytesTo(t, n) /\ q.width = l.start + WidthTo(t, n) /\ l.blocks = t
    BY <1>11, <2>1, <2>2
  <2> HIDE DEF q, l
  <2>4. Starts(l, q)
    BY <1>11, <2>3 DEF Starts
  <2>5. CASE ~ OneSize(c)
    BY <2>4, <2>5 DEF CacheFits
  <2>6. CASE OneSize(c)
    <3>1. before = n /\ BytesTo(old, n) = SpaceBytes(n)
      BY <1>1, <1>3, <2>6, CellsOfOneSize DEF before
    <3>2. n \in Nat /\ q.width = l.start + n /\ q.pos = SpaceBytes(n)
      BY <1>1, <1>3, <2>1, <2>2, <3>1
    <3>3. q.width - l.start = n /\ q.width >= l.start
      BY <1>1, <2>2, <3>2
    <3> QED BY <2>6, <3>2, <3>3 DEF CacheFits
  <2> QED BY <2>5, <2>6
<1>15. Replace(s, new, wd, first, last, col, end) = With(s, l, q)
  BY DEF Replace, With, l, q, t, front, back, a, b, x, start, width0, old, Patched, LeftBefore, LeftAfter,
         NewWidth, NewStart
<1> HIDE DEF l, q
<1>16. Written(c, s, With(s, l, q), w) /\ With(s, l, q).x = s.x
  BY <1>0, <1>12, <1>13, <1>14, GoodWith
<1> QED BY <1>15, <1>16

\* Overwrite finds the first and the last block that the new ones overlap.
CanOverwrite(c, s, w, new, wd) ==
    /\ Good(c, s) /\ new \in Seq(BlocksOf(c)) /\ wd = CellsOf(new) /\ wd \in Nat
    /\ s.line.blocks # <<>> /\ s.x < s.line.start + s.line.width /\ s.x + wd > s.line.start
    /\ s.x + wd <= w /\ s.line.start + s.line.width <= w
    /\ s.cache.line = s.y /\ (s.cache.width <= s.x \/ s.cache.width = s.line.start)

LEMMA OverwriteWrites ==
    ASSUME NEW c \in Clients, NEW s, NEW w \in Nat, NEW new, NEW wd,
           CanOverwrite(c, s, w, new, wd)
    PROVE  Written(c, s, Overwrite(s, new, wd), w) /\ Overwrite(s, new, wd).x = s.x
<1> DEFINE old    == s.line.blocks
           x      == s.x
           start  == s.line.start
           width0 == s.line.width
           cached == s.cache.width
           n      == Len(old)
           k      == Entry(s)
           at     == {i \in k + 1 .. n : EndFrom(s, k, i) > x}
           first  == Min(at)
           ends   == {i \in first .. n : EndFrom(s, k, i) >= x + wd}
           last   == IF ends = {} THEN n ELSE Min(ends)
<1>1. /\ Good(c, s) /\ wd \in Nat /\ old # <<>> /\ x < start + width0 /\ x + wd > start
      /\ x + wd <= w /\ start + width0 <= w /\ s.cache.line = s.y
      /\ (cached <= x \/ cached = start)
  BY DEF CanOverwrite
<1>2. /\ s.line \in LinesOf(c) /\ old \in Seq(BlocksOf(c)) /\ n \in Nat
      /\ start \in Nat /\ width0 \in Nat /\ x \in Nat /\ cached \in Nat /\ width0 = WidthTo(old, n)
  <2>1. s.line \in LinesOf(c) /\ x \in Nat /\ s.cache \in Caches /\ LineFits(s.line)
    BY <1>1 DEF Good, StatesOf
  <2>2. old \in Seq(BlocksOf(c)) /\ start \in Nat /\ width0 \in Nat /\ cached \in Nat
    BY <2>1 DEF LinesOf, Caches
  <2> QED BY <2>1, <2>2, LenProperties DEF LineFits, CellsOf
<1>3. width0 # 0
  BY <1>1, <1>2, EmptyLines DEF Good
<1>4. cached < start + width0
  <2> HIDE DEF cached, start, width0, x
  <2> QED BY <1>1, <1>2, <1>3
<1>5. BlocksBefore(s) # {} /\ k \in 0 .. n - 1 /\ cached = start + WidthTo(old, k)
  BY <1>1, <1>4, EntryFound
<1> HIDE DEF k
<1>6. ASSUME NEW i \in 0 .. n
      PROVE  EndFrom(s, k, i) = start + WidthTo(old, i) /\ EndFrom(s, k, i) \in Nat
  <2>1. k \in 0 .. n
    BY <1>2, <1>5
  <2> QED BY <1>2, <1>5, <2>1, EndsFromEntry
<1> HIDE DEF old, x, start, width0, cached, n
<1>7. n \in at /\ at \in SUBSET Nat
  BY <1>1, <1>2, <1>5, <1>6
<1>8. first \in at /\ \A i \in at : first <= i
  BY <1>7, MinOfNumbers
<1>9. first \in k + 1 .. n /\ EndFrom(s, k, first) > x
  BY <1>8
<1> DEFINE m == first - 1
<1>10. m \in k .. n /\ m \in 0 .. n /\ m + 1 = first /\ first \in 1 .. n
  BY <1>2, <1>5, <1>9
<1>11. m = k \/ EndFrom(s, k, m) <= x
  <2>1. m \notin at
    BY <1>2, <1>5, <1>8, <1>10
  <2>2. EndFrom(s, k, m) \in Nat
    BY <1>6, <1>10
  <2> HIDE DEF m
  <2> QED BY <1>2, <1>5, <1>10, <2>1, <2>2
<1>12. IF x >= start THEN EndFrom(s, k, m) <= x ELSE first = 1
  <2>1. CASE x >= start
    <3>1. EndFrom(s, k, k) = cached
      BY <1>2, <1>5, <1>6
    <3> QED BY <1>1, <1>2, <1>11, <2>1, <3>1
  <2>2. CASE ~ (x >= start)
    <3>1. WidthTo(old, k) = 0 /\ k \in 0 .. n
      <4>1. k \in 0 .. n /\ WidthTo(old, k) \in Nat
        BY <1>2, <1>5, MoreBlocks DEF n
      <4> QED BY <1>1, <1>2, <1>5, <2>2, <4>1
    <3>2. k = 0
      <4> SUFFICES ASSUME 0 < k PROVE FALSE
        BY <3>1
      <4>1. WidthTo(old, 0) < WidthTo(old, k)
        BY <1>2, <3>1, MoreBlocks DEF n
      <4> QED BY <3>1, <4>1, NoBlocks
    <3>3. 1 \in at
      <4>3. 1 \in 0 .. n /\ 1 \in 0 .. 1
        BY <1>2, <1>5
      <4>1. 1 \in 0 .. n /\ EndFrom(s, k, 1) \in Nat /\ WidthTo(old, 1) \in Nat
        BY <1>2, <1>6, <4>3, MoreBlocks DEF n
      <4>2. EndFrom(s, k, 1) = start + WidthTo(old, 1)
        BY <1>6, <4>1
      <4> QED BY <1>2, <2>2, <3>2, <4>1, <4>2
    <3> QED BY <1>8, <1>10, <2>2, <3>3
  <2> QED BY <2>1, <2>2
<1> HIDE DEF at, first, m
<1>13. last \in first .. n /\ (EndFrom(s, k, last) >= x + wd \/ last = n)
  <2>1. CASE ends = {}
    BY <1>2, <1>10, <2>1
  <2>2. CASE ends # {}
    <3>1. ends \in SUBSET Nat
      BY <1>10
    <3>2. Min(ends) \in ends
      BY <2>2, <3>1, MinOfNumbers
    <3> QED BY <2>2, <3>2
  <2> QED BY <2>1, <2>2
<1> HIDE DEF last
<1>14. last \in 0 .. n
  BY <1>2, <1>10, <1>13
<1>15. /\ EndFrom(s, k, m) = start + WidthTo(old, first - 1)
       /\ EndFrom(s, k, last) = start + WidthTo(old, last)
  BY <1>6, <1>10, <1>14 DEF m
<1>16. Overlaps(c, s, w, new, wd, first, last, EndFrom(s, k, m), EndFrom(s, k, last))
  BY <1>1, <1>10, <1>12, <1>13, <1>15 DEF Overlaps, CanOverwrite, old, x, start, width0, n
<1>17. Overwrite(s, new, wd)
           = Replace(s, new, wd, first, last, EndFrom(s, k, m), EndFrom(s, k, last))
  <2>1. n \in k + 1 .. n /\ ~ (EndFrom(s, k, n) <= x)
    <3>1. n \in k + 1 .. n /\ EndFrom(s, k, n) = start + width0
      BY <1>2, <1>5, <1>6
    <3> QED BY <1>1, <1>2, <3>1
  <2>2. Overwrite(s, new, wd)
            = IF BlocksBefore(s) = {} \/ (\A i \in k + 1 .. n : EndFrom(s, k, i) <= x)
              THEN [s EXCEPT !.damaged = TRUE]
              ELSE Replace(s, new, wd, first, last, EndFrom(s, k, m), EndFrom(s, k, last))
    BY DEF Overwrite, k, at, first, ends, last, m, old, x, n
  <2> QED BY <1>5, <2>1, <2>2
<1> QED BY <1>16, <1>17, ReplaceWrites

\* The other ways to write: n blocks, of wd cells, that end within the window.
CanWrite(c, s, w, new, wd) ==
    /\ Good(c, s) /\ new \in Seq(BlocksOf(c)) /\ wd = CellsOf(new) /\ wd \in Nat
    /\ s.x + wd <= w /\ s.line.start + s.line.width <= w

LEMMA WriteTypes ==
    ASSUME NEW c \in Clients, NEW s, NEW w, NEW new, NEW wd, CanWrite(c, s, w, new, wd)
    PROVE  /\ Good(c, s) /\ s \in StatesOf(c) /\ s.line \in LinesOf(c) /\ s.cache \in Caches
           /\ s.line.blocks \in Seq(BlocksOf(c)) /\ s.line.start \in Nat /\ s.line.width \in Nat
           /\ s.x \in Nat /\ s.y \in Nat /\ s.line.width = CellsOf(s.line.blocks)
           /\ new \in Seq(BlocksOf(c)) /\ wd = CellsOf(new) /\ wd \in Nat
           /\ s.x + wd <= w /\ s.line.start + s.line.width <= w
<1>1. s.line \in LinesOf(c) /\ s.x \in Nat /\ s.y \in Nat /\ s.cache \in Caches /\ LineFits(s.line)
  BY DEF CanWrite, Good, StatesOf
<1>2. s.line.blocks \in Seq(BlocksOf(c)) /\ s.line.start \in Nat /\ s.line.width \in Nat
  BY <1>1 DEF LinesOf
<1> QED BY <1>1, <1>2 DEF CanWrite, Good, LineFits

LEMMA EmptyWrites ==
    ASSUME NEW c \in Clients, NEW s, NEW w \in Nat, NEW new, NEW wd, CanWrite(c, s, w, new, wd)
    PROVE  Written(c, s, WriteEmpty(s, new, wd), w) /\ WriteEmpty(s, new, wd).x = s.x
<1> DEFINE l == [start |-> s.x, width |-> wd, blocks |-> new]
<1>1. l \in LinesOf(c) /\ LineFits(l) /\ l.start + l.width <= w
  BY WriteTypes DEF LinesOf, LineFits
<1>2. NoCache \in Caches /\ NoCache.line = -1 /\ s.y \in Nat
  BY WriteTypes DEF NoCache, Caches
<1>3. WriteEmpty(s, new, wd) = With(s, l, NoCache)
  BY DEF WriteEmpty, With
<1>4. Good(c, s)
  BY WriteTypes
<1> HIDE DEF l
<1>5. NoCache.line \in {-1, s.y} /\ ~ (NoCache.line = s.y)
  BY <1>2
<1>6. Written(c, s, With(s, l, NoCache), w) /\ With(s, l, NoCache).x = s.x
  BY <1>1, <1>2, <1>4, <1>5, GoodWith
<1> QED BY <1>3, <1>6

LEMMA BeforeWrites ==
    ASSUME NEW c \in Clients, NEW s, NEW w \in Nat, NEW new, NEW wd, CanWrite(c, s, w, new, wd),
           s.x + wd <= s.line.start
    PROVE  Written(c, s, WriteBefore(s, new, wd), w) /\ WriteBefore(s, new, wd).x = s.x
<1> DEFINE old == s.line.blocks
           start == s.line.start
           width0 == s.line.width
           x == s.x
           diff == start - (x + wd)
           b == new \o Spaces(diff, DefaultAttr)
           t == b \o old
           l == [start |-> x, width |-> width0 + wd + diff, blocks |-> t]
<1>1. /\ Good(c, s) /\ old \in Seq(BlocksOf(c)) /\ start \in Nat /\ width0 \in Nat
      /\ x \in Nat /\ s.y \in Nat /\ width0 = CellsOf(old)
      /\ new \in Seq(BlocksOf(c)) /\ wd = CellsOf(new) /\ wd \in Nat
      /\ x + wd <= w /\ start + width0 <= w
  BY WriteTypes
<1>2. WriteBefore(s, new, wd) = With(s, l, NoCache)
  BY DEF WriteBefore, With
<1>3. x + wd <= start
  OBVIOUS
<1> HIDE DEF old, start, width0, x
<1>4. diff \in Nat
  BY <1>1, <1>3
<1> HIDE DEF diff
<1>5. Spaces(diff, DefaultAttr) \in Seq(BlocksOf(c)) /\ CellsOf(Spaces(diff, DefaultAttr)) = diff
  BY <1>4, CellsOfSpaces
<1>6. b \in Seq(BlocksOf(c)) /\ CellsOf(b) = wd + diff
  BY <1>1, <1>5, CellsOfBoth
<1> HIDE DEF b
<1>7. t \in Seq(BlocksOf(c)) /\ CellsOf(t) = wd + diff + width0
  BY <1>1, <1>6, CellsOfBoth
<1> HIDE DEF t
<1>8. l \in LinesOf(c) /\ LineFits(l) /\ l.start + l.width <= w
  <2>1. width0 + wd + diff \in Nat /\ x + (width0 + wd + diff) <= w
    BY <1>1, <1>3, <1>4 DEF diff
  <2> QED BY <1>1, <1>4, <1>7, <2>1 DEF LinesOf, LineFits
<1>9. NoCache \in Caches /\ NoCache.line = -1
  BY DEF NoCache, Caches
<1> HIDE DEF l
<1>10. NoCache.line \in {-1, s.y} /\ ~ (NoCache.line = s.y)
  BY <1>1, <1>9
<1> QED BY <1>1, <1>2, <1>8, <1>9, <1>10, GoodWith

LEMMA AfterWrites ==
    ASSUME NEW c \in Clients, NEW s, NEW w \in Nat, NEW new, NEW wd, CanWrite(c, s, w, new, wd),
           s.line.blocks # <<>>, s.line.start + s.line.width <= s.x, s.cache.line = s.y
    PROVE  Written(c, s, WriteAfter(s, new, wd), w) /\ WriteAfter(s, new, wd).x = s.x
<1> DEFINE old == s.line.blocks
           start == s.line.start
           width0 == s.line.width
           x == s.x
           diff == x - (start + width0)
           b == old \o Spaces(diff, DefaultAttr)
           t == b \o new
           l == [start |-> start, width |-> width0 + wd + diff, blocks |-> t]
           q == s.cache
<1>1. /\ Good(c, s) /\ old \in Seq(BlocksOf(c)) /\ start \in Nat /\ width0 \in Nat
      /\ x \in Nat /\ s.y \in Nat /\ width0 = CellsOf(old) /\ q \in Caches
      /\ new \in Seq(BlocksOf(c)) /\ wd = CellsOf(new) /\ wd \in Nat
      /\ x + wd <= w /\ start + width0 <= w
  BY WriteTypes
<1>2. WriteAfter(s, new, wd) = With(s, l, q)
  <2>1. s \in StatesOf(c)
    BY WriteTypes
  <2>2. WriteAfter(s, new, wd) = [s EXCEPT !.line = l]
    BY DEF WriteAfter
  <2> HIDE DEF l
  <2>3. [s EXCEPT !.line = l] = [s EXCEPT !.line = l, !.cache = q]
    BY <2>1 DEF StatesOf
  <2> QED BY <2>2, <2>3 DEF With
<1>3. start + width0 <= x /\ old # <<>>
  OBVIOUS
<1>4. CacheFits(c, s.line, q)
  BY <1>1 DEF Good
<1>5. q.line = s.y
  OBVIOUS
<1> HIDE DEF old, start, width0, x, q
<1>6. diff \in Nat
  BY <1>1, <1>3
<1> HIDE DEF diff
<1>7. Spaces(diff, DefaultAttr) \in Seq(BlocksOf(c)) /\ CellsOf(Spaces(diff, DefaultAttr)) = diff
  BY <1>6, CellsOfSpaces
<1>8. /\ b \in Seq(BlocksOf(c)) /\ CellsOf(b) = width0 + diff /\ Len(old) <= Len(b)
      /\ \A k \in 0 .. Len(old) : WidthTo(b, k) = WidthTo(old, k) /\ BytesTo(b, k) = BytesTo(old, k)
  <2>1. Len(old) \in Nat /\ Len(Spaces(diff, DefaultAttr)) \in Nat
    BY <1>1, <1>7, LenProperties
  <2> QED BY <1>1, <1>7, <2>1, CellsOfBoth
<1> HIDE DEF b
<1>9. /\ t \in Seq(BlocksOf(c)) /\ CellsOf(t) = width0 + diff + wd /\ Len(b) <= Len(t)
      /\ \A k \in 0 .. Len(b) : WidthTo(t, k) = WidthTo(b, k) /\ BytesTo(t, k) = BytesTo(b, k)
  <2>1. Len(b) \in Nat /\ Len(new) \in Nat
    BY <1>1, <1>8, LenProperties
  <2> QED BY <1>1, <1>8, <2>1, CellsOfBoth
<1> HIDE DEF t
<1>10. l \in LinesOf(c) /\ LineFits(l) /\ l.start + l.width <= w
  <2>1. width0 + wd + diff \in Nat /\ start + (width0 + wd + diff) <= w
    BY <1>1, <1>3, <1>6 DEF diff
  <2> QED BY <1>1, <1>6, <1>9, <2>1 DEF LinesOf, LineFits
<1>11. CacheFits(c, l, q)
  <2>1. CASE OneSize(c)
    BY <1>3, <1>4, <2>1 DEF CacheFits, old, start
  <2>2. CASE ~ OneSize(c)
    <3>1. PICK k \in 0 .. Len(old) :
              q.pos = BytesTo(old, k) /\ q.width = start + WidthTo(old, k)
      BY <1>3, <1>4, <2>2 DEF CacheFits, Starts, old, start
    <3>2. Len(old) \in Nat /\ Len(b) \in Nat /\ Len(t) \in Nat
      BY <1>1, <1>8, <1>9, LenProperties
    <3>3. k \in 0 .. Len(b) /\ k \in 0 .. Len(t)
      BY <1>8, <1>9, <3>1, <3>2
    <3>4. BytesTo(t, k) = BytesTo(old, k) /\ WidthTo(t, k) = WidthTo(old, k)
      BY <1>8, <1>9, <3>1, <3>3
    <3> QED BY <2>2, <3>1, <3>3, <3>4 DEF CacheFits, Starts
  <2> QED BY <2>1, <2>2
<1> HIDE DEF l
<1> QED BY <1>1, <1>2, <1>5, <1>10, <1>11, GoodWith

\* Starting the search at the begin of the line, and moving the painting position, keep a
\* state in order.
LEMMA ResetGood ==
    ASSUME NEW c \in Clients, NEW s, Good(c, s)
    PROVE  /\ Good(c, CacheReset(s)) /\ CacheReset(s).line = s.line /\ CacheReset(s).x = s.x
           /\ CacheReset(s).y = s.y /\ CacheReset(s).cache.line = s.y
           /\ CacheReset(s).cache.width = s.line.start
<1> DEFINE q == [line |-> s.y, pos |-> 0, width |-> s.line.start]
<1>1. /\ s \in StatesOf(c) /\ s.line \in LinesOf(c) /\ s.line.start \in Nat /\ s.y \in Nat
      /\ s.line.blocks \in Seq(BlocksOf(c)) /\ ~ s.damaged /\ LineFits(s.line)
  BY DEF Good, StatesOf, LinesOf
<1>2. q \in Caches
  BY <1>1 DEF Caches
<1>3. CacheFits(c, s.line, q)
  <2>1. CASE OneSize(c)
    <3>1. q.width - s.line.start = 0 /\ q.width >= s.line.start
      BY <1>1
    <3>2. SpaceBytes(0) = 0
      BY SumZero DEF SpaceBytes
    <3> QED BY <2>1, <3>1, <3>2 DEF CacheFits
  <2>2. CASE ~ OneSize(c)
    <3>1. 0 \in 0 .. Len(s.line.blocks)
      BY <1>1, LenProperties
    <3>2. q.pos = BytesTo(s.line.blocks, 0) /\ q.width = s.line.start + WidthTo(s.line.blocks, 0)
      BY <1>1, NoBlocks
    <3> QED BY <2>2, <3>1, <3>2 DEF CacheFits, Starts
  <2> QED BY <2>1, <2>2
<1>4. CacheReset(s) = [s EXCEPT !.cache = q]
  BY DEF CacheReset
<1>5. q.line = s.y /\ q.width = s.line.start
  OBVIOUS
<1> HIDE DEF q
<1>6. /\ [s EXCEPT !.cache = q] \in StatesOf(c) /\ [s EXCEPT !.cache = q].line = s.line
      /\ [s EXCEPT !.cache = q].cache = q /\ [s EXCEPT !.cache = q].y = s.y
      /\ [s EXCEPT !.cache = q].x = s.x /\ [s EXCEPT !.cache = q].damaged = s.damaged
  BY <1>1, <1>2 DEF StatesOf
<1> QED BY <1>1, <1>3, <1>4, <1>5, <1>6 DEF Good

MovedTo(s, x) == [s EXCEPT !.x = x]

LEMMA MovedGood ==
    ASSUME NEW c \in Clients, NEW s, NEW t, NEW w, Written(c, s, t, w), NEW x \in Nat
    PROVE  Written(c, s, MovedTo(t, x), w) /\ MovedTo(t, x).x = x
<1>1. t \in StatesOf(c)
  BY DEF Written, Good
<1>2. /\ MovedTo(t, x) \in StatesOf(c) /\ MovedTo(t, x).line = t.line
      /\ MovedTo(t, x).cache = t.cache /\ MovedTo(t, x).y = t.y
      /\ MovedTo(t, x).x = x /\ MovedTo(t, x).damaged = t.damaged
  BY <1>1 DEF StatesOf, MovedTo
<1> QED BY <1>2 DEF Written, Good

\* Blocks that end within the window are written where they belong.
LEMMA FittingWrites ==
    ASSUME NEW c \in Clients, NEW s, NEW w \in Nat, NEW new, CanWrite(c, s, w, new, CellsOf(new))
    PROVE  /\ Written(c, s, WriteFitting(s, new), w)
           /\ WriteFitting(s, new).x = s.x + CellsOf(new)
<1> DEFINE wd == WidthTo(new, Len(new))
           d == IF CacheHelps(s) THEN s ELSE CacheReset(s)
           t == IF s.line.blocks = <<>> THEN WriteEmpty(d, new, wd)
                ELSE IF s.line.start + s.line.width <= s.x THEN WriteAfter(d, new, wd)
                ELSE IF s.x + wd <= s.line.start THEN WriteBefore(d, new, wd)
                ELSE Overwrite(d, new, wd)
<1>1. wd = CellsOf(new)
  BY DEF CellsOf
<1>2. WriteFitting(s, new) = MovedTo(t, t.x + wd)
  BY DEF WriteFitting, MovedTo
<1> HIDE DEF wd
<1>3. /\ Good(c, s) /\ s.line.start \in Nat /\ s.line.width \in Nat /\ s.x \in Nat /\ wd \in Nat
      /\ s.x + wd <= w /\ s.line.start + s.line.width <= w /\ new \in Seq(BlocksOf(c))
      /\ s.cache.width \in Int
  <2>1. Good(c, s) /\ s.cache \in Caches
    BY WriteTypes
  <2> QED BY <1>1, <2>1, WriteTypes DEF Caches
<1>4. /\ Good(c, d) /\ d.line = s.line /\ d.x = s.x /\ d.y = s.y /\ d.cache.line = s.y
      /\ (d.cache.width <= s.x \/ d.cache.width = s.line.start)
  <2>1. CASE CacheHelps(s)
    BY <1>3, <2>1 DEF CacheHelps
  <2>2. CASE ~ CacheHelps(s)
    <3>1. d = CacheReset(s)
      BY <2>2
    <3> HIDE DEF d
    <3> QED BY <1>3, <3>1, ResetGood
  <2> QED BY <2>1, <2>2
<1> HIDE DEF d
<1>5. CanWrite(c, d, w, new, wd)
  BY <1>1, <1>3, <1>4 DEF CanWrite
<1>6. Written(c, d, t, w) /\ t.x = s.x
  <2>1. CASE s.line.blocks = <<>>
    <3>1. t = WriteEmpty(d, new, wd)
      BY <2>1
    <3> HIDE DEF t
    <3> QED BY <1>4, <1>5, <3>1, EmptyWrites
  <2>2. CASE s.line.blocks # <<>> /\ s.line.start + s.line.width <= s.x
    <3>1. t = WriteAfter(d, new, wd)
      BY <2>2
    <3>2. d.line.blocks # <<>> /\ d.line.start + d.line.width <= d.x /\ d.cache.line = d.y
      BY <1>4, <2>2
    <3> HIDE DEF t
    <3> QED BY <1>4, <1>5, <3>1, <3>2, AfterWrites
  <2>3. CASE s.line.blocks # <<>> /\ ~ (s.line.start + s.line.width <= s.x)
             /\ s.x + wd <= s.line.start
    <3>1. t = WriteBefore(d, new, wd)
      BY <2>3
    <3>2. d.x + wd <= d.line.start
      BY <1>4, <2>3
    <3> HIDE DEF t
    <3> QED BY <1>4, <1>5, <3>1, <3>2, BeforeWrites
  <2>4. CASE s.line.blocks # <<>> /\ ~ (s.line.start + s.line.width <= s.x)
             /\ ~ (s.x + wd <= s.line.start)
    <3>1. t = Overwrite(d, new, wd)
      BY <2>4
    <3>2. s.x < s.line.start + s.line.width /\ s.x + wd > s.line.start
      BY <1>3, <2>4
    <3>3. CanOverwrite(c, d, w, new, wd)
      BY <1>1, <1>3, <1>4, <2>4, <3>2 DEF CanOverwrite
    <3> HIDE DEF t
    <3> QED BY <1>4, <3>1, <3>3, OverwriteWrites
  <2> QED BY <2>1, <2>2, <2>3, <2>4
<1> HIDE DEF t
<1>7. Written(c, s, t, w)
  BY <1>4, <1>6 DEF Written
<1>8. t.x + wd \in Nat
  BY <1>3, <1>6
<1> QED BY <1>1, <1>2, <1>6, <1>7, <1>8, MovedGood

\* What every operation on a line leaves: a state in order, with its line within the window.
Kept(c, s, t, w) ==
    /\ Good(c, t) /\ t.y = s.y
    /\ t.cache.line \in {-1, s.y} \/ t.cache = s.cache
    /\ t.line.start + t.line.width <= w
    /\ t.x <= w \/ t.x = s.x

\* The blocks of a run that fit in the window.
LEMMA FittingBlocks ==
    ASSUME NEW c \in Clients, NEW s, s.x \in Nat, width \in Nat, s.x < width,
           NEW run \in Seq(BlocksOf(c))
    PROVE  /\ Fitting(s, run) \in 0 .. Len(run)
           /\ s.x + WidthTo(run, Fitting(s, run)) <= width
<1> DEFINE S == {k \in 0 .. Len(run) : s.x + WidthTo(run, k) <= width}
<1>1. Len(run) \in Nat
  BY LenProperties
<1>2. 0 \in S
  BY <1>1, NoBlocks
<1>3. S \in SUBSET Int /\ \A k \in S : k <= Len(run)
  BY <1>1
<1> HIDE DEF S
<1>4. PICK m \in S : \A k \in S : k <= m
  <2>1. S # {} /\ Len(run) \in Int
    BY <1>1, <1>2
  <2> QED BY <1>3, <2>1, GreatestNumber
<1>5. Max(S) \in S
  BY <1>3, <1>4, MaxOfNumbers
<1>6. Max(S) \in 0 .. Len(run) /\ s.x + WidthTo(run, Max(S)) <= width
  BY <1>5 DEF S
<1>7. Fitting(s, run) = Max(S)
  BY DEF Fitting, S
<1> QED BY <1>6, <1>7

\* _win_write_blocks keeps a state in order.
LEMMA BlocksWrite ==
    ASSUME NEW c \in Clients, NEW s, Good(c, s), width \in Nat,
           s.line.start + s.line.width <= width, NEW run \in Seq(BlocksOf(c))
    PROVE  Kept(c, s, WriteBlocks(s, run), width)
<1> DEFINE x == s.x
           n == Fitting(s, run)
           new == SubSeq(run, 1, n)
           t == WriteFitting(s, new)
           a == run[n + 1].attr
<1>1. x \in Nat /\ s.y \in Nat /\ Len(run) \in Nat
  BY LenProperties DEF Good, StatesOf
<1>2. CASE x >= width \/ run = <<>>
  <2>1. WriteBlocks(s, run) = s
    BY <1>2 DEF WriteBlocks
  <2> QED BY <2>1 DEF Kept
<1>3. CASE ~ (x >= width) /\ run # <<>>
  <2>1. n \in 0 .. Len(run) /\ x + WidthTo(run, n) <= width
    <3>1. x < width
      BY <1>1, <1>3
    <3> QED BY <1>1, <3>1, FittingBlocks
  <2> HIDE DEF n
  <2>2. new \in Seq(BlocksOf(c)) /\ CellsOf(new) = WidthTo(run, n) /\ CellsOf(new) \in Nat
    <3>1. new \in Seq(BlocksOf(c)) /\ CellsOf(new) = WidthTo(run, n)
      BY <2>1, CellsOfFirst
    <3>2. n \in 0 .. n
      BY <1>1, <2>1
    <3> HIDE DEF new
    <3>3. WidthTo(run, n) \in Nat
      BY <2>1, <3>2, MoreBlocks
    <3> QED BY <3>1, <3>3
  <2> HIDE DEF new
  <2>3. CanWrite(c, s, width, new, CellsOf(new))
    BY <2>1, <2>2 DEF CanWrite
  <2>4. Written(c, s, t, width) /\ t.x = x + CellsOf(new)
    BY <2>3, FittingWrites
  <2> HIDE DEF t
  <2>5. t.x \in Nat /\ t.x <= width
    BY <1>1, <2>1, <2>2, <2>4
  <2>6. CASE ~ (n < Len(run) /\ t.x < width)
    <3>1. WriteBlocks(s, run) = t
      BY <1>3, <2>6 DEF WriteBlocks, n, new, t
    <3> QED BY <2>4, <2>5, <3>1 DEF Kept, Written
  <2>7. CASE n < Len(run) /\ t.x < width
    <3>1. WriteBlocks(s, run) = WriteFitting(t, Spaces(1, a))
      BY <1>3, <2>7 DEF WriteBlocks, n, new, t
    <3>2. a \in Attrs \cup {DefaultAttr}
      <4>1. n + 1 \in 1 .. Len(run)
        BY <1>1, <2>1, <2>7
      <4>2. run[n + 1] \in BlocksOf(c)
        BY <4>1, ElementOfSeq
      <4> QED BY <4>2 DEF BlocksOf
    <3> HIDE DEF a
    <3>3. Spaces(1, a) \in Seq(BlocksOf(c)) /\ CellsOf(Spaces(1, a)) = 1
      BY <3>2, CellsOfSpaces
    <3>4. t.x + 1 <= width
      BY <2>5, <2>7
    <3>5. CanWrite(c, t, width, Spaces(1, a), CellsOf(Spaces(1, a)))
      BY <2>4, <3>3, <3>4 DEF CanWrite, Written
    <3>6. /\ Written(c, t, WriteFitting(t, Spaces(1, a)), width)
          /\ WriteFitting(t, Spaces(1, a)).x = t.x + CellsOf(Spaces(1, a))
      BY <3>5, FittingWrites
    <3> QED BY <2>4, <3>1, <3>3, <3>4, <3>6 DEF Kept, Written
  <2> QED BY <2>6, <2>7
<1> QED BY <1>2, <1>3

\* _win_add_zerowidth keeps a state in order; a client adds only so many characters to one.
LEMMA MarkedBlocks ==
    ASSUME NEW c \in Clients, NEW old \in Seq(BlocksOf(c)), NEW hit \in 1 .. Len(old),
           NEW b, b = Marked(old, hit), b[hit].marks <= c.marks
    PROVE  /\ b \in Seq(BlocksOf(c)) /\ Len(b) = Len(old) /\ ~ OneSize(c)
           /\ CellsOf(b) = CellsOf(old)
           /\ \A k \in 0 .. hit - 1 : WidthTo(b, k) = WidthTo(old, k) /\ BytesTo(b, k) = BytesTo(old, k)
<1>1. Len(old) \in Nat /\ c.marks \in Nat
  BY LenProperties, ClientsAssumption
<1> DEFINE m == [old[hit] EXCEPT !.marks = @ + 1]
<1>2. old[hit] \in BlocksOf(c)
  BY <1>1, ElementOfSeq
<1>3. m.marks = old[hit].marks + 1 /\ m.ch = old[hit].ch /\ old[hit].marks \in Nat
  BY <1>1, <1>2 DEF BlocksOf
<1>4. b = [old EXCEPT ![hit] = m]
  BY DEF Marked
<1>5. b[hit] = m
  <2>1. hit \in DOMAIN old
    BY LenProperties
  <2> HIDE DEF m
  <2> QED BY <1>4, <2>1
<1>6. m \in BlocksOf(c) /\ ~ OneSize(c)
  <2>1. m.marks \in 0 .. c.marks
    BY <1>1, <1>3, <1>5
  <2>2. c.marks # 0
    BY <1>1, <1>3, <2>1
  <2>3. m \in BlocksOf(c)
    BY <1>2, <2>1 DEF BlocksOf
  <2> QED BY <2>2, <2>3 DEF OneSize
<1>7. WidthOf(m) = WidthOf(old[hit])
  BY <1>3 DEF WidthOf
<1> HIDE DEF m
<1>8. b \in Seq(BlocksOf(c)) /\ Len(b) = Len(old) /\ \A i \in 1 .. Len(old) : i # hit => b[i] = old[i]
  BY <1>4, <1>6, ExceptSeq
<1>9. ASSUME NEW k \in 0 .. hit - 1
      PROVE  WidthTo(b, k) = WidthTo(old, k) /\ BytesTo(b, k) = BytesTo(old, k)
  <2>1. k \in Nat /\ \A i \in 1 .. k : b[i] = old[i]
    BY <1>1, <1>8
  <2> QED BY <2>1, SameBlocks
<1>10. CellsOf(b) = CellsOf(old)
  <2> DEFINE v == [i \in 1 .. Len(b) |-> WidthOf(b[i])]
             w == [i \in 1 .. Len(old) |-> WidthOf(old[i])]
  <2>1. ASSUME NEW i \in 1 .. Len(old) PROVE v[i] = w[i]
    BY <1>5, <1>7, <1>8
  <2>2. SumTo(v, Len(old)) = SumTo(w, Len(old))
    <3> HIDE DEF v, w
    <3> QED BY <1>1, <2>1, SumSame
  <2> QED BY <1>8, <2>2 DEF CellsOf, WidthTo
<1> QED BY <1>6, <1>8, <1>9, <1>10

LEMMA ZerowidthKeeps ==
    ASSUME NEW c \in Clients, NEW s, Good(c, s), width \in Nat,
           s.line.start + s.line.width <= width,
           \A i \in DOMAIN AddZerowidth(s).line.blocks :
               AddZerowidth(s).line.blocks[i].marks <= c.marks
    PROVE  Kept(c, s, AddZerowidth(s), width)
<1> DEFINE d == IF s.cache.line # s.y \/ s.cache.width >= s.x THEN CacheReset(s) ELSE s
           old == s.line.blocks
           n == Len(old)
           start == s.line.start
           width0 == s.line.width
           x == s.x
           k == Entry(d)
           at == {i \in k + 1 .. n : EndFrom(d, k, i) >= x}
           hit == Min(at)
           t == [d EXCEPT !.line.blocks = Marked(@, hit)]
           outside == old = <<>> \/ x <= start \/ x > start + width0
<1>1. AddZerowidth(s)
          = IF x > width THEN s
            ELSE IF outside THEN d
            ELSE IF BlocksBefore(d) = {} \/ at = {} THEN [d EXCEPT !.damaged = TRUE]
            ELSE IF EndFrom(d, k, hit) > x THEN d ELSE t
  BY DEF AddZerowidth
<1>2. /\ s.line \in LinesOf(c) /\ old \in Seq(BlocksOf(c)) /\ n \in Nat /\ s.cache.width \in Nat
      /\ start \in Nat /\ width0 \in Nat /\ x \in Nat /\ s.y \in Nat /\ width0 = WidthTo(old, n)
  <2>1. s.line \in LinesOf(c) /\ x \in Nat /\ s.cache \in Caches /\ LineFits(s.line) /\ s.y \in Nat
    BY DEF Good, StatesOf
  <2>2. old \in Seq(BlocksOf(c)) /\ start \in Nat /\ width0 \in Nat /\ s.cache.width \in Nat
    BY <2>1 DEF LinesOf, Caches
  <2> QED BY <2>1, <2>2, LenProperties DEF LineFits, CellsOf
<1>3. /\ Good(c, d) /\ d.line = s.line /\ d.x = x /\ d.y = s.y
      /\ d.cache = s.cache \/ d.cache.line = s.y
      /\ ~ outside => d.cache.line = s.y /\ d.cache.width < x
  <2>1. CASE s.cache.line # s.y \/ s.cache.width >= x
    <3>1. d = CacheReset(s)
      BY <2>1
    <3>2. ~ outside => start < x
      BY <1>2
    <3> HIDE DEF d, outside
    <3> QED BY <3>1, <3>2, ResetGood
  <2>2. CASE ~ (s.cache.line # s.y \/ s.cache.width >= x)
    BY <1>2, <2>2
  <2> QED BY <2>1, <2>2
<1> HIDE DEF d
<1>4. Kept(c, s, d, width)
  BY <1>3 DEF Kept
<1>5. Kept(c, s, s, width)
  BY DEF Kept
<1>6. ASSUME ~ outside
      PROVE  /\ BlocksBefore(d) # {} /\ k \in 0 .. n - 1 /\ d.cache.width = start + WidthTo(old, k)
             /\ d.cache.pos = BytesTo(old, k) /\ at # {} /\ hit \in k + 1 .. n
  <2>1. d.line.blocks # <<>> /\ d.cache.line = d.y
    BY <1>3, <1>6
  <2>2. d.cache.width < d.line.start + d.line.width
    <3>1. d.cache.width < x /\ x <= start + width0 /\ d.cache.width \in Nat
      <4>1. d.cache.width \in Nat
        BY <1>3 DEF Good, StatesOf, Caches
      <4> QED BY <1>2, <1>3, <1>6, <4>1
    <3>2. d.line.start = start /\ d.line.width = width0
      BY <1>3
    <3> HIDE DEF x, start, width0
    <3> QED BY <1>2, <3>1, <3>2
  <2>3. /\ BlocksBefore(d) # {} /\ Entry(d) \in 0 .. Len(d.line.blocks) - 1
        /\ d.cache.width = d.line.start + WidthTo(d.line.blocks, Entry(d))
    BY <1>3, <2>1, <2>2, EntryFound
  <2>4. BlocksBefore(d) # {} /\ k \in 0 .. n - 1 /\ d.cache.width = start + WidthTo(old, k)
    BY <1>3, <2>3
  <2>5. k \in BlocksBefore(d)
    BY <2>3 DEF Entry
  <2>6. d.cache.pos = BytesTo(old, k)
    BY <1>3, <2>5 DEF BlocksBefore
  <2> HIDE DEF k
  <2>7. n \in at
    <3>1. n \in k + 1 .. n /\ k \in 0 .. n /\ n \in 0 .. n
      BY <1>2, <2>4
    <3>2. d.line \in LinesOf(c) /\ d.line.blocks = old /\ d.line.start = start
      BY <1>2, <1>3
    <3>3. EndFrom(d, k, n) = d.line.start + WidthTo(d.line.blocks, n)
      <4>1. /\ k \in 0 .. Len(d.line.blocks) /\ n \in 0 .. Len(d.line.blocks)
            /\ d.cache.width = d.line.start + WidthTo(d.line.blocks, k)
        BY <2>4, <3>1, <3>2
      <4> HIDE DEF n
      <4> QED BY <3>2, <4>1, EndsFromEntry
    <3>4. EndFrom(d, k, n) = start + WidthTo(old, n)
      BY <3>2, <3>3
    <3> QED BY <1>2, <1>6, <3>1, <3>4
  <2>8. at \in SUBSET Nat
    BY <1>2, <2>4
  <2>9. hit \in at
    <3> HIDE DEF at
    <3> QED BY <2>7, <2>8, MinOfNumbers
  <2> QED BY <2>4, <2>6, <2>7, <2>9
<1> DEFINE b == Marked(old, hit)
           l == [start |-> start, width |-> width0, blocks |-> b]
<1>7. t = With(d, l, d.cache)
  <2>1. d.line \in LinesOf(c) /\ d \in StatesOf(c)
    BY <1>2, <1>3 DEF Good
  <2>2. t = [d EXCEPT !.line.blocks = b]
    BY <1>3
  <2>3. start = d.line.start /\ width0 = d.line.width
    BY <1>3
  <2> HIDE DEF t, b, start, width0
  <2>4. [d.line EXCEPT !.blocks = b] = l
    BY <2>1, <2>3 DEF LinesOf
  <2> HIDE DEF l
  <2>5. [d EXCEPT !.line.blocks = b] = [d EXCEPT !.line = [d.line EXCEPT !.blocks = b]]
    BY <2>1 DEF StatesOf
  <2>6. [d EXCEPT !.line = l] = [d EXCEPT !.line = l, !.cache = d.cache]
    BY <2>1 DEF StatesOf
  <2> QED BY <2>2, <2>4, <2>5, <2>6 DEF With
<1>8. ASSUME ~ outside, AddZerowidth(s) = t
      PROVE  Kept(c, s, t, width)
  <2>1. k \in 0 .. n - 1 /\ hit \in k + 1 .. n
    BY <1>6, <1>8
  <2>2. hit \in 1 .. n /\ k \in 0 .. hit - 1 /\ k \in 0 .. n
    BY <1>2, <2>1
  <2>3. t.line.blocks = b
    BY <1>3, <1>7 DEF With, Good, StatesOf
  <2>4. b[hit].marks <= c.marks
    <3>1. hit \in DOMAIN b
      BY <1>2, <2>2, LenProperties DEF Marked
    <3> QED BY <1>8, <2>3, <3>1
  <2> HIDE DEF hit, k, t
  <2>5. /\ b \in Seq(BlocksOf(c)) /\ Len(b) = n /\ ~ OneSize(c) /\ CellsOf(b) = CellsOf(old)
        /\ \A j \in 0 .. hit - 1 : WidthTo(b, j) = WidthTo(old, j) /\ BytesTo(b, j) = BytesTo(old, j)
    BY <1>2, <2>2, <2>4, MarkedBlocks
  <2> HIDE DEF b
  <2>6. l \in LinesOf(c) /\ LineFits(l) /\ l.start + l.width <= width
    BY <1>2, <2>5 DEF LinesOf, LineFits, CellsOf
  <2>7. Starts(l, d.cache)
    BY <1>6, <1>8, <2>2, <2>5 DEF Starts
  <2>8. CacheFits(c, l, d.cache)
    BY <2>5, <2>7 DEF CacheFits
  <2>9. d.cache \in Caches /\ d.cache.line = d.y
    BY <1>3, <1>8 DEF Good, StatesOf
  <2>10. Written(c, d, With(d, l, d.cache), width) /\ With(d, l, d.cache).x = d.x
    <3> HIDE DEF l
    <3>1. d.cache.line \in {-1, d.y}
      BY <2>9
    <3> QED BY <1>3, <2>6, <2>8, <2>9, <3>1, GoodWith
  <2> QED BY <1>3, <1>7, <2>10 DEF Written, Kept
<1> QED BY <1>1, <1>4, <1>5, <1>6, <1>8

\* t3_win_clrtoeol with blocks of one cell: the cut is where it should be.
LEMMA CutOfOneSize ==
    ASSUME NEW c \in Clients, OneSize(c), NEW l \in LinesOf(c), LineFits(l),
           NEW x \in Nat, x > l.start, x < l.start + l.width
    PROVE  /\ Cut(l, x) \in 0 .. Len(l.blocks) /\ Cut(l, x) = x - l.start
           /\ SumWidth(l, Cut(l, x)) = x
<1> DEFINE old == l.blocks
           n == Len(old)
           start == l.start
           width0 == l.width
           S == {k \in 0 .. n : k = n \/ SumWidth(l, k) + HeldWidth(old, k) > x}
<1>1. old \in Seq(BlocksOf(c)) /\ n \in Nat /\ start \in Nat /\ width0 \in Nat
  BY LenProperties DEF LinesOf
<1>2. width0 = n /\ x > start /\ x < start + width0
  <2>1. n \in 0 .. n
    BY <1>1
  <2>2. WidthTo(old, n) = n
    BY <1>1, <2>1, CellsOfOneSize
  <2> QED BY <2>2 DEF LineFits, CellsOf
<1>3. ASSUME NEW k \in 0 .. n PROVE SumWidth(l, k) = start + k /\ HeldWidth(old, k) = 1
  <2>1. \A i \in 1 .. n : WidthOf(old[i]) = 1
    <3> SUFFICES ASSUME NEW i \in 1 .. n PROVE WidthOf(old[i]) = 1
      OBVIOUS
    <3>1. old[i] \in BlocksOf(c)
      BY <1>1, ElementOfSeq
    <3> QED BY <3>1 DEF OneSize, BlocksOf, WidthOf
  <2>2. 1 \in 1 .. n
    <3> HIDE DEF n, start, width0
    <3> QED BY <1>1, <1>2
  <2>3. k \in Int /\ 1 \in Int
    BY <1>1
  <2>4. Max({k, 1}) = IF k >= 1 THEN k ELSE 1
    BY <2>3, MaxOfTwo
  <2>5. Max({k, 1}) \in 1 .. n
    <3> HIDE DEF n
    <3> QED BY <1>1, <2>2, <2>3, <2>4
  <2>6. HeldWidth(old, k) = 1
    BY <2>1, <2>5 DEF HeldWidth
  <2>7. CASE k = 0
    BY <1>1, <2>6, <2>7 DEF SumWidth
  <2>8. CASE k # 0
    <3>1. k - 1 \in 0 .. n
      BY <1>1, <2>8
    <3>2. WidthTo(old, k - 1) = k - 1
      BY <1>1, <3>1, CellsOfOneSize
    <3>3. SumWidth(l, k) = start + (1 + (k - 1))
      BY <2>1, <2>2, <2>8, <3>2 DEF SumWidth
    <3> QED BY <1>1, <2>6, <3>3
  <2> QED BY <2>7, <2>8
<1>4. S \in SUBSET Nat /\ n \in S
  BY <1>1
<1>5. Min(S) \in S /\ \A k \in S : Min(S) <= k
  <2> HIDE DEF S
  <2> QED BY <1>4, MinOfNumbers
<1>6. Cut(l, x) = Min(S)
  BY DEF Cut
<1> DEFINE m == Min(S)
           g == x - start
<1> HIDE DEF old, n, start, width0
<1>7. g \in 0 .. n /\ g \in Nat /\ g < n
  BY <1>1, <1>2
<1>8. g \in S
  BY <1>1, <1>2, <1>3, <1>7
<1>9. m \in 0 .. n /\ m <= g /\ (m = n \/ SumWidth(l, m) + HeldWidth(old, m) > x)
  BY <1>5, <1>8
<1> HIDE DEF m, S
<1>10. m = g
  <2>1. SumWidth(l, m) + HeldWidth(old, m) > x
    <3> HIDE DEF g
    <3> QED BY <1>1, <1>7, <1>9
  <2>2. start + m + 1 > x
    BY <1>1, <1>3, <1>9, <2>1
  <2> QED BY <1>1, <1>2, <1>7, <1>9, <2>2
<1>11. SumWidth(l, m) = x
  BY <1>1, <1>3, <1>9, <1>10
<1> QED BY <1>6, <1>9, <1>10, <1>11 DEF m, n, start, old

LEMMA ClearKeeps ==
    ASSUME NEW c \in Clients, NEW s, Good(c, s), OneSize(c) \/ s.x = 0
    PROVE  LET t == ClearToEol(s) IN
           /\ Good(c, t) /\ t.y = s.y /\ t.x = s.x /\ t.cache = s.cache
           /\ t.line.start + t.line.width <= s.x
           /\ t.line.start + t.line.width <= s.line.start + s.line.width
<1> DEFINE x == s.x
           start == s.line.start
           width0 == s.line.width
           old == s.line.blocks
           q == s.cache
<1>1. /\ s \in StatesOf(c) /\ s.line \in LinesOf(c) /\ x \in Nat /\ start \in Nat /\ width0 \in Nat
      /\ LineFits(s.line) /\ old \in Seq(BlocksOf(c)) /\ ~ s.damaged
  BY DEF Good, StatesOf, LinesOf
<1>2. ASSUME NEW l \in LinesOf(c), LineFits(l), q.line = s.y => CacheFits(c, l, q)
      PROVE  LET t == [s EXCEPT !.line = l] IN
             Good(c, t) /\ t.y = s.y /\ t.x = x /\ t.cache = q /\ t.line = l
  <2> DEFINE t == [s EXCEPT !.line = l]
  <2>1. /\ t \in StatesOf(c) /\ t.line = l /\ t.y = s.y /\ t.x = x /\ t.cache = q
        /\ t.damaged = s.damaged
    BY <1>1 DEF StatesOf
  <2> HIDE DEF t
  <2>2. Good(c, t) /\ t.y = s.y /\ t.x = x /\ t.cache = q /\ t.line = l
    BY <1>1, <1>2, <2>1 DEF Good
  <2> QED BY <2>2 DEF t
<1>3. CASE x <= start
  <2>1. ClearToEol(s) = [s EXCEPT !.line = EmptyLine]
    BY <1>3 DEF ClearToEol
  <2>2. EmptyLine \in LinesOf(c) /\ LineFits(EmptyLine) /\ CacheFits(c, EmptyLine, q)
    BY NoBlocks DEF EmptyLine, LinesOf, LineFits, CellsOf, CacheFits
  <2>3. EmptyLine.start + EmptyLine.width = 0 /\ 0 <= x /\ 0 <= start + width0
    BY <1>1 DEF EmptyLine
  <2> QED BY <1>2, <2>1, <2>2, <2>3
<1>4. CASE ~ (x <= start) /\ x >= start + width0
  <2>1. ClearToEol(s) = s
    BY <1>4 DEF ClearToEol
  <2>2. start + width0 <= x
    <3> HIDE DEF x, start, width0
    <3> QED BY <1>1, <1>4
  <2> QED BY <1>1, <2>1, <2>2
<1>5. CASE ~ (x <= start) /\ ~ (x >= start + width0)
  <2> DEFINE k == Cut(s.line, x)
             b == SubSeq(old, 1, k)
             cut == [s EXCEPT !.line.blocks = b, !.x = SumWidth(s.line, k)]
             l == [start |-> start, width |-> x - start, blocks |-> b]
  <2>1. OneSize(c)
    BY <1>1, <1>5
  <2>2. k \in 0 .. Len(old) /\ k = x - start /\ SumWidth(s.line, k) = x
    <3>1. x > s.line.start /\ x < s.line.start + s.line.width /\ s.line \in LinesOf(c)
      BY <1>1, <1>5
    <3> HIDE DEF x
    <3> QED BY <1>1, <2>1, <3>1, CutOfOneSize
  <2> HIDE DEF k
  <2>3. b \in Seq(BlocksOf(c)) /\ CellsOf(b) = k
    <3>1. b \in Seq(BlocksOf(c)) /\ CellsOf(b) = WidthTo(old, k)
      BY <1>1, <2>2, CellsOfFirst
    <3>2. WidthTo(old, k) = k
      BY <1>1, <2>1, <2>2, CellsOfOneSize
    <3> QED BY <3>1, <3>2
  <2> HIDE DEF b
  <2>4. /\ cut.x = x /\ cut.line.start = start
        /\ [cut EXCEPT !.line.width = cut.x - cut.line.start] = [s EXCEPT !.line = l]
    <3> DEFINE u == [start |-> start, width |-> width0, blocks |-> b]
    <3>1. [s.line EXCEPT !.blocks = b] = u
      BY <1>1 DEF LinesOf
    <3>2. cut = [s EXCEPT !.line = u]
      BY <1>1, <2>2, <3>1 DEF StatesOf
    <3>3. u.start = start /\ [u EXCEPT !.width = x - start] = l
      OBVIOUS
    <3> HIDE DEF cut, u, l
    <3>4. cut.x = x /\ cut.line = u
      BY <1>1, <3>2 DEF StatesOf
    <3>5. [cut EXCEPT !.line.width = x - start] = [cut EXCEPT !.line = l]
      BY <1>1, <3>2, <3>3, <3>4 DEF StatesOf
    <3>6. [cut EXCEPT !.line = l] = [s EXCEPT !.line = l]
      BY <1>1, <3>2 DEF StatesOf
    <3> QED BY <3>3, <3>4, <3>5, <3>6
  <2> HIDE DEF cut
  <2>5. ClearToEol(s) = [s EXCEPT !.line = l]
    <3>1. ~ (cut.x < x)
      BY <1>1, <2>4
    <3> QED BY <1>5, <2>4, <3>1 DEF ClearToEol, cut, k, b
  <2>6. l \in LinesOf(c) /\ LineFits(l) /\ l.start + l.width = x /\ l.start = start
    <3>1. x - start \in Nat /\ start + (x - start) = x
      BY <1>1, <1>5
    <3> QED BY <1>1, <2>2, <2>3, <3>1 DEF LinesOf, LineFits
  <2>7. q.line = s.y => CacheFits(c, l, q)
    <3>1. old # <<>>
      BY <1>1, <1>5, EmptyLines
    <3>2. q.line = s.y => CacheFits(c, s.line, q)
      BY DEF Good
    <3> QED BY <2>1, <2>6, <3>1, <3>2 DEF CacheFits
  <2>8. l.start + l.width <= x /\ l.start + l.width <= start + width0
    BY <1>1, <1>5, <2>6
  <2> HIDE DEF l
  <2> QED BY <1>2, <2>5, <2>6, <2>7, <2>8
<1> QED BY <1>3, <1>4, <1>5

-----------------------------------------------------------------------------
(* The invariant: every line and the cached position are in order.          *)

LineInv ==
    /\ client \in Clients /\ height \in client.heights /\ width \in client.widths
    /\ lines \in [Rows -> LinesOf(client)]
    /\ \A r \in Rows : /\ LineFits(lines[r])
                       /\ r < height => lines[r].start + lines[r].width <= width
                       /\ r >= height => lines[r] = EmptyLine
                       /\ cache.line = r => CacheFits(client, lines[r], cache)
    /\ paint \in [y : 0 .. MaxHeight, x : 0 .. Max(Widths)]
    /\ cache \in Caches /\ cache.line \in Rows \cup {-1}
    /\ damaged = FALSE

LEMMA EmptyFits ==
    ASSUME NEW c, NEW q
    PROVE  EmptyLine \in LinesOf(c) /\ LineFits(EmptyLine) /\ CacheFits(c, EmptyLine, q)
           /\ EmptyLine.start + EmptyLine.width = 0
BY NoBlocks DEF EmptyLine, LinesOf, LineFits, CellsOf, CacheFits

\* The sizes of the window, as far as the steps need them.
LEMMA SizeTypes ==
    ASSUME LineInv
    PROVE  /\ height \in 1 .. MaxHeight /\ width \in 1 .. Max(Widths)
           /\ MaxHeight \in Nat /\ Max(Widths) \in Nat
           /\ client \in Clients /\ paint.y \in 0 .. MaxHeight /\ paint.x \in 0 .. Max(Widths)
<1>1. client.heights \subseteq 1 .. MaxHeight /\ client.widths \subseteq 1 .. Max(Widths)
  BY ClientBounds DEF LineInv
<1> QED BY <1>1, Bounds DEF LineInv

\* The state that a painting operation begins with is in order.
LEMMA CurrentGood ==
    ASSUME LineInv, paint.y < height
    PROVE  /\ Good(client, Current) /\ Current.line = lines[paint.y] /\ Current.y = paint.y
           /\ Current.x = paint.x /\ Current.cache = cache
           /\ Current.line.start + Current.line.width <= width
           /\ paint.y \in Rows /\ paint.x \in Nat /\ paint.y \in Nat
<1>1. paint.y \in 0 .. MaxHeight /\ paint.x \in Nat /\ MaxHeight \in Nat /\ height \in 1 .. MaxHeight
  BY SizeTypes
<1>2. paint.y \in Rows
  BY <1>1 DEF Rows
<1>3. /\ lines[paint.y] \in LinesOf(client) /\ LineFits(lines[paint.y])
      /\ lines[paint.y].start + lines[paint.y].width <= width
      /\ cache.line = paint.y => CacheFits(client, lines[paint.y], cache)
  BY <1>2 DEF LineInv
<1>4. /\ Current.line = lines[paint.y] /\ Current.y = paint.y /\ Current.x = paint.x
      /\ Current.cache = cache /\ ~ Current.damaged
  BY DEF Current
<1>5. Current \in StatesOf(client)
  BY <1>1, <1>3 DEF Current, StatesOf, LineInv
<1> QED BY <1>1, <1>2, <1>3, <1>4, <1>5 DEF Good

\* An operation that keeps the state in order keeps the invariant.
LEMMA KeptInv ==
    ASSUME LineInv, paint.y < height, NEW t, Kept(client, Current, t, width), Becomes(t),
           UNCHANGED <<client, height, width>>
    PROVE  LineInv'
<1>1. /\ Current.y = paint.y /\ Current.x = paint.x /\ Current.cache = cache
      /\ paint.y \in Rows /\ paint.x \in 0 .. Max(Widths)
  BY CurrentGood DEF LineInv
<1>2. /\ Good(client, t) /\ t.y = paint.y /\ t.line.start + t.line.width <= width
      /\ t.cache.line \in {-1, paint.y} \/ t.cache = cache
      /\ t.x <= width \/ t.x = paint.x
  BY <1>1 DEF Kept
<1>3. /\ t.line \in LinesOf(client) /\ LineFits(t.line) /\ t.damaged = FALSE /\ t.cache \in Caches
      /\ t.x \in Nat
      /\ t.cache.line = paint.y => CacheFits(client, t.line, t.cache)
  BY <1>2 DEF Good, StatesOf
<1>4. /\ lines' = [lines EXCEPT ![paint.y] = t.line] /\ paint' = [y |-> paint.y, x |-> t.x]
      /\ cache' = t.cache /\ damaged' = t.damaged
      /\ client' = client /\ height' = height /\ width' = width
  BY <1>2 DEF Becomes
<1>5. lines' \in [Rows -> LinesOf(client)]
  BY <1>1, <1>3, <1>4 DEF LineInv
<1>6. ASSUME NEW r \in Rows
      PROVE  /\ LineFits(lines'[r])
             /\ r < height => lines'[r].start + lines'[r].width <= width
             /\ r >= height => lines'[r] = EmptyLine
             /\ cache'.line = r => CacheFits(client, lines'[r], cache')
  <2>1. CASE r = paint.y
    <3>1. lines'[r] = t.line
      BY <1>1, <1>4, <2>1 DEF LineInv
    <3>2. ~ (r >= height)
      BY <1>1, <2>1, SizeTypes DEF Rows
    <3> QED BY <1>2, <1>3, <1>4, <2>1, <3>1, <3>2
  <2>2. CASE r # paint.y
    <3>1. lines'[r] = lines[r]
      BY <1>1, <1>4, <2>2 DEF LineInv
    <3>2. cache'.line = r => cache' = cache
      <4>1. r # -1
        BY SizeTypes DEF Rows
      <4> QED BY <1>2, <1>4, <2>2, <4>1
    <3> QED BY <3>1, <3>2 DEF LineInv
  <2> QED BY <2>1, <2>2
<1>7. paint' \in [y : 0 .. MaxHeight, x : 0 .. Max(Widths)]
  <2>1. t.x \in 0 .. Max(Widths)
    BY <1>1, <1>2, <1>3, SizeTypes
  <2>2. paint.y \in 0 .. MaxHeight
    BY DEF LineInv
  <2> QED BY <1>4, <2>1, <2>2
<1>8. cache' \in Caches /\ cache'.line \in Rows \cup {-1}
  BY <1>1, <1>2, <1>3, <1>4 DEF LineInv
<1> QED BY <1>3, <1>4, <1>5, <1>6, <1>7, <1>8 DEF LineInv

LEMMA InitInv == Init => LineInv
<1> SUFFICES ASSUME Init PROVE LineInv
  OBVIOUS
<1>1. EmptyLine \in LinesOf(client) /\ LineFits(EmptyLine) /\ EmptyLine.start + EmptyLine.width = 0
  BY EmptyFits
<1>2. client \in Clients /\ height \in client.heights /\ width \in client.widths
  BY DEF Init
<1>3. MaxHeight \in Nat /\ Max(Widths) \in Nat /\ width \in Nat
  BY <1>2, Bounds, ClientBounds
<1>4. lines \in [Rows -> LinesOf(client)] /\ \A r \in Rows : lines[r] = EmptyLine
  BY <1>1 DEF Init
<1>5. paint \in [y : 0 .. MaxHeight, x : 0 .. Max(Widths)]
  BY <1>3 DEF Init
<1>6. cache \in Caches /\ cache.line = -1
  BY DEF Init, NoCache, Caches
<1>7. \A r \in Rows : r # -1
  BY <1>3 DEF Rows
<1> QED BY <1>1, <1>2, <1>3, <1>4, <1>5, <1>6, <1>7 DEF LineInv, Init

LEMMA WriteInv ==
    ASSUME LineInv, NEW run \in Runs, Write(run)
    PROVE  LineInv'
<1>1. /\ paint.y < height /\ Becomes(WriteBlocks(Current, run))
      /\ UNCHANGED <<client, height, width>>
  BY DEF Write
<1>2. /\ Good(client, Current) /\ Current.line.start + Current.line.width <= width
      /\ width \in Nat /\ client \in Clients
  BY <1>1, CurrentGood, SizeTypes
<1>3. run \in Seq(BlocksOf(client))
  <2>1. client.run \in Nat
    BY <1>2, ClientsAssumption
  <2>2. PICK n \in 1 .. client.run :
            run \in [1 .. n -> [ch : client.chars, attr : Attrs, marks : {0}]]
    BY DEF Runs
  <2>3. [ch : client.chars, attr : Attrs, marks : {0}] \subseteq BlocksOf(client)
    BY <1>2, ClientsAssumption DEF BlocksOf
  <2>4. run \in [1 .. n -> BlocksOf(client)]
    BY <2>2, <2>3
  <2> QED BY <2>1, <2>4
<1>4. Kept(client, Current, WriteBlocks(Current, run), width)
  BY <1>2, <1>3, BlocksWrite
<1> HIDE DEF Current
<1> QED BY <1>1, <1>4, KeptInv

LEMMA CombineInv ==
    ASSUME LineInv, Combine
    PROVE  LineInv'
<1>1. /\ paint.y < height /\ UNCHANGED <<client, height, width>>
      /\ \A i \in DOMAIN AddZerowidth(Current).line.blocks :
             AddZerowidth(Current).line.blocks[i].marks <= client.marks
      /\ Becomes(AddZerowidth(Current))
  BY DEF Combine
<1>2. /\ Good(client, Current) /\ Current.line.start + Current.line.width <= width
      /\ width \in Nat /\ client \in Clients
  BY <1>1, CurrentGood, SizeTypes
<1>3. Kept(client, Current, AddZerowidth(Current), width)
  BY <1>1, <1>2, ZerowidthKeeps
<1> QED BY <1>1, <1>3, KeptInv

\* A careful client clears lines of one size of blocks, or whole lines.
LEMMA CarefulClears ==
    ASSUME Careful, LineInv, paint.y < height, paint.x \in client.clears
    PROVE  OneSize(client) \/ Current.x = 0
<1>1. client \in Clients
  BY DEF LineInv
<1> QED BY <1>1 DEF Careful, WholeLines, Current

\* What t3_win_clrtoeol leaves of the current line.
LEMMA CurrentCleared ==
    ASSUME Careful, LineInv, paint.y < height, paint.x \in client.clears
    PROVE  /\ Kept(client, Current, ClearToEol(Current), width)
           /\ ClearToEol(Current).x = paint.x /\ ClearToEol(Current).cache = cache
           /\ ClearToEol(Current).y = paint.y
<1>1. /\ Good(client, Current) /\ Current.line.start + Current.line.width <= width
      /\ Current.cache = cache /\ Current.y = paint.y /\ Current.x = paint.x
      /\ width \in Nat /\ client \in Clients
  BY CurrentGood, SizeTypes
<1>2. OneSize(client) \/ Current.x = 0
  BY CarefulClears
<1> DEFINE t == ClearToEol(Current)
<1>3. /\ Good(client, t) /\ t.y = Current.y /\ t.x = Current.x /\ t.cache = Current.cache
      /\ t.line.start + t.line.width <= Current.line.start + Current.line.width
  BY <1>1, <1>2, ClearKeeps
<1>4. t.line.start + t.line.width <= width
  <2>1. /\ t.line.start \in Nat /\ t.line.width \in Nat
        /\ Current.line.start \in Nat /\ Current.line.width \in Nat
    BY <1>1, <1>3 DEF Good, StatesOf, LinesOf
  <2> HIDE DEF t
  <2> DEFINE a == t.line.start + t.line.width
             b == Current.line.start + Current.line.width
  <2>2. a \in Nat /\ b \in Nat /\ a <= b /\ b <= width
    BY <1>1, <1>3, <2>1
  <2> HIDE DEF a, b
  <2>3. a <= width
    BY <1>1, <2>2
  <2> QED BY <2>3 DEF a
<1> QED BY <1>1, <1>3, <1>4 DEF Kept

LEMMA ClearInv ==
    ASSUME Careful, LineInv, Clear
    PROVE  LineInv'
<1>1. /\ paint.y < height /\ paint.x \in client.clears /\ Becomes(ClearToEol(Current))
      /\ UNCHANGED <<client, height, width>>
  BY DEF Clear
<1>2. Kept(client, Current, ClearToEol(Current), width)
  BY <1>1, CurrentCleared
<1> QED BY <1>1, <1>2, KeptInv

LEMMA ClearToBottomInv ==
    ASSUME Careful, LineInv, ClearToBottom
    PROVE  LineInv'
<1> DEFINE t == ClearToEol(Current)
<1>1. /\ paint.y < height /\ paint.x \in client.clears
      /\ lines' = [r \in Rows |-> IF r < t.y THEN lines[r]
                                  ELSE IF r = t.y THEN t.line ELSE EmptyLine]
      /\ paint' = [y |-> height, x |-> t.x] /\ cache' = t.cache /\ damaged' = t.damaged
      /\ client' = client /\ height' = height /\ width' = width
  BY DEF ClearToBottom
<1>2. Kept(client, Current, t, width) /\ t.x = paint.x /\ t.cache = cache /\ t.y = paint.y
  BY <1>1, CurrentCleared
<1> HIDE DEF t
<1>3. /\ t.line \in LinesOf(client) /\ LineFits(t.line) /\ t.damaged = FALSE
      /\ t.line.start + t.line.width <= width
      /\ cache.line = paint.y => CacheFits(client, t.line, cache)
  BY <1>2 DEF Kept, Good, StatesOf
<1>4. /\ paint.y \in Rows /\ height \in 1 .. MaxHeight /\ MaxHeight \in Nat /\ width \in Nat
      /\ paint.x \in 0 .. Max(Widths)
  BY <1>1, CurrentGood, SizeTypes
<1>5. ASSUME NEW r \in Rows
      PROVE  /\ lines'[r] \in LinesOf(client) /\ LineFits(lines'[r])
             /\ r < height => lines'[r].start + lines'[r].width <= width
             /\ r >= height => lines'[r] = EmptyLine
             /\ cache.line = r => CacheFits(client, lines'[r], cache)
  <2>1. CASE r < paint.y
    <3>1. lines'[r] = lines[r]
      BY <1>1, <1>2, <2>1
    <3> QED BY <3>1 DEF LineInv
  <2>2. CASE r = paint.y
    <3>1. lines'[r] = t.line /\ ~ (r >= height)
      BY <1>1, <1>2, <1>4, <2>2 DEF Rows
    <3> QED BY <1>3, <2>2, <3>1
  <2>3. CASE ~ (r < paint.y) /\ r # paint.y
    <3>1. lines'[r] = EmptyLine
      BY <1>1, <1>2, <2>3
    <3> QED BY <1>4, <3>1, EmptyFits
  <2> QED BY <2>1, <2>2, <2>3
<1>6. lines' \in [Rows -> LinesOf(client)]
  <2>1. lines' = [r \in Rows |-> lines'[r]]
    BY <1>1
  <2> QED BY <1>5, <2>1
<1>7. paint' \in [y : 0 .. MaxHeight, x : 0 .. Max(Widths)]
  BY <1>1, <1>2, <1>4
<1> QED BY <1>1, <1>2, <1>3, <1>5, <1>6, <1>7 DEF LineInv

LEMMA ResizeInv ==
    ASSUME Careful, LineInv, NEW h \in client.heights, NEW w \in client.widths, Resize(h, w)
    PROVE  LineInv'
<1>1. /\ lines' = [r \in Rows |-> IF r >= h THEN EmptyLine
                                  ELSE IF w < width /\ r < height THEN Chopped(r, w).line
                                  ELSE lines[r]]
      /\ cache' = IF w < width THEN NoCache ELSE cache
      /\ damaged' = (w < width /\ \E r \in Rows : r < h /\ r < height /\ Chopped(r, w).damaged)
      /\ height' = h /\ width' = w /\ client' = client /\ paint' = paint
  BY DEF Resize
<1>2. /\ height \in Nat /\ width \in Nat /\ h \in Nat /\ w \in Nat /\ MaxHeight \in Nat
      /\ client \in Clients
  BY ClientBounds, SizeTypes DEF LineInv
<1>3. ASSUME NEW r \in Rows, w < width, r < height
      PROVE  /\ Good(client, Chopped(r, w))
             /\ Chopped(r, w).line.start + Chopped(r, w).line.width <= w
  <2>1. OneSize(client)
    BY <1>2, <1>3 DEF Careful, WholeLines, LineInv
  <2> DEFINE s == [line |-> lines[r], y |-> r, x |-> w, cache |-> NoCache, damaged |-> FALSE]
  <2>2. r \in Nat /\ r # -1
    BY <1>2 DEF Rows
  <2>3. NoCache \in Caches /\ NoCache.line = -1
    BY DEF NoCache, Caches
  <2>4. lines[r] \in LinesOf(client) /\ LineFits(lines[r])
    BY DEF LineInv
  <2>5. s \in StatesOf(client)
    BY <1>2, <2>2, <2>3, <2>4 DEF StatesOf
  <2>6. Good(client, s) /\ s.x = w
    BY <2>2, <2>3, <2>4, <2>5 DEF Good
  <2>7. Chopped(r, w) = ClearToEol(s)
    BY DEF Chopped
  <2> HIDE DEF s
  <2> QED BY <1>2, <2>1, <2>6, <2>7, ClearKeeps
<1>4. damaged' = FALSE
  BY <1>1, <1>3 DEF Good
<1>5. ASSUME NEW r \in Rows
      PROVE  /\ lines'[r] \in LinesOf(client) /\ LineFits(lines'[r])
             /\ r < h => lines'[r].start + lines'[r].width <= w
             /\ r >= h => lines'[r] = EmptyLine
             /\ cache'.line = r => CacheFits(client, lines'[r], cache')
  <2>1. r \in Nat
    BY <1>2 DEF Rows
  <2>2. CASE r >= h
    <3>1. lines'[r] = EmptyLine /\ ~ (r < h)
      BY <1>1, <1>2, <2>1, <2>2
    <3> QED BY <2>2, <3>1, EmptyFits
  <2>3. CASE ~ (r >= h) /\ w < width /\ r < height
    <3>1. lines'[r] = Chopped(r, w).line
      BY <1>1, <2>3
    <3>2. cache'.line = -1
      BY <1>1, <2>3 DEF NoCache
    <3>3. ~ (cache'.line = r)
      BY <2>1, <3>2
    <3>4. /\ Chopped(r, w).line \in LinesOf(client) /\ LineFits(Chopped(r, w).line)
          /\ Chopped(r, w).line.start + Chopped(r, w).line.width <= w
      BY <1>3, <2>3 DEF Good, StatesOf
    <3> QED BY <2>3, <3>1, <3>3, <3>4
  <2>4. CASE ~ (r >= h) /\ ~ (w < width /\ r < height)
    <3>1. lines'[r] = lines[r]
      BY <1>1, <2>4
    <3>2. CASE r < height
      <4>1. cache' = cache /\ ~ (w < width)
        BY <1>1, <2>4, <3>2
      <4>2. lines[r].start \in Nat /\ lines[r].width \in Nat
        BY DEF LineInv, LinesOf
      <4>3. lines[r].start + lines[r].width <= width
        BY <3>2 DEF LineInv
      <4>4. lines[r].start + lines[r].width <= w
        <5> DEFINE a == lines[r].start + lines[r].width
        <5>1. a \in Nat /\ a <= width
          BY <4>2, <4>3
        <5> HIDE DEF a
        <5>2. a <= w
          BY <1>2, <4>1, <5>1
        <5> QED BY <5>2 DEF a
      <4> QED BY <2>4, <3>1, <4>1, <4>4 DEF LineInv
    <3>3. CASE ~ (r < height)
      <4>1. lines[r] = EmptyLine
        BY <1>2, <2>1, <3>3 DEF LineInv
      <4> QED BY <1>2, <2>4, <3>1, <4>1, EmptyFits
    <3> QED BY <3>2, <3>3
  <2> QED BY <2>2, <2>3, <2>4
<1>6. lines' \in [Rows -> LinesOf(client)]
  <2>1. lines' = [r \in Rows |-> lines'[r]]
    BY <1>1
  <2> QED BY <1>5, <2>1
<1>7. cache' \in Caches /\ cache'.line \in Rows \cup {-1}
  BY <1>1 DEF LineInv, NoCache, Caches
<1> QED BY <1>1, <1>4, <1>5, <1>6, <1>7 DEF LineInv

LEMMA PaintInv ==
    ASSUME LineInv, NEW y \in 0 .. Max(client.heights) - 1, NEW x \in 0 .. Max(client.widths),
           SetPaint(y, x)
    PROVE  LineInv'
<1>1. /\ paint' = [y |-> y, x |-> x]
      /\ UNCHANGED <<client, lines, height, width, cache, damaged>>
  BY DEF SetPaint
<1>2. client \in Clients
  BY DEF LineInv
<1>3. Max(client.heights) \in 1 .. MaxHeight /\ Max(client.widths) \in 1 .. Max(Widths)
  BY <1>2, ClientBounds
<1>4. MaxHeight \in Nat /\ Max(Widths) \in Nat
  BY Bounds
<1>5. y \in 0 .. MaxHeight /\ x \in 0 .. Max(Widths)
  BY <1>3, <1>4
<1> QED BY <1>1, <1>5 DEF LineInv

\* Every step keeps the lines and the cached position in order, if the clients are careful.
LEMMA NextInv ==
    ASSUME Careful, LineInv, [Next]_vars
    PROVE  LineInv'
<1>1. ASSUME NEW y \in 0 .. Max(client.heights) - 1, NEW x \in 0 .. Max(client.widths),
             SetPaint(y, x)
      PROVE  LineInv'
  BY <1>1, PaintInv
<1>2. ASSUME NEW run \in Runs, Write(run) PROVE LineInv'
  BY <1>2, WriteInv
<1>3. CASE Combine
  BY <1>3, CombineInv
<1>4. CASE Clear
  BY <1>4, ClearInv
<1>5. CASE ClearToBottom
  BY <1>5, ClearToBottomInv
<1>6. ASSUME NEW h \in client.heights, NEW w \in client.widths, Resize(h, w) PROVE LineInv'
  BY <1>6, ResizeInv
<1>7. CASE UNCHANGED vars
  BY <1>7 DEF vars, LineInv
<1> QED BY <1>1, <1>2, <1>3, <1>4, <1>5, <1>6, <1>7 DEF Next

\* The invariant holds in all behaviours of careful clients.
THEOREM LinesInOrder == ASSUME Careful PROVE Spec => []LineInv
<1>1. LineInv /\ [Next]_vars => LineInv'
  BY NextInv
<1> QED BY <1>1, InitInv, PTL DEF Spec

\* Blocks of a client are blocks.
LEMMA LineBlocks ==
    ASSUME NEW c \in Clients, NEW s \in Seq(BlocksOf(c))
    PROVE  s \in Seq(Blocks)
<1>1. MaxMarks \in Nat /\ c.marks \in Nat /\ c.marks <= MaxMarks
  BY Bounds, ClientsAssumption
<1>2. 0 .. c.marks \subseteq 0 .. MaxMarks /\ c.chars \cup {Space} \subseteq Chars
  BY <1>1, ClientsAssumption, CharsAssumption
<1>3. BlocksOf(c) \subseteq Blocks
  BY <1>2 DEF BlocksOf, Blocks
<1> QED BY <1>3

LEMMA InvTypeOK == LineInv => TypeOK
<1> SUFFICES ASSUME LineInv PROVE TypeOK
  OBVIOUS
<1>1. /\ height \in 1 .. MaxHeight /\ width \in 1 .. Max(Widths)
      /\ MaxHeight \in Nat /\ Max(Widths) \in Nat
  BY SizeTypes
<1>2. ASSUME NEW r \in Rows
      PROVE  /\ lines[r].start \in 0 .. Max(Widths) /\ lines[r].width \in 0 .. Max(Widths)
             /\ lines[r].blocks \in Seq(Blocks)
  <2>1. lines[r].start \in Nat /\ lines[r].width \in Nat /\ lines[r].blocks \in Seq(BlocksOf(client))
    BY DEF LineInv, LinesOf
  <2>2. lines[r].start + lines[r].width <= width
    <3>1. r < height \/ r >= height
      BY <1>1 DEF Rows
    <3>2. CASE r < height
      BY <3>2 DEF LineInv
    <3>3. CASE r >= height
      BY <1>1, <3>3, EmptyFits DEF LineInv
    <3> QED BY <3>1, <3>2, <3>3
  <2>3. lines[r].blocks \in Seq(Blocks)
    BY <2>1, LineBlocks DEF LineInv
  <2> DEFINE a == lines[r].start
             b == lines[r].width
  <2>4. a \in Nat /\ b \in Nat /\ a + b <= width
    BY <2>1, <2>2
  <2> HIDE DEF a, b
  <2>5. a \in 0 .. Max(Widths) /\ b \in 0 .. Max(Widths)
    BY <1>1, <2>4
  <2> QED BY <2>3, <2>5 DEF a, b
<1> QED BY <1>2 DEF LineInv, TypeOK

\* TypeOK of LinePaint, for all characters, sizes of windows and careful clients.
THEOREM LineTypes == ASSUME Careful PROVE Spec => []TypeOK
BY LinesInOrder, InvTypeOK, PTL

\* The recorded width of every line is that of its characters, and the line stays within
\* the window (internal.h: "Total width of the data").
THEOREM LineWidths == ASSUME Careful PROVE Spec => []WidthMatchesData
<1>1. LineInv => WidthMatchesData
  <2> SUFFICES ASSUME LineInv, NEW r \in Rows
               PROVE  /\ lines[r].width = WidthTo(lines[r].blocks, Len(lines[r].blocks))
                      /\ r < height => lines[r].start + lines[r].width <= width
                      /\ lines[r].blocks = <<>> => lines[r].width = 0
    BY DEF WidthMatchesData
  <2>1. client \in Clients /\ lines[r] \in LinesOf(client) /\ LineFits(lines[r])
    BY DEF LineInv
  <2>2. lines[r].blocks = <<>> => lines[r].width = 0
    BY <2>1, EmptyLines
  <2> QED BY <2>1, <2>2 DEF LineInv, LineFits, CellsOf
<1> QED BY <1>1, LinesInOrder, PTL

\* The searches of _win_write_blocks and _win_add_zerowidth are entered at a block, whatever
\* was cached before: they find what window_paint.c:524-527 and 682-686 rely on.
THEOREM SearchesFind == ASSUME Careful PROVE Spec => []NeverDamaged
<1>1. LineInv => NeverDamaged
  BY DEF LineInv, NeverDamaged
<1> QED BY <1>1, LinesInOrder, PTL
=============================================================================
