---------------------------- MODULE InputProofs -----------------------------
(***************************************************************************)
(* Proofs about Input, for any terminals, keys and bounds: the end of the  *)
(* detection reaches the screen, however reading, pushing back, updating   *)
(* and resizing interleave; which reports are lost, and that where none    *)
(* is, each is taken for the answer to the question that it answers; and   *)
(* what follows from that for what is believed of a terminal and the       *)
(* encoding it is sent.                                                    *)
(***************************************************************************)
EXTENDS Input, TLAPS, FiniteSetTheorems, SequenceTheorems

-----------------------------------------------------------------------------
(* Reading.                                                                                *)

\* What reading a character does to the detection.
LEMMA Reading ==
    ASSUME ReadChar
    PROVE  /\ storedKey = "none"
           /\ \/ UNCHANGED <<detectVars, finishing>> /\ UNCHANGED storedKey
              \/ ~detecting /\ UNCHANGED <<detectVars, finishing, storedKey>>
              \/ detecting /\ lastKey' = "R" /\ CapabilityReport(parser.column)
<1>1. CASE detecting /\ EndsReport(parser, Head(wire))
  BY <1>1 DEF ReadChar, EndsReport
<1>2. CASE ~(detecting /\ EndsReport(parser, Head(wire)))
           /\ ~detecting /\ sizeState = "triggered" /\ EndsReport(parser, Head(wire))
  BY <1>2 DEF ReadChar, SizeReport, detectVars
<1>3. CASE /\ ~(detecting /\ EndsReport(parser, Head(wire)))
           /\ ~(~detecting /\ sizeState = "triggered" /\ EndsReport(parser, Head(wire)))
  BY <1>3 DEF ReadChar, detectVars
<1> QED BY <1>1, <1>2, <1>3

-----------------------------------------------------------------------------
(* The end of the detection and the screen.  The thread that updates the terminal sees     *)
(* _t3_detection_needs_finishing at some later moment.  Before the detection ends the      *)
(* screen may be redrawn with what is known so far; where no redraw is asked for in the    *)
(* end, nothing was learned in the meantime.                                               *)

\* What can be believed: no levels without an encoding that has them.
Beliefs ==
    {b \in [encoding : Encodings, combining : Int, doubleWidth : Int] :
        /\ b.combining >= -1 /\ b.doubleWidth >= -1
        /\ b.encoding \notin {"utf8", "gb18030"} => b.combining = -1 /\ b.doubleWidth = -1}

\* Where nothing is believed about widths, nothing was believed when the screen was drawn.
NoMoreDrawn(b) ==
    /\ b.combining = -1 => drawn.combining = -1
    /\ b.doubleWidth = -1 => drawn.doubleWidth = -1

BeliefInv ==
    /\ reportNr \in Nat
    /\ belief \in Beliefs
    /\ reportNr = 0 => belief.encoding = "unknown"
ScreenInv ==
    /\ drawn = [converter |-> drawn.converter, combining |-> drawn.combining,
                doubleWidth |-> drawn.doubleWidth]
    /\ detecting => ~finishing /\ converter = codeset /\ drawn.converter = codeset /\ NoMoreDrawn(belief)
    /\ updating => ~detecting /\ finishing /\ drawn = Drawing(converter, belief)
    /\ ~detecting /\ ~finishing => drawn = Drawing(converter, belief)

\* The ways in which more is believed.
WithEncoding(b, e) == [b EXCEPT !.encoding = e]
WithCombining(b, l) == [b EXCEPT !.combining = l]
WithDoubleWidth(b, l) == [b EXCEPT !.doubleWidth = l]

Learnt(b, c) ==
    /\ c \in Beliefs
    /\ c.combining = -1 => b.combining = -1
    /\ c.doubleWidth = -1 => b.doubleWidth = -1

\* Each of them leaves the belief in order.
LEMMA MoreBelieved ==
    ASSUME NEW b \in Beliefs
    PROVE  /\ \A e \in Encodings : b.encoding = "unknown" => Learnt(b, WithEncoding(b, e))
           /\ \A l \in Nat : b.encoding \in {"utf8", "gb18030"} =>
                Learnt(b, WithCombining(b, l)) /\ Learnt(b, WithDoubleWidth(b, l))
<1>1. ASSUME NEW e \in Encodings, b.encoding = "unknown" PROVE Learnt(b, WithEncoding(b, e))
  BY <1>1 DEF WithEncoding, Learnt, Beliefs
<1>2. ASSUME NEW l \in Nat, b.encoding \in {"utf8", "gb18030"} PROVE Learnt(b, WithCombining(b, l))
  BY <1>2 DEF WithCombining, Learnt, Beliefs
<1>3. ASSUME NEW l \in Nat, b.encoding \in {"utf8", "gb18030"} PROVE Learnt(b, WithDoubleWidth(b, l))
  BY <1>3 DEF WithDoubleWidth, Learnt, Beliefs
<1> QED BY <1>1, <1>2, <1>3

\* The tests of capability_test.h are for levels.
LEMMA StepLearns ==
    ASSUME NEW b \in Beliefs, NEW n \in FirstCombining .. TestCount - 1, NEW column
    PROVE  Learnt(b, Step(b, n, column))
<1> DEFINE level == LevelOf(n)
<1>1. level \in Nat
  <2>1. FirstCombining = 5 /\ FirstDoubleWidth = 16 /\ TestCount = 25
    BY DEF FirstCombining, FirstDoubleWidth, TestCount, CombiningTests, DoubleWidthTests
  <2>2. \A i \in 1 .. 11 : CombiningTests[i] \in Nat
    BY DEF CombiningTests
  <2>3. \A i \in 1 .. 9 : DoubleWidthTests[i] \in Nat
    BY DEF DoubleWidthTests
  <2>4. CASE n \in 5 .. 15
    BY <2>1, <2>2, <2>4 DEF LevelOf
  <2>5. CASE n \in 16 .. 24
    <3>1. n - FirstDoubleWidth + 1 \in 1 .. 9
      BY <2>1, <2>5
    <3>2. level = DoubleWidthTests[n - FirstDoubleWidth + 1]
      BY <2>1, <2>5 DEF LevelOf
    <3> QED BY <2>3, <3>1, <3>2
  <2> QED BY <2>1, <2>4, <2>5
<1> HIDE DEF level
<1>2. \/ Step(b, n, column) = b
      \/ b.encoding = "utf8" /\ b.combining = level - 1 /\ Step(b, n, column) = WithCombining(b, level)
      \/ b.encoding = "utf8" /\ b.doubleWidth = level - 1 /\ Step(b, n, column) = WithDoubleWidth(b, level)
  BY DEF Step, level, WithCombining, WithDoubleWidth
<1>4. CASE Step(b, n, column) = b
  BY <1>4 DEF Learnt
<1>5. CASE b.encoding = "utf8" /\ Step(b, n, column) = WithCombining(b, level)
  BY <1>1, <1>5, MoreBelieved
<1>6. CASE b.encoding = "utf8" /\ Step(b, n, column) = WithDoubleWidth(b, level)
  BY <1>1, <1>6, MoreBelieved
<1> QED BY <1>2, <1>4, <1>5, <1>6

\* A report adds to what is believed.
LEMMA Learns ==
    ASSUME NEW b \in Beliefs, NEW n \in Nat, NEW column, n = 0 => b.encoding = "unknown"
    PROVE  Learnt(b, Learned(b, n, column))
<1>0. Learnt(b, b)
  BY DEF Learnt
<1>1. ASSUME NEW e \in Encodings, b.encoding = "unknown" PROVE Learnt(b, WithEncoding(b, e))
  BY <1>1, MoreBelieved
<1>2. ASSUME b.encoding \in {"utf8", "gb18030"}
      PROVE  Learnt(b, WithCombining(b, 0)) /\ Learnt(b, WithDoubleWidth(b, 0))
  BY <1>2, MoreBelieved
<1>3. {"utf8", "cjk", "gb18030", "gbk", "singlebyte"} \subseteq Encodings
  BY DEF Encodings
<1>4. CASE n = 0
  <2>1. Learned(b, n, column) = FirstTest(b, column)
    BY <1>4 DEF Learned, FirstCombining
  <2>2. CASE column \in {3, 6}
    <3>1. FirstTest(b, column) = WithEncoding(b, IF column = 3 THEN "utf8" ELSE "cjk")
      BY <2>2 DEF FirstTest, WithEncoding
    <3> QED BY <1>1, <1>3, <1>4, <2>1, <3>1
  <2>3. CASE column \notin {3, 6}
    <3>1. FirstTest(b, column) = b
      BY <2>3 DEF FirstTest
    <3> QED BY <1>0, <2>1, <3>1
  <2> QED BY <2>2, <2>3
<1>5. CASE n = 1
  <2>1. Learned(b, n, column) = SecondTest(b, column)
    BY <1>5 DEF Learned, FirstCombining
  <2>2. CASE b.encoding = "unknown" /\ column \in {1, 2, 4}
    <3>1. SecondTest(b, column) = WithEncoding(b, IF column = 1 THEN "gb18030"
                                                  ELSE IF column = 2 THEN "gbk" ELSE "singlebyte")
      BY <2>2 DEF SecondTest, WithEncoding
    <3> QED BY <1>1, <1>3, <2>1, <2>2, <3>1
  <2>3. CASE ~(b.encoding = "unknown" /\ column \in {1, 2, 4})
    <3>1. SecondTest(b, column) = b
      BY <2>3 DEF SecondTest
    <3> QED BY <1>0, <2>1, <3>1
  <2> QED BY <2>2, <2>3
<1>6. CASE n = 2
  <2>1. CASE b.encoding = "utf8" /\ column = 1
    <3>1. Learned(b, n, column) = WithCombining(b, 0)
      BY <1>6, <2>1 DEF Learned, FirstCombining, WithCombining
    <3> QED BY <1>2, <2>1, <3>1
  <2>2. CASE ~(b.encoding = "utf8" /\ column = 1)
    <3>1. Learned(b, n, column) = b
      BY <1>6, <2>2 DEF Learned, FirstCombining
    <3> QED BY <1>0, <3>1
  <2> QED BY <2>1, <2>2
<1>7. CASE n = 3
  <2>1. CASE b.encoding = "gb18030"
    <3>1. Learned(b, n, column) = WithCombining(b, 0)
      BY <1>7, <2>1 DEF Learned, FirstCombining, WithCombining
    <3> QED BY <1>2, <2>1, <3>1
  <2>2. CASE b.encoding # "gb18030"
    <3>1. Learned(b, n, column) = b
      BY <1>7, <2>2 DEF Learned, FirstCombining
    <3> QED BY <1>0, <3>1
  <2> QED BY <2>1, <2>2
<1>8. CASE n = 4
  <2>1. CASE b.encoding = "utf8" /\ column = 4
    <3>1. Learned(b, n, column) = WithDoubleWidth(b, 0)
      BY <1>8, <2>1 DEF Learned, FirstCombining, WithDoubleWidth
    <3> QED BY <1>2, <2>1, <3>1
  <2>2. CASE ~(b.encoding = "utf8" /\ column = 4)
    <3>1. Learned(b, n, column) = b
      BY <1>8, <2>2 DEF Learned, FirstCombining
    <3> QED BY <1>0, <3>1
  <2> QED BY <2>1, <2>2
<1>9. CASE n > 4
  <2>1. \/ Learned(b, n, column) = b
        \/ n \in FirstCombining .. TestCount - 1 /\ Learned(b, n, column) = Step(b, n, column)
    BY <1>9 DEF Learned, WithEncoding, WithCombining, WithDoubleWidth
  <2> QED BY <1>0, <2>1, StepLearns
<1> QED BY <1>4, <1>5, <1>6, <1>7, <1>8, <1>9

\* The beliefs stay in order.
LEMMA BeliefStep == BeliefInv /\ [Next]_vars => BeliefInv'
<1> SUFFICES ASSUME BeliefInv, [Next]_vars PROVE BeliefInv'
  OBVIOUS
<1>1. CASE UNCHANGED detectVars
  BY <1>1 DEF BeliefInv, detectVars
<1>2. CASE ReadChar
  <2>1. CASE UNCHANGED detectVars
    BY <2>1 DEF BeliefInv, detectVars
  <2>2. CASE CapabilityReport(parser.column)
    <3>1. belief' = Learned(belief, reportNr, parser.column - 1) /\ reportNr' = reportNr + 1
      BY <2>2 DEF CapabilityReport
    <3>2. Learnt(belief, Learned(belief, reportNr, parser.column - 1))
      BY Learns DEF BeliefInv
    <3> QED BY <3>1, <3>2 DEF BeliefInv, Learnt
  <2> QED BY <1>2, <2>1, <2>2, Reading
<1>3. [Next]_vars => ReadChar \/ UNCHANGED detectVars
  BY DEF Next, vars, Answer, AnswerSize, Type, ResizeTerminal, GetStored, Unget, UpdateBegin,
         UpdateEnd, TermResize
<1> QED BY <1>1, <1>2, <1>3

\* So does what is on the screen.
LEMMA ScreenStep == BeliefInv /\ ScreenInv /\ [Next]_vars => ScreenInv'
<1> SUFFICES ASSUME BeliefInv, ScreenInv, [Next]_vars PROVE ScreenInv'
  OBVIOUS
<1>1. CASE UNCHANGED <<detectVars, finishing, updateVars, codeset>>
  BY <1>1 DEF ScreenInv, NoMoreDrawn, Drawing, detectVars, updateVars
<1>2. CASE ReadChar
  <2>1. UNCHANGED <<updateVars, codeset>>
    BY <1>2 DEF ReadChar, terminalVars
  <2>2. CASE UNCHANGED <<detectVars, finishing>>
    BY <1>1, <2>1, <2>2
  <2>3. CASE detecting /\ CapabilityReport(parser.column)
    <3> DEFINE b == Learned(belief, reportNr, parser.column - 1)
    <3>1. /\ belief' = b
          /\ detecting' = ~IsLastTest
          /\ finishing' = (finishing \/ (IsLastTest /\ NeedsRedraw(b)))
      BY <2>3 DEF CapabilityReport
    <3>2. Learnt(belief, b)
      BY Learns DEF BeliefInv
    <3> HIDE DEF b
    <3>3. ~updating /\ ~finishing /\ converter = codeset /\ drawn.converter = codeset /\ NoMoreDrawn(b)
      BY <2>3, <3>2 DEF ScreenInv, Learnt, NoMoreDrawn
    <3>4. CASE ~IsLastTest
      BY <2>1, <2>3, <3>1, <3>3, <3>4 DEF ScreenInv, NoMoreDrawn, updateVars
    <3>5. CASE IsLastTest /\ NeedsRedraw(b)
      BY <2>1, <2>3, <3>1, <3>3, <3>5 DEF ScreenInv, updateVars
    <3>6. CASE IsLastTest /\ ~NeedsRedraw(b)
      <4>1. b.combining = -1 /\ b.doubleWidth = -1
        BY <3>2, <3>6 DEF NeedsRedraw, Learnt, Beliefs
      <4>2. drawn = Drawing(converter, b)
        BY <3>3, <4>1 DEF ScreenInv, NoMoreDrawn, Drawing
      <4> QED BY <2>1, <3>1, <3>3, <3>6, <4>2 DEF ScreenInv, Drawing, updateVars
    <3> QED BY <3>4, <3>5, <3>6
  <2> QED BY <1>2, <2>2, <2>3, Reading
<1>3. CASE UpdateBegin
  BY <1>3 DEF UpdateBegin, ScreenInv, Drawing, detectVars
<1>4. CASE UpdateEnd
  BY <1>4 DEF UpdateEnd, ScreenInv, Drawing, detectVars
<1>5. CASE TermResize
  <2>1. /\ ~updating /\ UNCHANGED <<detectVars, finishing, updating, converter, codeset>>
        /\ drawn' = drawn \/ drawn' = Drawing(converter, belief)
    BY <1>5 DEF TermResize, UseSize
  <2>2. CASE drawn' = drawn
    BY <1>1, <2>1, <2>2 DEF updateVars
  <2>3. CASE drawn' = Drawing(converter, belief)
    BY <2>1, <2>3 DEF ScreenInv, NoMoreDrawn, Drawing, detectVars
  <2> QED BY <2>1, <2>2, <2>3
<1>6. [Next]_vars => \/ ReadChar \/ UpdateBegin \/ UpdateEnd \/ TermResize
                     \/ UNCHANGED <<detectVars, finishing, updateVars, codeset>>
  BY DEF Next, vars, terminalVars, Answer, AnswerSize, Type, ResizeTerminal, GetStored, Unget
<1> QED BY <1>1, <1>2, <1>3, <1>4, <1>5, <1>6

\* Wherever the end of the detection falls, before, between or during updates and resizes,
\* once no update is due all that is on the screen was printed with what is known of the
\* terminal in the end.
THEOREM ScreenIsUpToDate == Spec => []ScreenUpToDate
<1>1. Init => BeliefInv /\ ScreenInv
  BY DEF Init, BeliefInv, ScreenInv, NoMoreDrawn, Drawing, Beliefs, Encodings
<1>2. ScreenInv => ScreenUpToDate
  BY DEF ScreenInv, ScreenUpToDate
<1> QED BY <1>1, <1>2, BeliefStep, ScreenStep, PTL DEF Spec
-----------------------------------------------------------------------------
(* Counting the reports in the first n characters of a line s.  The characters are typed   *)
(* here; numbers of several digits are one character.                                      *)

Chars == [c : {"key", "esc", "bracket", "num", "semicolon", "R"}, v : Nat, heard : BOOLEAN]
Wires == Seq(Chars)
IsReport(ch) == ch.c = "R" /\ ch.heard
ReportEnds(s, n) == {i \in 1 .. n : IsReport(s[i])}
Count(s, n) == Cardinality(ReportEnds(s, n))

\* The characters of a line, and of what is left of it when the first is read,
LEMMA WireRead ==
    ASSUME NEW s \in Wires, s # <<>>
    PROVE  /\ Tail(s) \in Wires /\ Len(s) \in Nat /\ Len(s) >= 1 /\ Len(Tail(s)) = Len(s) - 1
           /\ Head(s) = s[1] /\ Head(s) \in Chars
           /\ \A i \in 1 .. Len(s) - 1 : Tail(s)[i] = s[i + 1]
<1>1. /\ Head(s) \in Chars /\ Tail(s) \in Wires /\ Len(Tail(s)) = Len(s) - 1
      /\ \A i \in 1 .. Len(Tail(s)) : Tail(s)[i] = s[i + 1]
  BY HeadTailProperties DEF Wires
<1>2. Len(s) \in Nat /\ Len(s) # 0
  BY DEF Wires
<1>3. Head(s) = s[1]
  BY DEF Wires
<1> QED BY <1>1, <1>2, <1>3

\* ... and when more is sent.
LEMMA WireSent ==
    ASSUME NEW s \in Wires, NEW t \in Wires
    PROVE  /\ s \o t \in Wires /\ Len(s) \in Nat /\ Len(t) \in Nat
           /\ Len(s \o t) = Len(s) + Len(t) /\ DOMAIN (s \o t) = 1 .. Len(s) + Len(t)
           /\ \A i \in 1 .. Len(s) : (s \o t)[i] = s[i]
           /\ \A i \in 1 .. Len(t) : (s \o t)[Len(s) + i] = t[i]
<1>1. Len(s) \in Nat /\ Len(t) \in Nat
  BY LenProperties DEF Wires
<1>2. /\ s \o t \in Wires /\ Len(s \o t) = Len(s) + Len(t)
      /\ \A i \in 1 .. Len(s) + Len(t) : (s \o t)[i] = IF i <= Len(s) THEN s[i] ELSE t[i - Len(s)]
  BY ConcatProperties DEF Wires
<1>3. DOMAIN (s \o t) = 1 .. Len(s) + Len(t)
  BY <1>2, LenProperties DEF Wires
<1> QED BY <1>1, <1>2, <1>3

\* Ends of reports can be counted.
LEMMA CountType ==
    ASSUME NEW s, NEW n \in Nat
    PROVE  IsFiniteSet(ReportEnds(s, n)) /\ Count(s, n) \in Nat
<1>1. IsFiniteSet(1 .. n)
  BY FS_Interval
<1>2. IsFiniteSet(ReportEnds(s, n))
  BY <1>1, FS_Subset DEF ReportEnds
<1> QED BY <1>2, FS_CardinalityType DEF Count

\* All reports on a line are counted.
LEMMA CountAll ==
    ASSUME NEW s \in Wires
    PROVE  Heard(s) = Count(s, Len(s)) /\ Heard(s) \in Nat
<1>1. Len(s) \in Nat /\ DOMAIN s = 1 .. Len(s)
  BY LenProperties DEF Wires
<1> QED BY <1>1, CountType DEF Heard, Count, ReportEnds, IsReport

\* One character more.
LEMMA CountNext ==
    ASSUME NEW s, NEW n \in Nat
    PROVE  Count(s, n + 1) = Count(s, n) + (IF IsReport(s[n + 1]) THEN 1 ELSE 0)
<1>1. IsFiniteSet(ReportEnds(s, n)) /\ Count(s, n) \in Nat
  BY CountType
<1>a. n + 1 \notin ReportEnds(s, n)
  BY DEF ReportEnds
<1>2. CASE IsReport(s[n + 1])
  <2>1. ReportEnds(s, n + 1) = ReportEnds(s, n) \cup {n + 1}
    BY <1>2 DEF ReportEnds
  <2> QED BY <1>1, <1>a, <1>2, <2>1, FS_AddElement DEF Count
<1>3. CASE ~IsReport(s[n + 1])
  <2>1. ReportEnds(s, n + 1) = ReportEnds(s, n)
    BY <1>3 DEF ReportEnds
  <2> QED BY <1>1, <1>3, <2>1 DEF Count
<1> QED BY <1>2, <1>3

\* Reading the first character.
LEMMA CountTail ==
    ASSUME NEW s \in Wires, s # <<>>, NEW n \in 0 .. Len(s) - 1
    PROVE  Count(s, n + 1) = Count(Tail(s), n) + (IF IsReport(Head(s)) THEN 1 ELSE 0)
<1> DEFINE S == ReportEnds(Tail(s), n)
           T == ReportEnds(s, n + 1) \ {1}
           f == [i \in S |-> i + 1]
<1>1. Len(s) \in Nat /\ Len(s) >= 1 /\ Head(s) = s[1]
      /\ \A i \in 1 .. Len(s) - 1 : Tail(s)[i] = s[i + 1]
  BY WireRead
<1>2. IsFiniteSet(S) /\ IsFiniteSet(ReportEnds(s, n + 1)) /\ Count(s, n + 1) \in Nat
  BY CountType
<1>3. f \in Bijection(S, T)
  <2>1. \A i \in S : i + 1 \in T
    BY <1>1 DEF ReportEnds
  <2>2. \A j \in T : j - 1 \in S /\ f[j - 1] = j
    BY <1>1 DEF ReportEnds
  <2>3. \A i, j \in S : f[i] = f[j] => i = j
    BY DEF ReportEnds
  <2>4. f \in [S -> T]
    BY <2>1
  <2> QED BY <2>2, <2>3, <2>4 DEF Bijection, Injection, Surjection, IsInjective
<1>4. Cardinality(T) = Cardinality(S)
  BY <1>2, <1>3, FS_Bijection DEF ExistsBijection
<1>5. Cardinality(T) = IF 1 \in ReportEnds(s, n + 1) THEN Count(s, n + 1) - 1 ELSE Count(s, n + 1)
  BY <1>2, FS_RemoveElement DEF Count
<1>6. 1 \in ReportEnds(s, n + 1) <=> IsReport(Head(s))
  BY <1>1 DEF ReportEnds
<1> QED BY <1>2, <1>4, <1>5, <1>6 DEF Count

\* What is sent does not change the count of what was sent before.
LEMMA CountSent ==
    ASSUME NEW s \in Wires, NEW t \in Wires, NEW n \in 0 .. Len(s)
    PROVE  Count(s \o t, n) = Count(s, n)
<1>1. Len(s) \in Nat /\ \A i \in 1 .. Len(s) : (s \o t)[i] = s[i]
  BY WireSent
<1>2. ReportEnds(s \o t, n) = ReportEnds(s, n)
  BY <1>1 DEF ReportEnds
<1> QED BY <1>2 DEF Count

\* A key adds no report,
LEMMA CountKey ==
    ASSUME NEW s \in Wires, NEW t \in Wires, \A k \in 1 .. Len(t) : ~IsReport(t[k])
    PROVE  Count(s \o t, Len(s) + Len(t)) = Count(s, Len(s))
<1>1. /\ Len(s) \in Nat /\ Len(t) \in Nat
      /\ \A i \in 1 .. Len(s) : (s \o t)[i] = s[i]
      /\ \A k \in 1 .. Len(t) : (s \o t)[Len(s) + k] = t[k]
  BY WireSent
<1>2. ASSUME NEW i \in 1 .. Len(s) + Len(t), i > Len(s) PROVE ~IsReport((s \o t)[i])
  <2>1. i - Len(s) \in 1 .. Len(t) /\ Len(s) + (i - Len(s)) = i
    BY <1>1, <1>2
  <2> QED BY <1>1, <2>1
<1>3. ReportEnds(s \o t, Len(s) + Len(t)) = ReportEnds(s, Len(s))
  BY <1>1, <1>2 DEF ReportEnds
<1> QED BY <1>3 DEF Count

\* ... and a report one.
LEMMA CountReport ==
    ASSUME NEW s \in Wires, NEW t \in Wires, Len(t) >= 1,
           \A k \in 1 .. Len(t) : IsReport(t[k]) <=> k = Len(t)
    PROVE  Count(s \o t, Len(s) + Len(t)) = Count(s, Len(s)) + 1
<1>1. /\ Len(s) \in Nat /\ Len(t) \in Nat
      /\ \A i \in 1 .. Len(s) : (s \o t)[i] = s[i]
      /\ \A k \in 1 .. Len(t) : (s \o t)[Len(s) + k] = t[k]
  BY WireSent
<1>2. IsFiniteSet(ReportEnds(s, Len(s))) /\ Count(s, Len(s)) \in Nat
  BY <1>1, CountType
<1>3. ASSUME NEW i \in 1 .. Len(s) + Len(t), i > Len(s)
      PROVE  IsReport((s \o t)[i]) <=> i = Len(s) + Len(t)
  <2>1. i - Len(s) \in 1 .. Len(t) /\ Len(s) + (i - Len(s)) = i
    BY <1>1, <1>3
  <2>2. i - Len(s) = Len(t) <=> i = Len(s) + Len(t)
    BY <1>1
  <2> QED BY <1>1, <2>1, <2>2
<1>b. Len(t) \in 1 .. Len(t)
  BY <1>1
<1>c. IsReport((s \o t)[Len(s) + Len(t)])
  BY <1>1, <1>b
<1>4. ReportEnds(s \o t, Len(s) + Len(t)) = ReportEnds(s, Len(s)) \cup {Len(s) + Len(t)}
  <2>1. ASSUME NEW i \in 1 .. Len(s) + Len(t)
        PROVE  IsReport((s \o t)[i]) <=> (i \in 1 .. Len(s) /\ IsReport(s[i])) \/ i = Len(s) + Len(t)
    <3>1. CASE i > Len(s)
      BY <1>1, <1>3, <3>1
    <3>2. CASE ~(i > Len(s))
      <4>1. i \in 1 .. Len(s) /\ i # Len(s) + Len(t)
        BY <1>1, <3>2
      <4>2. (s \o t)[i] = s[i]
        BY <1>1, <4>1
      <4> QED BY <4>1, <4>2
    <3> QED BY <3>1, <3>2
  <2> QED BY <1>1, <2>1 DEF ReportEnds
<1>5. Len(s) + Len(t) \notin ReportEnds(s, Len(s))
  BY <1>1 DEF ReportEnds
<1> QED BY <1>2, <1>4, <1>5, FS_AddElement DEF Count

-----------------------------------------------------------------------------
(* The parser.  A report is six characters, of which it has read k.                        *)

Parsers == [state : {"initial", "esc_seen", "row", "column"}, row : Nat, column : Nat]
Shape == <<"esc", "bracket", "num", "semicolon", "num", "R">>
Reads(p, k) ==
    /\ k = 0 => p.state = "initial"
    /\ k = 1 => p.state = "esc_seen"
    /\ k = 2 \/ k = 3 => p.state = "row"
    /\ k = 4 \/ k = 5 => p.state = "column"
    /\ k # 0 /\ k # 5 => p.column = 0

\* The parser stays one,
LEMMA ParserType ==
    ASSUME NEW p \in Parsers, NEW ch \in Chars
    PROVE  Parsed(p, ch) \in Parsers
<1>1. p.row \in Nat /\ p.column \in Nat /\ ch.v \in Nat
  BY DEF Parsers, Chars
<1>2. 10 * p.row + ch.v \in Nat /\ 10 * p.column + ch.v \in Nat
  BY <1>1
<1>3. CASE p.state = "initial"
  BY <1>3 DEF Parsed, Parsers, NoParse
<1>4. CASE p.state = "esc_seen"
  BY <1>4 DEF Parsed, Parsers
<1>5. CASE p.state = "row"
  BY <1>2, <1>5 DEF Parsed, Parsers
<1>6. CASE p.state = "column"
  BY <1>2, <1>6 DEF Parsed, Parsers
<1> QED BY <1>3, <1>4, <1>5, <1>6 DEF Parsers

\* ... follows a report,
LEMMA ParserFollows ==
    ASSUME NEW p \in Parsers, NEW ch \in Chars, NEW k \in 0 .. 4, Reads(p, k), ch.c = Shape[k + 1]
    PROVE  Reads(Parsed(p, ch), k + 1) /\ (k = 4 => Parsed(p, ch).column = ch.v)
<1>1. ch.v \in Nat
  BY DEF Chars
<1>2. CASE k = 0
  BY <1>2 DEF Parsed, Parsers, NoParse, Reads, Shape
<1>3. CASE k = 1
  BY <1>3 DEF Parsed, Parsers, Reads, Shape
<1>4. CASE k = 2
  BY <1>4 DEF Parsed, Parsers, Reads, Shape
<1>5. CASE k = 3
  <2>1. p.state = "row" /\ p.column = 0 /\ ch.c = "semicolon"
    BY <1>5 DEF Reads, Shape
  <2>2. Parsed(p, ch) = [p EXCEPT !.state = "column"]
    BY <2>1 DEF Parsed
  <2> QED BY <1>5, <2>1, <2>2 DEF Parsers, Reads
<1>6. CASE k = 4
  BY <1>1, <1>6 DEF Parsed, Parsers, Reads, Shape
<1> QED BY <1>2, <1>3, <1>4, <1>5, <1>6

\* ... is back at its start after what ends a key or a report, waits there for an escape, and
\* loses the one that follows another.
LEMMA ParserReturns ==
    ASSUME NEW p \in Parsers, NEW ch \in Chars
    PROVE  /\ ch.c \in {"key", "R"} => Parsed(p, ch).state = "initial"
           /\ p.state = "initial" /\ ch.c # "esc" => Parsed(p, ch).state = "initial"
           /\ p.state = "initial" /\ ch.c = "esc" => Parsed(p, ch).state = "esc_seen"
           /\ p.state = "esc_seen" /\ ch.c = "esc" => Parsed(p, ch).state = "initial"
BY DEF Parsed, Parsers, NoParse

-----------------------------------------------------------------------------
(* The line w before a parser in state p.  Of several escapes in a row every second is     *)
(* lost, and with it the report that it begins.                                            *)

\* The character before one that may be the start of a report, and before one that may not.
Closing(ch) == ch.c \in {"key", "R"} \/ (ch.c = "esc" /\ ~ch.heard)
Opening(ch) == ch.c = "esc" /\ ch.heard

EscapeFits(w, p, j) ==
    IF j = 1 THEN p.state = (IF w[j].heard THEN "initial" ELSE "esc_seen")
    ELSE IF w[j].heard THEN Closing(w[j - 1]) ELSE Opening(w[j - 1])
ReportFits(w, p, i) ==
    /\ \A j \in 0 .. 5 : j < i => w[i - j].c = Shape[6 - j]
    /\ i > 5 => (w[i - 5].heard <=> w[i].heard)
    /\ i <= 5 => IF w[i].heard THEN Reads(p, 6 - i) ELSE p.state = "initial"
EndFits(w, p) ==
    IF w = <<>> THEN p.state \in {"initial", "esc_seen"} ELSE Closing(w[Len(w)]) \/ Opening(w[Len(w)])
Legible(w, p) ==
    /\ \A j \in 1 .. Len(w) : w[j].c = "esc" => EscapeFits(w, p, j)
    /\ \A i \in 1 .. Len(w) : w[i].c = "R" => ReportFits(w, p, i)
    /\ EndFits(w, p)

\* The first character: R is read where a report ends, if its start was heard, and only there.
LEMMA HeadRead ==
    ASSUME NEW w \in Wires, w # <<>>, NEW p \in Parsers, Legible(w, p)
    PROVE  /\ Opening(w[1]) => p.state = "initial" /\ Parsed(p, w[1]).state = "esc_seen"
           /\ Closing(w[1]) => Parsed(p, w[1]).state = "initial"
           /\ w[1].c = "R" => (IF w[1].heard THEN p.state = "column" ELSE p.state = "initial")
<1>1. Len(w) \in Nat /\ 1 \in 1 .. Len(w) /\ w[1] \in Chars
  BY WireRead
<1>2. ASSUME w[1].c = "esc" PROVE p.state = (IF w[1].heard THEN "initial" ELSE "esc_seen")
  <2>1. EscapeFits(w, p, 1)
    BY <1>1, <1>2 DEF Legible
  <2> QED BY <2>1 DEF EscapeFits
<1>3. ASSUME w[1].c = "R" PROVE IF w[1].heard THEN Reads(p, 5) ELSE p.state = "initial"
  <2>1. ReportFits(w, p, 1)
    BY <1>1, <1>3 DEF Legible
  <2> QED BY <2>1 DEF ReportFits
<1> QED BY <1>1, <1>2, <1>3, ParserReturns DEF Opening, Closing, Reads

\* The characters of a report, counted back from its end.
LEMMA FitsShape ==
    ASSUME NEW w, NEW p, NEW m \in Nat, ReportFits(w, p, m), NEW j \in 0 .. 5, j < m
    PROVE  w[m - j].c = Shape[6 - j]
BY DEF ReportFits

\* Reading a character leaves the reports to be found where they were,
LEMMA ReportRead ==
    ASSUME NEW w \in Wires, w # <<>>, NEW p \in Parsers, Legible(w, p),
           NEW i \in 1 .. Len(w) - 1, ReportFits(w, p, i + 1)
    PROVE  ReportFits(Tail(w), Parsed(p, Head(w)), i)
<1> DEFINE q == Parsed(p, Head(w))
<1>1. /\ Len(w) \in Nat /\ Len(Tail(w)) = Len(w) - 1 /\ Head(w) = w[1] /\ Head(w) \in Chars
      /\ \A k \in 1 .. Len(w) - 1 : Tail(w)[k] = w[k + 1]
  BY WireRead
<1>2. \A j \in 0 .. 5 : j < i => Tail(w)[i - j].c = Shape[6 - j]
  <2> SUFFICES ASSUME NEW j \in 0 .. 5, j < i PROVE Tail(w)[i - j].c = Shape[6 - j]
    OBVIOUS
  <2>1. i - j \in 1 .. Len(w) - 1 /\ i - j + 1 = i + 1 - j /\ j < i + 1
    BY <1>1
  <2>2. Tail(w)[i - j] = w[i + 1 - j]
    BY <1>1, <2>1
  <2>3. w[i + 1 - j].c = Shape[6 - j]
    <3> PICK m \in Nat : m = i + 1
      BY <1>1
    <3>1. ReportFits(w, p, m) /\ j < m
      BY <2>1
    <3>2. w[m - j].c = Shape[6 - j]
      BY <3>1, FitsShape
    <3> QED BY <3>2
  <2> QED BY <2>2, <2>3
<1>3. Tail(w)[i] = w[i + 1]
  BY <1>1
<1>4. i > 5 => (Tail(w)[i - 5].heard <=> Tail(w)[i].heard)
  <2> HAVE i > 5
  <2>1. i - 5 \in 1 .. Len(w) - 1 /\ i - 5 + 1 = i + 1 - 5 /\ i + 1 > 5
    BY <1>1
  <2>2. Tail(w)[i - 5] = w[i + 1 - 5]
    BY <1>1, <2>1
  <2> QED BY <1>3, <2>1, <2>2 DEF ReportFits
<1>5. ASSUME i <= 5 PROVE Head(w).c = Shape[6 - i]
  <2> PICK m \in Nat : m = i + 1
    BY <1>1
  <2>1. ReportFits(w, p, m) /\ i < m /\ i \in 0 .. 5 /\ m - i = 1
    BY <1>1, <1>5
  <2>2. w[m - i].c = Shape[6 - i]
    BY <2>1, FitsShape
  <2> QED BY <1>1, <2>1, <2>2
<1>6. ASSUME i <= 4, w[i + 1].heard PROVE Reads(q, 6 - i)
  <2>1. Reads(p, 5 - i) /\ 5 - i \in 0 .. 4 /\ 5 - i + 1 = 6 - i
    <3>1. i + 1 <= 5 /\ 6 - (i + 1) = 5 - i
      BY <1>6
    <3> QED BY <1>6, <3>1 DEF ReportFits
  <2> QED BY <1>1, <1>5, <1>6, <2>1, ParserFollows
<1>7. ASSUME i <= 4, ~w[i + 1].heard PROVE q.state = "initial"
  <2>1. p.state = "initial"
    <3>1. i + 1 <= 5
      BY <1>7
    <3> QED BY <1>7, <3>1 DEF ReportFits
  <2>2. Head(w).c # "esc"
    BY <1>5, <1>7 DEF Shape
  <2> QED BY <1>1, <2>1, <2>2, ParserReturns
<1>8. ASSUME i = 5 PROVE IF w[i + 1].heard THEN Reads(q, 1) ELSE q.state = "initial"
  <2>1. Head(w).c = "esc"
    BY <1>5, <1>8 DEF Shape
  <2>2. w[1].heard <=> w[i + 1].heard
    <3>1. i + 1 > 5 /\ i + 1 - 5 = 1
      BY <1>8
    <3> QED BY <3>1 DEF ReportFits
  <2>3. CASE w[1].heard
    <3>1. p.state = "initial"
      BY <1>1, <2>1, <2>3, HeadRead DEF Opening
    <3>2. Reads(p, 0) /\ Head(w).c = Shape[0 + 1]
      BY <2>1, <3>1 DEF Reads, Shape
    <3>3. Reads(q, 0 + 1)
      BY <1>1, <3>2, ParserFollows
    <3> QED BY <2>2, <2>3, <3>3
  <2>4. CASE ~w[1].heard
    BY <1>1, <2>1, <2>2, <2>4, HeadRead DEF Closing
  <2> QED BY <2>3, <2>4
<1>9. i <= 5 => IF Tail(w)[i].heard THEN Reads(q, 6 - i) ELSE q.state = "initial"
  <2>1. CASE i <= 4
    BY <1>3, <1>6, <1>7, <2>1
  <2>2. CASE i = 5
    <3>1. 6 - i = 1
      BY <2>2
    <3> QED BY <1>3, <1>8, <2>2, <3>1
  <2> QED BY <2>1, <2>2
<1> QED BY <1>2, <1>4, <1>9 DEF ReportFits

\* ... and the line as it has to be.
LEMMA LegibleRead ==
    ASSUME NEW w \in Wires, w # <<>>, NEW p \in Parsers, Legible(w, p)
    PROVE  Legible(Tail(w), Parsed(p, Head(w)))
<1> DEFINE q == Parsed(p, Head(w))
<1>1. /\ Len(w) \in Nat /\ Len(w) >= 1 /\ Len(Tail(w)) = Len(w) - 1 /\ Head(w) = w[1] /\ Tail(w) \in Wires
      /\ \A k \in 1 .. Len(w) - 1 : Tail(w)[k] = w[k + 1]
  BY WireRead
<1>2. ASSUME NEW j \in 1 .. Len(w) - 1, Tail(w)[j].c = "esc" PROVE EscapeFits(Tail(w), q, j)
  <2>1. EscapeFits(w, p, j + 1) /\ Tail(w)[j] = w[j + 1] /\ j + 1 # 1 /\ j + 1 - 1 = j
    BY <1>1, <1>2 DEF Legible
  <2>2. IF Tail(w)[j].heard THEN Closing(w[j]) ELSE Opening(w[j])
    BY <2>1 DEF EscapeFits
  <2>3. CASE j = 1
    BY <1>1, <2>2, <2>3, HeadRead DEF EscapeFits
  <2>4. CASE j # 1
    <3>1. Tail(w)[j - 1] = w[j]
      <4>1. j - 1 \in 1 .. Len(w) - 1 /\ j - 1 + 1 = j
        BY <1>1, <2>4
      <4> QED BY <1>1, <4>1
    <3> QED BY <2>2, <2>4, <3>1 DEF EscapeFits
  <2> QED BY <2>3, <2>4
<1>3. ASSUME NEW i \in 1 .. Len(w) - 1, Tail(w)[i].c = "R" PROVE ReportFits(Tail(w), q, i)
  <2>1. ReportFits(w, p, i + 1)
    BY <1>1, <1>3 DEF Legible
  <2> QED BY <2>1, ReportRead
<1>4. EndFits(Tail(w), q)
  <2>1. Closing(w[Len(w)]) \/ Opening(w[Len(w)])
    BY DEF Legible, EndFits
  <2>2. CASE Tail(w) = <<>>
    <3>1. Len(w) = 1
      <4> DEFINE v == Tail(w)
      <4>1. v = <<>>
        BY <2>2
      <4>2. Len(v) = Len(w) - 1 /\ Len(w) \in Nat
        BY <1>1
      <4> HIDE DEF v
      <4>3. Len(v) = 0
        BY <4>1
      <4> QED BY <4>2, <4>3
    <3> QED BY <1>1, <2>1, <2>2, <3>1, HeadRead DEF EndFits
  <2>3. CASE Tail(w) # <<>>
    <3>1. Len(Tail(w)) \in 1 .. Len(w) - 1 /\ Len(Tail(w)) + 1 = Len(w)
      BY <1>1, <2>3, WireRead
    <3>2. Tail(w)[Len(Tail(w))] = w[Len(w)]
      BY <1>1, <3>1
    <3> QED BY <2>1, <2>3, <3>2 DEF EndFits
  <2> QED BY <2>2, <2>3
<1> QED BY <1>1, <1>2, <1>3, <1>4 DEF Legible

\* What is sent: a report, or a key that does not look like one, and whether it is heard.
Message(t, heard) ==
    /\ Len(t) >= 1
    /\ \A k \in 1 .. Len(t) : (t[k].heard <=> heard) /\ (k > 1 => t[k].c # "esc")
    /\ \/ Len(t) = 6 /\ \A k \in 1 .. Len(t) : t[k].c = Shape[k]
       \/ t[Len(t)].c \in {"key", "esc"} /\ \A k \in 1 .. Len(t) : t[k].c # "R"

\* Whether the parser will be where a report can start when it has read the line.
Ready(w, p) == IF w = <<>> THEN p.state = "initial" ELSE ~Opening(w[Len(w)])

\* What is sent leaves the line as it has to be.
LEMMA LegibleSent ==
    ASSUME NEW w \in Wires, NEW t \in Wires, NEW p \in Parsers, Legible(w, p), Message(t, Ready(w, p))
    PROVE  Legible(w \o t, p)
<1> DEFINE u == w \o t
<1>1. /\ Len(w) \in Nat /\ Len(t) \in Nat /\ Len(t) >= 1 /\ Len(u) = Len(w) + Len(t) /\ u \in Wires
      /\ \A k \in 1 .. Len(w) : u[k] = w[k]
      /\ \A k \in 1 .. Len(t) : u[Len(w) + k] = t[k]
  BY WireSent DEF Message
<1>a. w = <<>> <=> Len(w) = 0
  BY DEF Wires
<1> HIDE DEF u
<1>b. ASSUME NEW j \in 1 .. Len(u), ~(j <= Len(w)) PROVE j - Len(w) \in 1 .. Len(t) /\ u[j] = t[j - Len(w)]
  <2>1. j - Len(w) \in 1 .. Len(t) /\ Len(w) + (j - Len(w)) = j
    BY <1>1, <1>b
  <2> QED BY <1>1, <2>1
<1>2. ASSUME NEW j \in 1 .. Len(u), u[j].c = "esc" PROVE EscapeFits(u, p, j)
  <2>1. CASE j <= Len(w)
    <3>1. EscapeFits(w, p, j) /\ u[j] = w[j]
      BY <1>1, <1>2, <2>1 DEF Legible
    <3>2. j # 1 => u[j - 1] = w[j - 1]
      BY <1>1, <2>1
    <3> QED BY <3>1, <3>2 DEF EscapeFits
  <2>2. CASE ~(j <= Len(w))
    <3>1. j - Len(w) \in 1 .. Len(t) /\ u[j] = t[j - Len(w)]
      BY <1>b, <2>2
    <3>2. j = Len(w) + 1 /\ (u[j].heard <=> Ready(w, p))
      <4> PICK k \in 1 .. Len(t) : k = j - Len(w)
        BY <3>1
      <4>1. t[k].c = "esc"
        BY <1>2, <3>1
      <4>2. k = 1 /\ (t[k].heard <=> Ready(w, p))
        BY <1>1, <4>1 DEF Message
      <4> QED BY <1>1, <3>1, <4>2
    <3>3. CASE w = <<>>
      <4>1. j = 1 /\ p.state \in {"initial", "esc_seen"}
        BY <1>a, <3>2, <3>3 DEF Legible, EndFits
      <4> QED BY <3>2, <3>3, <4>1 DEF EscapeFits, Ready
    <3>4. CASE w # <<>>
      <4>1. j # 1 /\ u[j - 1] = w[Len(w)]
        BY <1>1, <1>a, <3>2, <3>4
      <4> QED BY <3>2, <3>4, <4>1 DEF EscapeFits, Ready, Legible, EndFits
    <3> QED BY <3>3, <3>4
  <2> QED BY <2>1, <2>2
<1>3. ASSUME NEW i \in 1 .. Len(u), u[i].c = "R" PROVE ReportFits(u, p, i)
  <2>1. CASE i <= Len(w)
    <3>1. ReportFits(w, p, i) /\ u[i] = w[i]
      BY <1>1, <1>3, <2>1 DEF Legible
    <3>2. \A j \in 0 .. 5 : j < i => u[i - j] = w[i - j]
      BY <1>1, <2>1
    <3>3. i > 5 => u[i - 5] = w[i - 5]
      BY <3>2
    <3> QED BY <3>1, <3>2, <3>3 DEF ReportFits
  <2>2. CASE ~(i <= Len(w))
    <3>1. i - Len(w) \in 1 .. Len(t) /\ u[i] = t[i - Len(w)]
      BY <1>b, <2>2
    <3>2. Len(t) = 6 /\ \A k \in 1 .. Len(t) : t[k].c = Shape[k]
      BY <1>3, <3>1 DEF Message
    <3>3. i = Len(w) + 6
      <4> PICK k \in 1 .. 6 : k = i - Len(w)
        BY <3>1, <3>2
      <4>1. Shape[k] = "R"
        BY <1>3, <3>1, <3>2
      <4>2. k = 6
        BY <4>1 DEF Shape
      <4> QED BY <1>1, <4>2
    <3>4. \A j \in 0 .. 5 : u[i - j] = t[6 - j]
      <4> SUFFICES ASSUME NEW j \in 0 .. 5 PROVE u[i - j] = t[6 - j]
        OBVIOUS
      <4>1. i - j = Len(w) + (6 - j) /\ 6 - j \in 1 .. Len(t)
        BY <1>1, <3>2, <3>3
      <4> QED BY <1>1, <4>1
    <3>5. \A j \in 0 .. 5 : u[i - j].c = Shape[6 - j]
      <4> SUFFICES ASSUME NEW j \in 0 .. 5 PROVE u[i - j].c = Shape[6 - j]
        OBVIOUS
      <4>1. 6 - j \in 1 .. Len(t) /\ u[i - j] = t[6 - j]
        BY <3>2, <3>4
      <4> QED BY <3>2, <4>1
    <3>6. u[i - 5].heard <=> u[i].heard
      <4>1. u[i - 5] = t[1] /\ u[i] = t[6]
        <5>1. u[i - 5] = t[6 - 5] /\ 6 - 5 = 1
          BY <3>4
        <5> QED BY <3>1, <3>3, <5>1, <1>1
      <4> QED BY <3>2, <4>1 DEF Message
    <3>7. ~(i <= 5)
      BY <1>1, <3>3
    <3> QED BY <3>5, <3>6, <3>7 DEF ReportFits
  <2> QED BY <2>1, <2>2
<1>4. EndFits(u, p)
  <2>1. u # <<>> /\ u[Len(u)] = t[Len(t)]
    <3>1. Len(t) \in 1 .. Len(t) /\ Len(u) # 0 /\ Len(<<>>) = 0
      BY <1>1
    <3> QED BY <1>1, <3>1
  <2>2. t[Len(t)].c \in {"key", "R", "esc"}
    <3>1. CASE Len(t) = 6 /\ \A k \in 1 .. Len(t) : t[k].c = Shape[k]
      <4>1. t[6].c = Shape[6] /\ Shape[6] = "R"
        BY <3>1 DEF Shape
      <4> QED BY <3>1, <4>1
    <3> QED BY <3>1 DEF Message
  <2> QED BY <2>1, <2>2 DEF EndFits, Closing, Opening
<1> QED BY <1>2, <1>3, <1>4 DEF Legible, u

-----------------------------------------------------------------------------
(* The reports on the line w, where the parser is in state p and has passed on nr of them, *)
(* are those of the terminal term to the questions from nr on.                             *)

Nth(w, nr, i) == nr + Count(w, i) - 1
Value(w, p, i) == IF i = 1 THEN p.column ELSE w[i - 1].v
Answers(term, w, p, nr, i) == Nth(w, nr, i) < TestCount => Value(w, p, i) = Column(term, Nth(w, nr, i)) + 1
InOrder(term, w, p, nr) == \A i \in 1 .. Len(w) : IsReport(w[i]) => Answers(term, w, p, nr, i)

\* Reading a character keeps them in order.
LEMMA ReadInOrder ==
    ASSUME NEW term, NEW w \in Wires, w # <<>>, NEW p \in Parsers, NEW nr \in Nat,
           Legible(w, p), InOrder(term, w, p, nr)
    PROVE  InOrder(term, Tail(w), Parsed(p, Head(w)), nr + (IF IsReport(Head(w)) THEN 1 ELSE 0))
<1> DEFINE q == Parsed(p, Head(w))
           mr == nr + (IF IsReport(Head(w)) THEN 1 ELSE 0)
<1>1. /\ Len(w) \in Nat /\ Len(Tail(w)) = Len(w) - 1 /\ Head(w) = w[1] /\ Head(w) \in Chars
      /\ \A i \in 1 .. Len(w) - 1 : Tail(w)[i] = w[i + 1]
  BY WireRead
<1>2. SUFFICES ASSUME NEW i \in 1 .. Len(w) - 1, IsReport(Tail(w)[i])
               PROVE  Answers(term, Tail(w), q, mr, i)
  BY <1>1 DEF InOrder
<1>3. Answers(term, w, p, nr, i + 1) /\ ReportFits(w, p, i + 1) /\ w[i + 1].heard
  BY <1>1, <1>2 DEF InOrder, Legible, IsReport
<1>4. Nth(Tail(w), mr, i) = Nth(w, nr, i + 1)
  <2>1. Count(w, i + 1) = Count(Tail(w), i) + (IF IsReport(Head(w)) THEN 1 ELSE 0)
    BY <1>1, CountTail
  <2>2. Count(Tail(w), i) \in Nat
    BY <1>1, CountType
  <2> QED BY <2>1, <2>2 DEF Nth
<1>5. Value(Tail(w), q, i) = Value(w, p, i + 1)
  <2>1. CASE i = 1
    <3>1. Reads(p, 4)
      <4>1. i + 1 <= 5 /\ 6 - (i + 1) = 4
        BY <2>1
      <4> QED BY <1>3, <4>1 DEF ReportFits
    <3>2. Head(w).c = Shape[4 + 1]
      <4>1. w[2 - 1].c = Shape[6 - 1]
        BY <1>3, <2>1, FitsShape
      <4> QED BY <1>1, <4>1
    <3>3. q.column = Head(w).v
      BY <1>1, <3>1, <3>2, ParserFollows
    <3> QED BY <1>1, <2>1, <3>3 DEF Value
  <2>2. CASE i # 1
    <3>1. i - 1 \in 1 .. Len(w) - 1 /\ i - 1 + 1 = i + 1 - 1
      BY <1>1, <2>2
    <3>2. Tail(w)[i - 1] = w[i + 1 - 1]
      BY <1>1, <3>1
    <3> QED BY <2>2, <3>2 DEF Value
  <2> QED BY <2>1, <2>2
<1> QED BY <1>3, <1>4, <1>5 DEF Answers

\* What is sent leaves those before it in order.
LEMMA SentInOrder ==
    ASSUME NEW term, NEW w \in Wires, NEW t \in Wires, NEW p \in Parsers, NEW nr \in Nat,
           InOrder(term, w, p, nr),
           NEW i \in 1 .. Len(w), IsReport(w[i])
    PROVE  Answers(term, w \o t, p, nr, i)
<1>1. Len(w) \in Nat /\ \A k \in 1 .. Len(w) : (w \o t)[k] = w[k]
  BY WireSent
<1>2. Answers(term, w, p, nr, i)
  BY DEF InOrder
<1>3. Nth(w \o t, nr, i) = Nth(w, nr, i) /\ Value(w \o t, p, i) = Value(w, p, i)
  BY <1>1, CountSent DEF Nth, Value
<1> QED BY <1>2, <1>3 DEF Answers

\* A key is no report.
LEMMA KeyInOrder ==
    ASSUME NEW term, NEW w \in Wires, NEW t \in Wires, NEW p \in Parsers, NEW nr \in Nat,
           InOrder(term, w, p, nr),
           \A k \in 1 .. Len(t) : ~IsReport(t[k])
    PROVE  InOrder(term, w \o t, p, nr)
<1>1. /\ Len(w) \in Nat /\ Len(t) \in Nat /\ Len(w \o t) = Len(w) + Len(t)
      /\ \A k \in 1 .. Len(w) : (w \o t)[k] = w[k]
      /\ \A k \in 1 .. Len(t) : (w \o t)[Len(w) + k] = t[k]
  BY WireSent
<1>2. ASSUME NEW i \in 1 .. Len(w \o t), IsReport((w \o t)[i]) PROVE i \in 1 .. Len(w) /\ IsReport(w[i])
  <2>1. CASE i > Len(w)
    <3>1. i - Len(w) \in 1 .. Len(t) /\ (w \o t)[Len(w) + (i - Len(w))] = t[i - Len(w)]
      BY <1>1, <2>1
    <3> QED BY <1>1, <1>2, <3>1
  <2> QED BY <1>1, <1>2, <2>1
<1> QED BY <1>2, SentInOrder DEF InOrder

\* A report of a column that is heard.
IsAnswer(t, column) ==
    Len(t) = 6 /\ t[5].v = column /\ \A k \in 1 .. Len(t) : IsReport(t[k]) <=> k = Len(t)

\* It is in order where it answers the question that comes after those
\* answered before.
LEMMA ReportInOrder ==
    ASSUME NEW term, NEW w \in Wires, NEW t \in Wires, NEW p \in Parsers, NEW nr \in Nat,
           InOrder(term, w, p, nr),
           NEW column, IsAnswer(t, column),
           nr + Count(w, Len(w)) < TestCount => column = Column(term, nr + Count(w, Len(w))) + 1
    PROVE  InOrder(term, w \o t, p, nr)
<1>2. /\ Len(w) \in Nat /\ Len(t) \in Nat /\ Len(w \o t) = Len(w) + Len(t)
      /\ \A k \in 1 .. Len(w) : (w \o t)[k] = w[k]
      /\ \A k \in 1 .. Len(t) : (w \o t)[Len(w) + k] = t[k]
  BY WireSent
<1>3. ASSUME NEW i \in 1 .. Len(w \o t), IsReport((w \o t)[i])
      PROVE  (i \in 1 .. Len(w) /\ IsReport(w[i])) \/ i = Len(w) + Len(t)
  <2>1. CASE i > Len(w)
    <3>1. i - Len(w) \in 1 .. Len(t) /\ Len(w) + (i - Len(w)) = i
      BY <1>2, <2>1
    <3>2. (w \o t)[i] = t[i - Len(w)]
      BY <1>2, <3>1
    <3>3. i - Len(w) = Len(t)
      BY <1>3, <3>1, <3>2 DEF IsAnswer
    <3> QED BY <1>2, <3>1, <3>3
  <2> QED BY <1>2, <1>3, <2>1
<1>4. Answers(term, w \o t, p, nr, Len(w) + Len(t))
  <2> PICK i \in Nat : i = Len(w) + Len(t) /\ i = Len(w) + 6
    BY <1>2 DEF IsAnswer
  <2>5. Count(w \o t, i) = Count(w, Len(w)) + 1
    <3>1. Len(t) >= 1 /\ \A k \in 1 .. Len(t) : IsReport(t[k]) <=> k = Len(t)
      BY DEF IsAnswer
    <3> QED BY <3>1, CountReport
  <2>6. Value(w \o t, p, i) = column
    <3>1. i - 1 = Len(w) + 5 /\ 5 \in 1 .. Len(t) /\ i # 1 /\ t[5].v = column
      BY <1>2 DEF IsAnswer
    <3> QED BY <1>2, <3>1 DEF Value
  <2>7. Count(w, Len(w)) \in Nat
    BY <1>2, CountType
  <2> QED BY <2>5, <2>6, <2>7 DEF Answers, Nth
<1> QED BY <1>3, <1>4, SentInOrder DEF InOrder

-----------------------------------------------------------------------------
(* The values of the variables. *)

\* The numbers of the tests.
LEMMA TestNumbers == FirstCombining = 5 /\ FirstDoubleWidth = 16 /\ TestCount = 25
BY DEF FirstCombining, FirstDoubleWidth, TestCount, CombiningTests, DoubleWidthTests

\* The levels tested for.
LEMMA LevelType == ASSUME NEW n \in Nat, n < TestCount PROVE LevelOf(n) \in 0 .. 12
<1>1. \A i \in 1 .. 11 : CombiningTests[i] \in 0 .. 12
  BY DEF CombiningTests
<1>2. \A i \in 1 .. 9 : DoubleWidthTests[i] \in 0 .. 12
  BY DEF DoubleWidthTests
<1>3. CASE n < 5
  BY <1>3, TestNumbers DEF LevelOf
<1>4. CASE n \in 5 .. 15
  BY <1>1, <1>4, TestNumbers DEF LevelOf
<1>5. CASE n > 15
  <2>1. n - FirstDoubleWidth + 1 \in 1 .. 9
    BY <1>5, TestNumbers
  <2>2. LevelOf(n) = DoubleWidthTests[n - FirstDoubleWidth + 1]
    BY <1>5, TestNumbers DEF LevelOf
  <2> QED BY <1>2, <2>1, <2>2
<1> QED BY <1>3, <1>4, <1>5

\* A terminal moves its cursor to the right.
LEMMA ColumnType == ASSUME NEW k, NEW n \in Nat PROVE Column(k, n) \in Nat
BY DEF Column

\* Reports and keys are characters, all of them heard where the parser is ready.
LEMMA ReportType == ASSUME NEW row \in Nat, NEW column \in Nat PROVE Report(row, column) \in Wires
BY DEF Report, C, Num, Chars, Wires

Shaped(t, column) == Len(t) = 6 /\ t[5].v = column /\ \A k \in 1 .. 6 : t[k].heard /\ t[k].c = Shape[k]

LEMMA ReportShape ==
    ASSUME NEW row \in Nat, NEW column \in Nat
    PROVE  Shaped(Report(row, column), column)
BY DEF Report, C, Num, Shape, Shaped

\* What a key sends.
Sent(k) ==
    CASE k = "f3" -> Report(1, 2)
      [] k = "arrow" -> <<C("esc"), C("bracket"), C("key")>>
      [] OTHER -> <<C(k)>>

\* What is sent, before it is known whether it is heard.
IsSent(t) == t \in Wires /\ Message(t, TRUE)

LEMMA ReportSent ==
    ASSUME NEW row \in Nat, NEW column \in Nat
    PROVE  IsSent(Report(row, column))
<1> PICK t \in Wires : t = Report(row, column)
  BY ReportType
<1>a. Shaped(t, column)
  BY ReportShape
<1>1. Len(t) = 6 /\ \A k \in 1 .. 6 : t[k].heard /\ t[k].c = Shape[k]
  BY <1>a DEF Shaped
<1>2. \A k \in 1 .. 6 : k > 1 => Shape[k] # "esc"
  BY DEF Shape
<1> QED BY <1>1, <1>2 DEF IsSent, Message

\* A key that is not sent like a report has no R.
LEMMA KeySent ==
    ASSUME NEW k \in Keys
    PROVE  /\ IsSent(Sent(k))
           /\ k # "f3" => \A i \in 1 .. Len(Sent(k)) : Sent(k)[i].c # "R"
<1>1. CASE k = "f3"
  BY <1>1, ReportSent DEF Sent
<1>2. CASE k = "arrow"
  BY <1>2 DEF Sent, C, Chars, Wires, IsSent, Message
<1>3. CASE k = "key" \/ k = "esc"
  <2> DEFINE ch == C(k)
  <2>1. Sent(k) = <<ch>>
    BY <1>3 DEF Sent
  <2>2. ch \in Chars /\ ch.c \in {"key", "esc"} /\ ch.heard
    BY <1>3 DEF Chars, C
  <2> HIDE DEF ch
  <2>3. <<ch>> \in Seq(Chars) /\ Len(<<ch>>) = 1 /\ <<ch>>[1] = ch
    BY <2>2
  <2>4. ch.c # "R"
    BY <2>2
  <2> QED BY <2>1, <2>2, <2>3, <2>4 DEF Wires, IsSent, Message
<1> QED BY <1>1, <1>2, <1>3, KeysAssumption

\* The characters of what is sent, as they arrive.
Tagged(t) == IF Masked THEN [i \in DOMAIN t |-> [t[i] EXCEPT !.heard = FALSE]] ELSE t

LEMMA TaggedType ==
    ASSUME NEW t \in Wires, Message(t, TRUE)
    PROVE  /\ With(t) = wire \o Tagged(t) /\ Tagged(t) \in Wires /\ Len(Tagged(t)) = Len(t)
           /\ \A k \in 1 .. Len(t) : /\ Tagged(t)[k].c = t[k].c /\ Tagged(t)[k].v = t[k].v
                                     /\ Tagged(t)[k].heard <=> ~Masked
           /\ Message(Tagged(t), ~Masked)
<1>1. Len(t) \in Nat /\ DOMAIN t = 1 .. Len(t) /\ t \in [1 .. Len(t) -> Chars]
  BY LenProperties DEF Wires
<1>2. With(t) = wire \o Tagged(t)
  BY DEF With, Tagged
<1>3. CASE Masked
  <2> DEFINE Silent(ch) == [ch EXCEPT !.heard = FALSE]
             f == [i \in 1 .. Len(t) |-> Silent(t[i])]
  <2>1. \A ch \in Chars : Silent(ch) \in Chars /\ Silent(ch).c = ch.c /\ Silent(ch).v = ch.v /\ ~Silent(ch).heard
    BY DEF Chars
  <2>2. Tagged(t) = f
    BY <1>1, <1>3 DEF Tagged
  <2> HIDE DEF Silent
  <2>3. f \in [1 .. Len(t) -> Chars] /\ \A k \in 1 .. Len(t) : f[k] = Silent(t[k])
    BY <1>1, <2>1
  <2> HIDE DEF f
  <2>4. f \in Wires /\ Len(f) = Len(t)
    BY <1>1, <2>3, IsASeq, LenProperties DEF Wires
  <2>5. \A k \in 1 .. Len(t) : f[k].c = t[k].c /\ f[k].v = t[k].v /\ ~f[k].heard
    BY <1>1, <2>1, <2>3
  <2>6. Message(f, FALSE)
    BY <1>1, <2>4, <2>5 DEF Message
  <2> QED BY <1>2, <1>3, <2>2, <2>4, <2>5, <2>6
<1>4. CASE ~Masked
  <2>1. Tagged(t) = t
    BY <1>4 DEF Tagged
  <2>2. \A k \in 1 .. Len(t) : t[k].heard
    BY DEF Message
  <2> QED BY <1>2, <1>4, <2>1, <2>2
<1> QED BY <1>3, <1>4

\* The line stays one.
LEMMA WithType == ASSUME NEW t, IsSent(t), wire \in Wires PROVE With(t) \in Wires
BY TaggedType, WireSent DEF IsSent

\* Only an escape is mistaken for the start of a report.
LEMMA MaskedAfter == Masked => AfterEscape
BY DEF Masked

LEMMA OneMasked == One(Masked) \in Nat /\ (~AfterEscape => One(Masked) = 0)
BY MaskedAfter DEF One

\* The variables, those of the library and of the terminal.
Typed ==
    /\ kind \in Kinds /\ termSize \in Sizes /\ wire \in Wires /\ parser \in Parsers
    /\ answered \in 0 .. TestCount
    /\ reportNr \in 0 .. TestCount /\ (detecting => reportNr < TestCount)
    /\ hasIoctl => ~sizeAsked
    /\ hidden \in Nat /\ forged \in Nat /\ (~disturbed => hidden = 0 /\ forged = 0)

\* They start with these values
LEMMA TypedInit == Init => Typed
<1> SUFFICES ASSUME Init PROVE Typed
  OBVIOUS
<1>1. wire \in Wires
  BY DEF Init, Wires
<1>2. parser \in Parsers
  BY DEF Init, NoParse, Parsers
<1>3. hasIoctl => ~sizeAsked
  BY DEF Init
<1> QED BY <1>1, <1>2, <1>3, TestNumbers DEF Init, Typed

\* ... and keep them.
LEMMA TypedStep == Typed /\ [Next]_vars => Typed'
<1> SUFFICES ASSUME Typed, [Next]_vars PROVE Typed'
  OBVIOUS
<1> USE TestNumbers DEF Typed, detectVars, mistakenVars
<1>1. CASE UNCHANGED vars
  BY <1>1 DEF vars, terminalVars
<1>2. CASE Answer
  <2>1. Column(kind, answered) + 1 \in Nat
    BY ColumnType
  <2>2. wire' \in Wires
    BY <1>2, <2>1, WithType, ReportSent DEF Answer
  <2>3. hidden' \in Nat /\ (~disturbed' => hidden' = 0 /\ ~disturbed)
    <3>1. /\ hidden' = hidden + One(Masked) /\ hidden \in Nat /\ One(Masked) \in Nat
          /\ ~disturbed' => ~disturbed /\ ~AfterEscape
          /\ ~disturbed => hidden = 0
      BY <1>2, OneMasked DEF Answer
    <3>2. ~disturbed' => hidden = 0 /\ One(Masked) = 0 /\ ~disturbed
      BY <3>1, OneMasked
    <3> QED BY <3>1, <3>2
  <2> QED BY <1>2, <2>2, <2>3 DEF Answer
<1>3. CASE AnswerSize
  <2>1. termSize.y \in Nat /\ termSize.x \in Nat
    BY SizesAssumption
  <2>2. wire' \in Wires
    BY <1>3, <2>1, WithType, ReportSent DEF AnswerSize
  <2>3. hidden' \in Nat /\ (~disturbed' => hidden' = 0 /\ ~disturbed)
    <3>1. /\ hidden' = hidden + One(Masked) /\ hidden \in Nat /\ One(Masked) \in Nat
          /\ ~disturbed' => ~disturbed /\ ~AfterEscape
          /\ ~disturbed => hidden = 0
      BY <1>3, OneMasked DEF AnswerSize
    <3>2. ~disturbed' => hidden = 0 /\ One(Masked) = 0 /\ ~disturbed
      BY <3>1, OneMasked
    <3> QED BY <3>1, <3>2
  <2> QED BY <1>3, <2>2, <2>3 DEF AnswerSize
<1>4. ASSUME NEW k \in Keys, Type(k) PROVE Typed'
  <2>1. wire' = With(Sent(k))
    BY <1>4 DEF Type, Sent
  <2>2. wire' \in Wires
    BY <2>1, KeySent, WithType
  <2>3. forged' \in Nat /\ (~disturbed' => forged' = 0 /\ ~disturbed)
    <3> DEFINE n == One(k = "f3" /\ ~Masked)
    <3>1. n \in Nat /\ (k # "f3" => n = 0)
      BY DEF One
    <3>2. forged' = forged + n /\ forged \in Nat
      BY <1>4 DEF Type
    <3>3. ~disturbed' => k # "f3" /\ ~disturbed
      BY <1>4 DEF Type
    <3> HIDE DEF n
    <3> QED BY <3>1, <3>2, <3>3
  <2> QED BY <1>4, <2>2, <2>3 DEF Type
<1>5. ASSUME NEW s \in Sizes, ResizeTerminal(s) PROVE Typed'
  BY <1>5 DEF ResizeTerminal
<1>6. CASE GetStored
  BY <1>6 DEF GetStored, terminalVars
<1>7. CASE ReadChar
  <2>1. /\ wire # <<>> /\ wire' = Tail(wire) /\ UNCHANGED terminalVars /\ sizeAsked' = sizeAsked
        /\ UNCHANGED <<hidden, forged, disturbed>>
    BY <1>7 DEF ReadChar, terminalVars
  <2>2. wire' \in Wires /\ Head(wire) \in Chars
    BY <2>1, WireRead
  <2>3. parser' \in Parsers
    BY <1>7, <2>2, ParserType DEF ReadChar
  <2>4. reportNr' \in 0 .. TestCount /\ (detecting' => reportNr' < TestCount)
    <3>1. CASE UNCHANGED detectVars
      BY <3>1
    <3>2. CASE detecting /\ CapabilityReport(parser.column)
      <4>1. reportNr < TestCount /\ reportNr' = reportNr + 1
        BY <3>2 DEF CapabilityReport
      <4>2. detecting' => reportNr # TestCount - 1
        BY <3>2 DEF CapabilityReport, IsLastTest
      <4> QED BY <4>1, <4>2
    <3> QED BY <1>7, <3>1, <3>2, Reading
  <2> QED BY <2>1, <2>2, <2>3, <2>4 DEF terminalVars
<1>8. ASSUME NEW c \in UngetChars, Unget(c) PROVE Typed'
  BY <1>8 DEF Unget, terminalVars
<1>9. CASE UpdateBegin
  BY <1>9 DEF UpdateBegin, terminalVars
<1>10. CASE UpdateEnd
  BY <1>10 DEF UpdateEnd, terminalVars
<1>11. CASE TermResize
  BY <1>11 DEF TermResize
<1> QED BY <1>1, <1>2, <1>3, <1>4, <1>5, <1>6, <1>7, <1>8, <1>9, <1>10, <1>11 DEF Next

-----------------------------------------------------------------------------
(* While the capabilities are being detected, as many reports are on the line or have been *)
(* processed as were sent, but for those lost and made up.                                 *)

SizeAnswers == IF hasIoctl \/ sizeAsked THEN 0 ELSE 1
TallyNow ==
    /\ Legible(wire, parser)
    /\ reportNr + Count(wire, Len(wire)) + hidden = answered + SizeAnswers + forged
    \* The size is asked for once, after everything else.
    /\ ~hasIoctl => sizeState = "triggered"
    /\ SizeAnswers = 1 => answered = TestCount
Tally == detecting => TallyNow

\* The detection does not start again, and what was mistaken stays so.
LEMMA NoReturn ==
    /\ [Next]_vars /\ detecting' => detecting
    /\ [Next]_vars /\ ~disturbed' => ~disturbed
<1>1. ReadChar /\ detecting' => detecting
  BY Reading DEF detectVars
<1> QED BY <1>1 DEF Next, vars, detectVars, mistakenVars, Answer, AnswerSize, Type, ResizeTerminal, GetStored,
                    ReadChar, Unget, UpdateBegin, UpdateEnd, TermResize

\* The parser is ready where what is sent is heard.
LEMMA ReadyOrMasked ==
    ASSUME Legible(wire, parser)
    PROVE  Ready(wire, parser) <=> ~Masked
BY DEF Ready, Masked, AfterEscape, Legible, EndFits, Opening, Last

\* What is sent, a report or not.
LEMMA SentTally ==
    ASSUME Typed, Legible(wire, parser), NEW t, IsSent(t)
    PROVE  /\ Legible(With(t), parser)
           /\ (\A k \in 1 .. Len(t) : t[k].c # "R") =>
                  Count(With(t), Len(With(t))) = Count(wire, Len(wire))
           /\ Len(t) = 6 /\ t[6].c = "R" =>
                  Count(With(t), Len(With(t))) = Count(wire, Len(wire)) + One(~Masked)
<1> DEFINE u == Tagged(t)
<1>1. /\ t \in Wires /\ With(t) = wire \o u /\ u \in Wires /\ Len(u) = Len(t) /\ Message(u, ~Masked)
      /\ \A k \in 1 .. Len(t) : u[k].c = t[k].c /\ (u[k].heard <=> ~Masked)
      /\ wire \in Wires /\ parser \in Parsers
  BY TaggedType DEF IsSent, Typed
<1> HIDE DEF u
<1>2. Legible(wire \o u, parser)
  <2>1. Message(u, Ready(wire, parser))
    BY <1>1, ReadyOrMasked DEF Message
  <2> QED BY <1>1, <2>1, LegibleSent
<1>3. Len(wire) \in Nat /\ Len(u) \in Nat /\ Len(u) >= 1 /\ Len(wire \o u) = Len(wire) + Len(u)
  BY <1>1, WireSent DEF Message
<1>4. ASSUME \A k \in 1 .. Len(t) : t[k].c # "R"
      PROVE  Count(wire \o u, Len(wire \o u)) = Count(wire, Len(wire))
  <2>1. \A k \in 1 .. Len(u) : ~IsReport(u[k])
    BY <1>1, <1>4 DEF IsReport
  <2> QED BY <1>1, <1>3, <2>1, CountKey
<1>5. ASSUME Len(t) = 6, t[6].c = "R"
      PROVE  Count(wire \o u, Len(wire \o u)) = Count(wire, Len(wire)) + One(~Masked)
  <2>1. \A k \in 1 .. Len(u) : u[k].c = Shape[k]
    BY <1>1, <1>5 DEF Message
  <2>2. Count(wire, Len(wire)) \in Nat
    BY <1>3, CountType
  <2>3. CASE Masked
    <3>1. \A k \in 1 .. Len(u) : ~IsReport(u[k])
      BY <1>1, <2>3 DEF IsReport
    <3> QED BY <1>1, <1>3, <2>2, <2>3, <3>1, CountKey DEF One
  <2>4. CASE ~Masked
    <3>1. \A k \in 1 .. Len(u) : IsReport(u[k]) <=> k = Len(u)
      BY <1>1, <1>5, <2>1, <2>4 DEF IsReport, Shape
    <3> QED BY <1>1, <1>3, <2>4, <3>1, CountReport DEF One
  <2> QED BY <2>3, <2>4
<1> QED BY <1>1, <1>2, <1>4, <1>5

\* The parser finds the end of a report exactly where one was sent and is heard.
LEMMA ReportIsRead ==
    ASSUME Typed, Tally, detecting, ReadChar
    PROVE  EndsReport(parser, Head(wire)) <=> IsReport(Head(wire))
<1>1. wire # <<>> /\ wire \in Wires /\ parser \in Parsers /\ Legible(wire, parser)
  BY DEF ReadChar, Typed, Tally, TallyNow
<1>2. Head(wire) = wire[1]
  BY <1>1, WireRead
<1>3. wire[1].c = "R" => (IF wire[1].heard THEN parser.state = "column" ELSE parser.state = "initial")
  BY <1>1, HeadRead
<1> QED BY <1>2, <1>3 DEF EndsReport, IsReport

\* What reading a character does to the reports processed.
LEMMA ReadingCounts ==
    ASSUME Typed, Tally, detecting, ReadChar
    PROVE  /\ sizeState' = sizeState
           /\ reportNr' = reportNr + (IF IsReport(Head(wire)) THEN 1 ELSE 0)
           /\ wire # <<>> /\ wire' = Tail(wire) /\ parser' = Parsed(parser, Head(wire))
           /\ UNCHANGED <<kind, answered, hasIoctl, sizeAsked, mistakenVars>>
<1>1. /\ wire # <<>> /\ wire' = Tail(wire) /\ parser' = Parsed(parser, Head(wire))
      /\ UNCHANGED <<kind, answered, hasIoctl, sizeAsked, mistakenVars>>
  BY DEF ReadChar, terminalVars
<1>2. CASE IsReport(Head(wire))
  <2>1. CapabilityReport(parser.column)
    BY <1>2, ReportIsRead DEF ReadChar
  <2> QED BY <1>1, <1>2, <2>1 DEF CapabilityReport, sizeVars
<1>3. CASE ~IsReport(Head(wire))
  <2>1. UNCHANGED <<detectVars, sizeVars>>
    BY <1>3, ReportIsRead DEF ReadChar
  <2>2. UNCHANGED <<sizeState, reportNr>>
    BY <2>1 DEF detectVars, sizeVars
  <2>3. reportNr \in Nat
    BY DEF Typed
  <2> QED BY <1>1, <1>3, <2>2, <2>3
<1> QED BY <1>2, <1>3

\* Reading keeps the tally.
LEMMA ReadingTallies == Typed /\ Tally /\ detecting /\ ReadChar => TallyNow'
<1> SUFFICES ASSUME Typed, Tally, detecting, ReadChar PROVE TallyNow'
  OBVIOUS
<1>1. /\ sizeState' = sizeState
      /\ reportNr' = reportNr + (IF IsReport(Head(wire)) THEN 1 ELSE 0)
      /\ wire # <<>> /\ wire' = Tail(wire) /\ parser' = Parsed(parser, Head(wire))
      /\ UNCHANGED <<kind, answered, hasIoctl, sizeAsked, hidden, forged>>
  BY ReadingCounts DEF mistakenVars
<1>2. TallyNow /\ wire \in Wires /\ parser \in Parsers
  BY DEF Typed, Tally
<1>3. Legible(wire', parser')
  BY <1>1, <1>2, LegibleRead DEF TallyNow
<1>4. reportNr' + Count(wire', Len(wire')) = reportNr + Count(wire, Len(wire))
  <2>1. Len(wire) \in Nat /\ Len(wire') \in 0 .. Len(wire) - 1 /\ Len(wire') + 1 = Len(wire)
    BY <1>1, <1>2, WireRead
  <2>2. Count(wire, Len(wire)) = Count(wire', Len(wire')) + (IF IsReport(Head(wire)) THEN 1 ELSE 0)
    BY <1>1, <1>2, <2>1, CountTail
  <2>3. Count(wire', Len(wire')) \in Nat /\ reportNr \in Nat
    BY <2>1, CountType DEF Typed
  <2> QED BY <1>1, <2>2, <2>3
<1>5. SizeAnswers' = SizeAnswers
  BY <1>1 DEF SizeAnswers
<1> QED BY <1>1, <1>2, <1>3, <1>4, <1>5 DEF TallyNow

\* So does every other step.
LEMMA TallyStep == Typed /\ Tally /\ [Next]_vars => Tally'
<1> SUFFICES ASSUME Typed, Tally, [Next]_vars, detecting' PROVE TallyNow'
  BY DEF Tally
<1>0. detecting /\ TallyNow /\ hidden \in Nat /\ forged \in Nat /\ reportNr \in Nat /\ answered \in Nat
      /\ Count(wire, Len(wire)) \in Nat /\ SizeAnswers \in {0, 1}
  <2>1. Len(wire) \in Nat
    BY LenProperties DEF Typed, Wires
  <2> QED BY <2>1, CountType, NoReturn, TestNumbers DEF Tally, Typed, SizeAnswers
<1>1. CASE UNCHANGED <<wire, parser, reportNr, answered, hasIoctl, sizeAsked, sizeState, hidden, forged>>
  <2>1. SizeAnswers' = SizeAnswers
    BY <1>1 DEF SizeAnswers
  <2>2. Legible(wire, parser)'
    BY <1>0, <1>1 DEF TallyNow
  <2>3. Count(wire, Len(wire))' = Count(wire, Len(wire))
    BY <1>1
  <2> QED BY <1>0, <1>1, <2>1, <2>2, <2>3 DEF TallyNow
<1>2. CASE Answer
  <2> DEFINE t == Report(2, Column(kind, answered) + 1)
  <2>1. /\ answered < TestCount /\ answered' = answered + 1 /\ wire' = With(t)
        /\ hidden' = hidden + One(Masked)
        /\ UNCHANGED <<parser, reportNr, hasIoctl, sizeAsked, sizeState, forged>>
    BY <1>2 DEF Answer, detectVars, sizeVars
  <2>2. IsSent(t) /\ Len(t) = 6 /\ t[6].c = "R"
    <3>1. Column(kind, answered) + 1 \in Nat /\ 2 \in Nat
      BY <1>0, ColumnType
    <3>2. IsSent(t) /\ Shaped(t, Column(kind, answered) + 1) /\ Shape[6] = "R"
      BY <3>1, ReportSent, ReportShape DEF Shape
    <3> HIDE DEF t
    <3> QED BY <3>2 DEF Shaped
  <2> HIDE DEF t
  <2>3. Legible(wire', parser') /\ Count(wire', Len(wire')) = Count(wire, Len(wire)) + One(~Masked)
    BY <1>0, <2>1, <2>2, SentTally DEF TallyNow
  <2>4. SizeAnswers = 0 /\ SizeAnswers' = 0
    BY <1>0, <2>1 DEF TallyNow, SizeAnswers
  <2>5. One(Masked) + One(~Masked) = 1 /\ One(Masked) \in Nat /\ One(~Masked) \in Nat
    BY DEF One
  <2>6. reportNr' + Count(wire', Len(wire')) + hidden' = answered' + SizeAnswers' + forged'
    <3>1. reportNr + Count(wire, Len(wire)) + hidden = answered + forged
      BY <1>0, <2>4 DEF TallyNow
    <3> DEFINE lost == One(Masked)
               heard == One(~Masked)
    <3>2. lost \in Nat /\ heard \in Nat /\ lost + heard = 1
      BY <2>5
    <3>3. hidden' = hidden + lost /\ Count(wire', Len(wire')) = Count(wire, Len(wire)) + heard
      BY <2>1, <2>3
    <3>4. reportNr' = reportNr /\ answered' = answered + 1 /\ forged' = forged /\ SizeAnswers' = 0
      BY <2>1, <2>4
    <3>5. /\ hidden \in Nat /\ forged \in Nat /\ reportNr \in Nat /\ answered \in Nat
          /\ Count(wire, Len(wire)) \in Nat
      BY <1>0
    <3> HIDE DEF lost, heard
    <3> QED BY <3>1, <3>2, <3>3, <3>4, <3>5
  <2> QED BY <1>0, <2>1, <2>3, <2>4, <2>6 DEF TallyNow
<1>3. CASE AnswerSize
  <2> DEFINE t == Report(termSize.y, termSize.x)
  <2>1. /\ answered = TestCount /\ answered' = answered /\ sizeAsked /\ ~sizeAsked' /\ wire' = With(t)
        /\ hidden' = hidden + One(Masked)
        /\ UNCHANGED <<parser, reportNr, hasIoctl, sizeState, forged>>
    BY <1>3 DEF AnswerSize, detectVars, sizeVars
  <2>2. IsSent(t) /\ Len(t) = 6 /\ t[6].c = "R"
    <3>1. termSize.y \in Nat /\ termSize.x \in Nat
      BY SizesAssumption DEF Typed
    <3>2. IsSent(t) /\ Shaped(t, termSize.x) /\ Shape[6] = "R"
      BY <3>1, ReportSent, ReportShape DEF Shape
    <3> HIDE DEF t
    <3> QED BY <3>2 DEF Shaped
  <2> HIDE DEF t
  <2>3. Legible(wire', parser') /\ Count(wire', Len(wire')) = Count(wire, Len(wire)) + One(~Masked)
    BY <1>0, <2>1, <2>2, SentTally DEF TallyNow
  <2>4. SizeAnswers = 0 /\ SizeAnswers' = 1
    BY <2>1 DEF SizeAnswers, Typed
  <2>5. One(Masked) + One(~Masked) = 1 /\ One(Masked) \in Nat /\ One(~Masked) \in Nat
    BY DEF One
  <2> QED BY <1>0, <2>1, <2>3, <2>4, <2>5 DEF TallyNow
<1>4. ASSUME NEW k \in Keys, Type(k) PROVE TallyNow'
  <2> DEFINE t == Sent(k)
  <2>1. /\ wire' = With(t) /\ forged' = forged + One(k = "f3" /\ ~Masked)
        /\ UNCHANGED <<parser, reportNr, answered, hasIoctl, sizeAsked, sizeState, hidden>>
    BY <1>4 DEF Type, Sent, detectVars, sizeVars
  <2>2. IsSent(t) /\ (k # "f3" => \A i \in 1 .. Len(t) : t[i].c # "R")
    BY KeySent
  <2>3. k = "f3" => Len(t) = 6 /\ t[6].c = "R"
    <3> HAVE k = "f3"
    <3>1. Shaped(t, 2) /\ Shape[6] = "R"
      BY ReportShape DEF Sent, Shape
    <3> HIDE DEF t
    <3> QED BY <3>1 DEF Shaped
  <2> HIDE DEF t
  <2>4. Legible(wire', parser')
    BY <1>0, <2>1, <2>2, SentTally DEF TallyNow
  <2>5. Count(wire', Len(wire')) = Count(wire, Len(wire)) + One(k = "f3" /\ ~Masked)
    <3>1. CASE k = "f3"
      BY <1>0, <2>1, <2>2, <2>3, <3>1, SentTally DEF TallyNow, One
    <3>2. CASE k # "f3"
      BY <1>0, <2>1, <2>2, <3>2, SentTally DEF TallyNow, One
    <3> QED BY <3>1, <3>2
  <2>6. SizeAnswers' = SizeAnswers /\ One(k = "f3" /\ ~Masked) \in Nat
    BY <2>1 DEF SizeAnswers, One
  <2>7. reportNr' + Count(wire', Len(wire')) + hidden' = answered' + SizeAnswers' + forged'
    <3>1. reportNr + Count(wire, Len(wire)) + hidden = answered + SizeAnswers + forged
      BY <1>0 DEF TallyNow
    <3> QED BY <1>0, <2>1, <2>5, <2>6, <3>1
  <2>8. (SizeAnswers' = 1 => answered' = TestCount) /\ (~hasIoctl' => sizeState' = "triggered")
    BY <1>0, <2>1, <2>6 DEF TallyNow
  <2> QED BY <2>4, <2>7, <2>8 DEF TallyNow
<1>5. CASE ReadChar
  BY <1>0, <1>5, ReadingTallies
<1>6. CASE TermResize
  <2>1. UNCHANGED <<sizeState, sizeAsked>>
    BY <1>0, <1>6 DEF TermResize, TallyNow
  <2> QED BY <1>1, <1>6, <2>1 DEF TermResize, detectVars, mistakenVars
<1>7. [Next]_vars => \/ Answer \/ AnswerSize \/ ReadChar \/ TermResize
                     \/ \E k \in Keys : Type(k)
                     \/ UNCHANGED <<wire, parser, reportNr, answered, hasIoctl, sizeAsked, sizeState, hidden, forged>>
  BY DEF Next, vars, terminalVars, detectVars, sizeVars, mistakenVars, ResizeTerminal, GetStored, Unget,
         UpdateBegin, UpdateEnd
<1> QED BY <1>1, <1>2, <1>3, <1>4, <1>5, <1>6, <1>7

\* At the start nothing has been asked or answered yet.
LEMMA TallyInit == Init => Tally
<1> SUFFICES ASSUME Init PROVE TallyNow
  BY DEF Tally
<1>1. /\ wire = <<>> /\ Len(wire) = 0 /\ reportNr = 0 /\ answered = 0 /\ SizeAnswers = 0
      /\ hidden = 0 /\ forged = 0 /\ parser.state = "initial"
  BY DEF Init, SizeAnswers, NoParse
<1>2. ReportEnds(wire, 0) = {}
  BY DEF ReportEnds
<1>3. Count(wire, Len(wire)) = 0
  BY <1>1, <1>2, FS_EmptySet DEF Count
<1>4. Legible(wire, parser)
  BY <1>1 DEF Legible, EndFits
<1> QED BY <1>1, <1>3, <1>4 DEF Init, TallyNow

\* A report is lost exactly where an odd number of escapes was typed right before it, and one
\* is made up by every F3 other than there, however reading, typing and answering interleave.
THEOREM ReportsAreFound == Spec => []NoReportLost
<1>1. Init => Typed /\ Tally
  BY TypedInit, TallyInit
<1>2. Typed /\ Tally => NoReportLost
  <2> SUFFICES ASSUME Typed, Tally, detecting
               PROVE  reportNr + Heard(wire) = answered + SizeAnswers + forged - hidden
    BY DEF NoReportLost, SizeAnswers
  <2>1. Heard(wire) = Count(wire, Len(wire)) /\ Heard(wire) \in Nat
    BY CountAll DEF Typed
  <2>2. reportNr \in Nat /\ answered \in Nat /\ SizeAnswers \in Nat /\ forged \in Nat /\ hidden \in Nat
    BY TestNumbers DEF Typed, SizeAnswers
  <2> QED BY <2>1, <2>2 DEF Tally, TallyNow
<1> QED BY <1>1, <1>2, TypedStep, TallyStep, PTL DEF Spec

-----------------------------------------------------------------------------
(* While nothing was mistaken, the reports on the line are the answers to the questions    *)
(* from reportNr on.                                                                       *)

Ordered == detecting /\ ~disturbed => InOrder(kind, wire, parser, reportNr)

\* A report that is sent, other than after an escape, keeps the order.
LEMMA ReportKeepsOrder ==
    ASSUME Typed, TallyNow, InOrder(kind, wire, parser, reportNr), ~disturbed, ~AfterEscape,
           NEW row \in Nat, NEW column \in Nat,
           answered + SizeAnswers < TestCount => column = Column(kind, answered + SizeAnswers) + 1
    PROVE  InOrder(kind, With(Report(row, column)), parser, reportNr)
<1> PICK t \in Wires : t = Report(row, column)
  BY ReportType
<1>1. IsAnswer(t, column) /\ With(t) = wire \o t
  <2>1. Len(t) = 6 /\ t[5].v = column /\ \A k \in 1 .. 6 : t[k].heard /\ t[k].c = Shape[k]
    <3>1. Shaped(t, column)
      BY ReportShape
    <3> QED BY <3>1 DEF Shaped
  <2>2. \A k \in 1 .. 6 : Shape[k] = "R" <=> k = 6
    BY DEF Shape
  <2> QED BY <2>1, <2>2, MaskedAfter DEF With, IsReport, IsAnswer
<1>2. reportNr + Count(wire, Len(wire)) = answered + SizeAnswers
  <2>1. Len(wire) \in Nat /\ hidden = 0 /\ forged = 0
    BY LenProperties DEF Typed, Wires
  <2>2. Count(wire, Len(wire)) \in Nat /\ reportNr \in Nat /\ answered \in Nat /\ SizeAnswers \in Nat
    BY <2>1, CountType, TestNumbers DEF Typed, SizeAnswers
  <2> QED BY <2>1, <2>2 DEF TallyNow
<1>3. wire \in Wires /\ parser \in Parsers /\ reportNr \in Nat
  BY TestNumbers DEF Typed
<1>4. InOrder(kind, wire \o t, parser, reportNr)
  BY <1>1, <1>2, <1>3, ReportInOrder
<1> QED BY <1>1, <1>4

\* Every step keeps the order.
LEMMA OrderedStep == Typed /\ Tally /\ Ordered /\ [Next]_vars => Ordered'
<1> SUFFICES ASSUME Typed, Tally, Ordered, [Next]_vars, detecting', ~disturbed'
             PROVE  InOrder(kind, wire, parser, reportNr)'
  BY DEF Ordered
<1>0. detecting /\ ~disturbed /\ TallyNow /\ InOrder(kind, wire, parser, reportNr)
  BY NoReturn DEF Ordered, Tally
<1>1. CASE UNCHANGED <<kind, wire, parser, reportNr>>
  BY <1>0, <1>1
<1>2. CASE Answer
  <2>1. /\ answered < TestCount /\ ~AfterEscape
        /\ wire' = With(Report(2, Column(kind, answered) + 1))
        /\ UNCHANGED <<kind, parser, reportNr>>
    BY <1>2 DEF Answer, detectVars
  <2>2. SizeAnswers = 0 /\ answered \in Nat
    BY <1>0, <2>1, TestNumbers DEF TallyNow, SizeAnswers, Typed
  <2>3. Column(kind, answered) + 1 \in Nat /\ answered + SizeAnswers = answered
    BY <2>2, ColumnType
  <2> QED BY <1>0, <2>1, <2>3, ReportKeepsOrder
<1>3. CASE AnswerSize
  <2>1. /\ answered = TestCount /\ ~AfterEscape /\ sizeAsked
        /\ wire' = With(Report(termSize.y, termSize.x))
        /\ UNCHANGED <<kind, parser, reportNr>>
    BY <1>3 DEF AnswerSize, detectVars
  <2>2. SizeAnswers = 0
    BY <2>1 DEF SizeAnswers
  <2>3. termSize.y \in Nat /\ termSize.x \in Nat /\ ~(answered + SizeAnswers < TestCount)
    BY <2>1, <2>2, SizesAssumption, TestNumbers DEF Typed
  <2> QED BY <1>0, <2>1, <2>3, ReportKeepsOrder
<1>4. ASSUME NEW k \in Keys, Type(k) PROVE InOrder(kind, wire, parser, reportNr)'
  <2> DEFINE t == Sent(k)
  <2>1. k # "f3" /\ wire' = With(t) /\ UNCHANGED <<kind, parser, reportNr>>
    BY <1>4 DEF Type, Sent, detectVars
  <2>2. t \in Wires /\ Message(t, TRUE) /\ \A i \in 1 .. Len(t) : t[i].c # "R"
    BY <2>1, KeySent DEF IsSent
  <2> HIDE DEF t
  <2>3. /\ With(t) = wire \o Tagged(t) /\ Tagged(t) \in Wires
        /\ \A i \in 1 .. Len(Tagged(t)) : ~IsReport(Tagged(t)[i])
    BY <2>2, TaggedType DEF IsReport
  <2>4. wire \in Wires /\ parser \in Parsers /\ reportNr \in Nat
    BY TestNumbers DEF Typed
  <2> QED BY <1>0, <2>1, <2>3, <2>4, KeyInOrder
<1>5. CASE ReadChar
  <2>1. /\ reportNr' = reportNr + (IF IsReport(Head(wire)) THEN 1 ELSE 0)
        /\ wire # <<>> /\ wire' = Tail(wire) /\ parser' = Parsed(parser, Head(wire)) /\ kind' = kind
    BY <1>0, <1>5, ReadingCounts
  <2>2. wire \in Wires /\ parser \in Parsers /\ reportNr \in Nat /\ Legible(wire, parser)
    BY <1>0, TestNumbers DEF Typed, TallyNow
  <2> QED BY <1>0, <2>1, <2>2, ReadInOrder
<1>6. [Next]_vars => \/ Answer \/ AnswerSize \/ ReadChar \/ \E k \in Keys : Type(k)
                     \/ UNCHANGED <<kind, wire, parser, reportNr>>
  BY DEF Next, vars, terminalVars, detectVars, ResizeTerminal, GetStored, Unget, UpdateBegin, UpdateEnd,
         TermResize
<1> QED BY <1>1, <1>2, <1>3, <1>4, <1>5, <1>6

\* At the start nothing has been sent.
LEMMA OrderedInit == Init => Ordered
<1> SUFFICES ASSUME Init PROVE InOrder(kind, wire, parser, reportNr)
  BY DEF Ordered
<1>1. wire = <<>> /\ Len(wire) = 0
  BY DEF Init
<1> QED BY <1>1 DEF InOrder

-----------------------------------------------------------------------------
(* What is known of the terminal after n reports, b.                                       *)

DoubleByte == {"cjk", "shiftjis", "gbk"}
Known(term, n, b) ==
    /\ b.combining <= term.combining /\ b.doubleWidth <= term.doubleWidth
    /\ n = 1 => b.encoding = IF term.encoding = "utf8" THEN "utf8"
                             ELSE IF term.encoding \in DoubleByte THEN "cjk" ELSE "unknown"
    /\ n > 1 => b.encoding = IF term.encoding \in DoubleByte THEN "cjk" ELSE term.encoding

KnownInv == ~disturbed => Known(kind, reportNr, belief)

\* What a test for a level can say.
LEMMA StepTo ==
    ASSUME NEW b, NEW n, NEW column
    PROVE  /\ n < FirstDoubleWidth =>
                  \/ Step(b, n, column) = b
                  \/ column = 1 /\ Step(b, n, column) = WithCombining(b, LevelOf(n))
           /\ ~(n < FirstDoubleWidth) =>
                  \/ Step(b, n, column) = b
                  \/ column = 2 /\ Step(b, n, column) = WithDoubleWidth(b, LevelOf(n))
<1> DEFINE level == LevelOf(n)
<1> HIDE DEF level
<1>1. Step(b, n, column) =
          IF b.encoding # "utf8" THEN b
          ELSE IF n < FirstDoubleWidth
          THEN IF column = 1 /\ b.combining = level - 1 THEN WithCombining(b, level) ELSE b
          ELSE IF column = 2 /\ b.doubleWidth = level - 1 THEN WithDoubleWidth(b, level) ELSE b
  BY DEF Step, level, WithCombining, WithDoubleWidth
<1> QED BY <1>1 DEF level

\* A right answer adds to what is known.
LEMMA KnowsMore ==
    ASSUME NEW term \in Kinds, NEW b \in Beliefs, NEW n \in Nat, n = 0 => b.encoding = "unknown",
           n < TestCount, Known(term, n, b)
    PROVE  Known(term, n + 1, Learned(b, n, Column(term, n)))
<1> DEFINE column == Column(term, n)
<1>1. /\ term.encoding \in Encodings \ {"unknown"}
      /\ term.combining \in Int /\ term.doubleWidth \in Int
      /\ term.encoding = "gb18030" => 0 <= term.combining
  BY KindsAssumption DEF Levels
<1>2. b = [encoding |-> b.encoding, combining |-> b.combining, doubleWidth |-> b.doubleWidth]
      /\ b.combining \in Int /\ b.doubleWidth \in Int
  BY DEF Beliefs
<1>3. CASE n = 0
  <2>1. column = IF term.encoding = "utf8" THEN 3 ELSE IF term.encoding \in DoubleByte THEN 6 ELSE 8
    <3>1. CASE term.encoding = "utf8"
      BY <1>3, <3>1, TestNumbers DEF Column
    <3>2. CASE term.encoding \in DoubleByte
      BY <1>3, <3>2, TestNumbers DEF Column, DoubleByte
    <3>3. CASE term.encoding \notin DoubleByte \cup {"utf8"}
      BY <1>3, <3>3, TestNumbers DEF Column, DoubleByte
    <3> QED BY <3>1, <3>2, <3>3 DEF DoubleByte
  <2>2. Learned(b, n, column) = FirstTest(b, column)
    BY <1>3, TestNumbers DEF Learned
  <2> QED BY <1>2, <1>3, <2>1, <2>2 DEF FirstTest, Known, DoubleByte
<1>4. CASE n = 1
  <2>1. column = IF term.encoding = "gb18030" THEN 1 ELSE IF term.encoding \in DoubleByte THEN 2 ELSE 4
    <3>1. CASE term.encoding = "gb18030"
      BY <1>4, <3>1, TestNumbers DEF Column
    <3>2. CASE term.encoding \in DoubleByte
      BY <1>4, <3>2, TestNumbers DEF Column, DoubleByte
    <3>3. CASE term.encoding \notin DoubleByte \cup {"gb18030"}
      BY <1>4, <3>3, TestNumbers DEF Column, DoubleByte
    <3> QED BY <3>1, <3>2, <3>3 DEF DoubleByte
  <2>2. Learned(b, n, column) = SecondTest(b, column)
    BY <1>4, TestNumbers DEF Learned
  <2> QED BY <1>1, <1>2, <1>4, <2>1, <2>2 DEF SecondTest, Known, DoubleByte, Encodings
<1>5. CASE n = 2
  <2>1. column = (IF 0 <= term.combining THEN 1 ELSE 2)
    BY <1>5, TestNumbers DEF Column, LevelOf
  <2>2. Learned(b, n, column) = IF b.encoding = "utf8" /\ column = 1 THEN [b EXCEPT !.combining = 0] ELSE b
    BY <1>5, TestNumbers DEF Learned
  <2> QED BY <1>2, <1>5, <2>1, <2>2 DEF Known
<1>6. CASE n = 3
  <2>1. Learned(b, n, column) = IF b.encoding = "gb18030" THEN [b EXCEPT !.combining = 0] ELSE b
    BY <1>6, TestNumbers DEF Learned
  <2> QED BY <1>1, <1>2, <1>6, <2>1 DEF Known, DoubleByte
<1>7. CASE n = 4
  <2>1. column = (IF 0 <= term.doubleWidth THEN 4 ELSE 2)
    BY <1>7, TestNumbers DEF Column
  <2>2. Learned(b, n, column) = IF b.encoding = "utf8" /\ column = 4 THEN [b EXCEPT !.doubleWidth = 0] ELSE b
    BY <1>7, TestNumbers DEF Learned
  <2> QED BY <1>2, <1>7, <2>1, <2>2 DEF Known
<1>8. CASE n \in FirstCombining .. FirstDoubleWidth - 1
  <2>1. column = (IF LevelOf(n) <= term.combining THEN 1 ELSE 2)
    BY <1>8, TestNumbers DEF Column
  <2>2. Learned(b, n, column) = Step(b, n, column)
    BY <1>8, TestNumbers DEF Learned
  <2>3. \/ Step(b, n, column) = b
        \/ column = 1 /\ Step(b, n, column) = WithCombining(b, LevelOf(n))
    BY <1>8, TestNumbers, StepTo
  <2>4. LevelOf(n) \in Int
    BY LevelType
  <2> QED BY <1>2, <1>8, <2>1, <2>2, <2>3, <2>4, TestNumbers DEF Known, WithCombining
<1>9. CASE n \in FirstDoubleWidth .. TestCount - 1
  <2>1. column = (IF LevelOf(n) <= term.doubleWidth THEN 2 ELSE 1)
    BY <1>9, TestNumbers DEF Column
  <2>2. Learned(b, n, column) = Step(b, n, column)
    BY <1>9, TestNumbers DEF Learned
  <2>3. \/ Step(b, n, column) = b
        \/ column = 2 /\ Step(b, n, column) = WithDoubleWidth(b, LevelOf(n))
    BY <1>9, TestNumbers, StepTo
  <2>4. LevelOf(n) \in Int
    BY LevelType
  <2> QED BY <1>2, <1>9, <2>1, <2>2, <2>3, <2>4, TestNumbers DEF Known, WithDoubleWidth
<1> QED BY <1>3, <1>4, <1>5, <1>6, <1>7, <1>8, <1>9, TestNumbers

\* The report that is read answers the question it is taken for.
LEMMA RightQuestion ==
    ASSUME Typed, Tally, Ordered, detecting, ~disturbed, ReadChar, EndsReport(parser, Head(wire))
    PROVE  CapabilityReport(parser.column) /\ parser.column - 1 = Column(kind, reportNr)
<1>1. wire # <<>> /\ wire \in Wires /\ Head(wire).c = "R" /\ CapabilityReport(parser.column)
  BY DEF ReadChar, EndsReport, Typed
<1>2. Head(wire) = wire[1] /\ 1 \in 1 .. Len(wire)
  BY <1>1, WireRead
<1>a. IsReport(Head(wire))
  BY ReportIsRead
<1>3. Answers(kind, wire, parser, reportNr, 1)
  BY <1>a, <1>2 DEF Ordered, InOrder
<1>4. Count(wire, 1) = 1
  <2>1. ReportEnds(wire, 0) = {}
    BY DEF ReportEnds
  <2>2. Count(wire, 0) = 0
    BY <2>1, FS_EmptySet DEF Count
  <2>3. Count(wire, 0 + 1) = Count(wire, 0) + (IF IsReport(wire[0 + 1]) THEN 1 ELSE 0)
    BY CountNext
  <2> QED BY <1>a, <1>2, <2>2, <2>3
<1>5. Nth(wire, reportNr, 1) = reportNr /\ reportNr < TestCount /\ reportNr \in Nat
  BY <1>4, TestNumbers DEF Nth, Typed
<1>6. parser.column = Column(kind, reportNr) + 1
  BY <1>3, <1>5 DEF Answers, Value
<1>7. Column(kind, reportNr) \in Nat
  BY <1>5, ColumnType
<1> QED BY <1>1, <1>6, <1>7

\* So what is known is right after every step.
LEMMA KnownStep == Typed /\ BeliefInv /\ Tally /\ Ordered /\ KnownInv /\ [Next]_vars => KnownInv'
<1> SUFFICES ASSUME Typed, BeliefInv, Tally, Ordered, KnownInv, [Next]_vars, ~disturbed'
             PROVE  Known(kind, reportNr, belief)'
  BY DEF KnownInv
<1>0. ~disturbed /\ Known(kind, reportNr, belief)
  BY NoReturn DEF KnownInv
<1>1. kind' = kind
  BY DEF Next, vars, terminalVars, Answer, AnswerSize, Type, ResizeTerminal, GetStored, ReadChar,
         Unget, UpdateBegin, UpdateEnd, TermResize
<1>2. CASE UNCHANGED detectVars
  BY <1>0, <1>1, <1>2 DEF detectVars
<1>3. CASE ReadChar
  <2>1. CASE detecting /\ EndsReport(parser, Head(wire))
    <3>1. /\ belief' = Learned(belief, reportNr, Column(kind, reportNr)) /\ reportNr' = reportNr + 1
      BY <1>0, <1>3, <2>1, RightQuestion DEF CapabilityReport
    <3>2. /\ kind \in Kinds /\ belief \in Beliefs /\ reportNr \in Nat /\ reportNr < TestCount
          /\ reportNr = 0 => belief.encoding = "unknown"
      BY <2>1, TestNumbers DEF Typed, BeliefInv
    <3> QED BY <1>0, <1>1, <3>1, <3>2, KnowsMore
  <2>2. CASE ~(detecting /\ EndsReport(parser, Head(wire)))
    <3>1. UNCHANGED detectVars
      BY <1>3, <2>2 DEF ReadChar, SizeReport, detectVars
    <3> QED BY <1>2, <3>1
  <2> QED BY <2>1, <2>2
<1>4. [Next]_vars => ReadChar \/ UNCHANGED detectVars
  BY DEF Next, vars, Answer, AnswerSize, Type, ResizeTerminal, GetStored, Unget, UpdateBegin,
         UpdateEnd, TermResize
<1> QED BY <1>2, <1>3, <1>4

\* At the start nothing is known.
LEMMA KnownInit == Init => KnownInv
<1> SUFFICES ASSUME Init PROVE Known(kind, 0, [encoding |-> "unknown", combining |-> -1, doubleWidth |-> -1])
  BY DEF Init, KnownInv
<1>1. kind \in Kinds /\ kind.combining >= -1 /\ kind.doubleWidth >= -1
      /\ kind.combining \in Int /\ kind.doubleWidth \in Int
  BY KindsAssumption DEF Init, Levels
<1> QED BY <1>1 DEF Known

\* For any terminal and whatever is typed, other than a key sent like a report, the library
\* at no moment takes the terminal for a better one than it is.
THEOREM AbilitiesAreReal == Spec => []NeverOverestimates
<1>1. Init => Typed /\ BeliefInv /\ Tally /\ Ordered /\ KnownInv
  BY TypedInit, TallyInit, OrderedInit, KnownInit DEF Init, BeliefInv, Beliefs, Encodings
<1>2. KnownInv => NeverOverestimates
  BY DEF KnownInv, Known, NeverOverestimates
<1> QED BY <1>1, <1>2, TypedStep, BeliefStep, TallyStep, OrderedStep, KnownStep, PTL DEF Spec

\* The output is set up for what is known.
CharsetInv ==
    /\ ~detecting => charset = FinalCharset(belief) /\ reportNr > 1
    /\ updating => converter = charset
    /\ ~detecting /\ ~finishing => converter = charset

\* Every step keeps the output so: the detection ends without an update only where it has
\* not changed the character set.
LEMMA CharsetStep == Typed /\ ScreenInv /\ CharsetInv /\ [Next]_vars => CharsetInv'
<1> SUFFICES ASSUME Typed, ScreenInv, CharsetInv, [Next]_vars PROVE CharsetInv'
  OBVIOUS
<1>1. codeset' = codeset
  BY DEF Next, vars, terminalVars, Answer, AnswerSize, Type, ResizeTerminal, GetStored, ReadChar,
         Unget, UpdateBegin, UpdateEnd, TermResize
<1>2. CASE UNCHANGED <<detectVars, finishing, updating, converter>>
  BY <1>1, <1>2 DEF CharsetInv, FinalCharset, detectVars
<1>3. CASE ReadChar
  <2>1. UNCHANGED <<updating, converter>>
    BY <1>3 DEF ReadChar, updateVars
  <2>2. CASE UNCHANGED <<detectVars, finishing>>
    BY <1>2, <2>1, <2>2
  <2>3. CASE detecting /\ CapabilityReport(parser.column)
    <3>1. ~updating /\ converter = codeset
      BY <2>3 DEF ScreenInv
    <3>2. CASE IsLastTest
      <4>1. /\ charset' = FinalCharset(belief') /\ reportNr' = reportNr + 1
            /\ ~finishing' => FinalCharset(belief') = codeset
        BY <2>3, <3>2 DEF CapabilityReport, NeedsRedraw
      <4>2. reportNr' > 1
        BY <3>2, <4>1, TestNumbers DEF IsLastTest, Typed
      <4>3. charset' = FinalCharset(belief)'
        BY <1>1, <4>1 DEF FinalCharset
      <4> QED BY <2>1, <3>1, <4>1, <4>2, <4>3 DEF CharsetInv
    <3>3. CASE ~IsLastTest
      BY <2>1, <2>3, <3>1, <3>3 DEF CapabilityReport, CharsetInv
    <3> QED BY <3>2, <3>3
  <2> QED BY <1>3, <2>2, <2>3, Reading
<1>4. CASE UpdateBegin
  <2>1. FinalCharset(belief)' = FinalCharset(belief)
    BY <1>1, <1>4 DEF UpdateBegin, detectVars, FinalCharset
  <2> QED BY <1>4, <2>1 DEF UpdateBegin, CharsetInv, detectVars
<1>5. CASE UpdateEnd
  <2>1. FinalCharset(belief)' = FinalCharset(belief)
    BY <1>1, <1>5 DEF UpdateEnd, detectVars, FinalCharset
  <2> QED BY <1>5, <2>1 DEF UpdateEnd, CharsetInv, detectVars
<1>6. [Next]_vars => \/ ReadChar \/ UpdateBegin \/ UpdateEnd
                     \/ UNCHANGED <<detectVars, finishing, updating, converter>>
  BY DEF Next, vars, updateVars, Answer, AnswerSize, Type, ResizeTerminal, GetStored, Unget, TermResize
<1> QED BY <1>2, <1>3, <1>4, <1>5, <1>6

\* Once the detection has ended and no update is due, the terminal understands the encoding
\* of what it is sent, whatever the locale says, also where the detection ended during an
\* update.
THEOREM EncodingIsUnderstood == Spec => []OutputUnderstood
<1>1. Init => Typed /\ BeliefInv /\ Tally /\ Ordered /\ KnownInv /\ ScreenInv /\ CharsetInv
  BY TypedInit, TallyInit, OrderedInit, KnownInit
     DEF Init, BeliefInv, Beliefs, Encodings, ScreenInv, NoMoreDrawn, Drawing, CharsetInv
<1>2. Typed /\ BeliefInv /\ KnownInv /\ CharsetInv => OutputUnderstood
  <2> SUFFICES ASSUME Typed, BeliefInv, KnownInv, CharsetInv, ~detecting, ~finishing, ~disturbed
               PROVE  IF kind.encoding \in {"utf8", "gb18030"} THEN converter = kind.encoding
                      ELSE converter # "utf8"
    BY DEF OutputUnderstood
  <2>1. converter = FinalCharset(belief)
    BY DEF CharsetInv
  <2>2. belief.encoding = IF kind.encoding \in DoubleByte THEN "cjk" ELSE kind.encoding
    BY DEF KnownInv, Known, CharsetInv
  <2>3. kind.encoding \in Encodings \ {"unknown"}
    BY KindsAssumption DEF Typed
  <2>4. CASE kind.encoding \in {"utf8", "gb18030"}
    BY <2>1, <2>2, <2>4 DEF FinalCharset, DoubleByte
  <2>5. CASE kind.encoding \in DoubleByte
    BY <2>1, <2>2, <2>5 DEF FinalCharset, DoubleByte
  <2>6. CASE kind.encoding = "singlebyte"
    BY <2>1, <2>2, <2>6 DEF FinalCharset, DoubleByte
  <2> QED BY <2>3, <2>4, <2>5, <2>6 DEF Encodings, DoubleByte
<1> QED BY <1>1, <1>2, TypedStep, BeliefStep, TallyStep, OrderedStep, KnownStep, ScreenStep, CharsetStep, PTL DEF Spec

-----------------------------------------------------------------------------
(* The types.  What can be believed is bounded by the levels that are tested for.          *)

BeliefTypes == [encoding : Encodings, combining : Levels, doubleWidth : Levels]

\* A report, right or wrong, leaves a belief.
LEMMA LearnedType ==
    ASSUME NEW b \in BeliefTypes, NEW n \in Nat, NEW column, n < TestCount
    PROVE  Learned(b, n, column) \in BeliefTypes
<1>1. \A e \in Encodings : [b EXCEPT !.encoding = e] \in BeliefTypes
  BY DEF BeliefTypes
<1>2. \A l \in 0 .. 12 : WithCombining(b, l) \in BeliefTypes /\ WithDoubleWidth(b, l) \in BeliefTypes
  BY DEF BeliefTypes, Levels, WithCombining, WithDoubleWidth
<1>3. CASE n = 0
  <2>1. Learned(b, n, column) = FirstTest(b, column)
    BY <1>3, TestNumbers DEF Learned
  <2>2. FirstTest(b, column) \in BeliefTypes
    BY <1>1 DEF FirstTest, Encodings
  <2> QED BY <2>1, <2>2
<1>4. CASE n = 1
  <2>1. Learned(b, n, column) = SecondTest(b, column)
    BY <1>4, TestNumbers DEF Learned
  <2>2. SecondTest(b, column) \in BeliefTypes
    BY <1>1 DEF SecondTest, Encodings
  <2> QED BY <2>1, <2>2
<1>5. CASE n \in {2, 3, 4}
  <2>1. \/ Learned(b, n, column) = b
        \/ Learned(b, n, column) = WithCombining(b, 0)
        \/ Learned(b, n, column) = WithDoubleWidth(b, 0)
    BY <1>5, TestNumbers DEF Learned, WithCombining, WithDoubleWidth
  <2> QED BY <1>2, <2>1
<1>6. CASE n \in FirstCombining .. TestCount - 1
  <2>1. Learned(b, n, column) = Step(b, n, column)
    BY <1>6, TestNumbers DEF Learned
  <2>2. \/ Step(b, n, column) = b
        \/ Step(b, n, column) = WithCombining(b, LevelOf(n))
        \/ Step(b, n, column) = WithDoubleWidth(b, LevelOf(n))
    BY StepTo
  <2> QED BY <1>2, <2>1, <2>2, LevelType
<1> QED BY <1>3, <1>4, <1>5, <1>6, TestNumbers

Charsets == Codesets \cup Encodings \cup {"ascii"}

\* The character set for a belief is one.
LEMMA CharsetType == ASSUME NEW b \in BeliefTypes, codeset \in Codesets PROVE FinalCharset(b) \in Charsets
<1>1. b.encoding \in Encodings
  BY DEF BeliefTypes
<1> QED BY <1>1 DEF FinalCharset, Charsets, Encodings

TypeInv == codeset \in Codesets /\ TypeOK

\* Every step keeps the types.
LEMMA TypeStep == Typed /\ TypeInv /\ [Next]_vars => TypeInv'
<1> SUFFICES ASSUME Typed, codeset \in Codesets, TypeOK, [Next]_vars PROVE codeset' \in Codesets /\ TypeOK'
  BY DEF TypeInv
<1>1. codeset' \in Codesets
  BY DEF Next, vars, terminalVars, Answer, AnswerSize, Type, ResizeTerminal, GetStored, ReadChar,
         Unget, UpdateBegin, UpdateEnd, TermResize
<1>2. reportNr' \in 0 .. TestCount /\ answered' \in 0 .. TestCount
      /\ parser'.state \in {"initial", "esc_seen", "row", "column"}
  BY TypedStep DEF Typed, Parsers
<1> USE DEF detectVars, updateVars, sizeVars, ungetVars, mistakenVars
<1>3. belief' \in BeliefTypes
  <2>1. CASE UNCHANGED detectVars
    BY <2>1 DEF TypeOK, BeliefTypes
  <2>2. CASE detecting /\ CapabilityReport(parser.column)
    <3>1. belief' = Learned(belief, reportNr, parser.column - 1) /\ reportNr \in Nat /\ reportNr < TestCount
      BY <2>2, TestNumbers DEF CapabilityReport, Typed
    <3> QED BY <3>1, LearnedType DEF TypeOK, BeliefTypes
  <2>3. [Next]_vars => ReadChar \/ UNCHANGED detectVars
    BY DEF Next, vars, Answer, AnswerSize, Type, ResizeTerminal, GetStored, Unget, UpdateBegin,
           UpdateEnd, TermResize
  <2> QED BY <2>1, <2>2, <2>3, Reading
<1>4. charset' \in Charsets /\ converter' \in Charsets
  <2>1. charset \in Charsets /\ converter \in Charsets
    BY DEF TypeOK, Charsets
  <2>2. CASE ReadChar
    <3>1. converter' = converter
      BY <2>2 DEF ReadChar
    <3>2. charset' = charset \/ charset' = FinalCharset(belief')
      BY <2>2, Reading DEF CapabilityReport
    <3> QED BY <1>3, <2>1, <3>1, <3>2, CharsetType
  <2>3. CASE ~ReadChar
    BY <2>1, <2>3 DEF Next, vars, Answer, AnswerSize, Type, ResizeTerminal, GetStored, Unget, UpdateBegin,
           UpdateEnd, TermResize
  <2> QED BY <2>2, <2>3
<1>5. sizeState' \in {"none", "triggered", "done"}
  <2>1. CASE ReadChar
    BY <2>1 DEF ReadChar, CapabilityReport, SizeReport, TypeOK
  <2>2. CASE TermResize
    BY <2>2 DEF TermResize, TypeOK
  <2>3. CASE UNCHANGED sizeState
    BY <2>3 DEF TypeOK
  <2> QED BY <2>1, <2>2, <2>3 DEF Next, vars, Answer, AnswerSize, Type, ResizeTerminal, GetStored, Unget,
                                  UpdateBegin, UpdateEnd
<1>6. {detecting', finishing', updating', winch', warned', endReturned', disturbed', missed'} \subseteq BOOLEAN
  <2>1. {detecting, finishing, updating, winch, warned, endReturned, disturbed, missed} \subseteq BOOLEAN
    BY DEF TypeOK
  <2>2. CASE ReadChar
    <3>1. UNCHANGED <<updating, warned, endReturned, disturbed, missed>>
      BY <2>2 DEF ReadChar
    <3>2. detecting' \in BOOLEAN /\ finishing' \in BOOLEAN
      <4>1. CASE UNCHANGED <<detecting, finishing>>
        BY <2>1, <4>1
      <4>2. CASE CapabilityReport(parser.column)
        BY <2>1, <4>2 DEF CapabilityReport
      <4> QED BY <2>2, <4>1, <4>2, Reading
    <3>3. winch' \in BOOLEAN
      BY <2>1, <2>2 DEF ReadChar, CapabilityReport, SizeReport
    <3> QED BY <2>1, <3>1, <3>2, <3>3
  <2>3. CASE ~ReadChar
    BY <2>1, <2>3 DEF Next, vars, terminalVars, Answer, AnswerSize, Type, ResizeTerminal, GetStored, Unget,
           UpdateBegin, UpdateEnd, TermResize
  <2> QED BY <2>2, <2>3
<1> QED BY <1>1, <1>2, <1>3, <1>4, <1>5, <1>6 DEF TypeOK, BeliefTypes, Charsets

\* What is believed of the terminal, the character sets and the parser stay in their ranges,
\* whatever the terminal and the user send.
THEOREM InputTyped == Spec => []TypeOK
<1>1. Init => Typed /\ TypeInv
  <2> SUFFICES ASSUME Init PROVE TypeInv
    BY TypedInit
  <2>1. belief \in [encoding : Encodings, combining : Levels, doubleWidth : Levels]
    BY DEF Init, Encodings, Levels
  <2>2. reportNr \in 0 .. TestCount /\ answered \in 0 .. TestCount
    BY TypedInit DEF Typed
  <2>3. parser.state = "initial" /\ sizeState \in {"none", "triggered", "done"}
    BY DEF Init, NoParse
  <2>4. {detecting, finishing, updating, winch, warned, endReturned, disturbed, missed} \subseteq BOOLEAN
    BY DEF Init
  <2> QED BY <2>1, <2>2, <2>3, <2>4 DEF TypeInv, TypeOK, Init
<1>2. TypeInv => TypeOK
  BY DEF TypeInv
<1> QED BY <1>1, <1>2, TypedStep, TypeStep, PTL DEF Spec
=============================================================================
