------------------------------- MODULE Input --------------------------------
(***************************************************************************)
(* Reading from the terminal (input.c).  What is typed and the terminal's  *)
(* reports of the cursor position arrive on one line of characters; every  *)
(* character goes to the client, and on the way reports are picked out, to *)
(* find out what the terminal can show and, where the system does not say, *)
(* how large it is.  Reports do not say which question they answer.        *)
(* Reading may be done by a thread of its own, beside t3_term_update.      *)
(***************************************************************************)
EXTENDS Integers, Sequences, SequencesExt, FiniteSetsExt

CONSTANTS
    Kinds,        \* terminals: [encoding, combining, doubleWidth], the levels from -1
    Codesets,     \* the character set of the locale, transcript_get_codeset()
    Sizes,        \* sizes the terminal may have
    StaticSize,   \* the size in terminfo
    Keys,         \* what a user types: "key", "esc", "arrow", and "f3", F3 with a modifier
    UngetChars,   \* the characters a client pushes back
    MaxKeys, MaxUngets, MaxResizes,  \* bounds on how often
    MaxEscapes,   \* bound on how many keys more, each an escape right after an escape
    MaxWire       \* bound: the terminal sends no more while so many characters wait

Levels == -1 .. 12                   \* T3_UNICODE_40 .. T3_UNICODE_100, -1 for none
Encodings == {"unknown", "utf8", "gb18030", "singlebyte", "cjk", "shiftjis", "gbk"}

ASSUME KindsAssumption ==
    /\ Kinds \subseteq [encoding : Encodings \ {"unknown"}, combining : Levels, doubleWidth : Levels]
    \* GB 18030 is taken to have the combining characters of Unicode.
    /\ \A k \in Kinds : k.encoding = "gb18030" => k.combining >= 0
ASSUME SizesAssumption == Sizes \subseteq [y : Nat, x : Nat]
ASSUME KeysAssumption == Keys \subseteq {"key", "esc", "arrow", "f3"}
ASSUME CountsAssumption ==
    MaxKeys \in Nat /\ MaxEscapes \in Nat /\ MaxUngets \in Nat /\ MaxResizes \in Nat /\ MaxWire \in Nat

VARIABLES
    (* the terminal and its user *)
    kind, termSize,
    answered,     \* how many questions for capabilities it has answered
    sizeAsked,    \* a question for its size is on its way
    wire,         \* the characters sent and not yet read
    typed, resized,     \* how often, for the bounds
    (* the library *)
    codeset,
    detecting,    \* detecting_terminal_capabilities
    reportNr, parser,   \* the static variables of process_ and parse_position_reports
    belief,       \* _t3_term_encoding, _t3_term_combining and _t3_term_double_width
    charset,      \* _t3_current_charset
    finishing,    \* _t3_detection_needs_finishing
    lastKey, storedKey,
    sizeState, detected, size,   \* _t3_detect_terminal_size, the size detected and the size used
    hasIoctl,     \* the system tells the size
    (* the thread that updates the terminal *)
    updating, converter,
    drawn,        \* the converter and the levels with which the screen was last redrawn
    (* the client, and what the properties need to know *)
    winch,        \* a SIGWINCH is pending
    ungets, warned,
    endReturned,  \* the client pushed back the R that ended the detection
    disturbed,    \* a key was typed that looks like a report or like the start of one
    hidden,       \* how many reports were sent right after the start of what might be another,
    forged,       \* ... and how many keys that look like a report, other than there
    missed        \* the terminal changed its size after it had answered

terminalVars == <<kind, termSize, answered, sizeAsked, typed, resized, hasIoctl, codeset>>
detectVars == <<detecting, reportNr, belief, charset>>
sizeVars == <<sizeState, detected, size>>
updateVars == <<updating, converter, drawn>>
ungetVars == <<ungets, endReturned>>
mistakenVars == <<disturbed, hidden, forged>>
vars == <<terminalVars, wire, detectVars, parser, finishing, lastKey, storedKey, sizeVars,
          updateVars, winch, ungetVars, warned, mistakenVars, missed>>

-----------------------------------------------------------------------------
(* The questions: the TESTs of terminal_detection.h and capability_test.h. *)

\* The levels of the tests in capability_test.h; each wants the level before it.
CombiningTests == <<1, 2, 3, 4, 5, 6, 8, 9, 10, 11, 12>>
DoubleWidthTests == <<1, 3, 4, 5, 6, 9, 10, 11, 12>>

FirstCombining == 5
FirstDoubleWidth == FirstCombining + Len(CombiningTests)
TestCount == FirstDoubleWidth + Len(DoubleWidthTests)

\* The level that test n is for: 0 for the two in terminal_detection.h.
LevelOf(n) ==
    IF n \in FirstCombining .. FirstDoubleWidth - 1 THEN CombiningTests[n - FirstCombining + 1]
    ELSE IF n >= FirstDoubleWidth THEN DoubleWidthTests[n - FirstDoubleWidth + 1]
    ELSE 0

\* How far a terminal moves the cursor for the string of test n.
Column(k, n) ==
    CASE n = 0 -> (IF k.encoding = "utf8" THEN 3
                   ELSE IF k.encoding \in {"cjk", "shiftjis", "gbk"} THEN 6 ELSE 8)
      [] n = 1 -> (IF k.encoding = "gb18030" THEN 1
                   ELSE IF k.encoding \in {"cjk", "shiftjis", "gbk"} THEN 2 ELSE 4)
      [] n = 2 \/ n \in FirstCombining .. FirstDoubleWidth - 1 ->
             (IF LevelOf(n) <= k.combining THEN 1 ELSE 2)
      [] n = 3 -> 2
      [] n = 4 -> (IF 0 <= k.doubleWidth THEN 4 ELSE 2)
      [] OTHER -> (IF LevelOf(n) <= k.doubleWidth THEN 2 ELSE 1)

\* The mistake of taking any column for a yes.
WrongStep(b, n, column) ==
    IF n < FirstDoubleWidth
    THEN IF b.combining = LevelOf(n) - 1 THEN [b EXCEPT !.combining = LevelOf(n)] ELSE b
    ELSE IF b.doubleWidth = LevelOf(n) - 1 THEN [b EXCEPT !.doubleWidth = LevelOf(n)] ELSE b

\* The tests of capability_test.h.
Step(b, n, column) ==
    IF b.encoding # "utf8" THEN b
    ELSE IF n < FirstDoubleWidth
    THEN IF column = 1 /\ b.combining = LevelOf(n) - 1
         THEN [b EXCEPT !.combining = LevelOf(n)] ELSE b
    ELSE IF column = 2 /\ b.doubleWidth = LevelOf(n) - 1
         THEN [b EXCEPT !.doubleWidth = LevelOf(n)] ELSE b

\* The first test: UTF-8, or an encoding with double-width characters.
FirstTest(b, column) ==
    IF column \in {3, 6} THEN [b EXCEPT !.encoding = IF column = 3 THEN "utf8" ELSE "cjk"] ELSE b

\* The second test, where the first has not told.
SecondTest(b, column) ==
    IF b.encoding = "unknown" /\ column \in {1, 2, 4}
    THEN [b EXCEPT !.encoding = IF column = 1 THEN "gb18030"
                                ELSE IF column = 2 THEN "gbk" ELSE "singlebyte"]
    ELSE b

\* What the report of a column makes of the belief: the code of test n.
Learned(b, n, column) ==
    CASE n = 0 -> FirstTest(b, column)
      [] n = 1 -> SecondTest(b, column)
      [] n = 2 -> (IF b.encoding = "utf8" /\ column = 1 THEN [b EXCEPT !.combining = 0] ELSE b)
      [] n = 3 -> (IF b.encoding = "gb18030" THEN [b EXCEPT !.combining = 0] ELSE b)
      [] n = 4 -> (IF b.encoding = "utf8" /\ column = 4 THEN [b EXCEPT !.doubleWidth = 0] ELSE b)
      [] n \in FirstCombining .. TestCount - 1 -> Step(b, n, column)
      [] OTHER -> b

\* The mistake of keeping the character set of the locale where none was detected.
WrongFinalCharset(b) == IF b.encoding \in {"utf8", "gb18030"} THEN b.encoding ELSE codeset

\* finish_detection: the character set to use, that of the locale unless it is known to be wrong.
FinalCharset(b) ==
    CASE b.encoding \in {"utf8", "gb18030", "shiftjis"} -> b.encoding
      [] b.encoding \in {"unknown", "singlebyte", "gbk"} ->
           (IF codeset \in {"utf8", "gb18030", "eucjp", "euctw", "euckr", "shiftjis"}
            THEN "ascii" ELSE codeset)
      [] b.encoding = "cjk" -> (IF codeset \in {"utf8", "shiftjis"} THEN "ascii" ELSE codeset)

\* The mistake of redrawing only where the character set changes.
WrongNeedsRedraw(b) == FinalCharset(b) # codeset

\* ... and whether the next update has to set up the output again.
NeedsRedraw(b) ==
    \/ FinalCharset(b) # codeset
    \/ b.encoding \in {"utf8", "gb18030"} /\ (b.combining # -1 \/ b.doubleWidth # -1)

-----------------------------------------------------------------------------
(* Characters.  A number of several digits is one character here.  What is sent right      *)
(* after an escape that might have been the start of a report is not heard: the parser     *)
(* takes the escape it begins with for the end of that.                                    *)
C(c) == [c |-> c, v |-> 0, heard |-> TRUE]
Num(n) == [c |-> "num", v |-> n, heard |-> TRUE]
Report(row, column) == <<C("esc"), C("bracket"), Num(row), C("semicolon"), Num(column), C("R")>>

NoParse == [state |-> "initial", row |-> 0, column |-> 0]

\* parse_position_reports, but for the call of process.
Parsed(p, ch) ==
    LET reset == [p EXCEPT !.state = "initial"] IN
    CASE p.state = "initial" -> (IF ch.c = "esc" THEN [NoParse EXCEPT !.state = "esc_seen"] ELSE p)
      [] p.state = "esc_seen" -> (IF ch.c = "bracket" THEN [p EXCEPT !.state = "row", !.row = 0] ELSE reset)
      [] p.state = "row" ->
           (CASE ch.c = "num" -> [p EXCEPT !.row = 10 * @ + ch.v]
              [] ch.c = "semicolon" -> [p EXCEPT !.state = "column"]
              [] OTHER -> reset)
      [] p.state = "column" ->
           (IF ch.c = "num" THEN [p EXCEPT !.column = 10 * @ + ch.v] ELSE reset)

EndsReport(p, ch) == p.state = "column" /\ ch.c = "R"

Drawing(conv, b) == [converter |-> conv, combining |-> b.combining, doubleWidth |-> b.doubleWidth]

-----------------------------------------------------------------------------
Init ==
    /\ kind \in Kinds /\ termSize \in Sizes /\ codeset \in Codesets /\ hasIoctl \in BOOLEAN
    /\ answered = 0 /\ sizeAsked = ~hasIoctl
    /\ wire = <<>> /\ typed = 0 /\ resized = 0
    /\ detecting = TRUE /\ reportNr = 0 /\ parser = NoParse
    /\ belief = [encoding |-> "unknown", combining |-> -1, doubleWidth |-> -1]
    /\ charset = codeset /\ finishing = FALSE
    /\ lastKey = "none" /\ storedKey = "none"
    /\ sizeState = (IF hasIoctl THEN "none" ELSE "triggered")
    /\ detected = [y |-> 0, x |-> 0]
    /\ size = (IF hasIoctl THEN termSize ELSE StaticSize)
    /\ updating = FALSE /\ converter = codeset
    /\ drawn = Drawing(codeset, belief)
    /\ winch = FALSE /\ ungets = 0 /\ warned = FALSE /\ endReturned = FALSE
    /\ disturbed = FALSE /\ hidden = 0 /\ forged = 0 /\ missed = FALSE

\* Whether the character before what is sent next is an escape.
AfterEscape == IF wire = <<>> THEN parser.state = "esc_seen" ELSE Last(wire).c = "esc"

\* ... and one that might have been the start of a report: of several, every second is not.
Masked == AfterEscape /\ (wire # <<>> => Last(wire).heard)

One(condition) == IF condition THEN 1 ELSE 0

\* The line when s is sent.
With(s) == wire \o (IF Masked THEN [i \in DOMAIN s |-> [s[i] EXCEPT !.heard = FALSE]] ELSE s)

\* The terminal answers the next of the questions of t3_term_init, in their order,
Answer ==
    /\ answered < TestCount
    /\ Len(wire) <= MaxWire
    /\ answered' = answered + 1
    /\ wire' = With(Report(2, Column(kind, answered) + 1))
    /\ disturbed' = (disturbed \/ AfterEscape)
    /\ hidden' = hidden + One(Masked)
    /\ UNCHANGED <<kind, termSize, sizeAsked, typed, resized, hasIoctl, codeset, detectVars, parser,
                   finishing, lastKey, storedKey, sizeVars, updateVars, winch, ungetVars, warned, forged, missed>>

\* ... and then the question for its size.
AnswerSize ==
    /\ answered = TestCount /\ sizeAsked
    /\ Len(wire) <= MaxWire
    /\ sizeAsked' = FALSE
    /\ wire' = With(Report(termSize.y, termSize.x))
    /\ disturbed' = (disturbed \/ AfterEscape)
    /\ hidden' = hidden + One(Masked)
    /\ UNCHANGED <<kind, termSize, answered, typed, resized, hasIoctl, codeset, detectVars, parser,
                   finishing, lastKey, storedKey, sizeVars, updateVars, winch, ungetVars, warned, forged, missed>>

\* A key is typed.  xterm sends F3 with a modifier as a report of line 1.
Type(k) ==
    /\ typed < MaxKeys \/ (k = "esc" /\ AfterEscape /\ typed < MaxKeys + MaxEscapes)
    /\ Len(wire) <= MaxWire
    /\ typed' = typed + 1
    /\ wire' = With(CASE k = "f3" -> Report(1, 2)
                      [] k = "arrow" -> <<C("esc"), C("bracket"), C("key")>>
                      [] OTHER -> <<C(k)>>)
    /\ disturbed' = (disturbed \/ k = "f3")
    /\ forged' = forged + One(k = "f3" /\ ~Masked)
    /\ UNCHANGED <<kind, termSize, answered, sizeAsked, resized, hasIoctl, codeset, detectVars, parser,
                   finishing, lastKey, storedKey, sizeVars, updateVars, winch, ungetVars, warned, hidden, missed>>

\* The user makes the terminal another size.
ResizeTerminal(s) ==
    /\ resized < MaxResizes /\ s # termSize
    /\ resized' = resized + 1
    /\ termSize' = s
    /\ winch' = TRUE
    /\ missed' = (missed \/ (~hasIoctl /\ sizeState # "none" /\ ~sizeAsked))
    /\ UNCHANGED <<kind, answered, sizeAsked, typed, hasIoctl, codeset, wire, detectVars, parser,
                   finishing, lastKey, storedKey, sizeVars, updateVars, ungetVars, warned, mistakenVars>>

\* t3_term_get_keychar where a key is stored.
GetStored ==
    /\ storedKey # "none"
    /\ lastKey' = storedKey
    /\ storedKey' = "none"
    /\ warned' = (warned \/ storedKey = "warn")
    /\ UNCHANGED <<terminalVars, wire, detectVars, parser, finishing, sizeVars, updateVars, winch,
                   ungetVars, mistakenVars, missed>>

\* The mistake of waiting for one report more than there are tests.
WrongIsLastTest == reportNr = TestCount

\* The condition at the end of terminal_detection.h.
IsLastTest == reportNr = TestCount - 1

\* The mistake of not counting a report that says nothing new.
WrongCapabilityReport(column) ==
    LET b == Learned(belief, reportNr, column - 1)
    IN  /\ belief' = b
        /\ reportNr' = (IF b = belief THEN reportNr ELSE reportNr + 1)
        /\ UNCHANGED <<detecting, charset, finishing, storedKey, sizeVars, winch>>

\* process_position_report: the report is taken for the answer to the question after the
\* last one, and the answer to the last question ends the detection.
CapabilityReport(column) ==
    LET b == Learned(belief, reportNr, column - 1)
    IN  /\ belief' = b
        /\ reportNr' = reportNr + 1
        /\ detecting' = ~IsLastTest
        /\ charset' = (IF IsLastTest THEN FinalCharset(b) ELSE charset)
        /\ finishing' = (finishing \/ (IsLastTest /\ NeedsRedraw(b)))
        /\ storedKey' = (IF IsLastTest THEN "warn" ELSE storedKey)
        /\ UNCHANGED <<sizeVars, winch>>

\* detect_terminal_size.
SizeReport(row, column) ==
    /\ sizeState' = "done"
    /\ IF row > 0 /\ column > 0
       THEN detected' = [y |-> row, x |-> column] /\ winch' = TRUE
       ELSE UNCHANGED <<detected, winch>>
    /\ UNCHANGED <<detectVars, finishing, storedKey, size>>

\* t3_term_get_keychar where a character is there to be read: safe_read_char.
ReadChar ==
    /\ storedKey = "none" /\ wire # <<>>
    /\ wire' = Tail(wire)
    /\ lastKey' = Head(wire).c
    /\ parser' = (IF detecting \/ sizeState = "triggered" THEN Parsed(parser, Head(wire)) ELSE parser)
    /\ CASE detecting /\ EndsReport(parser, Head(wire)) -> CapabilityReport(parser.column)
         [] ~detecting /\ sizeState = "triggered" /\ EndsReport(parser, Head(wire)) ->
                SizeReport(parser.row, parser.column)
         [] OTHER -> UNCHANGED <<detectVars, finishing, storedKey, sizeVars, winch>>
    /\ UNCHANGED <<terminalVars, updateVars, ungetVars, warned, mistakenVars, missed>>

\* t3_term_unget_keychar.
Unget(c) ==
    /\ ungets < MaxUngets
    /\ c = lastKey
    /\ ungets' = ungets + 1
    /\ endReturned' = (endReturned \/ (c = "R" /\ storedKey = "warn"))
    /\ storedKey' = c
    /\ UNCHANGED <<terminalVars, wire, detectVars, parser, finishing, lastKey, sizeVars, updateVars,
                   winch, warned, mistakenVars, missed>>

\* The start of t3_term_update where the detection has finished, up to the redraw,
UpdateBegin ==
    /\ ~updating /\ finishing
    /\ updating' = TRUE
    /\ converter' = charset
    /\ drawn' = Drawing(charset, belief)
    /\ UNCHANGED <<terminalVars, wire, detectVars, parser, finishing, lastKey, storedKey, sizeVars,
                   winch, ungetVars, warned, mistakenVars, missed>>

\* ... and its clearing of the flag.
UpdateEnd ==
    /\ updating
    /\ updating' = FALSE
    /\ finishing' = FALSE
    /\ UNCHANGED <<terminalVars, wire, detectVars, parser, lastKey, storedKey, sizeVars, converter,
                   drawn, winch, ungetVars, warned, mistakenVars, missed>>

\* The rest of t3_term_resize, with the size s.
UseSize(s) ==
    /\ size' = s
    /\ drawn' = (IF s.x < size.x \/ s.y # size.y THEN Drawing(converter, belief) ELSE drawn)

\* The mistake of asking again without waiting for the answer.
WrongTermResize ==
    /\ winch /\ ~updating
    /\ winch' = FALSE
    /\ sizeState' = "triggered" /\ sizeAsked' = TRUE
    /\ UNCHANGED <<kind, termSize, answered, typed, resized, hasIoctl, codeset, wire, detectVars,
                   parser, finishing, lastKey, storedKey, detected, size, drawn, updating, converter, ungetVars,
                   warned, mistakenVars, missed>>

\* The client answers a SIGWINCH with t3_term_resize.
TermResize ==
    /\ winch /\ ~updating
    /\ winch' = FALSE
    /\ \/ /\ hasIoctl
          /\ UseSize(termSize)
          /\ UNCHANGED <<sizeState, sizeAsked>>
       \/ /\ ~hasIoctl /\ sizeState = "none"
          /\ sizeState' = "triggered" /\ sizeAsked' = TRUE
          /\ UNCHANGED <<size, drawn>>
       \/ /\ ~hasIoctl /\ sizeState = "done"
          /\ UseSize(detected)
          /\ sizeState' = "none"
          /\ UNCHANGED sizeAsked
       \/ /\ ~hasIoctl /\ sizeState = "triggered"
          /\ UNCHANGED <<size, drawn, sizeState, sizeAsked>>
    /\ UNCHANGED <<kind, termSize, answered, typed, resized, hasIoctl, codeset, wire, detectVars,
                   parser, finishing, lastKey, storedKey, detected, updating, converter, ungetVars,
                   warned, mistakenVars, missed>>

Next ==
    \/ Answer \/ AnswerSize
    \/ \E k \in Keys : Type(k)
    \/ \E s \in Sizes : ResizeTerminal(s)
    \/ GetStored \/ ReadChar
    \/ \E c \in UngetChars : Unget(c)
    \/ UpdateBegin \/ UpdateEnd
    \/ TermResize

Spec == Init /\ [][Next]_vars

\* The terminal answers, and the client reads what there is, updates the terminal and
\* answers signals.
Fairness ==
    /\ WF_vars(Answer) /\ WF_vars(AnswerSize)
    /\ WF_vars(GetStored) /\ WF_vars(ReadChar)
    /\ WF_vars(UpdateBegin) /\ WF_vars(UpdateEnd) /\ WF_vars(TermResize)

FairSpec == Spec /\ Fairness

-----------------------------------------------------------------------------
TypeOK ==
    /\ belief \in [encoding : Encodings, combining : Levels, doubleWidth : Levels]
    /\ reportNr \in 0 .. TestCount /\ answered \in 0 .. TestCount
    /\ parser.state \in {"initial", "esc_seen", "row", "column"}
    /\ sizeState \in {"none", "triggered", "done"}
    /\ charset \in Codesets \cup Encodings \cup {"ascii"}
    /\ converter \in Codesets \cup Encodings \cup {"ascii"}
    /\ {detecting, finishing, updating, winch, warned, endReturned, disturbed, missed} \subseteq BOOLEAN

Heard(s) == Cardinality({i \in DOMAIN s : s[i].c = "R" /\ s[i].heard})

\* Reports say nothing of the question they answer, so every report lost or made up moves all
\* later answers.  Whatever is typed before, between and after the reports, and whenever it is
\* read, what was processed and what will be are as many as were sent, but for those sent right
\* after an odd number of escapes, which the parser loses (its STATE_ESC_SEEN at any
\* character but '['), and for one more for every F3 that is not lost in the same way.
NoReportLost ==
    detecting => reportNr + Heard(wire) =
                     answered + (IF hasIoctl \/ sizeAsked THEN 0 ELSE 1) + forged - hidden

\* At no moment does the library think that the terminal can show more than it can: the
\* text it prints in the meantime is at worst replaced (the comment on
\* _t3_detection_needs_finishing).
NeverOverestimates ==
    ~disturbed => belief.combining <= kind.combining /\ belief.doubleWidth <= kind.doubleWidth

\* When the detection is over and no update is due, output is in an encoding that the
\* terminal understands, also where the detection ended during an update.
OutputUnderstood ==
    ~detecting /\ ~finishing /\ ~disturbed =>
        IF kind.encoding \in {"utf8", "gb18030"} THEN converter = kind.encoding ELSE converter # "utf8"

\* When the detection is over and no update is due, everything on the screen was
\* printed with what is now known of the terminal.
ScreenUpToDate == ~detecting /\ ~finishing => drawn = Drawing(converter, belief)

\* The detection ends, the client is told, and an update puts it into effect, unless more
\* reports are lost than the report of the size and F3 make up for.
DetectionEnds ==
    <>(\/ hidden > forged + (IF hasIoctl THEN 0 ELSE 1)
       \/ ~detecting /\ ~finishing /\ (warned \/ endReturned))

\* In the end the library has the size of the terminal, unless that changed after the
\* terminal had answered.
SizeFollows == <>[](disturbed \/ missed \/ size = termSize)
=============================================================================
