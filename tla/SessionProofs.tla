--------------------------- MODULE SessionProofs ----------------------------
(***************************************************************************)
(* Proofs about Session, for any terminals and programs: a terminal is     *)
(* given back as it was found, and its cursor is where the library takes   *)
(* it to be.                                                               *)
(***************************************************************************)
EXTENDS Session, TLAPS

-----------------------------------------------------------------------------
(* Attributes. *)

Settled == [ansi : SUBSET (Flags \cup {"colours"}), mask : SUBSET Flags, ncv : SUBSET Flags]
Both == [attrs : AttrSets, pen : AttrSets]

\* The attributes that the terminal can be left in are attributes.
LEMMA NormalTyped == Normal \in AttrSets /\ Garbled \in AttrSets
  BY DEF Normal, Garbled, Attr, AttrSets, Unspec

\* Giving a set of attributes other colours.
LEMMA Recoloured ==
    ASSUME NEW a \in AttrSets, NEW fg \in Int, NEW bg \in Int
    PROVE  [a EXCEPT !.fg = fg, !.bg = bg] \in AttrSets
  BY DEF AttrSets

\* Giving what the terminal prints in other colours.
LEMMA PenRecoloured ==
    ASSUME NEW s \in Both, NEW fg \in Int, NEW bg \in Int
    PROVE  [s EXCEPT !.pen.fg = fg, !.pen.bg = bg] \in Both
<1>1. [s EXCEPT !.pen.fg = fg, !.pen.bg = bg] = [s EXCEPT !.pen = [s.pen EXCEPT !.fg = fg, !.bg = bg]]
  BY DEF Both, AttrSets
<1>2. [s.pen EXCEPT !.fg = fg, !.bg = bg] \in AttrSets
  BY Recoloured DEF Both
<1> QED BY <1>1, <1>2 DEF Both

\* init_sequences asks for part of a description.
LEMMA AskedTyped ==
    ASSUME NEW d \in Descriptions
    PROVE  Asked(d) \in Descriptions /\ Asked(d).sgr = d.sgr /\ Asked(d).sgr0 = d.sgr0
<1> DEFINE on == [d.on EXCEPT !["acs"] = IF d.name = "ansi" THEN "none" ELSE @]
           off == [f \in Exits |-> IF on[f] = "none" THEN "none" ELSE d.off[f]]
<1>1. on \in [Flags -> Entries] /\ off \in [Exits -> Entries \cup {"reset", "same"}]
  BY DEF Descriptions, Entries, Flags, Exits
<1> HIDE DEF on, off
<1>2. Asked(d) = [d EXCEPT !.on = on, !.off = off,
                           !.scp = @ /\ d.setfg = "none" /\ d.setbg = "none",
                           !.rmcup = @ /\ d.smcup, !.smcup = @ /\ d.rmcup]
  BY DEF Asked, on, off
<1>3. ASSUME NEW p \in BOOLEAN, NEW q \in BOOLEAN, NEW r \in BOOLEAN
      PROVE  LET e == [d EXCEPT !.on = on, !.off = off, !.scp = p, !.rmcup = q, !.smcup = r]
             IN  e \in Descriptions /\ e.sgr = d.sgr /\ e.sgr0 = d.sgr0
  <2> DEFINE d1 == [d EXCEPT !.on = on]
             d2 == [d1 EXCEPT !.off = off]
             d3 == [d2 EXCEPT !.scp = p]
             d4 == [d3 EXCEPT !.rmcup = q]
             d5 == [d4 EXCEPT !.smcup = r]
  <2>1. d1 \in Descriptions /\ d1.sgr = d.sgr /\ d1.sgr0 = d.sgr0
    BY <1>1 DEF Descriptions
  <2> HIDE DEF d1
  <2>2. d2 \in Descriptions /\ d2.sgr = d.sgr /\ d2.sgr0 = d.sgr0
    BY <1>1, <2>1 DEF Descriptions
  <2> HIDE DEF d2
  <2>3. d3 \in Descriptions /\ d3.sgr = d.sgr /\ d3.sgr0 = d.sgr0
    BY <2>2 DEF Descriptions
  <2> HIDE DEF d3
  <2>4. d4 \in Descriptions /\ d4.sgr = d.sgr /\ d4.sgr0 = d.sgr0
    BY <2>3 DEF Descriptions
  <2> HIDE DEF d4
  <2>5. d5 \in Descriptions /\ d5.sgr = d.sgr /\ d5.sgr0 = d.sgr0
    BY <2>4 DEF Descriptions
  <2>6. [d EXCEPT !.on = on, !.off = off, !.scp = p, !.rmcup = q, !.smcup = r] = d5
    BY DEF d1, d2, d3, d4
  <2> QED BY <2>5, <2>6
<1>4. d.scp \in BOOLEAN /\ d.rmcup \in BOOLEAN /\ d.smcup \in BOOLEAN
  BY DEF Descriptions
<1> QED BY <1>2, <1>3, <1>4

\* What is read of a description is again one, and resets attributes as well as before.
LEMMA StringsTyped ==
    ASSUME NEW d \in Descriptions
    PROVE  /\ Strings(d) \in Descriptions
           /\ Strings(d).sgr = d.sgr /\ Strings(d).sgr0 = d.sgr0
<1>1. Asked(d) \in Descriptions /\ Asked(d).sgr = d.sgr /\ Asked(d).sgr0 = d.sgr0
  BY AskedTyped
<1>2. ASSUME NEW e \in Descriptions
      PROVE  Without(e) \in Descriptions /\ Without(e).sgr = e.sgr /\ Without(e).sgr0 = e.sgr0
  <2> DEFINE on == [f \in Flags |-> IF f \in Exits /\ e.off[f] # "none" THEN e.on[f] ELSE "none"]
  <2>1. on \in [Flags -> Entries]
    BY DEF Descriptions, Entries, Flags, Exits
  <2> HIDE DEF on
  <2>2. Without(e) = [e EXCEPT !.on = on]
    BY DEF Without, on
  <2> QED BY <2>1, <2>2 DEF Descriptions
<1> QED BY <1>1, <1>2 DEF Strings

\* The settings after init_sequences.
LEMMA SettingsTyped ==
    ASSUME NEW g \in Settled, NEW d \in Descriptions
    PROVE  Settings(g, d) \in Settled
<1>1. Asked(d) \in Descriptions
  BY AskedTyped
<1>2. DetectAnsi(g.ansi, Asked(d)) \in SUBSET (Flags \cup {"colours"})
  BY DEF DetectAnsi, Settled, AnsiColours, AnsiExits, NoExits, Exits, Flags
<1>3. NeedReset(Asked(d)) \subseteq Flags
  BY DEF NeedReset, Exits, Flags
<1>4. InitSequences(g, d) \in Settled
  BY <1>2, <1>3 DEF InitSequences, Settled, Descriptions
<1> QED BY <1>4 DEF Settings, Settled

\* set_attrs_non_ansi, on the attributes that are not colours.
LEMMA ChangeFlagsTyped ==
    ASSUME NEW s \in Both, NEW new \in AttrSets, NEW d \in Descriptions, NEW g \in Settled
    PROVE  ChangeFlags(ResetFlags(s, new, d, g), new, d, g) \in Both
<1>1. ResetFlags(s, new, d, g) \in Both
  <2>1. [new EXCEPT !.fg = Default, !.bg = Default] \in AttrSets
    <3>1. Default \in Int
      BY DEF Default
    <3> QED BY <3>1, Recoloured
  <2>2. Sgr(new.flags, d) \in AttrSets
    BY DEF Sgr, Attr, AttrSets, Unspec
  <2> QED BY <2>1, <2>2, NormalTyped DEF ResetFlags, Both
<1>2. ASSUME NEW t \in Both PROVE ChangeFlags(t, new, d, g) \in Both
  <2> DEFINE changed == ((t.attrs.flags \ new.flags) \cup (new.flags \ t.attrs.flags)) \ g.ansi
             Switch(pen, f) == IF f \notin changed THEN pen
                               ELSE IF f \in new.flags THEN TurnOn(pen, f, d) ELSE TurnOff(pen, f, d)
             first == Switch(t.pen, "underline")
             middle == [first EXCEPT !.flags = @ \cup {f \in changed \cap NoExits : d.on[f] # "none"}]
  <2>1. ASSUME NEW pen \in AttrSets, NEW f \in Exits PROVE Switch(pen, f) \in AttrSets
    <3>1. TurnOn(pen, f, d) \in AttrSets
      BY DEF TurnOn, AttrSets, Exits, Flags
    <3>2. d.off[f] \in {"none", "ansi", "own", "reset", "same"}
      BY DEF Descriptions, Entries
    <3>3. TurnOff(pen, f, d) \in AttrSets
      BY <3>2, NormalTyped DEF TurnOff, AttrSets
    <3> QED BY <3>1, <3>3
  <2>2. first \in AttrSets
    BY <2>1 DEF Both, Exits
  <2>3. changed \subseteq Flags
    BY DEF Both, AttrSets
  <2> HIDE DEF changed, first
  <2>4. middle \in AttrSets
    BY <2>2, <2>3 DEF AttrSets
  <2> HIDE DEF middle, Switch
  <2>5. Switch(middle, "acs") \in AttrSets
    BY <2>1, <2>4 DEF Exits
  <2>6. ChangeFlags(t, new, d, g) = [t EXCEPT !.pen = Switch(middle, "acs")]
    BY DEF ChangeFlags, Switch, middle, first, changed
  <2> QED BY <2>5, <2>6 DEF Both
<1> QED BY <1>1, <1>2

\* set_attrs_non_ansi, on the colours.
LEMMA ChangeColoursTyped ==
    ASSUME NEW s \in Both, NEW new \in AttrSets, NEW d \in Descriptions
    PROVE  ChangeColours(s, new, d) \in Both
<1> DEFINE want == [new EXCEPT !.fg = Plainly(@), !.bg = Plainly(@)]
           t == DefaultColours(s, want, d)
           Set(old, c, has, now) == IF old # c /\ c # Unspec /\ has THEN c ELSE now
<1>1. want \in AttrSets
  <2>1. Plainly(new.fg) \in Int /\ Plainly(new.bg) \in Int
    BY DEF AttrSets, Plainly, Unspec
  <2> QED BY <2>1, Recoloured
<1> HIDE DEF want
<1>2. t \in Both
  <2>1. [s.attrs EXCEPT !.fg = Unspec, !.bg = Unspec] \in AttrSets
    <3>1. s.attrs \in AttrSets /\ Unspec \in Int
      BY DEF Both, Unspec
    <3> QED BY <3>1, Recoloured
  <2>2. Attr(s.pen.flags, Unspec, Unspec) \in AttrSets
    BY DEF Attr, AttrSets, Both, Unspec
  <2> QED BY <2>1, <2>2 DEF DefaultColours, Both
<1> HIDE DEF t
<1>3. ASSUME NEW old, NEW c \in Int, NEW has, NEW now \in Int PROVE Set(old, c, has, now) \in Int
  OBVIOUS
<1> HIDE DEF Set
<1>4. [s EXCEPT !.pen.fg = IF want.fg = Unspec /\ d.op = "none" THEN @ ELSE want.fg,
                !.pen.bg = Unspec] \in Both
  <2>1. (IF want.fg = Unspec /\ d.op = "none" THEN s.pen.fg ELSE want.fg) \in Int /\ Unspec \in Int
    BY <1>1 DEF Both, AttrSets, Unspec
  <2> QED BY <2>1, PenRecoloured
<1>5. [t EXCEPT !.pen.fg = Set(t.attrs.fg, want.fg, d.setfg # "none", @),
                !.pen.bg = Set(t.attrs.bg, want.bg, d.setbg # "none", @)] \in Both
  <2>1. /\ Set(t.attrs.fg, want.fg, d.setfg # "none", t.pen.fg) \in Int
        /\ Set(t.attrs.bg, want.bg, d.setbg # "none", t.pen.bg) \in Int
    BY <1>1, <1>2, <1>3 DEF Both, AttrSets
  <2> QED BY <1>2, <2>1, PenRecoloured
<1> QED BY <1>4, <1>5 DEF ChangeColours, want, t, Set

\* The ANSI string with which _t3_set_attrs ends.
LEMMA SetAnsiTyped ==
    ASSUME NEW s \in Both, NEW new \in AttrSets, NEW g \in Settled
    PROVE  SetAnsi(s, new, g) \in Both /\ SetAnsi(s, new, g).attrs = new
  BY DEF SetAnsi, Both, AttrSets, Settled, Attr, Plainly, Unspec, Flags

\* _t3_set_attrs, where all attributes can be reset: what is asked for is remembered, and
\* Normal is reached by resetting all.
LEMMA SetAttrsTyped ==
    ASSUME NEW s \in Both, NEW new \in AttrSets, NEW d \in Descriptions, NEW g \in Settled
    PROVE  /\ SetAttrs(s, new, d, g) \in Both
           /\ SetAttrs(s, new, d, g).attrs = new
           /\ new = Normal /\ (d.sgr \/ d.sgr0) =>
                SetAttrs(s, new, d, g).pen = IF s.attrs = Normal THEN s.pen ELSE Normal
           /\ new = Normal /\ s.attrs = Normal => SetAttrs(s, new, d, g) = s
<1>1. SetNonAnsi(s, new, d, g) \in Both
  BY ChangeFlagsTyped, ChangeColoursTyped DEF SetNonAnsi
<1>2. ASSUME NEW t \in Both PROVE SetAnsi(t, new, g) \in Both /\ SetAnsi(t, new, g).attrs = new
  BY SetAnsiTyped
<1>3. [attrs |-> Normal, pen |-> Normal] \in Both
  BY NormalTyped DEF Both
<1> QED BY <1>1, <1>2, <1>3 DEF SetAttrs

-----------------------------------------------------------------------------
(* Types. *)

TermState == [raw : BOOLEAN, own : BOOLEAN, pen : AttrSets, shown : BOOLEAN, at : Int]
CursorState == [shown : BOOLEAN, at : Int]
Believed == Columns \cup {x + 1 : x \in Columns}

Typing ==
    /\ program \in Programs
    /\ device \in [Devices -> TermState]
    /\ initialised \in BOOLEAN
    /\ file \in Devices \cup {Null} /\ enabled \subseteq Devices
    /\ strings \in Descriptions \cup {Null}
    /\ known \in Settled
    /\ window \in {"none", "listed", "apart"}
    /\ attrs \in AttrSets
    /\ cursor \in CursorState /\ cursor.at \in Believed
    /\ wanted \in CursorState /\ wanted.at \in Columns
    /\ initialised => file \in Devices /\ strings \in Descriptions \ {Null} /\ window # "none"

\* A terminal with its cursor shown or hidden, and moved.
LEMMA TermPlaced ==
    ASSUME NEW t \in TermState, NEW shown \in BOOLEAN, NEW at \in Int
    PROVE  /\ [t EXCEPT !.shown = shown, !.at = at] \in TermState
           /\ [t EXCEPT !.shown = shown, !.at = at].shown = shown
           /\ [t EXCEPT !.shown = shown, !.at = at].at = at
           /\ [t EXCEPT !.shown = shown, !.at = at].pen = t.pen
<1> DEFINE v == [t EXCEPT !.shown = shown]
<1>1. v \in TermState /\ v.shown = shown /\ v.pen = t.pen
  BY DEF TermState
<1>2. [t EXCEPT !.shown = shown, !.at = at] = [v EXCEPT !.at = at]
  OBVIOUS
<1> HIDE DEF v
<1>3. /\ [v EXCEPT !.at = at] \in TermState /\ [v EXCEPT !.at = at].shown = v.shown
      /\ [v EXCEPT !.at = at].at = at /\ [v EXCEPT !.at = at].pen = v.pen
  BY <1>1 DEF TermState
<1> QED BY <1>1, <1>2, <1>3

\* A terminal that is left with attributes pen, and the cursor shown or not.
LEMMA TermLeft ==
    ASSUME NEW t \in TermState, NEW pen \in AttrSets, NEW shown \in BOOLEAN, NEW at \in Int
    PROVE  [t EXCEPT !.raw = FALSE, !.own = FALSE, !.at = at, !.shown = shown, !.pen = pen]
             = [raw |-> FALSE, own |-> FALSE, pen |-> pen, shown |-> shown, at |-> at]
<1> DEFINE t1 == [t EXCEPT !.raw = FALSE]
           t2 == [t1 EXCEPT !.own = FALSE]
           t3 == [t2 EXCEPT !.at = at]
           t4 == [t3 EXCEPT !.shown = shown]
           t5 == [t4 EXCEPT !.pen = pen]
<1>0. [t EXCEPT !.raw = FALSE, !.own = FALSE, !.at = at, !.shown = shown, !.pen = pen] = t5
  OBVIOUS
<1>1. t1 \in TermState /\ t1.raw = FALSE
  BY DEF TermState
<1> HIDE DEF t1
<1>2. t2 \in TermState /\ t2.raw = FALSE /\ t2.own = FALSE
  BY <1>1 DEF TermState
<1> HIDE DEF t2
<1>3. t3 \in TermState /\ t3.raw = FALSE /\ t3.own = FALSE /\ t3.at = at
  BY <1>2 DEF TermState
<1> HIDE DEF t3
<1>4. t4 \in TermState /\ t4.raw = FALSE /\ t4.own = FALSE /\ t4.at = at /\ t4.shown = shown
  BY <1>3 DEF TermState
<1> HIDE DEF t4
<1>5. t5 \in TermState /\ t5.raw = FALSE /\ t5.own = FALSE /\ t5.at = at /\ t5.shown = shown
      /\ t5.pen = pen
  BY <1>4 DEF TermState
<1> HIDE DEF t5
<1>6. t5 = [raw |-> FALSE, own |-> FALSE, pen |-> pen, shown |-> shown, at |-> at]
  BY <1>5 DEF TermState
<1> QED BY <1>0, <1>6

\* t3_term_init succeeds when nothing fails, and then all calls were made.
LEMMA LastCall ==
    ASSUME NEW fails, Made("mode", fails)
    PROVE  fails = Null /\ \A c : Made(c, fails)
<1>1. ASSUME NEW i \in DOMAIN Calls, NEW j \in DOMAIN Calls, i < j PROVE Calls[i] # "mode"
  BY <1>1 DEF Calls
<1>2. fails = Null
  BY <1>1 DEF Made
<1> QED BY <1>2 DEF Made

\* Setting the attributes of the terminal in use.
LEMMA SetToTyped ==
    ASSUME Typing, initialised, NEW t \in TermState, NEW new \in AttrSets
    PROVE  /\ SetTo(t, new) \in Both
           /\ SetTo(t, new).attrs = new
           /\ new = Normal /\ (strings.sgr \/ strings.sgr0) =>
                SetTo(t, new).pen \in {IF attrs = Normal THEN t.pen ELSE Normal, Garbled}
<1> DEFINE s == [attrs |-> attrs, pen |-> t.pen]
           set == SetAttrs(s, new, strings, known)
<1>1. s \in Both /\ s.attrs = attrs /\ s.pen = t.pen
  BY DEF Typing, Both, TermState
<1> HIDE DEF s
<1>2. strings \in Descriptions /\ known \in Settled
  BY DEF Typing
<1>3. /\ set \in Both /\ set.attrs = new
      /\ new = Normal /\ (strings.sgr \/ strings.sgr0) => set.pen = IF attrs = Normal THEN t.pen ELSE Normal
  BY <1>1, <1>2, SetAttrsTyped
<1>4. SetTo(t, new) = IF (Fresh /\ t.pen # Garbled) \/ new = attrs THEN set ELSE [set EXCEPT !.pen = Garbled]
  BY DEF SetTo, set, s
<1> HIDE DEF set
<1>5. [set EXCEPT !.pen = Garbled] \in Both /\ [set EXCEPT !.pen = Garbled].attrs = new
      /\ [set EXCEPT !.pen = Garbled].pen = Garbled
  BY <1>3, NormalTyped DEF Both
<1> QED BY <1>3, <1>4, <1>5

\* What is printed in has the type of attributes.
LEMMA CellTyped ==
    ASSUME NEW a \in AttrSets \cup {Null}, NEW b \in AttrSets
    PROVE  CellAttrs(a, b) \in AttrSets
<1>1. ASSUME NEW c \in AttrSets PROVE Sanitize(c, strings) \in AttrSets
  <2>1. /\ (IF InRange(c.fg, strings) THEN c.fg ELSE Unspec) \in Int
        /\ (IF strings.scp \/ InRange(c.bg, strings) THEN c.bg ELSE Unspec) \in Int
    BY DEF AttrSets, Unspec
  <2> QED BY <2>1, Recoloured DEF Sanitize
<1>2. ASSUME NEW c \in AttrSets, NEW e \in AttrSets
      PROVE  [Combine(c, e, known.ncv) EXCEPT !.set = {}] \in AttrSets
  BY DEF Combine, AttrSets
<1>3. ASSUME NEW c \in AttrSets PROVE [c EXCEPT !.flags = @ \ {"acs"}] \in AttrSets
  BY DEF AttrSets
<1> QED BY <1>1, <1>2, <1>3 DEF CellAttrs

\* Leaving the terminal.
LEMMA LeftTyped ==
    ASSUME Typing, initialised, NEW t \in TermState
    PROVE  /\ Left(t) \in TermState
           /\ Left(t) = [raw |-> FALSE, own |-> FALSE, pen |-> SetTo(t, Normal).pen,
                         shown |-> t.shown \/ ~cursor.shown, at |-> Elsewhere]
<1>1. SetTo(t, Normal).pen \in AttrSets
  BY SetToTyped, NormalTyped DEF Both
<1> HIDE DEF Normal
<1>2. Left(t) = [raw |-> FALSE, own |-> FALSE, pen |-> SetTo(t, Normal).pen,
                 shown |-> t.shown \/ ~cursor.shown, at |-> Elsewhere]
  <2>1. Elsewhere \in Int /\ (t.shown \/ ~cursor.shown) \in BOOLEAN
    BY DEF Elsewhere
  <2>2. Left(t) = [t EXCEPT !.raw = FALSE, !.own = FALSE, !.at = Elsewhere,
                            !.shown = t.shown \/ ~cursor.shown, !.pen = SetTo(t, Normal).pen]
    BY DEF Left, TermState
  <2>3. ASSUME NEW pen \in AttrSets, NEW shown \in BOOLEAN, NEW at \in Int
        PROVE  [t EXCEPT !.raw = FALSE, !.own = FALSE, !.at = at, !.shown = shown, !.pen = pen]
                 = [raw |-> FALSE, own |-> FALSE, pen |-> pen, shown |-> shown, at |-> at]
    BY TermLeft
  <2> QED BY <1>1, <2>1, <2>2, <2>3, Zenon
<1> QED BY <1>1, <1>2 DEF TermState, Typing, Elsewhere

\* Updating the terminal: the attributes and the cell that is printed.
LEMMA DrawnTyped ==
    ASSUME Typing, initialised, NEW t \in TermState,
           NEW a, NEW b,
           \/ a = Null /\ b = Null
           \/ a \in Does[program].draws \cup {Null} /\ b \in Does[program].behind
    PROVE  /\ Drawn(t, a, b).attrs \in AttrSets
           /\ Drawn(t, a, b).device \in TermState
           /\ Drawn(t, a, b).device.shown = t.shown
           /\ \/ Drawn(t, a, b).attrs = attrs /\ Drawn(t, a, b).device.pen = t.pen
              \/ \E new \in AttrSets : /\ Drawn(t, a, b).attrs = new
                                       /\ Drawn(t, a, b).device.pen = SetTo(t, new).pen
<1>1. CASE b = Null
  BY <1>1 DEF Drawn, Typing, TermState
<1>2. CASE b # Null
  <2>1. a \in AttrSets \cup {Null} /\ b \in AttrSets
    BY <1>2, DoesAssumption DEF Typing
  <2> DEFINE new == CellAttrs(a, b)
  <2>2. new \in AttrSets
    BY <2>1, CellTyped
  <2> HIDE DEF new
  <2>3. SetTo(t, new) \in Both /\ SetTo(t, new).attrs = new
    BY <2>2, SetToTyped
  <2>4. Drawn(t, a, b) = [attrs |-> SetTo(t, new).attrs,
                          device |-> [t EXCEPT !.pen = SetTo(t, new).pen, !.at = Elsewhere]]
    BY <1>2 DEF Drawn, new
  <2> DEFINE pen == SetTo(t, new).pen
  <2>5. pen \in AttrSets
    BY <2>3 DEF Both
  <2>6. Drawn(t, a, b).attrs = new /\ Drawn(t, a, b).device = [t EXCEPT !.pen = pen, !.at = Elsewhere]
    BY <2>3, <2>4
  <2> HIDE DEF pen
  <2>7. /\ [t EXCEPT !.pen = pen, !.at = Elsewhere] \in TermState
        /\ [t EXCEPT !.pen = pen, !.at = Elsewhere].shown = t.shown
        /\ [t EXCEPT !.pen = pen, !.at = Elsewhere].pen = pen
    <3> DEFINE v == [t EXCEPT !.pen = pen]
    <3>1. v \in TermState /\ v.shown = t.shown /\ v.pen = pen
      BY <2>5 DEF TermState
    <3>2. [t EXCEPT !.pen = pen, !.at = Elsewhere] = [v EXCEPT !.at = Elsewhere]
      OBVIOUS
    <3> HIDE DEF v
    <3>3. /\ [v EXCEPT !.at = Elsewhere] \in TermState /\ [v EXCEPT !.at = Elsewhere].shown = v.shown
          /\ [v EXCEPT !.at = Elsewhere].pen = v.pen
      BY <3>1 DEF TermState, Elsewhere
    <3> QED BY <3>1, <3>2, <3>3
  <2> QED BY <2>2, <2>6, <2>7 DEF pen
<1> QED BY <1>1, <1>2

\* A terminal that is taken into use: its own screen or not, and the cursor.
LEMMA EnterTyped ==
    ASSUME Typing, NEW t \in TermState, NEW fails, Made("mode", fails), strings' \in Descriptions
    PROVE  Enter(t, fails) = [raw |-> TRUE, own |-> strings'.smcup, pen |-> t.pen,
                              shown |-> cursor.shown \/ ~strings'.civis, at |-> cursor.at]
<1> DEFINE own == strings'.smcup
           at == cursor.at
           shown == cursor.shown \/ ~strings'.civis
           t1 == [t EXCEPT !.raw = TRUE]
           t2 == [t1 EXCEPT !.own = own]
           t3 == [t2 EXCEPT !.at = at]
           t4 == [t3 EXCEPT !.shown = shown]
<1>1. own \in BOOLEAN /\ at \in Int /\ shown \in BOOLEAN
  BY DEF Typing, Descriptions, CursorState
<1>2. Enter(t, fails) = [t EXCEPT !.raw = TRUE, !.own = own, !.at = at, !.shown = shown]
  BY DEF Enter
<1> HIDE DEF own, at, shown
<1>3. Enter(t, fails) = t4
  BY <1>2
<1>4. t1 \in TermState /\ t1.raw = TRUE /\ t1.pen = t.pen
  BY DEF TermState
<1> HIDE DEF t1
<1>5. t2 \in TermState /\ t2.raw = TRUE /\ t2.own = own /\ t2.pen = t.pen
  BY <1>1, <1>4 DEF TermState
<1> HIDE DEF t2
<1>6. t3 \in TermState /\ t3.raw = TRUE /\ t3.own = own /\ t3.at = at /\ t3.pen = t.pen
  BY <1>1, <1>5 DEF TermState
<1> HIDE DEF t3
<1>7. t4 \in TermState /\ t4.raw = TRUE /\ t4.own = own /\ t4.at = at /\ t4.shown = shown
      /\ t4.pen = t.pen
  BY <1>1, <1>6 DEF TermState
<1> HIDE DEF t4
<1>8. t4 = [raw |-> TRUE, own |-> own, pen |-> t.pen, shown |-> shown, at |-> at]
  BY <1>7 DEF TermState
<1> QED BY <1>3, <1>8 DEF own, at, shown

\* The cursor at the end of t3_term_update, where it can be hidden.
LEMMA PlacedTyped ==
    ASSUME Typing, NEW t \in TermState, NEW before \in Int
    PROVE  /\ Placed(t, before) \in TermState
           /\ Placed(t, before).pen = t.pen
           /\ Placed(t, before).shown = (wanted.shown \/ (t.shown /\ ~cursor.shown))
           /\ wanted.shown =>
                \/ Placed(t, before).at = wanted.at
                \/ cursor.shown /\ cursor.at = wanted.at /\ Placed(t, before).at = before
<1>1. wanted.shown \in BOOLEAN /\ wanted.at \in Int /\ before \in Int
  BY DEF Typing, CursorState
<1>2. CASE ~wanted.shown
  <2> DEFINE shown == t.shown /\ ~cursor.shown
  <2>1. Placed(t, before) = [t EXCEPT !.shown = shown]
    BY <1>2 DEF Placed, TermState
  <2>2. shown \in BOOLEAN
    OBVIOUS
  <2> HIDE DEF shown
  <2>3. [t EXCEPT !.shown = shown] \in TermState /\ [t EXCEPT !.shown = shown].pen = t.pen
        /\ [t EXCEPT !.shown = shown].shown = shown
    BY <2>2 DEF TermState
  <2> QED BY <1>2, <2>1, <2>3 DEF shown
<1>3. ASSUME NEW at \in Int
      PROVE  /\ [t EXCEPT !.shown = TRUE, !.at = at] \in TermState
             /\ [t EXCEPT !.shown = TRUE, !.at = at].shown = TRUE
             /\ [t EXCEPT !.shown = TRUE, !.at = at].at = at
             /\ [t EXCEPT !.shown = TRUE, !.at = at].pen = t.pen
  BY TermPlaced
<1>4. CASE wanted.shown /\ cursor.shown /\ cursor.at = wanted.at /\ strings.sc
  <2>1. Placed(t, before) = [t EXCEPT !.shown = TRUE, !.at = before]
    BY <1>4 DEF Placed
  <2>2. /\ Placed(t, before) \in TermState /\ Placed(t, before).shown = TRUE
        /\ Placed(t, before).at = before /\ Placed(t, before).pen = t.pen
    BY <1>1, <1>3, <2>1, Zenon
  <2> QED BY <1>1, <1>4, <2>2
<1>5. CASE wanted.shown /\ ~(cursor.shown /\ cursor.at = wanted.at /\ strings.sc)
  <2>1. Placed(t, before) = [t EXCEPT !.shown = TRUE, !.at = wanted.at]
    BY <1>5 DEF Placed
  <2>2. /\ Placed(t, before) \in TermState /\ Placed(t, before).shown = TRUE
        /\ Placed(t, before).at = wanted.at /\ Placed(t, before).pen = t.pen
    BY <1>1, <1>3, <2>1, Zenon
  <2> QED BY <1>1, <1>5, <2>2
<1> QED BY <1>2, <1>4, <1>5

\* t3_term_init either leaves the terminals as they are, or takes one into use.
LEMMA Enters ==
    ASSUME Typing, NEW x \in Devices, NEW fails, TermInit(x, fails)
    PROVE  /\ ~initialised
           /\ file' \in Devices \cup {Null}
           /\ strings' = strings \/ strings' = Strings(Describes[x])
           /\ \/ initialised' = FALSE /\ device' = device
              \/ /\ initialised' = TRUE
                 /\ file' \in Devices /\ strings' \in Descriptions \ {Null} /\ window' # "none"
                 /\ device' = [device EXCEPT ![file'] =
                                 [raw |-> TRUE, own |-> strings'.smcup, pen |-> device[file'].pen,
                                  shown |-> cursor.shown \/ ~strings'.civis, at |-> cursor.at]]
<1> DEFINE to == IF file = Null THEN x ELSE file
<1>1. to \in Devices
  BY DEF Typing
<1>2. ~initialised /\ file' = (IF Made("open", fails) THEN to ELSE file)
      /\ (strings' = strings \/ strings' = Strings(Describes[x]))
      /\ initialised' = Made("mode", fails)
      /\ device' = IF Made("open", fails) THEN [device EXCEPT ![to] = Enter(@, fails)] ELSE device
  BY DEF TermInit
<1> HIDE DEF to
<1>3. file' \in Devices \cup {Null}
  BY <1>1, <1>2 DEF Typing
<1>4. CASE ~Made("mode", fails)
  <2>1. [device EXCEPT ![to] = Enter(@, fails)] = device
    BY <1>1, <1>4 DEF Enter, Typing
  <2>2. initialised' = FALSE
    BY <1>2, <1>4
  <2> QED BY <1>2, <1>3, <2>1, <2>2
<1>5. CASE Made("mode", fails)
  <2>1. \A c : Made(c, fails)
    BY <1>5, LastCall
  <2>2. strings' \in Descriptions \ {Null}
    <3>1. strings' = IF strings = Null THEN Strings(Describes[x]) ELSE strings
      BY <2>1 DEF TermInit
    <3>2. Strings(Describes[x]) \in Descriptions \ {Null}
      BY DescriptionsAssumption, StringsTyped
    <3> QED BY <3>1, <3>2 DEF Typing
  <2>3. window' # "none"
    <3>1. window' = IF window = "none" THEN "apart" ELSE window
      BY <2>1 DEF TermInit
    <3> QED BY <3>1 DEF Typing
  <2>4. device' = [device EXCEPT ![to] = Enter(device[to], fails)] /\ file' = to
    BY <1>2, <2>1
  <2> DEFINE t == device[to]
  <2>5. t \in TermState
    BY <1>1 DEF Typing
  <2> HIDE DEF t
  <2>6. Enter(t, fails) = [raw |-> TRUE, own |-> strings'.smcup, pen |-> t.pen,
                           shown |-> cursor.shown \/ ~strings'.civis, at |-> cursor.at]
    BY <1>5, <2>2, <2>5, EnterTyped
  <2>7. initialised' = TRUE
    BY <1>2, <1>5
  <2>8. device' = [device EXCEPT ![file'] =
                      [raw |-> TRUE, own |-> strings'.smcup, pen |-> device[file'].pen,
                       shown |-> cursor.shown \/ ~strings'.civis, at |-> cursor.at]]
    BY <2>4, <2>6 DEF t
  <2> QED BY <1>1, <1>2, <2>2, <2>3, <2>4, <2>7, <2>8
<1> QED BY <1>4, <1>5

\* What t3_term_update does: the attributes and what is left of the cell that was printed.
LEMMA Updates ==
    ASSUME Typing, NEW a, NEW b, Update(a, b),
           \/ a = Null /\ b = Null
           \/ a \in Does[program].draws \cup {Null} /\ b \in Does[program].behind
    PROVE  \E u \in TermState :
             /\ attrs' \in AttrSets
             /\ device' = [device EXCEPT ![file] = u]
             /\ \/ attrs' = attrs /\ u.pen = device[file].pen
                \/ u.pen = SetTo(device[file], attrs').pen
             /\ cursor'.shown = wanted.shown
             /\ IF strings.civis
                THEN /\ u.shown = (wanted.shown \/ (device[file].shown /\ ~cursor.shown))
                     /\ wanted.shown =>
                          \/ u.at = wanted.at
                          \/ cursor.shown /\ cursor.at = wanted.at /\ u.at = device[file].at
                     /\ cursor'.at = IF wanted.shown THEN wanted.at ELSE cursor.at
                ELSE u.shown = device[file].shown /\ cursor'.at = cursor.at
             /\ cursor' \in CursorState
<1> DEFINE t == device[file]
           drawn == Drawn(t, a, b)
<1>1. initialised /\ file \in Devices /\ t \in TermState
  BY DEF Update, Typing
<1>2. /\ drawn.attrs \in AttrSets /\ drawn.device \in TermState /\ drawn.device.shown = t.shown
      /\ \/ drawn.attrs = attrs /\ drawn.device.pen = t.pen
         \/ drawn.device.pen = SetTo(t, drawn.attrs).pen
  BY <1>1, DrawnTyped
<1>3. attrs' = drawn.attrs
  BY DEF Update
<1>4. cursor \in CursorState /\ wanted \in CursorState
  BY DEF Typing
<1>5. CASE strings.civis
  <2>1. /\ device' = [device EXCEPT ![file] = Placed(drawn.device, t.at)]
        /\ cursor' = [shown |-> wanted.shown, at |-> IF wanted.shown THEN wanted.at ELSE cursor.at]
    BY <1>1, <1>5 DEF Update, Typing
  <2> HIDE DEF drawn, t
  <2> DEFINE u == Placed(drawn.device, t.at)
  <2>2. /\ u \in TermState /\ u.pen = drawn.device.pen
        /\ u.shown = (wanted.shown \/ (t.shown /\ ~cursor.shown))
        /\ wanted.shown => \/ u.at = wanted.at
                           \/ cursor.shown /\ cursor.at = wanted.at /\ u.at = t.at
    <3>1. t.at \in Int
      BY <1>1 DEF TermState
    <3> QED BY <1>2, <3>1, PlacedTyped
  <2>3. cursor' \in CursorState
    BY <2>1, <1>4 DEF CursorState
  <2> HIDE DEF u
  <2> QED BY <1>2, <1>3, <1>5, <2>1, <2>2, <2>3 DEF u, t
<1>6. CASE ~strings.civis
  <2> DEFINE u == IF wanted.shown THEN drawn.device ELSE [drawn.device EXCEPT !.at = Corner]
  <2>1. device' = [device EXCEPT ![file] = u] /\ cursor' = [cursor EXCEPT !.shown = wanted.shown]
    BY <1>1, <1>6 DEF Update, Typing
  <2>2. u \in TermState /\ u.pen = drawn.device.pen /\ u.shown = t.shown
    <3>1. ASSUME NEW v \in TermState
          PROVE  /\ [v EXCEPT !.at = Corner] \in TermState
                 /\ [v EXCEPT !.at = Corner].pen = v.pen /\ [v EXCEPT !.at = Corner].shown = v.shown
      BY DEF TermState, Corner
    <3> QED BY <1>2, <3>1
  <2>3. cursor' \in CursorState /\ cursor'.shown = wanted.shown /\ cursor'.at = cursor.at
    BY <2>1, <1>4 DEF CursorState
  <2> HIDE DEF u, drawn, t
  <2> QED BY <1>2, <1>3, <1>6, <2>1, <2>2, <2>3 DEF u, t
<1> QED BY <1>5, <1>6

-----------------------------------------------------------------------------
(* The types of all states. *)

\* The types hold at first.
LEMMA TypingInit == Init => Typing
<1> SUFFICES ASSUME Init PROVE Typing
  OBVIOUS
<1>1. AsFound \in TermState
  BY NormalTyped DEF AsFound, TermState, Elsewhere
<1>2. Uninitialised \in Settled
  BY DEF Uninitialised, Settled, NoExits
<1>3. 0 \in Columns /\ [shown |-> TRUE, at |-> 0] \in CursorState
  BY ColumnsAssumption DEF CursorState
<1> HIDE DEF AsFound, Uninitialised, Normal
<1> QED BY <1>1, <1>2, <1>3, NormalTyped DEF Init, Typing, Believed

\* What t3_term_init takes from a description.
LEMMA EntersTyped ==
    ASSUME Typing, NEW x \in Devices, NEW fails, TermInit(x, fails)
    PROVE  Typing'
<1>1. /\ ~initialised /\ file' \in Devices \cup {Null}
      /\ strings' = strings \/ strings' = Strings(Describes[x])
  BY Enters
<1>2. strings' \in Descriptions \cup {Null}
  BY <1>1, DescriptionsAssumption, StringsTyped DEF Typing
<1>3. known' \in Settled
  BY DescriptionsAssumption, SettingsTyped DEF TermInit, Typing
<1>4. window' \in {"none", "listed", "apart"}
  BY DEF TermInit, Typing
<1>5. device' \in [Devices -> TermState] /\ initialised' \in BOOLEAN
      /\ (initialised' => file' \in Devices /\ strings' \in Descriptions \ {Null} /\ window' # "none")
  <2>1. CASE initialised' = FALSE /\ device' = device
    BY <2>1 DEF Typing
  <2>2. CASE /\ initialised' = TRUE
             /\ file' \in Devices /\ strings' \in Descriptions \ {Null} /\ window' # "none"
             /\ device' = [device EXCEPT ![file'] =
                             [raw |-> TRUE, own |-> strings'.smcup, pen |-> device[file'].pen,
                              shown |-> cursor.shown \/ ~strings'.civis, at |-> cursor.at]]
    <3>1. [raw |-> TRUE, own |-> strings'.smcup, pen |-> device[file'].pen,
           shown |-> cursor.shown \/ ~strings'.civis, at |-> cursor.at] \in TermState
      BY <2>2 DEF Typing, TermState, Descriptions, CursorState
    <3> QED BY <2>2, <3>1 DEF Typing
  <2> QED BY <2>1, <2>2, Enters
<1> QED BY <1>1, <1>2, <1>3, <1>4, <1>5 DEF TermInit, Typing, Believed, Columns

\* t3_term_redraw resets the attributes and clears the terminal.
LEMMA Redraws ==
    ASSUME Typing, Redraw
    PROVE  \E u \in TermState :
             /\ device' = [device EXCEPT ![file] = u]
             /\ u.shown = device[file].shown /\ u.at = Home
             /\ u.pen = SetTo(device[file], Normal).pen
             /\ attrs' = Normal
<1> DEFINE t == device[file]
           pen == SetTo(t, Normal).pen
           u == [t EXCEPT !.pen = pen, !.at = Home]
           v == [t EXCEPT !.pen = pen]
<1>1. initialised /\ file \in Devices /\ t \in TermState
  BY DEF Redraw, Typing
<1>2. pen \in AttrSets /\ SetTo(t, Normal).attrs = Normal
  BY <1>1, SetToTyped, NormalTyped DEF Both
<1>3. device' = [device EXCEPT ![file] = u] /\ attrs' = Normal
  BY <1>1, <1>2 DEF Redraw, Cleared, Typing
<1> HIDE DEF t, pen
<1>4. v \in TermState /\ v.shown = t.shown /\ v.pen = pen
  BY <1>1, <1>2 DEF TermState
<1>5. u = [v EXCEPT !.at = Home]
  OBVIOUS
<1> HIDE DEF u, v
<1>6. u \in TermState /\ u.shown = t.shown /\ u.at = Home /\ u.pen = pen
  BY <1>4, <1>5 DEF TermState, Home
<1> QED BY <1>3, <1>6 DEF t, pen

\* t3_term_update_cursor shows or hides the cursor, and moves it where it is shown.
LEMMA UpdatesCursor ==
    ASSUME Typing, UpdateCursor
    PROVE  \E u \in TermState :
             /\ device' = [device EXCEPT ![file] = u]
             /\ u.pen = device[file].pen
             /\ u.shown = IF strings.civis /\ cursor.shown # wanted.shown THEN wanted.shown
                          ELSE device[file].shown
             /\ cursor'.shown = wanted.shown /\ cursor' \in CursorState
             /\ \/ u.at = wanted.at /\ cursor'.at = wanted.at
                \/ /\ u.at = device[file].at /\ cursor'.at = cursor.at
                   /\ ~wanted.shown \/ (cursor.shown /\ cursor.at = wanted.at)
                \/ u.at = device[file].at /\ cursor'.at = cursor.at /\ ~wanted.shown
<1> DEFINE t == device[file]
           at == IF Moves THEN wanted.at ELSE t.at
           shown == IF strings.civis /\ cursor.shown # wanted.shown THEN wanted.shown ELSE t.shown
           u == [t EXCEPT !.at = at, !.shown = shown]
           v == [t EXCEPT !.at = at]
<1>1. initialised /\ file \in Devices /\ t \in TermState /\ cursor \in CursorState /\ wanted \in CursorState
  BY DEF UpdateCursor, Typing
<1>2. at \in Int /\ shown \in BOOLEAN
  BY <1>1 DEF TermState, CursorState
<1>3. cursor' = [shown |-> wanted.shown, at |-> IF Moves THEN wanted.at ELSE cursor.at]
  BY DEF UpdateCursor
<1>4. device' = [device EXCEPT ![file] = u]
  <2>1. device' = [device EXCEPT ![file] = Pointed(t)]
    BY <1>1 DEF UpdateCursor, Typing
  <2>2. Pointed(t) = [t EXCEPT !.at = IF Moves THEN wanted.at ELSE t.at,
                               !.shown = IF strings.civis /\ cursor.shown # wanted.shown
                                         THEN wanted.shown ELSE t.shown]
    BY <1>1 DEF Pointed, TermState
  <2> QED BY <2>1, <2>2
<1>5. /\ cursor'.shown = wanted.shown /\ cursor' \in CursorState
      /\ cursor'.at = IF Moves THEN wanted.at ELSE cursor.at
  BY <1>1, <1>3 DEF CursorState
<1>6. ~Moves => ~wanted.shown \/ (cursor.shown /\ cursor.at = wanted.at)
  BY <1>1 DEF CursorState, Moves
<1> HIDE DEF at, shown, t
<1>7. v \in TermState /\ v.at = at /\ v.pen = t.pen
  BY <1>1, <1>2 DEF TermState
<1>8. u = [v EXCEPT !.shown = shown]
  OBVIOUS
<1> HIDE DEF u, v
<1>9. u \in TermState /\ u.at = at /\ u.pen = t.pen /\ u.shown = shown
  BY <1>2, <1>7, <1>8 DEF TermState
<1> QED BY <1>4, <1>5, <1>6, <1>9 DEF at, shown, t

\* Leaving the terminal in use.
LEMMA Leaves ==
    ASSUME Typing, initialised,
           device' = [device EXCEPT ![file] = Left(@)]
    PROVE  \E pen \in AttrSets :
             /\ device' = [device EXCEPT ![file] =
                             [raw |-> FALSE, own |-> FALSE, pen |-> pen,
                              shown |-> device[file].shown \/ ~cursor.shown, at |-> Elsewhere]]
             /\ pen = SetTo(device[file], Normal).pen
<1> DEFINE t == device[file]
           pen == SetTo(t, Normal).pen
<1>1. file \in Devices /\ t \in TermState
  BY DEF Typing
<1>2. pen \in AttrSets
  BY <1>1, SetToTyped, NormalTyped DEF Both
<1>3. device' = [device EXCEPT ![file] = Left(t)]
  BY <1>1 DEF Typing
<1> HIDE DEF t
<1>4. Left(t) = [raw |-> FALSE, own |-> FALSE, pen |-> pen,
                 shown |-> t.shown \/ ~cursor.shown, at |-> Elsewhere]
  BY <1>1, LeftTyped
<1> HIDE DEF pen
<1> QED BY <1>2, <1>3, <1>4 DEF t, pen

\* Every step keeps the types.
LEMMA TypingStep == Typing /\ [Next]_vars => Typing'
<1> SUFFICES ASSUME Typing, [Next]_vars PROVE Typing'
  OBVIOUS
<1>1. CASE UNCHANGED vars
  BY <1>1 DEF vars, library, Typing, Believed
<1>2. ASSUME NEW x \in Devices, NEW fails \in Failures \cup {Null}, TermInit(x, fails) PROVE Typing'
  BY <1>2, EntersTyped
<1>3. ASSUME initialised, device' = [device EXCEPT ![file] = Left(@)]
      PROVE  device' \in [Devices -> TermState]
  <2>1. PICK pen \in AttrSets :
            device' = [device EXCEPT ![file] =
                         [raw |-> FALSE, own |-> FALSE, pen |-> pen,
                          shown |-> device[file].shown \/ ~cursor.shown, at |-> Elsewhere]]
    BY <1>3, Leaves
  <2>2. [raw |-> FALSE, own |-> FALSE, pen |-> pen,
         shown |-> device[file].shown \/ ~cursor.shown, at |-> Elsewhere] \in TermState
    BY <1>3 DEF TermState, Elsewhere
  <2> QED BY <2>1, <2>2 DEF Typing
<1>4. CASE Restore
  BY <1>3, <1>4, NormalTyped DEF Restore, Typing, Believed
<1>5. CASE Deinit
  <2>1. device' \in [Devices -> TermState] /\ attrs' \in AttrSets
    BY <1>3, <1>5, NormalTyped DEF Deinit, Typing
  <2> QED BY <1>5, <2>1 DEF Deinit, Typing, Believed
<1>6. ASSUME NEW x \in Columns, SetCursor(x) PROVE Typing'
  BY <1>6, ColumnsAssumption DEF SetCursor, library, Typing, Believed, CursorState
<1>7. ASSUME NEW b \in BOOLEAN, ShowCursor(b) PROVE Typing'
  BY <1>7 DEF ShowCursor, library, Typing, Believed, CursorState
<1>8. CASE UpdateCursor
  <2>1. PICK u \in TermState :
          /\ device' = [device EXCEPT ![file] = u]
          /\ cursor' \in CursorState
          /\ cursor'.at = wanted.at \/ cursor'.at = cursor.at
    BY <1>8, UpdatesCursor
  <2> QED BY <1>8, <2>1 DEF UpdateCursor, Typing, Believed
<1>9. ASSUME NEW a, NEW b, Update(a, b),
             \/ a = Null /\ b = Null
             \/ a \in Does[program].draws \cup {Null} /\ b \in Does[program].behind
      PROVE  Typing'
  <2>1. PICK u \in TermState :
          /\ attrs' \in AttrSets
          /\ device' = [device EXCEPT ![file] = u]
          /\ cursor' \in CursorState
          /\ cursor'.at = wanted.at \/ cursor'.at = cursor.at
    BY <1>9, Updates
  <2> QED BY <1>9, <2>1 DEF Update, Typing, Believed
<1>10. CASE Redraw
  <2>1. PICK u \in TermState : device' = [device EXCEPT ![file] = u] /\ attrs' = Normal
    BY <1>10, Redraws
  <2>2. cursor' \in CursorState /\ cursor'.at \in Believed
    BY <1>10, ColumnsAssumption DEF Redraw, Typing, CursorState, Believed
  <2> QED BY <1>10, <2>1, <2>2, NormalTyped DEF Redraw, Typing, Believed
<1> QED BY <1>1, <1>2, <1>4, <1>5, <1>6, <1>7, <1>8, <1>9, <1>10 DEF Next

\* So they hold always.
LEMMA TypingInvariant == Spec => []Typing
  BY TypingInit, TypingStep, PTL DEF Spec

\* After t3_term_init has succeeded there is a terminal with its strings and its window, and
\* all else has the type that terminal.c takes for granted.
THEOREM SessionTyped == Spec => []TypeOK
<1>1. Typing => TypeOK
  <2> SUFFICES ASSUME Typing PROVE TypeOK
    OBVIOUS
  <2>1. initialised => file # Null /\ strings # Null /\ window # "none"
    BY NullAssumption DEF Typing
  <2>2. \A x \in Devices : device[x].pen.flags \subseteq Flags
    BY DEF Typing, TermState, AttrSets
  <2> QED BY <2>1, <2>2 DEF Typing, TypeOK, Settled, AttrSets, Believed
<1> QED BY <1>1, TypingInvariant, PTL

-----------------------------------------------------------------------------
(* A terminal is given back as it was found.  The attributes come back where _t3_attrs are *)
(* not Normal because resetting them is all it takes, and where they are, because they     *)
(* were reset before.                                                                      *)

Resets == \A x \in Devices : Describes[x].sgr \/ Describes[x].sgr0

Pens == {Normal, Garbled}

AttributesKnown ==
    /\ strings # Null => strings.sgr \/ strings.sgr0
    /\ ~initialised => attrs = Normal
    /\ initialised /\ attrs = Normal => device[file].pen \in Pens
CursorReturns ==
    /\ initialised => device[file].shown \/ ~cursor.shown
    /\ initialised /\ ~strings.civis => device[file].shown
BackInv == AttributesKnown /\ CursorReturns /\ GivenBack

\* What the next attributes are, where they are Normal.
LEMMA NormalPens ==
    ASSUME Typing, BackInv, initialised, NEW new \in AttrSets, new = Normal
    PROVE  SetTo(device[file], new).pen \in Pens
<1>1. device[file] \in TermState /\ (strings.sgr \/ strings.sgr0)
  BY DEF Typing, BackInv, AttributesKnown
<1>2. SetTo(device[file], new).pen \in {IF attrs = Normal THEN device[file].pen ELSE Normal, Garbled}
  BY <1>1, SetToTyped DEF Typing
<1> QED BY <1>2 DEF BackInv, AttributesKnown, Pens

\* A step on the terminal in use that leaves the program on it.
LEMMA StillInUse ==
    ASSUME Typing, BackInv, initialised, initialised' = initialised, file' = file, strings' = strings,
           NEW u \in TermState, device' = [device EXCEPT ![file] = u],
           attrs' = Normal => u.pen \in Pens,
           u.shown \/ ~cursor'.shown, ~strings.civis => u.shown
    PROVE  BackInv'
<1>1. device'[file'] = u
  BY DEF Typing
<1>2. GivenBack'
  BY DEF GivenBack, BackInv, Typing
<1> QED BY <1>1, <1>2 DEF BackInv, AttributesKnown, CursorReturns

\* Leaving gives the terminal back.
LEMMA LeftAsFound ==
    ASSUME Typing, BackInv, initialised, ~initialised',
           device' = [device EXCEPT ![file] = Left(@)]
    PROVE  GivenBack'
<1>1. PICK pen \in AttrSets :
        /\ device' = [device EXCEPT ![file] =
                        [raw |-> FALSE, own |-> FALSE, pen |-> pen,
                         shown |-> device[file].shown \/ ~cursor.shown, at |-> Elsewhere]]
        /\ pen = SetTo(device[file], Normal).pen
  BY Leaves
<1>2. pen \in Pens
  BY <1>1, NormalPens, NormalTyped
<1>3. (device[file].shown \/ ~cursor.shown) = TRUE
  BY DEF BackInv, CursorReturns
<1> DEFINE Given(p) == [raw |-> FALSE, own |-> FALSE, pen |-> p, shown |-> TRUE, at |-> Elsewhere]
<1>4. AsFound = Given(Normal) /\ [AsFound EXCEPT !.pen = Garbled] = Given(Garbled)
  <2>1. AsFound = Given(Normal)
    BY DEF AsFound
  <2>2. AsFound \in TermState
    BY <2>1, NormalTyped DEF TermState, Elsewhere
  <2>3. ASSUME NEW r \in TermState, NEW p \in AttrSets, NEW q \in AttrSets, r = Given(p)
        PROVE  [r EXCEPT !.pen = q] = Given(q)
    <3> DEFINE e == [r EXCEPT !.pen = q]
    <3>1. /\ e \in TermState /\ e.raw = r.raw /\ e.own = r.own /\ e.pen = q /\ e.shown = r.shown
          /\ e.at = r.at
      BY DEF TermState
    <3> HIDE DEF e
    <3>2. e = Given(q)
      BY <2>3, <3>1 DEF TermState
    <3> QED BY <3>2 DEF e
  <2> HIDE DEF Given
  <2> QED BY <2>1, <2>2, <2>3, NormalTyped
<1>5. device'[file] \in {AsFound, [AsFound EXCEPT !.pen = Garbled]}
  <2>1. device'[file] = Given(pen)
    BY <1>1, <1>3 DEF Typing
  <2> HIDE DEF Given
  <2> QED BY <1>2, <1>4, <2>1 DEF Pens
<1>6. \A x \in Devices \ {file} : device'[x] = device[x]
  BY <1>1 DEF Typing
<1> QED BY <1>5, <1>6 DEF GivenBack, BackInv

\* It holds before the library was used.
LEMMA BackInit == Init => BackInv
  BY DEF Init, BackInv, AttributesKnown, CursorReturns, GivenBack

\* Every step keeps what makes sure that the terminal comes back.
LEMMA BackStep ==
    ASSUME Resets, Typing, BackInv, [Next]_vars
    PROVE  BackInv'
<1>1. CASE UNCHANGED vars
  BY <1>1 DEF vars, library, BackInv, AttributesKnown, CursorReturns, GivenBack
<1>2. ASSUME NEW x \in Devices, NEW fails \in Failures \cup {Null}, TermInit(x, fails) PROVE BackInv'
  <2>1. ~initialised /\ attrs = Normal /\ attrs' = Normal /\ cursor' = cursor
    BY <1>2 DEF TermInit, BackInv, AttributesKnown
  <2>2. strings' # Null => strings'.sgr \/ strings'.sgr0
    <3>1. Strings(Describes[x]).sgr = Describes[x].sgr /\ Strings(Describes[x]).sgr0 = Describes[x].sgr0
      BY DescriptionsAssumption, StringsTyped
    <3>2. strings' = strings \/ strings' = Strings(Describes[x])
      BY <1>2, Enters
    <3> QED BY <3>1, <3>2 DEF Resets, BackInv, AttributesKnown
  <2>3. CASE initialised' = FALSE /\ device' = device
    BY <2>1, <2>2, <2>3 DEF BackInv, AttributesKnown, CursorReturns, GivenBack
  <2>4. CASE /\ initialised' = TRUE
             /\ file' \in Devices /\ strings' \in Descriptions \ {Null} /\ window' # "none"
             /\ device' = [device EXCEPT ![file'] =
                             [raw |-> TRUE, own |-> strings'.smcup, pen |-> device[file'].pen,
                              shown |-> cursor.shown \/ ~strings'.civis, at |-> cursor.at]]
    <3>1. device[file'].pen \in Pens
      BY <2>1, <2>4 DEF BackInv, GivenBack, Pens, AsFound
    <3>2. /\ device'[file'].pen \in Pens
          /\ device'[file'].shown = (cursor.shown \/ ~strings'.civis)
          /\ \A y \in Devices \ {file'} : device'[y] = device[y]
      BY <2>4, <3>1 DEF Typing
    <3>3. GivenBack'
      BY <2>1, <2>4, <3>2 DEF GivenBack, BackInv
    <3> QED BY <2>1, <2>2, <2>4, <3>2, <3>3 DEF BackInv, AttributesKnown, CursorReturns
  <2> QED BY <1>2, <2>3, <2>4, Enters
<1>3. CASE Restore
  <2>1. GivenBack'
    BY <1>3, LeftAsFound DEF Restore
  <2> QED BY <1>3, <2>1 DEF Restore, BackInv, AttributesKnown, CursorReturns
<1>4. CASE Deinit
  <2>1. CASE initialised
    <3>1. GivenBack'
      BY <1>4, <2>1, LeftAsFound DEF Deinit
    <3> QED BY <1>4, <2>1, <3>1 DEF Deinit, BackInv, AttributesKnown, CursorReturns
  <2>2. CASE ~initialised
    BY <1>4, <2>2 DEF Deinit, BackInv, AttributesKnown, CursorReturns, GivenBack
  <2> QED BY <2>1, <2>2
<1>5. ASSUME NEW x \in Columns, SetCursor(x) PROVE BackInv'
  BY <1>5 DEF SetCursor, library, BackInv, AttributesKnown, CursorReturns, GivenBack
<1>6. ASSUME NEW b \in BOOLEAN, ShowCursor(b) PROVE BackInv'
  BY <1>6 DEF ShowCursor, library, BackInv, AttributesKnown, CursorReturns, GivenBack
<1>7. CASE UpdateCursor
  <2>1. PICK u \in TermState :
          /\ device' = [device EXCEPT ![file] = u]
          /\ u.pen = device[file].pen
          /\ u.shown = IF strings.civis /\ cursor.shown # wanted.shown THEN wanted.shown
                       ELSE device[file].shown
          /\ cursor'.shown = wanted.shown
    BY <1>7, UpdatesCursor
  <2>2. /\ initialised /\ initialised' = initialised /\ file' = file /\ strings' = strings
        /\ attrs' = attrs
    BY <1>7 DEF UpdateCursor
  <2>3. /\ attrs' = Normal => u.pen \in Pens
        /\ u.shown \/ ~cursor'.shown
        /\ ~strings.civis => u.shown
    BY <2>1, <2>2 DEF BackInv, AttributesKnown, CursorReturns
  <2> QED BY <2>1, <2>2, <2>3, StillInUse
<1>8. ASSUME NEW a, NEW b, Update(a, b),
             \/ a = Null /\ b = Null
             \/ a \in Does[program].draws \cup {Null} /\ b \in Does[program].behind
      PROVE  BackInv'
  <2>1. PICK u \in TermState :
          /\ attrs' \in AttrSets
          /\ device' = [device EXCEPT ![file] = u]
          /\ \/ attrs' = attrs /\ u.pen = device[file].pen
             \/ u.pen = SetTo(device[file], attrs').pen
          /\ cursor'.shown = wanted.shown
          /\ u.shown = IF strings.civis THEN wanted.shown \/ (device[file].shown /\ ~cursor.shown)
                       ELSE device[file].shown
    BY <1>8, Updates
  <2>2. initialised /\ initialised' = initialised /\ file' = file /\ strings' = strings
    BY <1>8 DEF Update
  <2>3. attrs' = Normal => u.pen \in Pens
    BY <2>1, <2>2, NormalPens DEF BackInv, AttributesKnown
  <2>4. u.shown \/ ~cursor'.shown
    BY <2>1, <2>2 DEF BackInv, CursorReturns
  <2>5. ~strings.civis => u.shown
    BY <2>1, <2>2 DEF BackInv, CursorReturns
  <2> QED BY <2>1, <2>2, <2>3, <2>4, <2>5, StillInUse
<1>9. CASE Redraw
  <2>1. PICK u \in TermState :
          /\ device' = [device EXCEPT ![file] = u]
          /\ u.shown = device[file].shown
          /\ u.pen = SetTo(device[file], Normal).pen
    BY <1>9, Redraws
  <2>2. /\ initialised /\ initialised' = initialised /\ file' = file /\ strings' = strings
        /\ cursor'.shown = cursor.shown
    BY <1>9 DEF Redraw, Typing, CursorState
  <2>3. u.pen \in Pens
    BY <2>1, <2>2, NormalPens, NormalTyped
  <2> QED BY <2>1, <2>2, <2>3, StillInUse DEF BackInv, CursorReturns
<1> QED BY <1>1, <1>2, <1>3, <1>4, <1>5, <1>6, <1>7, <1>8, <1>9 DEF Next

\* Wherever a terminal can reset its attributes, it is left in the mode, with the screen,
\* the attributes and the cursor it was found with, by t3_term_restore, by t3_term_deinit,
\* and by each t3_term_init that fails, at whichever call.
THEOREM TerminalGivenBack ==
    ASSUME Resets
    PROVE  Spec => []GivenBack
<1>1. Typing /\ BackInv /\ [Next]_vars => BackInv'
  BY BackStep
<1>2. BackInv => GivenBack
  BY DEF BackInv
<1> QED BY <1>1, <1>2, BackInit, TypingInvariant, PTL DEF Spec

-----------------------------------------------------------------------------
(* The cursor is where the library takes it to be.  t3_term_redraw moves it to the first   *)
(* column and notes the column after the one it is wanted at: that is where a program      *)
(* that both redraws and moves the cursor gets into difficulties, and so it is assumed     *)
(* that none does.                                                                         *)

Careful == \A p \in Programs : Does[p].redraws => Does[p].moves \subseteq {0}

RedrawsAtHome == Does[program].redraws => wanted.at = 0 /\ cursor.at \in {0, 1}
CursorKnown ==
    initialised /\ strings.civis =>
        /\ device[file].shown = cursor.shown
        /\ cursor.shown => IF Does[program].redraws
                           THEN cursor.at = 1 \/ (cursor.at = 0 /\ device[file].at = 0)
                           ELSE device[file].at = cursor.at
CursorInv == RedrawsAtHome /\ CursorKnown

\* It holds before the library was used.
LEMMA CursorInit == Init => CursorInv
<1> SUFFICES ASSUME Init PROVE CursorInv
  OBVIOUS
<1>1. initialised = FALSE /\ cursor.at = 0 /\ wanted.at = 0
  BY DEF Init
<1> QED BY <1>1 DEF CursorInv, RedrawsAtHome, CursorKnown

\* Every step keeps what is known of the cursor.
LEMMA CursorStep ==
    ASSUME Careful, Typing, CursorInv, [Next]_vars
    PROVE  CursorInv'
<1>1. CASE UNCHANGED vars
  BY <1>1 DEF vars, library, CursorInv, RedrawsAtHome, CursorKnown
<1>2. ASSUME NEW x \in Devices, NEW fails \in Failures \cup {Null}, TermInit(x, fails) PROVE CursorInv'
  <2>1. program' = program /\ cursor' = cursor /\ wanted' = wanted
    BY <1>2 DEF TermInit
  <2>2. CASE initialised' = FALSE
    BY <2>1, <2>2 DEF CursorInv, RedrawsAtHome, CursorKnown
  <2>3. CASE /\ initialised' = TRUE
             /\ file' \in Devices /\ strings' \in Descriptions \ {Null} /\ window' # "none"
             /\ device' = [device EXCEPT ![file'] =
                             [raw |-> TRUE, own |-> strings'.smcup, pen |-> device[file'].pen,
                              shown |-> cursor.shown \/ ~strings'.civis, at |-> cursor.at]]
    <3>1. device'[file'].shown = (cursor.shown \/ ~strings'.civis) /\ device'[file'].at = cursor.at
      BY <2>3 DEF Typing
    <3>2. cursor.shown \in BOOLEAN
      BY DEF Typing, CursorState
    <3> QED BY <2>1, <3>1, <3>2 DEF CursorInv, RedrawsAtHome, CursorKnown
  <2> QED BY <1>2, <2>2, <2>3, Enters
<1>3. CASE Restore
  BY <1>3 DEF Restore, CursorInv, RedrawsAtHome, CursorKnown
<1>4. CASE Deinit
  BY <1>4 DEF Deinit, CursorInv, RedrawsAtHome, CursorKnown
<1>5. ASSUME NEW x \in Columns, SetCursor(x) PROVE CursorInv'
  <2>1. Does[program].redraws => x = 0
    BY <1>5 DEF SetCursor, Careful, Typing
  <2>2. wanted'.at = x
    BY <1>5 DEF SetCursor, Typing, CursorState
  <2> QED BY <1>5, <2>1, <2>2 DEF SetCursor, library, CursorInv, RedrawsAtHome, CursorKnown
<1>6. ASSUME NEW b \in BOOLEAN, ShowCursor(b) PROVE CursorInv'
  <2>1. wanted'.at = wanted.at
    BY <1>6 DEF ShowCursor, Typing, CursorState
  <2> QED BY <1>6, <2>1 DEF ShowCursor, library, CursorInv, RedrawsAtHome, CursorKnown
<1>7. CASE UpdateCursor
  <2>1. PICK u \in TermState :
          /\ device' = [device EXCEPT ![file] = u]
          /\ u.shown = IF strings.civis /\ cursor.shown # wanted.shown THEN wanted.shown
                       ELSE device[file].shown
          /\ cursor'.shown = wanted.shown
          /\ \/ u.at = wanted.at /\ cursor'.at = wanted.at
             \/ /\ u.at = device[file].at /\ cursor'.at = cursor.at
                /\ ~wanted.shown \/ (cursor.shown /\ cursor.at = wanted.at)
             \/ u.at = device[file].at /\ cursor'.at = cursor.at /\ ~wanted.shown
    BY <1>7, UpdatesCursor
  <2>2. /\ initialised /\ initialised' = initialised /\ file' = file /\ strings' = strings
        /\ program' = program /\ wanted' = wanted /\ file \in Devices
    BY <1>7 DEF UpdateCursor, Typing
  <2>3. device'[file'] = u
    BY <2>1, <2>2 DEF Typing
  <2> QED BY <2>1, <2>2, <2>3 DEF CursorInv, RedrawsAtHome, CursorKnown
<1>8. ASSUME NEW a, NEW b, Update(a, b),
             \/ a = Null /\ b = Null
             \/ a \in Does[program].draws \cup {Null} /\ b \in Does[program].behind
      PROVE  CursorInv'
  <2>1. PICK u \in TermState :
          /\ device' = [device EXCEPT ![file] = u]
          /\ cursor'.shown = wanted.shown
          /\ IF strings.civis
             THEN /\ u.shown = (wanted.shown \/ (device[file].shown /\ ~cursor.shown))
                  /\ wanted.shown =>
                       \/ u.at = wanted.at
                       \/ cursor.shown /\ cursor.at = wanted.at /\ u.at = device[file].at
                  /\ cursor'.at = IF wanted.shown THEN wanted.at ELSE cursor.at
             ELSE cursor'.at = cursor.at
    BY <1>8, Updates
  <2>2. /\ initialised /\ initialised' = initialised /\ file' = file /\ strings' = strings
        /\ program' = program /\ wanted' = wanted /\ file \in Devices
    BY <1>8 DEF Update, Typing
  <2>3. device'[file'] = u
    BY <2>1, <2>2 DEF Typing
  <2>4. strings.civis => u.shown = wanted.shown
    <3>1. wanted.shown \in BOOLEAN /\ cursor.shown \in BOOLEAN
      BY DEF Typing, CursorState
    <3>2. strings.civis => device[file].shown = cursor.shown
      BY <2>2 DEF CursorInv, CursorKnown
    <3> QED BY <2>1, <3>1, <3>2
  <2> QED BY <2>1, <2>2, <2>3, <2>4 DEF CursorInv, RedrawsAtHome, CursorKnown
<1>9. CASE Redraw
  <2>1. PICK u \in TermState :
          device' = [device EXCEPT ![file] = u] /\ u.shown = device[file].shown /\ u.at = 0
    BY <1>9, Redraws DEF Home
  <2>2. /\ initialised /\ initialised' = initialised /\ file' = file /\ strings' = strings
        /\ program' = program /\ wanted' = wanted /\ file \in Devices /\ Does[program].redraws
    BY <1>9 DEF Redraw, Typing
  <2>3. /\ cursor'.shown = cursor.shown
        /\ cursor'.at = cursor.at \/ cursor'.at = wanted.at + 1
    BY <1>9 DEF Redraw, Typing, CursorState
  <2>4. device'[file'] = u
    BY <2>1, <2>2 DEF Typing
  <2> QED BY <2>1, <2>2, <2>3, <2>4 DEF CursorInv, RedrawsAtHome, CursorKnown
<1> QED BY <1>1, <1>2, <1>3, <1>4, <1>5, <1>6, <1>7, <1>8, <1>9 DEF Next

\* For programs that do not both redraw and move the cursor, and for any number of columns:
\* the library never takes the cursor for updated when it is not.
THEOREM CursorIsThere ==
    ASSUME Careful
    PROVE  Spec => []CursorFollows
<1>1. Typing /\ CursorInv /\ [Next]_vars => CursorInv'
  BY CursorStep
<1>2. CursorInv => CursorFollows
  BY DEF CursorInv, RedrawsAtHome, CursorKnown, CursorFollows
<1> QED BY <1>1, <1>2, CursorInit, TypingInvariant, PTL DEF Spec

-----------------------------------------------------------------------------
(* The terminal prints with the attributes that the library believes in.                  *)

\* What descriptions of terminals say: a string that ends both underlining and the alternate
\* character set ends neither alone, and where colours can be taken back, they can be set.
Coherent ==
    \A x \in Devices : LET d == Asked(Describes[x]) IN
        /\ (\E f \in Exits : d.off[f] = "same") => \A f \in Exits : d.off[f] = "same"
        /\ d.colors > 0 /\ d.op # "none" /\ ~d.scp => d.setfg # "none" /\ d.setbg # "none"

HasColours(d) == d.colors > 0 /\ d.op # "none" /\ ~d.scp
\* What init_sequences makes of such a description: what cannot be ended alone is in the mask,
\* and what is taken for ANSI can be shown.
Fitting(d, g) ==
    /\ d \in Descriptions /\ g \in Settled
    /\ d.sgr \/ d.sgr0
    /\ \A f \in NoExits : f \in g.mask
    /\ \A f \in Exits : IF d.on[f] = "none" THEN d.off[f] = "none"
                        ELSE d.off[f] \in {"ansi", "own"} \/ f \in g.mask
    /\ \A f \in Flags : f \in g.ansi => d.on[f] # "none"
    /\ HasColours(d) => d.setfg # "none" /\ d.setbg # "none"

LEMMA ReadFitting ==
    ASSUME Resets, Coherent, Typing, initialised, Fresh
    PROVE  Fitting(strings, known)
<1> DEFINE D == Describes[file]
           d == Asked(D)
           i == InitSequences(Uninitialised, D)
<1>1. file \in Devices /\ strings \in Descriptions /\ known \in Settled
  BY DEF Typing
<1>2. D \in Descriptions /\ (D.sgr \/ D.sgr0)
  BY <1>1, DescriptionsAssumption DEF Resets
<1>3. strings = d /\ d \in Descriptions /\ (d.sgr \/ d.sgr0)
  <2>1. Strings(D) = d
    BY <1>2 DEF Strings
  <2> QED BY <1>2, <2>1, AskedTyped DEF Fresh
<1>4. /\ (\E f \in Exits : d.off[f] = "same") => \A f \in Exits : d.off[f] = "same"
      /\ HasColours(d) => d.setfg # "none" /\ d.setbg # "none"
  BY <1>1 DEF Coherent, HasColours
<1>5. \A f \in Exits : d.on[f] = "none" => d.off[f] = "none"
  <2> DEFINE on == [D.on EXCEPT !["acs"] = IF D.name = "ansi" THEN "none" ELSE @]
             off == [f \in Exits |-> IF on[f] = "none" THEN "none" ELSE D.off[f]]
  <2>1. d.on = on /\ d.off = off
    BY <1>2 DEF Asked, Descriptions
  <2> HIDE DEF on
  <2> QED BY <2>1
<1>6. /\ i.mask = NoExits \cup NeedReset(d)
      /\ i.ansi = DetectAnsi({}, d)
  BY <1>2 DEF InitSequences, Uninitialised
<1>7. known.mask = i.mask /\ (known.ansi = i.ansi \/ known.ansi = {})
  <2>1. known = IF Does[program].plain THEN [i EXCEPT !.ansi = {}] ELSE i
    BY DEF Fresh, Settings
  <2>2. i = [ansi |-> i.ansi, mask |-> i.mask, ncv |-> i.ncv]
    BY DEF InitSequences
  <2> HIDE DEF i
  <2>3. [i EXCEPT !.ansi = {}].mask = i.mask /\ [i EXCEPT !.ansi = {}].ansi = {}
    BY <2>2
  <2> QED BY <2>1, <2>3
<1> HIDE DEF i, D
<1>8. \A f \in Flags : f \in DetectAnsi({}, d) => d.on[f] # "none"
  <2>1. \A f \in Flags : f # "colours"
    BY DEF Flags
  <2> QED BY <2>1 DEF DetectAnsi, AnsiColours, AnsiExits, Flags
<1>9. ASSUME NEW f \in Exits, d.on[f] # "none" PROVE d.off[f] \in {"ansi", "own"} \/ f \in NeedReset(d)
  <2>1. d.off[f] \in {"none", "ansi", "own", "reset", "same"}
    BY <1>3 DEF Descriptions, Entries
  <2> QED BY <1>4, <1>9, <2>1 DEF NeedReset
<1> HIDE DEF d
<1> QED BY <1>1, <1>3, <1>4, <1>5, <1>6, <1>7, <1>8, <1>9 DEF Fitting

\* As Blurred, for the settings g; and the two halves of PrintsAsBelieved.
Blur(g) == IF {"bold", "dim"} \cap g.ansi = {} THEN {} ELSE {"bold", "dim"}
FlagsShown(s, d, g) ==
    \A f \in Flags : f \in Blur(g) \/ (f \in s.pen.flags <=> f \in s.attrs.flags /\ d.on[f] # "none")
ColoursShown(s, d) ==
    HasColours(d) => s.pen.fg = Plainly(s.attrs.fg) /\ s.pen.bg = Plainly(s.attrs.bg)

\* What set_attrs_non_ansi has done: flags that are not ANSI are as asked for.
FlagsPartly(s, new, d, g) ==
    \A f \in Flags :
        \/ f \in Blur(g)
        \/ f \in s.pen.flags <=> f \in (IF f \in g.ansi THEN s.attrs ELSE new).flags /\ d.on[f] # "none"

\* No flag in the mask is left to turn off.
NoneToReset(s, new, g) == \A f \in g.mask : f \in s.attrs.flags /\ f \notin g.ansi => f \in new.flags

\* Resetting, with sgr or sgr0, leaves the terminal as the library believes.
LEMMA ResetShows ==
    ASSUME NEW d, NEW g, Fitting(d, g), NEW s \in Both, NEW new \in AttrSets,
           FlagsShown(s, d, g), ColoursShown(s, d)
    PROVE  LET t == ResetFlags(s, new, d, g) IN
           t \in Both /\ FlagsShown(t, d, g) /\ ColoursShown(t, d) /\ NoneToReset(t, new, g)
<1> DEFINE t == ResetFlags(s, new, d, g)
           recoloured == [new EXCEPT !.fg = Default, !.bg = Default]
           reset == ((s.attrs.flags \ g.ansi) \ new.flags) \cap g.mask
<1> SUFFICES t \in Both /\ FlagsShown(t, d, g) /\ ColoursShown(t, d) /\ NoneToReset(t, new, g)
  OBVIOUS
<1>1. new.flags \subseteq Flags /\ s.attrs.flags \subseteq Flags
  BY DEF Both, AttrSets
<1>2. CASE reset = {}
  <2>1. t = s
    BY <1>2 DEF ResetFlags
  <2> HIDE DEF t
  <2> QED BY <1>2, <2>1 DEF NoneToReset
<1>3. CASE reset # {} /\ d.sgr
  <2>1. t = [attrs |-> recoloured, pen |-> Sgr(new.flags, d)]
    BY <1>3 DEF ResetFlags
  <2>2. recoloured \in AttrSets /\ recoloured.flags = new.flags
        /\ recoloured.fg = Default /\ recoloured.bg = Default
    <3> DEFINE half == [new EXCEPT !.fg = Default]
    <3>1. half \in AttrSets /\ half.flags = new.flags /\ half.fg = Default
      BY DEF AttrSets, Default
    <3>2. recoloured = [half EXCEPT !.bg = Default]
      OBVIOUS
    <3> HIDE DEF half, recoloured
    <3> QED BY <3>1, <3>2 DEF AttrSets, Default
  <2>3. Sgr(new.flags, d) = [flags |-> {f \in new.flags : d.on[f] # "none"}, fg |-> 0, bg |-> 0, set |-> {}]
    BY DEF Sgr, Attr, Unspec
  <2> HIDE DEF recoloured, t
  <2>4. Sgr(new.flags, d) \in AttrSets
    BY <1>1, <2>3 DEF AttrSets
  <2>5. t \in Both /\ t.attrs = recoloured /\ t.pen = Sgr(new.flags, d)
    BY <2>1, <2>2, <2>4 DEF Both
  <2>6. FlagsShown(t, d, g)
    BY <2>2, <2>3, <2>5 DEF FlagsShown
  <2>7. ColoursShown(t, d)
    BY <2>2, <2>3, <2>5 DEF ColoursShown, Plainly, Unspec
  <2>8. NoneToReset(t, new, g)
    BY <2>2, <2>5 DEF NoneToReset
  <2> QED BY <2>5, <2>6, <2>7, <2>8
<1>4. CASE reset # {} /\ ~d.sgr
  <2>1. t = [attrs |-> Normal, pen |-> Normal]
    BY <1>4 DEF ResetFlags
  <2>2. t \in Both /\ t.attrs = Normal /\ t.pen = Normal
    BY <2>1, NormalTyped DEF Both
  <2> HIDE DEF t
  <2>3. Normal.flags = {} /\ Normal.fg = Unspec /\ Normal.bg = Unspec
    BY DEF Normal, Attr
  <2>4. FlagsShown(t, d, g) /\ NoneToReset(t, new, g)
    BY <2>2, <2>3 DEF FlagsShown, NoneToReset
  <2>5. ColoursShown(t, d)
    BY <2>2, <2>3 DEF ColoursShown, Plainly, Unspec, Default
  <2> QED BY <2>2, <2>4, <2>5
<1> QED BY <1>2, <1>3, <1>4

\* Changing the flags one by one, with none to reset, ends none but those that are to end.
LEMMA ChangeShows ==
    ASSUME NEW d, NEW g, Fitting(d, g), NEW s \in Both, NEW new \in AttrSets,
           FlagsShown(s, d, g), NoneToReset(s, new, g)
    PROVE  LET t == ChangeFlags(s, new, d, g) IN
           /\ FlagsPartly(t, new, d, g) /\ t.attrs = s.attrs
           /\ t.pen.fg = s.pen.fg /\ t.pen.bg = s.pen.bg
<1> DEFINE changed == ((s.attrs.flags \ new.flags) \cup (new.flags \ s.attrs.flags)) \ g.ansi
           Switch(pen, f) == IF f \notin changed THEN pen
                             ELSE IF f \in new.flags THEN TurnOn(pen, f, d) ELSE TurnOff(pen, f, d)
           first == Switch(s.pen, "underline")
           middle == [first EXCEPT !.flags = @ \cup {f \in changed \cap NoExits : d.on[f] # "none"}]
           last == Switch(middle, "acs")
           t == ChangeFlags(s, new, d, g)
<1> SUFFICES /\ FlagsPartly(t, new, d, g) /\ t.attrs = s.attrs
             /\ t.pen.fg = s.pen.fg /\ t.pen.bg = s.pen.bg
  OBVIOUS
<1>1. t = [s EXCEPT !.pen = last]
  BY DEF ChangeFlags
<1>2. new.flags \subseteq Flags /\ s.attrs.flags \subseteq Flags /\ s.pen \in AttrSets
  BY DEF Both, AttrSets
<1>3. \A f : f \in changed <=> f \notin g.ansi /\ ((f \in new.flags) # (f \in s.attrs.flags))
  OBVIOUS
<1> HIDE DEF changed
<1>4. ASSUME NEW pen \in AttrSets, NEW f \in Exits
      PROVE  /\ Switch(pen, f) \in AttrSets /\ Switch(pen, f).fg = pen.fg /\ Switch(pen, f).bg = pen.bg
             /\ \A h \in Flags \ {f} : h \in Switch(pen, f).flags <=> h \in pen.flags
             /\ f \notin changed => (f \in Switch(pen, f).flags <=> f \in pen.flags)
             /\ f \in changed /\ d.on[f] # "none" => (f \in Switch(pen, f).flags <=> f \in new.flags)
             /\ d.on[f] = "none" => (f \in Switch(pen, f).flags <=> f \in pen.flags)
  <2>1. f \in Flags
    BY DEF Exits, Flags
  <2>2. CASE f \notin changed
    BY <2>2
  <2>3. CASE f \in changed /\ f \in new.flags
    <3>1. Switch(pen, f) = IF d.on[f] = "none" THEN pen ELSE [pen EXCEPT !.flags = @ \cup {f}]
      BY <2>3 DEF TurnOn
    <3> HIDE DEF Switch
    <3> QED BY <2>1, <2>3, <3>1 DEF AttrSets
  <2>4. CASE f \in changed /\ f \notin new.flags
    <3>1. f \in s.attrs.flags /\ f \notin g.ansi /\ f \notin g.mask
      BY <1>3, <2>4 DEF NoneToReset
    <3>2. IF d.on[f] = "none" THEN d.off[f] = "none" ELSE d.off[f] \in {"ansi", "own"}
      BY <3>1 DEF Fitting
    <3>3. Switch(pen, f) = IF d.on[f] = "none" THEN pen ELSE [pen EXCEPT !.flags = @ \ {f}]
      BY <2>4, <3>2 DEF TurnOff
    <3> HIDE DEF Switch
    <3> QED BY <2>1, <2>4, <3>3 DEF AttrSets
  <2> QED BY <2>2, <2>3, <2>4
<1> HIDE DEF Switch, t
<1>5. first \in AttrSets /\ first.fg = s.pen.fg /\ first.bg = s.pen.bg
  BY <1>2, <1>4 DEF Exits
<1>6. /\ middle \in AttrSets /\ middle.fg = first.fg /\ middle.bg = first.bg
      /\ middle.flags = first.flags \cup {f \in changed \cap NoExits : d.on[f] # "none"}
  <2> HIDE DEF first
  <2> QED BY <1>5 DEF AttrSets, NoExits
<1>7. last \in AttrSets /\ last.fg = middle.fg /\ last.bg = middle.bg
  <2> HIDE DEF middle
  <2> QED BY <1>4, <1>6 DEF Exits
<1>8. t.attrs = s.attrs /\ t.pen = last
  <2> HIDE DEF last
  <2> QED BY <1>1 DEF Both
<1>9. ASSUME NEW f \in Flags
      PROVE  \/ f \in Blur(g)
             \/ f \in last.flags <=> f \in (IF f \in g.ansi THEN s.attrs ELSE new).flags /\ d.on[f] # "none"
  <2>1. f \in Blur(g) \/ (f \in s.pen.flags <=> f \in s.attrs.flags /\ d.on[f] # "none")
    BY DEF FlagsShown
  <2>2. CASE f = "underline"
    <3>1. f \in Exits /\ f \notin NoExits /\ "acs" \in Exits /\ f # "acs"
      BY <2>2 DEF Exits, NoExits
    <3>2. f \in last.flags <=> f \in first.flags
      <4> HIDE DEF first
      <4>1. f \in middle.flags <=> f \in first.flags
        BY <1>6, <3>1
      <4> HIDE DEF middle
      <4> QED BY <1>4, <1>6, <3>1, <4>1
    <3>3. /\ f \notin changed \/ d.on[f] = "none" => (f \in first.flags <=> f \in s.pen.flags)
          /\ f \in changed /\ d.on[f] # "none" => (f \in first.flags <=> f \in new.flags)
      BY <1>2, <1>4, <2>2, <3>1
    <3> HIDE DEF first, last
    <3> QED BY <1>3, <2>1, <3>2, <3>3
  <2>3. CASE f = "acs"
    <3>1. f \in Exits /\ f \notin NoExits /\ "underline" \in Exits /\ f # "underline"
      BY <2>3 DEF Exits, NoExits
    <3>2. f \in middle.flags <=> f \in s.pen.flags
      <4>1. f \in first.flags <=> f \in s.pen.flags
        BY <1>2, <1>4, <3>1
      <4> HIDE DEF first
      <4> QED BY <1>6, <3>1, <4>1
    <3> HIDE DEF middle
    <3>3. /\ f \notin changed \/ d.on[f] = "none" => (f \in last.flags <=> f \in middle.flags)
          /\ f \in changed /\ d.on[f] # "none" => (f \in last.flags <=> f \in new.flags)
      BY <1>4, <1>6, <2>3, <3>1
    <3> HIDE DEF last
    <3> QED BY <1>3, <2>1, <3>2, <3>3
  <2>4. CASE f \notin Exits
    <3>1. f \in NoExits /\ f \in g.mask /\ "underline" \in Exits /\ "acs" \in Exits
      BY <2>4 DEF Exits, NoExits, Fitting
    <3>2. f \in s.attrs.flags /\ f \notin g.ansi => f \in new.flags
      BY <3>1 DEF NoneToReset
    <3>3. f \in first.flags <=> f \in s.pen.flags
      BY <1>2, <1>4, <2>4, <3>1
    <3>4. f \in last.flags <=> f \in middle.flags
      <4> HIDE DEF middle
      <4> QED BY <1>4, <1>6, <2>4, <3>1
    <3> HIDE DEF first, last
    <3>5. f \in middle.flags <=> f \in first.flags \/ (f \in changed /\ d.on[f] # "none")
      BY <1>6, <3>1
    <3> HIDE DEF middle
    <3> QED BY <1>3, <2>1, <3>2, <3>3, <3>4, <3>5
  <2> QED BY <2>2, <2>3, <2>4 DEF Exits
<1> HIDE DEF last
<1> QED BY <1>5, <1>6, <1>7, <1>8, <1>9 DEF FlagsPartly

\* The pen has the colours that new asks for.
ColoursAre(s, new, d) == HasColours(d) => s.pen.fg = Plainly(new.fg) /\ s.pen.bg = Plainly(new.bg)

Repainted(s, fg, bg) == [s EXCEPT !.pen.fg = fg, !.pen.bg = bg]

\* Changing the colours one by one, where both may be reset at once by op.
LEMMA ColoursShow ==
    ASSUME NEW d, NEW g, Fitting(d, g), NEW s \in Both, NEW new \in AttrSets, ColoursShown(s, d)
    PROVE  LET t == ChangeColours(s, new, d) IN
           /\ t.pen.flags = s.pen.flags /\ t.attrs.flags = s.attrs.flags
           /\ ColoursAre(t, new, d)
<1> DEFINE u == ChangeColours(s, new, d)
           want == [new EXCEPT !.fg = Plainly(@), !.bg = Plainly(@)]
           t == DefaultColours(s, want, d)
           Set(old, c, has, now) == IF old # c /\ c # Unspec /\ has THEN c ELSE now
<1> SUFFICES u.pen.flags = s.pen.flags /\ u.attrs.flags = s.attrs.flags /\ ColoursAre(u, new, d)
  OBVIOUS
<1>1. want \in AttrSets /\ want.fg = Plainly(new.fg) /\ want.bg = Plainly(new.bg)
  <2>1. Plainly(new.fg) \in Int /\ Plainly(new.bg) \in Int
    BY DEF AttrSets, Plainly, Unspec
  <2> DEFINE half == [new EXCEPT !.fg = Plainly(@)]
  <2>2. half \in AttrSets /\ half.fg = Plainly(new.fg) /\ half.bg = new.bg
    BY <2>1 DEF AttrSets
  <2>3. want = [half EXCEPT !.bg = Plainly(@)]
    OBVIOUS
  <2> HIDE DEF half, want
  <2> QED BY <2>1, <2>2, <2>3 DEF AttrSets
<1>2. want.fg # Default /\ want.bg # Default
  BY <1>1 DEF Plainly, Unspec, Default
<1>3. Plainly(want.fg) = want.fg /\ Plainly(want.bg) = want.bg
  BY <1>2 DEF Plainly
<1> HIDE DEF want
<1>4. ASSUME NEW v \in Both, NEW fg \in Int, NEW bg \in Int, NEW w, w = Repainted(v, fg, bg)
      PROVE  /\ w.pen.flags = v.pen.flags /\ w.attrs = v.attrs
             /\ w.pen.fg = fg /\ w.pen.bg = bg
  <2> DEFINE p1 == [v.pen EXCEPT !.fg = fg]
             p2 == [p1 EXCEPT !.bg = bg]
  <2>1. p1 \in AttrSets /\ p1.flags = v.pen.flags /\ p1.fg = fg
    BY DEF Both, AttrSets
  <2>2. w = [v EXCEPT !.pen = p2]
    BY <1>4 DEF Both, AttrSets, Repainted
  <2> HIDE DEF p1
  <2>3. p2 \in AttrSets /\ p2.flags = v.pen.flags /\ p2.fg = fg /\ p2.bg = bg
    BY <2>1 DEF AttrSets
  <2> HIDE DEF p2
  <2> QED BY <2>2, <2>3 DEF Both
<1>5. CASE d.scp
  <2> DEFINE fg == IF want.fg = Unspec /\ d.op = "none" THEN s.pen.fg ELSE want.fg
  <2>1. u = Repainted(s, fg, Unspec)
    BY <1>5 DEF ChangeColours, want, Repainted
  <2>2. fg \in Int /\ Unspec \in Int
    BY <1>1 DEF Both, AttrSets, Unspec
  <2> HIDE DEF fg, u
  <2>3. u.pen.flags = s.pen.flags /\ u.attrs = s.attrs
    BY <1>4, <2>1, <2>2
  <2> QED BY <1>5, <2>3 DEF ColoursAre, HasColours
<1>6. CASE ~d.scp
  <2> DEFINE reset == d.op # "none" /\ \/ s.attrs.fg # want.fg /\ want.fg = Unspec
                                       \/ s.attrs.bg # want.bg /\ want.bg = Unspec
  <2>1. t = IF reset THEN [attrs |-> [s.attrs EXCEPT !.fg = Unspec, !.bg = Unspec],
                           pen |-> Attr(s.pen.flags, Unspec, Unspec)]
            ELSE s
    BY DEF DefaultColours
  <2>2. /\ t \in Both /\ t.pen.flags = s.pen.flags /\ t.attrs.flags = s.attrs.flags
        /\ reset => /\ t.attrs.fg = Unspec /\ t.attrs.bg = Unspec
                    /\ t.pen.fg = Unspec /\ t.pen.bg = Unspec
        /\ ~reset => t = s
    <3>1. CASE ~reset
      BY <2>1, <3>1
    <3>2. CASE reset
      <4> DEFINE a1 == [s.attrs EXCEPT !.fg = Unspec]
                 a2 == [a1 EXCEPT !.bg = Unspec]
      <4>1. a1 \in AttrSets /\ a1.flags = s.attrs.flags /\ a1.fg = Unspec
        BY DEF Both, AttrSets, Unspec
      <4>2. t = [attrs |-> a2, pen |-> Attr(s.pen.flags, Unspec, Unspec)]
        BY <2>1, <3>2
      <4> HIDE DEF a1
      <4>3. a2 \in AttrSets /\ a2.flags = s.attrs.flags /\ a2.fg = Unspec /\ a2.bg = Unspec
        BY <4>1 DEF AttrSets, Unspec
      <4>4. Attr(s.pen.flags, Unspec, Unspec) \in AttrSets
        BY DEF Attr, AttrSets, Both, Unspec
      <4> HIDE DEF a2, t, reset
      <4> QED BY <3>2, <4>2, <4>3, <4>4 DEF Both, Attr
    <3> QED BY <3>1, <3>2
  <2> DEFINE fg == Set(t.attrs.fg, want.fg, d.setfg # "none", t.pen.fg)
             bg == Set(t.attrs.bg, want.bg, d.setbg # "none", t.pen.bg)
  <2>3. u = Repainted(t, fg, bg)
    BY <1>6 DEF ChangeColours, want, Repainted
  <2> HIDE DEF t, u
  <2>4. fg \in Int /\ bg \in Int
    BY <1>1, <2>2 DEF Both, AttrSets
  <2> HIDE DEF fg, bg
  <2>5. u.pen.flags = t.pen.flags /\ u.attrs = t.attrs /\ u.pen.fg = fg /\ u.pen.bg = bg
    BY <1>4, <2>2, <2>3, <2>4
  <2>6. ASSUME HasColours(d) PROVE fg = want.fg /\ bg = want.bg
    <3>1. d.op # "none" /\ d.setfg # "none" /\ d.setbg # "none"
      BY <2>6 DEF HasColours, Fitting
    <3>2. s.pen.fg = Plainly(s.attrs.fg) /\ s.pen.bg = Plainly(s.attrs.bg)
      BY <2>6 DEF ColoursShown
    <3>3. CASE reset
      BY <2>2, <3>1, <3>3 DEF fg, bg
    <3>4. CASE ~reset
      <4>1. /\ s.attrs.fg = want.fg \/ want.fg # Unspec
            /\ s.attrs.bg = want.bg \/ want.bg # Unspec
        BY <3>1, <3>4
      <4>2. t = s
        BY <2>2, <3>4
      <4> HIDE DEF reset
      <4> QED BY <1>3, <3>1, <3>2, <4>1, <4>2 DEF fg, bg
    <3> QED BY <3>3, <3>4
  <2> QED BY <1>1, <2>2, <2>5, <2>6 DEF ColoursAre
<1> QED BY <1>5, <1>6

\* The ANSI string at the end does what is left, and no more.
LEMMA AnsiShows ==
    ASSUME NEW d, NEW g, Fitting(d, g), NEW s \in Both, NEW new \in AttrSets,
           FlagsPartly(s, new, d, g),
           IF "colours" \in g.ansi THEN ColoursShown(s, d) ELSE ColoursAre(s, new, d)
    PROVE  LET t == SetAnsi(s, new, g) IN FlagsShown(t, d, g) /\ ColoursShown(t, d)
<1> DEFINE changed == ((s.attrs.flags \ new.flags) \cup (new.flags \ s.attrs.flags)) \cap g.ansi
           flags == (s.pen.flags \ changed) \cup (new.flags \cap changed)
           pair == {"bold", "dim"}
           bright == IF changed \cap pair = {} THEN s.pen.flags \cap pair
                     ELSE IF "bold" \in new.flags THEN (s.pen.flags \cap pair) \cup {"bold"}
                     ELSE IF "dim" \in new.flags THEN (s.pen.flags \cap pair) \cup {"dim"}
                     ELSE {}
           Colour(old, c, now) == IF "colours" \in g.ansi /\ old # c THEN Plainly(c) ELSE now
           t == SetAnsi(s, new, g)
<1> SUFFICES FlagsShown(t, d, g) /\ ColoursShown(t, d)
  OBVIOUS
<1>1. /\ t.attrs = new /\ t.pen.flags = (flags \ pair) \cup bright
      /\ t.pen.fg = Colour(s.attrs.fg, new.fg, s.pen.fg)
      /\ t.pen.bg = Colour(s.attrs.bg, new.bg, s.pen.bg)
  BY DEF SetAnsi, Attr
<1> HIDE DEF t
<1>2. ASSUME NEW f \in Flags, f \notin Blur(g)
      PROVE  f \in t.pen.flags <=> f \in new.flags /\ d.on[f] # "none"
  <2>1. f \in t.pen.flags <=> f \in flags
    <3>1. CASE f \notin pair
      BY <1>1, <3>1
    <3>2. CASE f \in pair
      <4>1. pair \cap g.ansi = {}
        BY <1>2, <3>2 DEF Blur
      <4>2. changed \cap pair = {}
        BY <4>1
      <4> QED BY <1>1, <3>2, <4>2
    <3> QED BY <3>1, <3>2
  <2>2. f \in s.pen.flags <=> f \in (IF f \in g.ansi THEN s.attrs ELSE new).flags /\ d.on[f] # "none"
    BY <1>2 DEF FlagsPartly
  <2>3. f \in g.ansi => d.on[f] # "none"
    BY DEF Fitting
  <2> QED BY <2>1, <2>2, <2>3
<1>3. ColoursShown(t, d)
  BY <1>1 DEF ColoursShown, ColoursAre
<1> QED BY <1>1, <1>2, <1>3 DEF FlagsShown

\* set_attrs_non_ansi leaves to the ANSI string what is ANSI, and nothing else.
LEMMA NonAnsiShows ==
    ASSUME NEW d, NEW g, Fitting(d, g), NEW s \in Both, NEW new \in AttrSets,
           FlagsShown(s, d, g), ColoursShown(s, d)
    PROVE  LET t == SetNonAnsi(s, new, d, g) IN
           /\ t \in Both /\ FlagsPartly(t, new, d, g)
           /\ IF "colours" \in g.ansi THEN ColoursShown(t, d) ELSE ColoursAre(t, new, d)
<1> DEFINE r == ResetFlags(s, new, d, g)
           same == s.attrs.flags \ g.ansi = new.flags \ g.ansi
           t == IF same THEN s ELSE ChangeFlags(r, new, d, g)
           u == ChangeColours(t, new, d)
           e == SetNonAnsi(s, new, d, g)
<1> SUFFICES /\ e \in Both /\ FlagsPartly(e, new, d, g)
             /\ IF "colours" \in g.ansi THEN ColoursShown(e, d) ELSE ColoursAre(e, new, d)
  OBVIOUS
<1>1. d \in Descriptions /\ g \in Settled
  BY DEF Fitting
<1>2. e = IF "colours" \in g.ansi THEN t ELSE u
  BY DEF SetNonAnsi
<1>3. t \in Both
  BY <1>1, ChangeFlagsTyped
<1>4. FlagsPartly(t, new, d, g) /\ ColoursShown(t, d)
  <2>1. CASE same
    <3>1. t = s /\ \A f \in Flags \ g.ansi : f \in s.attrs.flags <=> f \in new.flags
      BY <2>1
    <3> HIDE DEF t
    <3> QED BY <3>1 DEF FlagsShown, FlagsPartly
  <2>2. CASE ~same
    <3>1. r \in Both /\ FlagsShown(r, d, g) /\ ColoursShown(r, d) /\ NoneToReset(r, new, g)
      BY ResetShows
    <3> HIDE DEF r
    <3>2. t = ChangeFlags(r, new, d, g)
      BY <2>2
    <3> HIDE DEF t
    <3>3. FlagsPartly(t, new, d, g) /\ t.attrs = r.attrs /\ t.pen.fg = r.pen.fg /\ t.pen.bg = r.pen.bg
      BY <3>1, <3>2, ChangeShows
    <3> QED BY <3>1, <3>3 DEF ColoursShown
  <2> QED BY <2>1, <2>2
<1> HIDE DEF t, e
<1>5. u \in Both
  BY <1>1, <1>3, ChangeColoursTyped
<1>6. u.pen.flags = t.pen.flags /\ u.attrs.flags = t.attrs.flags /\ ColoursAre(u, new, d)
  BY <1>3, <1>4, ColoursShow
<1> HIDE DEF u
<1>7. FlagsPartly(u, new, d, g)
  <2>1. \A f : f \in (IF f \in g.ansi THEN u.attrs ELSE new).flags
                  <=> f \in (IF f \in g.ansi THEN t.attrs ELSE new).flags
    BY <1>6
  <2> QED BY <1>4, <1>6, <2>1 DEF FlagsPartly
<1> QED BY <1>2, <1>3, <1>4, <1>5, <1>6, <1>7

\* _t3_set_attrs keeps the terminal printing as believed.
LEMMA SetShows ==
    ASSUME NEW d, NEW g, Fitting(d, g), NEW s \in Both, NEW new \in AttrSets,
           FlagsShown(s, d, g), ColoursShown(s, d)
    PROVE  LET t == SetAttrs(s, new, d, g) IN FlagsShown(t, d, g) /\ ColoursShown(t, d)
<1> DEFINE differ == \/ (s.attrs.flags \ g.ansi) # (new.flags \ g.ansi)
                     \/ "colours" \notin g.ansi /\ ~SameColours(s.attrs, new)
                     \/ s.attrs.set # new.set
           m == IF differ THEN SetNonAnsi(s, new, d, g) ELSE s
           t == SetAttrs(s, new, d, g)
<1> SUFFICES FlagsShown(t, d, g) /\ ColoursShown(t, d)
  OBVIOUS
<1>1. t = IF new = Normal /\ (s.attrs = Normal \/ d.sgr \/ d.sgr0)
          THEN IF s.attrs = Normal THEN s ELSE [attrs |-> Normal, pen |-> Normal]
          ELSE SetAnsi(m, new, g)
  BY DEF SetAttrs
<1> HIDE DEF t
<1>2. CASE t = s
  BY <1>2
<1>3. CASE t = [attrs |-> Normal, pen |-> Normal]
  <2>1. /\ t.attrs.flags = {} /\ t.pen.flags = {} /\ t.attrs.fg = 0 /\ t.attrs.bg = 0
        /\ t.pen.fg = 0 /\ t.pen.bg = 0
    BY <1>3 DEF Normal, Attr, Unspec
  <2> QED BY <2>1 DEF FlagsShown, ColoursShown, Plainly, Default
<1>4. CASE t = SetAnsi(m, new, g)
  <2>1. /\ m \in Both /\ FlagsPartly(m, new, d, g)
        /\ IF "colours" \in g.ansi THEN ColoursShown(m, d) ELSE ColoursAre(m, new, d)
    <3>1. CASE differ
      <4>1. m = SetNonAnsi(s, new, d, g)
        BY <3>1
      <4> HIDE DEF m, differ
      <4> QED BY <4>1, NonAnsiShows
    <3>2. CASE ~differ
      <4>1. m = s /\ s.attrs.flags \ g.ansi = new.flags \ g.ansi
            /\ ("colours" \notin g.ansi => s.attrs.fg = new.fg /\ s.attrs.bg = new.bg)
        BY <3>2 DEF SameColours
      <4>2. \A f \in Flags \ g.ansi : f \in s.attrs.flags <=> f \in new.flags
        BY <4>1
      <4> HIDE DEF m, differ
      <4>3. FlagsPartly(s, new, d, g)
        BY <4>2 DEF FlagsShown, FlagsPartly
      <4>4. "colours" \notin g.ansi => ColoursAre(s, new, d)
        BY <4>1 DEF ColoursShown, ColoursAre
      <4> QED BY <4>1, <4>3, <4>4
    <3> QED BY <3>1, <3>2
  <2> HIDE DEF m
  <2> QED BY <1>4, <2>1, AnsiShows
<1> QED BY <1>1, <1>2, <1>3, <1>4

\* Asking for the attributes that are believed to be set changes nothing, even with the
\* strings of another terminal.
LEMMA SetSame ==
    ASSUME NEW d, NEW g, NEW s \in Both
    PROVE  LET t == SetAttrs(s, s.attrs, d, g) IN
           /\ t.attrs = s.attrs /\ t.pen.flags = s.pen.flags
           /\ t.pen.fg = s.pen.fg /\ t.pen.bg = s.pen.bg
<1> DEFINE new == s.attrs
           t == SetAttrs(s, new, d, g)
<1> SUFFICES /\ t.attrs = s.attrs /\ t.pen.flags = s.pen.flags
             /\ t.pen.fg = s.pen.fg /\ t.pen.bg = s.pen.bg
  OBVIOUS
<1>1. t = s \/ t = SetAnsi(s, new, g)
  BY DEF SetAttrs, SameColours
<1>2. SetAnsi(s, new, g) = [attrs |-> new, pen |-> Attr(s.pen.flags, s.pen.fg, s.pen.bg)]
  <2> DEFINE changed == ((s.attrs.flags \ new.flags) \cup (new.flags \ s.attrs.flags)) \cap g.ansi
             pair == {"bold", "dim"}
  <2>1. changed = {}
    OBVIOUS
  <2>2. (((s.pen.flags \ changed) \cup (new.flags \cap changed)) \ pair)
           \cup (s.pen.flags \cap pair) = s.pen.flags
    BY <2>1
  <2>3. changed \cap pair = {}
    BY <2>1
  <2> QED BY <2>1, <2>2, <2>3 DEF SetAnsi
<1> HIDE DEF t
<1> QED BY <1>1, <1>2 DEF Attr

-----------------------------------------------------------------------------
\* The terminal in use prints as believed, as PrintsAsBelieved says.
Prints(s) ==
    /\ s.pen.flags \ Blurred = (s.attrs.flags \cap Shown) \ Blurred
    /\ ColoursShown(s, strings)
PrintsAs(pen, as) == pen # Garbled => Prints([attrs |-> as, pen |-> pen])

\* With its own strings, the terminal can show what these have an entry for.
LEMMA PrintsShown ==
    ASSUME Fitting(strings, known), NEW s \in Both
    PROVE  Prints(s) <=> FlagsShown(s, strings, known) /\ ColoursShown(s, strings)
<1>1. \A f \in Flags : f \in Shown <=> strings.on[f] # "none"
  BY DEF Shown, Fitting
<1>2. Blurred = Blur(known)
  BY DEF Blurred, Blur
<1>3. s.pen.flags \subseteq Flags /\ s.attrs.flags \subseteq Flags
  BY DEF Both, AttrSets
<1>4. s.pen.flags \ Blurred = (s.attrs.flags \cap Shown) \ Blurred <=> FlagsShown(s, strings, known)
  BY <1>1, <1>2, <1>3 DEF FlagsShown
<1> QED BY <1>4 DEF Prints

\* Setting the attributes of the terminal in use keeps that.
LEMMA SetToShows ==
    ASSUME Resets, Coherent, Typing, initialised, NEW t \in TermState, NEW new \in AttrSets,
           PrintsAs(t.pen, attrs)
    PROVE  PrintsAs(SetTo(t, new).pen, new)
<1> DEFINE s == [attrs |-> attrs, pen |-> t.pen]
           set == SetAttrs(s, new, strings, known)
<1>1. s \in Both /\ s.attrs = attrs /\ s.pen = t.pen
  BY DEF Typing, Both, TermState
<1>2. strings \in Descriptions /\ known \in Settled
  BY DEF Typing
<1>3. SetTo(t, new) = IF (Fresh /\ t.pen # Garbled) \/ new = attrs THEN set ELSE [set EXCEPT !.pen = Garbled]
  BY DEF SetTo
<1>4. t.pen # Garbled => Prints(s)
  BY DEF PrintsAs
<1> HIDE DEF s
<1>5. set \in Both /\ set.attrs = new
  BY <1>1, <1>2, SetAttrsTyped
<1>6. ASSUME Prints(set), SetTo(t, new) = set PROVE PrintsAs(SetTo(t, new).pen, new)
  BY <1>5, <1>6 DEF PrintsAs, Prints, ColoursShown
<1>7. CASE Fresh /\ t.pen # Garbled
  <2>1. Fitting(strings, known)
    BY <1>7, ReadFitting
  <2>2. FlagsShown(s, strings, known) /\ ColoursShown(s, strings)
    BY <1>1, <1>4, <1>7, <2>1, PrintsShown
  <2>3. FlagsShown(set, strings, known) /\ ColoursShown(set, strings)
    BY <1>1, <2>1, <2>2, SetShows
  <2>4. Prints(set)
    BY <1>5, <2>1, <2>3, PrintsShown
  <2> QED BY <1>3, <1>6, <1>7, <2>4
<1>8. CASE new = attrs
  <2>1. /\ set.attrs = s.attrs /\ set.pen.flags = s.pen.flags
        /\ set.pen.fg = s.pen.fg /\ set.pen.bg = s.pen.bg
    BY <1>1, <1>8, SetSame
  <2>2. CASE t.pen # Garbled
    <3>1. Prints(set)
      BY <1>4, <2>1, <2>2 DEF Prints, ColoursShown
    <3> QED BY <1>3, <1>6, <1>8, <3>1
  <2>3. CASE t.pen = Garbled
    <3>1. set = s \/ set = SetAnsi(s, new, known)
      BY <1>1, <1>8 DEF SetAttrs, SameColours
    <3>2. set.pen = Garbled
      <4>1. CASE set = s
        BY <1>1, <2>3, <4>1
      <4>2. CASE set = SetAnsi(s, new, known)
        <5>1. \E f, a, b : set.pen = Attr(f, a, b)
          BY <4>2 DEF SetAnsi
        <5>2. set.pen = Attr(set.pen.flags, set.pen.fg, set.pen.bg)
          BY <5>1 DEF Attr
        <5>3. s.pen.flags = {} /\ s.pen.fg = -1 /\ s.pen.bg = -1
          BY <1>1, <2>3 DEF Garbled, Attr
        <5> QED BY <2>1, <5>2, <5>3 DEF Garbled
      <4> QED BY <3>1, <4>1, <4>2
    <3> QED BY <1>3, <1>8, <3>2 DEF PrintsAs
  <2> QED BY <2>2, <2>3
<1>9. CASE ~(Fresh /\ t.pen # Garbled) /\ new # attrs
  <2>1. SetTo(t, new) = [set EXCEPT !.pen = Garbled]
    BY <1>3, <1>9
  <2>2. [set EXCEPT !.pen = Garbled].pen = Garbled
    BY <1>5 DEF Both
  <2> QED BY <2>1, <2>2 DEF PrintsAs
<1> QED BY <1>7, <1>8, <1>9

\* PrintsAsBelieved is an invariant by itself.
LEMMA ShowsIsPrints == PrintsAsBelieved <=> (initialised => PrintsAs(device[file].pen, attrs))
  BY DEF PrintsAsBelieved, PrintsAs, Prints, ColoursShown, HasColours

\* It holds when the library has taken the terminal into use,
LEMMA EntersNormal ==
    ASSUME Typing, BackInv, NEW x \in Devices, NEW fails, TermInit(x, fails)
    PROVE  PrintsAsBelieved'
<1>1. ~initialised /\ attrs = Normal /\ attrs' = Normal
  BY DEF TermInit, BackInv, AttributesKnown
<1>2. CASE initialised' = FALSE
  BY <1>2 DEF PrintsAsBelieved
<1>3. CASE /\ initialised' = TRUE
           /\ file' \in Devices /\ strings' \in Descriptions \ {Null} /\ window' # "none"
           /\ device' = [device EXCEPT ![file'] =
                           [raw |-> TRUE, own |-> strings'.smcup, pen |-> device[file'].pen,
                            shown |-> cursor.shown \/ ~strings'.civis, at |-> cursor.at]]
  <2>1. device[file'].pen \in Pens
    BY <1>1, <1>3 DEF BackInv, GivenBack, Pens, AsFound
  <2>2. device'[file'].pen = device[file'].pen
    BY <1>3 DEF Typing
  <2>3. Normal.flags = {} /\ Normal.fg = Plainly(Normal.fg) /\ Normal.bg = Plainly(Normal.bg)
    BY DEF Normal, Attr, Plainly, Unspec, Default
  <2> QED BY <1>1, <2>1, <2>2, <2>3 DEF PrintsAsBelieved, Pens
<1> QED BY <1>2, <1>3, Enters

\* and remains so with each step.
LEMMA ShowsStep ==
    ASSUME Resets, Coherent, Typing, BackInv, PrintsAsBelieved, [Next]_vars
    PROVE  PrintsAsBelieved'
<1>1. CASE UNCHANGED vars
  BY <1>1 DEF vars, library, PrintsAsBelieved, Shown, Blurred
<1>2. ASSUME NEW x \in Devices, NEW fails \in Failures \cup {Null}, TermInit(x, fails)
      PROVE  PrintsAsBelieved'
  BY <1>2, EntersNormal
<1>3. CASE ~initialised'
  BY <1>3 DEF PrintsAsBelieved
<1>4. ASSUME initialised, initialised' = initialised, file' = file, strings' = strings, known' = known,
             NEW u \in TermState, device' = [device EXCEPT ![file] = u],
             \/ attrs' = attrs /\ u.pen = device[file].pen
             \/ attrs' \in AttrSets /\ u.pen = SetTo(device[file], attrs').pen
      PROVE  PrintsAsBelieved'
  <2>1. device'[file'] = u /\ device[file] \in TermState
    BY <1>4 DEF Typing
  <2>2. PrintsAs(device[file].pen, attrs)
    BY <1>4, ShowsIsPrints
  <2>3. PrintsAs(u.pen, attrs')
    BY <1>4, <2>1, <2>2, SetToShows
  <2>4. /\ u.pen # Garbled => u.pen.flags \ Blurred = (attrs'.flags \cap Shown) \ Blurred
        /\ u.pen # Garbled /\ strings.colors > 0 /\ strings.op # "none" /\ ~strings.scp =>
              u.pen.fg = Plainly(attrs'.fg) /\ u.pen.bg = Plainly(attrs'.bg)
    BY <2>3 DEF PrintsAs, Prints, ColoursShown, HasColours
  <2>5. Shown' = Shown /\ Blurred' = Blurred
    BY <1>4 DEF Shown, Blurred
  <2> QED BY <1>4, <2>1, <2>4, <2>5 DEF PrintsAsBelieved
<1>5. CASE \/ \E x \in Columns : SetCursor(x)
           \/ \E b \in BOOLEAN : ShowCursor(b)
  <2>1. UNCHANGED <<initialised, device, file, strings, known, attrs>>
    BY <1>5 DEF SetCursor, ShowCursor, library
  <2> QED BY <2>1 DEF PrintsAsBelieved, Shown, Blurred
<1>6. CASE UpdateCursor
  <2>1. PICK u \in TermState : device' = [device EXCEPT ![file] = u] /\ u.pen = device[file].pen
    BY <1>6, UpdatesCursor
  <2>2. /\ initialised /\ initialised' = initialised /\ file' = file /\ strings' = strings
        /\ known' = known /\ attrs' = attrs
    BY <1>6 DEF UpdateCursor
  <2> QED BY <1>4, <2>1, <2>2
<1>7. ASSUME NEW a, NEW b, Update(a, b),
             \/ a = Null /\ b = Null
             \/ a \in Does[program].draws \cup {Null} /\ b \in Does[program].behind
      PROVE  PrintsAsBelieved'
  <2>1. PICK u \in TermState :
          /\ attrs' \in AttrSets
          /\ device' = [device EXCEPT ![file] = u]
          /\ \/ attrs' = attrs /\ u.pen = device[file].pen
             \/ u.pen = SetTo(device[file], attrs').pen
    BY <1>7, Updates
  <2>2. /\ initialised /\ initialised' = initialised /\ file' = file /\ strings' = strings
        /\ known' = known
    BY <1>7 DEF Update
  <2> QED BY <1>4, <2>1, <2>2
<1>8. CASE Redraw
  <2>1. PICK u \in TermState :
          /\ device' = [device EXCEPT ![file] = u]
          /\ u.pen = SetTo(device[file], Normal).pen /\ attrs' = Normal
    BY <1>8, Redraws
  <2>2. /\ initialised /\ initialised' = initialised /\ file' = file /\ strings' = strings
        /\ known' = known
    BY <1>8 DEF Redraw
  <2> QED BY <1>4, <2>1, <2>2, NormalTyped
<1>9. ASSUME Restore \/ Deinit PROVE ~initialised'
  BY <1>9 DEF Restore, Deinit
<1> QED BY <1>1, <1>2, <1>3, <1>5, <1>6, <1>7, <1>8, <1>9 DEF Next

\* The alternate character set stays enabled where it was, and the file the strings belong
\* to stays open as long as they are kept.
LEMMA AlternateStep ==
    ASSUME Typing, AlternateEnabled, [Next]_vars
    PROVE  AlternateEnabled'
<1>1. CASE UNCHANGED <<file, strings, enabled>>
  BY <1>1 DEF AlternateEnabled
<1>2. ASSUME NEW x \in Devices, NEW fails \in Failures \cup {Null}, TermInit(x, fails)
      PROVE  AlternateEnabled'
  <2> DEFINE to == IF file = Null THEN x ELSE file
             reads == strings = Null /\ Made("sequences", fails)
  <2>1. /\ strings' = IF reads THEN Strings(Describes[x]) ELSE strings
        /\ enabled' = IF reads /\ strings'.enacs THEN enabled \cup {to} ELSE enabled
        /\ file' = IF Made("open", fails) THEN to ELSE file
    BY <1>2 DEF TermInit
  <2>2. reads => Made("open", fails)
    <3>1. ASSUME NEW i \in DOMAIN Calls, NEW j \in DOMAIN Calls, i < j, Calls[i] = "sequences"
          PROVE  1 \in DOMAIN Calls /\ 1 < j /\ Calls[1] = "open"
      BY <3>1 DEF Calls
    <3> QED BY <3>1 DEF Made
  <2>3. to # Null /\ (file # Null => to = file)
    BY NullAssumption
  <2> HIDE DEF to, reads
  <2>4. CASE reads
    BY <2>1, <2>2, <2>3, <2>4 DEF AlternateEnabled
  <2>5. CASE ~reads
    BY <2>1, <2>3, <2>5 DEF AlternateEnabled
  <2> QED BY <2>4, <2>5
<1>3. CASE Deinit
  BY <1>3 DEF Deinit, AlternateEnabled
<1>4. CASE \/ Restore \/ UpdateCursor \/ Redraw
           \/ \E x \in Columns : SetCursor(x)
           \/ \E b \in BOOLEAN : ShowCursor(b)
           \/ \E a, b : Update(a, b)
  <2>1. UNCHANGED <<file, strings, enabled>>
    BY <1>4 DEF Restore, UpdateCursor, Redraw, SetCursor, ShowCursor, Update, library
  <2> QED BY <2>1, <1>1
<1> QED BY <1>1, <1>2, <1>3, <1>4 DEF Next, vars, library

\* On every terminal that can reset its attributes, and whose description is Coherent, the
\* terminal prints with the attributes that _t3_attrs says, through any sequence of
\* attributes and ways of changing them, in ANSI and not, and its alternate character set is
\* enabled if need be.
THEOREM AttributesAreShown ==
    ASSUME Resets, Coherent
    PROVE  Spec => []ShowsAttrs
<1>1. Init => PrintsAsBelieved /\ AlternateEnabled
  BY DEF Init, PrintsAsBelieved, AlternateEnabled
<1>2. Typing /\ BackInv /\ [Next]_vars => BackInv'
  BY BackStep
<1>3. Typing /\ BackInv /\ PrintsAsBelieved /\ [Next]_vars => PrintsAsBelieved'
  BY ShowsStep
<1>4. Typing /\ AlternateEnabled /\ [Next]_vars => AlternateEnabled'
  BY AlternateStep
<1>5. PrintsAsBelieved /\ AlternateEnabled => ShowsAttrs
  BY DEF ShowsAttrs
<1> QED BY <1>1, <1>2, <1>3, <1>4, <1>5, BackInit, TypingInvariant, PTL DEF Spec
=============================================================================
