----------------------------- MODULE Attributes -----------------------------
(***************************************************************************)
(* Text attributes: what the library takes from the description of a       *)
(* terminal (init_sequences and detect_ansi of terminal_init.c), and how   *)
(* it changes the attributes in which the terminal prints (_t3_set_attrs   *)
(* of terminal.c).  A control string is known by its kind: the one of the  *)
(* ANSI standard, one of the terminal's own, or one that resets all.       *)
(***************************************************************************)
EXTENDS Integers, FiniteSets

Flags == {"underline", "bold", "reverse", "blink", "dim", "acs"}
\* The attributes with a string to turn them off, rmul and rmacs.
Exits == {"underline", "acs"}
\* The others can be turned off only together: _t3_reset_required_mask as it is at first.
NoExits == Flags \ Exits

\* Colours: none given, the terminal's default one, or a number, from 1.
Unspec == 0
Default == 257

\* Sets of attributes, t3_attr_t: .set are the flags given explicitly, on or off, by the
\* T3_ATTR_..._SET bits.  How a terminal prints is one, too.
AttrSets == [flags : SUBSET Flags, fg : Int, bg : Int, set : SUBSET Flags]
Attr(flags, fg, bg) == [flags |-> flags, fg |-> fg, bg |-> bg, set |-> {}]
Normal == Attr({}, Unspec, Unspec)

\* Descriptions of terminals.  A string is of the ANSI standard, one of the terminal's own,
\* or for rmul and rmacs also one that resets all attributes, or the same for both.
Entries == {"none", "ansi", "own"}
Descriptions ==
    [name : STRING,
     on : [Flags -> Entries],         \* smul, bold, rev, blink, dim, smacs
     off : [Exits -> Entries \cup {"reset", "same"}],
     sgr : BOOLEAN, sgr0 : BOOLEAN,   \* whether there is a string to set or reset all
     smso : BOOLEAN, rmso : Entries,  \* whether smso equals rev, and its end
     op : Entries, setfg : Entries \cup {"alternative"}, setbg : Entries \cup {"alternative"},
     scp : BOOLEAN,                   \* whether colours are only set in pairs
     colors : Nat,                    \* their number, or with .scp that of the pairs
     ncv : SUBSET Flags,              \* what cannot be combined with colours
     clear : BOOLEAN, cup : BOOLEAN, hpa : BOOLEAN, vpa : BOOLEAN, civis : BOOLEAN, sc : BOOLEAN,
     smcup : BOOLEAN, rmcup : BOOLEAN,
     enacs : BOOLEAN]                 \* whether the alternate character set is to be enabled

-----------------------------------------------------------------------------
(* init_sequences, on the settings g: .ansi is _t3_ansi_attrs, "colours" in it stands *)
(* for both colour masks, .mask is _t3_reset_required_mask, .ncv is _t3_ncv.          *)

Uninitialised == [ansi |-> {}, mask |-> NoExits, ncv |-> {}]

\* The strings that init_sequences asks for: the exits only where there is an entry, and
\* the alternate character set not at all for the terminal called ansi.
Asked(d) ==
    LET on == [d.on EXCEPT !["acs"] = IF d.name = "ansi" THEN "none" ELSE @]
    IN  [d EXCEPT !.on = on,
                  !.off = [f \in Exits |-> IF on[f] = "none" THEN "none" ELSE d.off[f]],
                  !.scp = @ /\ d.setfg = "none" /\ d.setbg = "none",
                  !.rmcup = @ /\ d.smcup, !.smcup = @ /\ d.rmcup]

\* The attributes that can only be turned off by resetting all.
NeedReset(d) ==
    {f \in Exits : d.on[f] # "none" /\ d.off[f] \in {"none", "reset"}}
    \cup (IF \A f \in Exits : d.off[f] = "same" THEN Exits ELSE {})

AnsiColours(d) == IF d.op = "ansi" /\ d.setfg = "ansi" /\ d.setbg = "ansi" THEN {"colours"} ELSE {}
AnsiExits(d) == {f \in Exits : d.on[f] = "ansi" /\ d.off[f] = "ansi"}

\* detect_ansi, which adds to what was ANSI before.  For reverse the way out can be looked
\* at where smso is the same; the four others are taken together or not at all.
DetectAnsi(before, d) ==
    LET base    == before \cup AnsiColours(d) \cup AnsiExits(d)
        others  == {f \in NoExits : d.on[f] = "ansi" /\ (f = "reverse" /\ d.smso => d.rmso = "ansi")}
        missing == {f \in NoExits : d.on[f] = "none"}
    IN  IF "colours" \notin base \/ base \cap Exits = {} THEN base
        ELSE IF NoExits \subseteq base \cup others \cup missing THEN base \cup others
        ELSE base \ NoExits

\* The strings that are left when nothing resets the attributes.
Without(d) ==
    [d EXCEPT !.on = [f \in Flags |-> IF f \in Exits /\ d.off[f] # "none" THEN d.on[f] ELSE "none"]]

TooLimited(d) == ~d.clear \/ (~d.cup /\ ~(d.hpa /\ d.vpa))

\* The rest of init_sequences: the strings, and what becomes of the settings.  These are
\* added to, as no call ever takes anything back.  It ends by sending enacs, see Session.
Strings(d) == IF d.sgr \/ d.sgr0 THEN Asked(d) ELSE Without(Asked(d))
InitSequences(g, d) ==
    [ansi |-> DetectAnsi(g.ansi, Asked(d)),
     mask |-> IF d.sgr \/ d.sgr0 THEN g.mask \cup NeedReset(Asked(d)) ELSE {},
     ncv  |-> g.ncv \cup d.ncv]

-----------------------------------------------------------------------------
(* What is asked for: _t3_term_sanitize_attrs and t3_term_combine_attrs. *)

InRange(c, d) == c = Default \/ c <= d.colors + 1
Sanitize(a, d) ==
    [a EXCEPT !.fg = IF InRange(@, d) THEN @ ELSE Unspec,
              !.bg = IF d.scp \/ InRange(@, d) THEN @ ELSE Unspec]

\* The colours of a have priority over those of b, and so does what is set explicitly; what
\* the terminal cannot combine with colours is left out where a has a colour.
Combine(a, b, ncv) ==
    LET flags == (b.flags \ a.set) \cup (a.flags \ (b.set \ a.set))
    IN  [flags |-> flags \ (IF a.fg # Unspec \/ a.bg # Unspec THEN ncv ELSE {}),
         fg    |-> IF a.fg # Unspec THEN a.fg ELSE b.fg,
         bg    |-> IF a.bg # Unspec THEN a.bg ELSE b.bg,
         set   |-> a.set \cup b.set]

-----------------------------------------------------------------------------
(* _t3_set_attrs, on a state s: .attrs is _t3_attrs, .pen is how the terminal really  *)
(* prints.  d is the description in use and g the settings.                           *)

\* The strings of the terminal, the external side.
TurnOn(pen, f, d) == IF d.on[f] = "none" THEN pen ELSE [pen EXCEPT !.flags = @ \cup {f}]
TurnOff(pen, f, d) ==
    CASE d.off[f] = "none" -> pen
      [] d.off[f] \in {"ansi", "own"} -> [pen EXCEPT !.flags = @ \ {f}]
      [] d.off[f] \in {"reset", "same"} -> Normal
\* sgr resets the colours as well.
Sgr(flags, d) == Attr({f \in flags : d.on[f] # "none"}, Unspec, Unspec)

SameColours(a, b) == a.fg = b.fg /\ a.bg = b.bg
Plainly(c) == IF c = Default THEN Unspec ELSE c

\* The mistake of not looking at what has to be reset.
WrongResetFlags(s, new, d, g) == s

\* Turning off what can only be turned off with everything else.  After sgr the colours
\* are taken to be DEFAULT, so that they are set again.
ResetFlags(s, new, d, g) ==
    IF ((s.attrs.flags \ g.ansi) \ new.flags) \cap g.mask = {} THEN s
    ELSE IF d.sgr THEN [attrs |-> [new EXCEPT !.fg = Default, !.bg = Default], pen |-> Sgr(new.flags, d)]
    ELSE [attrs |-> Normal, pen |-> Normal]

\* Changing the attributes one by one: rmul first and smacs or rmacs last.
ChangeFlags(s, new, d, g) ==
    LET changed == ((s.attrs.flags \ new.flags) \cup (new.flags \ s.attrs.flags)) \ g.ansi
        Switch(pen, f) == IF f \notin changed THEN pen
                          ELSE IF f \in new.flags THEN TurnOn(pen, f, d) ELSE TurnOff(pen, f, d)
        first  == Switch(s.pen, "underline")
        middle == [first EXCEPT !.flags = @ \cup {f \in changed \cap NoExits : d.on[f] # "none"}]
    IN  [s EXCEPT !.pen = Switch(middle, "acs")]

\* The mistake of forgetting that op resets both colours.
WrongDefaultColours(s, new, d) ==
    IF d.op # "none" /\ \/ s.attrs.fg # new.fg /\ new.fg = Unspec
                        \/ s.attrs.bg # new.bg /\ new.bg = Unspec
    THEN [s EXCEPT !.pen.fg = Unspec, !.pen.bg = Unspec]
    ELSE s

\* op resets both colours, where one of them is not wanted any more.
DefaultColours(s, new, d) ==
    IF d.op # "none" /\ \/ s.attrs.fg # new.fg /\ new.fg = Unspec
                        \/ s.attrs.bg # new.bg /\ new.bg = Unspec
    THEN [attrs |-> [s.attrs EXCEPT !.fg = Unspec, !.bg = Unspec], pen |-> Attr(s.pen.flags, Unspec, Unspec)]
    ELSE s

\* The colours of a terminal without ANSI colours.
ChangeColours(s, new, d) ==
    LET want == [new EXCEPT !.fg = Plainly(@), !.bg = Plainly(@)]
        t    == DefaultColours(s, want, d)
        Set(old, c, has, now) == IF old # c /\ c # Unspec /\ has THEN c ELSE now
    IN  IF d.scp
        THEN [s EXCEPT !.pen.fg = IF want.fg = Unspec /\ d.op = "none" THEN @ ELSE want.fg,
                       !.pen.bg = Unspec]
        ELSE [t EXCEPT !.pen.fg = Set(t.attrs.fg, want.fg, d.setfg # "none", @),
                       !.pen.bg = Set(t.attrs.bg, want.bg, d.setbg # "none", @)]

\* set_attrs_non_ansi.
SetNonAnsi(s, new, d, g) ==
    LET t == IF s.attrs.flags \ g.ansi = new.flags \ g.ansi THEN s
             ELSE ChangeFlags(ResetFlags(s, new, d, g), new, d, g)
    IN  IF "colours" \in g.ansi THEN t ELSE ChangeColours(t, new, d)

\* The end of _t3_set_attrs: one ANSI string.  1 sets bold, 2 dim, and 22 ends both.
SetAnsi(s, new, g) ==
    LET changed == ((s.attrs.flags \ new.flags) \cup (new.flags \ s.attrs.flags)) \cap g.ansi
        flags   == (s.pen.flags \ changed) \cup (new.flags \cap changed)
        pair    == {"bold", "dim"}
        bright  == IF changed \cap pair = {} THEN s.pen.flags \cap pair
                   ELSE IF "bold" \in new.flags THEN (s.pen.flags \cap pair) \cup {"bold"}
                   ELSE IF "dim" \in new.flags THEN (s.pen.flags \cap pair) \cup {"dim"}
                   ELSE {}
        Colour(old, c, now) == IF "colours" \in g.ansi /\ old # c THEN Plainly(c) ELSE now
    IN  [attrs |-> new,
         pen   |-> Attr((flags \ pair) \cup bright,
                        Colour(s.attrs.fg, new.fg, s.pen.fg), Colour(s.attrs.bg, new.bg, s.pen.bg))]

\* _t3_set_attrs.
SetAttrs(s, new, d, g) ==
    LET differ == \/ (s.attrs.flags \ g.ansi) # (new.flags \ g.ansi)
                  \/ "colours" \notin g.ansi /\ ~SameColours(s.attrs, new)
                  \/ s.attrs.set # new.set
    IN  IF new = Normal /\ (s.attrs = Normal \/ d.sgr \/ d.sgr0)
        THEN IF s.attrs = Normal THEN s ELSE [attrs |-> Normal, pen |-> Normal]
        ELSE SetAnsi(IF differ THEN SetNonAnsi(s, new, d, g) ELSE s, new, g)
=============================================================================
