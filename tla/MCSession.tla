----------------------------- MODULE MCSession ------------------------------
(***************************************************************************)
(* Session for TLC.                                                        *)
(***************************************************************************)
EXTENDS Session, TLC

\* An xterm: everything is ANSI.
Xterm ==
    [name |-> "xterm", on |-> [f \in Flags |-> IF f = "acs" THEN "own" ELSE "ansi"],
     off |-> [f \in Exits |-> IF f = "acs" THEN "own" ELSE "ansi"],
     sgr |-> TRUE, sgr0 |-> TRUE, smso |-> TRUE, rmso |-> "ansi",
     op |-> "ansi", setfg |-> "ansi", setbg |-> "ansi", scp |-> FALSE, colors |-> 8, ncv |-> {},
     clear |-> TRUE, cup |-> TRUE, hpa |-> TRUE, vpa |-> TRUE, civis |-> TRUE, sc |-> TRUE,
     smcup |-> TRUE, rmcup |-> TRUE, enacs |-> FALSE]
\* A Linux console: underlining and dim text do not go with colours; no own screen, no sc.
\* The alternate character set has to be enabled first.
Linux == [Xterm EXCEPT !.name = "linux", !.on["dim"] = "none", !.ncv = {"underline", "dim"},
                       !.sc = FALSE, !.smcup = FALSE, !.rmcup = FALSE, !.enacs = TRUE]
\* A terminal with ANSI colours, of which the other strings are its own; no sgr.
Mixture == [Xterm EXCEPT !.name = "mixture", !.on = [f \in Flags |-> "own"],
                         !.off = [f \in Exits |-> IF f = "acs" THEN "reset" ELSE "own"], !.sgr = FALSE]
\* A terminal without colours: all attributes are ended by one string.
VT100 == [Xterm EXCEPT !.name = "vt100", !.on = [f \in Flags |-> IF f = "dim" THEN "none" ELSE "own"],
                       !.off = [f \in Exits |-> "reset"], !.op = "none", !.setfg = "none",
                       !.setbg = "none", !.colors = 0, !.civis = FALSE, !.hpa = FALSE, !.vpa = FALSE,
                       !.enacs = TRUE]
\* A terminal with colours of its own; what ends underlining is not known to reset all.
Own == [Xterm EXCEPT !.name = "own", !.on = [f \in Flags |-> "own"],
                     !.off = [f \in Exits |-> "same"], !.op = "own", !.setfg = "alternative",
                     !.setbg = "own"]
\* A terminal that cannot reset the attributes, called ansi; and one that is too limited.
Bare == [Xterm EXCEPT !.name = "ansi", !.on = [f \in Flags |-> "own"], !.sgr = FALSE, !.sgr0 = FALSE,
                      !.off = [f \in Exits |-> "own"], !.op = "own", !.setfg = "own", !.setbg = "own"]
Limited == [Xterm EXCEPT !.name = "limited", !.cup = FALSE, !.vpa = FALSE]

MCDescribes == ("xterm" :> Xterm) @@ ("linux" :> Linux) @@ ("mixture" :> Mixture) @@ ("vt100" :> VT100)
               @@ ("own" :> Own) @@ ("bare" :> Bare) @@ ("limited" :> Limited)

\* No flag, one or two of three, or dim text, with every pair of colours.
Looks == {s \in SUBSET {"underline", "bold", "acs"} : Cardinality(s) <= 2} \cup {{"dim"}}
Texts == {Attr(f, fg, bg) : f \in Looks, fg \in {Unspec, 2, Default}, bg \in {Unspec, 3}}
\* Red, and explicitly not bold.
Red == [Attr({}, 2, Unspec) EXCEPT !.set = {"bold"}]
Bold == Attr({"bold"}, Unspec, Unspec)

Program(draws, behind, moves, hides, redraws, plain, most) ==
    [draws |-> draws, behind |-> behind, moves |-> moves, hides |-> hides, redraws |-> redraws,
     plain |-> plain, loads |-> most]
\* Programs that use attributes, with ANSI and without; one that moves the cursor, with and
\* without a background; one that goes to another terminal; one that redraws but leaves the
\* cursor where it is; and one that does both.
MCDoes == ("coloured" :> Program(Texts, {Normal}, {0}, FALSE, FALSE, FALSE, 1))
          @@ ("plain" :> Program(Texts, {Normal}, {0}, FALSE, FALSE, TRUE, 1))
          @@ ("moving" :> Program({Normal, Bold}, {Normal, Red}, {0, 1}, TRUE, FALSE, FALSE, 1))
          @@ ("leaving" :> Program({Bold}, {Normal}, {0}, TRUE, FALSE, FALSE, 2))
          @@ ("redrawing" :> Program({Normal, Bold}, {Normal}, {0}, TRUE, TRUE, FALSE, 1))
          @@ ("both" :> Program({Normal}, {Normal}, {0, 1}, TRUE, TRUE, FALSE, 1))
=============================================================================
