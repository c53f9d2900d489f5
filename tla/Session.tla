------------------------------ MODULE Session -------------------------------
(***************************************************************************)
(* A program's time on a terminal: t3_term_init with its failures,         *)
(* t3_term_restore and t3_term_deinit (terminal_init.c), and in between    *)
(* the cursor and the attributes that terminal.c leaves the terminal with  *)
(* when it updates it.                                                     *)
(***************************************************************************)
EXTENDS Attributes

CONSTANTS
    Null,
    Devices,      \* the terminals of the system
    Describes,    \* their descriptions, as Attributes has them
    Programs,     \* the programs, one of which runs
    Does,         \* bound: what they do: the attributes they draw with, .draws, over the default
                  \* attributes .behind, the columns they put the cursor at, .moves, whether
                  \* they show and hide it, .hides, and call t3_term_redraw, .redraws, whether they
                  \* do without ANSI, .plain, and how often they can have a description read,
                  \* .loads
    Failures      \* the calls in t3_term_init that can fail

Columns == UNION {Does[p].moves : p \in Programs}

ASSUME ColumnsAssumption == Columns \subseteq Nat /\ 0 \in Columns
ASSUME DescriptionsAssumption ==
    \A x \in Devices : Describes[x] \in Descriptions /\ Strings(Describes[x]) # Null
ASSUME DoesAssumption ==
    \A p \in Programs : /\ \A a \in Does[p].draws \cup Does[p].behind : a \in AttrSets /\ a # Null
                        /\ Does[p].plain \in BOOLEAN
ASSUME NullAssumption == Null \notin Devices
ASSUME FailuresAssumption ==
    Failures \subseteq {"open", "sequences", "size", "charset", "window", "data", "mode"}

VARIABLES
    program,      \* the one of Programs that runs
    device,       \* the terminals: .raw, .own (the screen after smcup), .pen, .shown and .at (the cursor)
    enabled,      \* the terminals told to enable their alternate character set, by enacs
    initialised, detected,     \* detection_done
    file,         \* the terminal that _t3_putp_file writes to, or Null
    strings,      \* the control strings in use, or Null: ~seqs_initialised
    known,        \* _t3_ansi_attrs, _t3_reset_required_mask and _t3_ncv
    converts,     \* _t3_init_output_converter was called since t3_term_deinit
    window,       \* _t3_terminal_window: "none", "listed" in the list of windows, or "apart"
    attrs,        \* _t3_attrs
    cursor,       \* _t3_show_cursor and _t3_cursor_x: [shown, at]
    wanted,       \* new_show_cursor and new_cursor_x
    loads         \* how often a description was read

library == <<initialised, detected, file, strings, known, converts, window, attrs, cursor, loads>>
vars == <<program, device, enabled, library, wanted>>

\* The cursor after the terminal was cleared, after printing, and out of the way.
Home == 0
Elsewhere == -1
Corner == -2

AsFound == [raw |-> FALSE, own |-> FALSE, pen |-> Normal, shown |-> TRUE, at |-> Elsewhere]

Init ==
    /\ program \in Programs
    /\ device = [x \in Devices |-> AsFound]
    /\ enabled = {}
    /\ initialised = FALSE /\ detected = FALSE
    /\ file = Null /\ strings = Null
    /\ known = Uninitialised
    /\ converts = FALSE
    /\ window = "none"
    /\ attrs = Normal
    /\ cursor = [shown |-> TRUE, at |-> 0]
    /\ wanted = [shown |-> TRUE, at |-> 0]
    /\ loads = 0

-----------------------------------------------------------------------------
(* t3_term_init for terminal x, with the call named fails failing, or Null.  *)

\* The calls in the order of t3_term_init; those before the one that fails are made.
Calls == <<"open", "sequences", "size", "charset", "window", "data", "mode">>
Made(call, fails) ==
    \/ fails = Null
    \/ \E i, j \in DOMAIN Calls : i < j /\ Calls[i] = call /\ Calls[j] = fails

\* The mistake of switching to the screen before the mode of the terminal is set.
WrongEnter(t, fails) ==
    IF Made("data", fails)
    THEN [t EXCEPT !.raw = Made("mode", fails), !.own = strings'.smcup, !.at = cursor.at,
                   !.shown = cursor.shown \/ ~strings'.civis]
    ELSE t

\* init_sequences and integrate_environment: T3WINDOW_OPTS may say ansi=off.
Settings(g, d) ==
    LET read == InitSequences(g, d) IN IF Does[program].plain THEN [read EXCEPT !.ansi = {}] ELSE read

\* What t3_term_init does to the terminal at its end: only when all that can fail is done.
Enter(t, fails) ==
    IF Made("mode", fails)
    THEN [t EXCEPT !.raw = TRUE, !.own = strings'.smcup, !.at = cursor.at,
                   !.shown = cursor.shown \/ ~strings'.civis]
    ELSE t

\* Nothing happens on a terminal that is in use already.  init_sequences ends by sending
\* enacs, and nothing takes that back where one of the later calls fails.
TermInit(x, fails) ==
    LET to     == IF file = Null THEN x ELSE file
        reads  == strings = Null /\ Made("sequences", fails)
        makes  == window = "none" /\ Made("window", fails)
    IN  /\ ~initialised
        /\ fails # Null => fails \in Failures
        /\ fails = "open" => file = Null
        /\ fails = "sequences" => strings = Null
        /\ strings = Null /\ TooLimited(Describes[x]) => fails \in {"open", "sequences"}
        /\ fails = "charset" => ~detected
        /\ fails = "data" => window = "none"
        /\ strings = Null => loads < Does[program].loads
        /\ file' = IF Made("open", fails) THEN to ELSE file
        /\ strings' = IF reads THEN Strings(Describes[x]) ELSE strings
        /\ known' = IF reads THEN Settings(known, Describes[x]) ELSE known
        /\ loads' = IF reads THEN loads + 1 ELSE loads
        /\ converts' = (converts \/ (~detected /\ Made("charset", fails)))
        /\ window' = IF ~makes THEN window ELSE IF Made("data", fails) THEN "apart" ELSE "listed"
        /\ initialised' = Made("mode", fails)
        /\ detected' = (detected \/ Made("mode", fails))
        /\ enabled' = IF reads /\ strings'.enacs THEN enabled \cup {to} ELSE enabled
        /\ device' = IF Made("open", fails) THEN [device EXCEPT ![to] = Enter(@, fails)] ELSE device
        /\ UNCHANGED <<program, attrs, cursor, wanted>>

-----------------------------------------------------------------------------
\* The strings and settings are those of the terminal, and of no other.
Fresh == /\ strings = Strings(Describes[file])
         /\ known = Settings(Uninitialised, Describes[file])

\* How a terminal prints that was sent strings of another one.
Garbled == Attr({}, -1, -1)

\* _t3_set_attrs(new) on terminal t: the attributes believed and real.
SetTo(t, new) ==
    LET set == SetAttrs([attrs |-> attrs, pen |-> t.pen], new, strings, known)
    IN  IF (Fresh /\ t.pen # Garbled) \/ new = attrs THEN set ELSE [set EXCEPT !.pen = Garbled]

\* The mistake of leaving the attributes of the last character on.
WrongLeft(t) ==
    [t EXCEPT !.raw = FALSE, !.own = FALSE, !.at = Elsewhere, !.shown = TRUE]

\* t3_term_restore, on the terminal: cnorm where it is needed, and the old mode.
Left(t) ==
    [t EXCEPT !.raw = FALSE, !.own = FALSE, !.at = Elsewhere,
              !.shown = @ \/ ~cursor.shown, !.pen = SetTo(t, Normal).pen]

Restore ==
    /\ initialised
    /\ initialised' = FALSE
    /\ device' = [device EXCEPT ![file] = Left(@)]
    /\ attrs' = Normal
    /\ UNCHANGED <<program, enabled, detected, file, strings, known, converts, window, cursor,
                   wanted, loads>>

\* The mistake of not beginning with t3_term_restore.
WrongDeinit ==
    /\ file # Null
    /\ file' = Null /\ strings' = Null /\ window' = "none" /\ converts' = FALSE
    /\ UNCHANGED <<program, device, enabled, initialised, detected, known, attrs, cursor, wanted,
                   loads>>

\* t3_term_deinit, which begins with t3_term_restore.
Deinit ==
    /\ file # Null
    /\ initialised' = FALSE
    /\ device' = IF initialised THEN [device EXCEPT ![file] = Left(@)] ELSE device
    /\ attrs' = IF initialised THEN Normal ELSE attrs
    /\ file' = Null /\ strings' = Null /\ window' = "none" /\ converts' = FALSE
    /\ UNCHANGED <<program, enabled, detected, known, cursor, wanted, loads>>

\* t3_term_set_cursor, t3_term_show_cursor and t3_term_hide_cursor.
SetCursor(x) ==
    /\ x \in Does[program].moves /\ wanted.at # x
    /\ wanted' = [wanted EXCEPT !.at = x]
    /\ UNCHANGED <<program, device, enabled, library>>
ShowCursor(b) ==
    /\ Does[program].hides /\ wanted.shown # b
    /\ wanted' = [wanted EXCEPT !.shown = b]
    /\ UNCHANGED <<program, device, enabled, library>>

\* t3_term_update_cursor, which sends what is not done yet.
Moves == IF cursor.shown = wanted.shown THEN cursor.at # wanted.at ELSE wanted.shown
Pointed(t) ==
    [t EXCEPT !.at = IF Moves THEN wanted.at ELSE @,
              !.shown = IF strings.civis /\ cursor.shown # wanted.shown THEN wanted.shown ELSE @]
UpdateCursor ==
    /\ initialised
    /\ cursor' = [shown |-> wanted.shown, at |-> IF Moves THEN wanted.at ELSE cursor.at]
    /\ device' = [device EXCEPT ![file] = Pointed(@)]
    /\ UNCHANGED <<program, enabled, initialised, detected, file, strings, known, converts, window,
                   attrs, wanted, loads>>

\* The mistake of not putting the cursor back where it was before the drawing.
WrongPlaced(t, before) ==
    IF ~wanted.shown THEN [t EXCEPT !.shown = @ /\ ~cursor.shown]
    ELSE IF cursor.shown /\ cursor.at = wanted.at /\ strings.sc
    THEN [t EXCEPT !.shown = TRUE]
    ELSE [t EXCEPT !.shown = TRUE, !.at = wanted.at]

\* The end of t3_term_update, on terminal t, where the cursor can be hidden: it is put
\* where it is wanted, or back where it was before, at column before.  Where it is not
\* wanted, it was hidden at the start, if not earlier.
Placed(t, before) ==
    IF ~wanted.shown THEN [t EXCEPT !.shown = @ /\ ~cursor.shown]
    ELSE IF cursor.shown /\ cursor.at = wanted.at /\ strings.sc
    THEN [t EXCEPT !.shown = TRUE, !.at = before]
    ELSE [t EXCEPT !.shown = TRUE, !.at = wanted.at]

\* The attributes in which a cell is printed: a, given to t3_win_addnstr, over the default
\* attributes b of the window; or those alone, the background, where a is Null.  What was
\* set explicitly is forgotten when text is written, and the alternate character set not
\* used where there is none.
CellAttrs(a, b) ==
    LET d     == strings
        over  == Sanitize(b, d)
        asked == IF a = Null THEN over ELSE [Combine(Sanitize(a, d), over, known.ncv) EXCEPT !.set = {}]
    IN  IF d.on["acs"] = "none" THEN [asked EXCEPT !.flags = @ \ {"acs"}] ELSE asked

\* t3_term_update where it prints such a cell on terminal t; both Null where nothing has
\* changed.
Drawn(t, a, b) ==
    IF b = Null THEN [attrs |-> attrs, device |-> t]
    ELSE LET set == SetTo(t, CellAttrs(a, b))
         IN  [attrs |-> set.attrs, device |-> [t EXCEPT !.pen = set.pen, !.at = Elsewhere]]
Update(a, b) ==
    /\ initialised
    /\ LET t     == device[file]
           drawn == Drawn(t, a, b)
       IN  /\ attrs' = drawn.attrs
           /\ IF strings.civis
              THEN /\ device' = [device EXCEPT ![file] = Placed(drawn.device, t.at)]
                   /\ cursor' = [shown |-> wanted.shown,
                                 at |-> IF wanted.shown THEN wanted.at ELSE cursor.at]
              ELSE /\ device' = [device EXCEPT ![file] =
                                    IF wanted.shown THEN drawn.device
                                    ELSE [drawn.device EXCEPT !.at = Corner]]
                   /\ cursor' = [cursor EXCEPT !.shown = wanted.shown]
    /\ UNCHANGED <<program, enabled, initialised, detected, file, strings, known, converts, window,
                   wanted, loads>>

Cleared(t) == [t EXCEPT !.pen = SetTo(t, Normal).pen, !.at = Home]

\* t3_term_redraw: the cursor is believed to be one column off, so that it is set again.
Redraw ==
    /\ initialised /\ Does[program].redraws
    /\ attrs' = SetTo(device[file], Normal).attrs
    /\ device' = [device EXCEPT ![file] = Cleared(@)]
    /\ cursor' = IF wanted.shown /\ cursor.shown THEN [cursor EXCEPT !.at = wanted.at + 1] ELSE cursor
    /\ UNCHANGED <<program, enabled, initialised, detected, file, strings, known, converts, window,
                   wanted, loads>>

Next ==
    \/ \E x \in Devices, fails \in Failures \cup {Null} : TermInit(x, fails)
    \/ Restore
    \/ Deinit
    \/ \E x \in Columns : SetCursor(x)
    \/ \E b \in BOOLEAN : ShowCursor(b)
    \/ UpdateCursor
    \/ \E a \in Does[program].draws \cup {Null}, b \in Does[program].behind : Update(a, b)
    \/ Update(Null, Null)
    \/ Redraw

Spec == Init /\ [][Next]_vars

-----------------------------------------------------------------------------
TypeOK ==
    /\ file \in Devices \cup {Null} /\ enabled \subseteq Devices
    /\ initialised => file # Null /\ strings # Null /\ window # "none"
    /\ known.ansi \subseteq Flags \cup {"colours"} /\ known.mask \subseteq Flags
    /\ attrs.flags \subseteq Flags
    /\ \A x \in Devices : device[x].pen.flags \subseteq Flags
    /\ cursor.at \in Columns \cup {x + 1 : x \in Columns} /\ wanted.at \in Columns
    /\ window \in {"none", "listed", "apart"}

\* The flags that the terminal can show.
Shown == {f \in Flags : strings.on[f] # "none"} \cup (known.ansi \cap Flags)

\* In ANSI bold and dim end together, and starting the one does not end the other: where
\* one of them is ANSI, _t3_set_attrs does not tell them apart.
Blurred == IF {"bold", "dim"} \cap known.ansi = {} THEN {} ELSE {"bold", "dim"}

\* What the library believes of the attributes, through every way of changing them: one by
\* one, by resetting all, by resetting both colours.
PrintsAsBelieved ==
    LET pen == device[file].pen IN
    initialised /\ pen # Garbled =>
        /\ pen.flags \ Blurred = (attrs.flags \cap Shown) \ Blurred
        /\ strings.colors > 0 /\ strings.op # "none" /\ ~strings.scp =>
              pen.fg = Plainly(attrs.fg) /\ pen.bg = Plainly(attrs.bg)

\* The alternate character set was enabled wherever the strings in use ask for that, also
\* where a later t3_term_init than the one that read them takes the terminal into use.
AlternateEnabled == strings # Null => file # Null /\ (strings.enacs => file \in enabled)

\* The terminal prints with the attributes that _t3_attrs says, and is able to.
ShowsAttrs == PrintsAsBelieved /\ AlternateEnabled

\* A terminal is left as it was found, in mode, screen, attributes and cursor, by
\* t3_term_restore and t3_term_deinit, and by every t3_term_init that fails.  What enacs
\* enabled stays so: there is no string against it.
GivenBack ==
    \A x \in Devices :
        ~(initialised /\ file = x) =>
            device[x] = AsFound \/ device[x] = [AsFound EXCEPT !.pen = Garbled]

\* Where a terminal can hide its cursor, the library never takes the cursor for updated when
\* it is not: once what it remembers is what is wanted, and so after each update, the cursor
\* is there, and visible as wanted, whatever was printed, hidden, moved, restored or cleared.
CursorFollows ==
    initialised /\ strings.civis /\ cursor.shown = wanted.shown =>
        /\ device[file].shown = wanted.shown
        /\ wanted.shown /\ cursor.at = wanted.at => device[file].at = wanted.at
=============================================================================
