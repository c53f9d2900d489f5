# Models and proofs of t3window

t3window is a C library for text windows on a terminal.  A program creates
windows, places them relative to each other, paints text into them and asks the
library to bring the terminal up to date; the library keeps what every window
contains and what the terminal shows, and sends the terminal only what changed.
This directory holds TLA+ models of that code, runs of the model checker TLC on
small instances, and proofs, checked by TLAPS, about the tree of windows and their
placement, the lines of a window, the update of the terminal, the keyboard input
and the time a program spends on a terminal.
Paths below are relative to the repository (`src/window.c` is the file of that
name in the directory `src` of the repository; `PROJECT.json` has one more
`src/` in front).

## 1. Inventory

| Component | Code | State | Operations |
|---|---|---|---|
| Window tree | `src/window.c` | per window: parent, anchor, restrict window, relation, depth, `next`/`prev`, `head`/`tail` of its children; the globals `_t3_head`, `_t3_tail` | `t3_win_new`, `t3_win_new_unbacked`, `t3_win_del`, `t3_win_set_parent`, `t3_win_set_anchor`, `t3_win_set_depth`, `t3_win_set_restrict` |
| Window placement | `src/window.c` | position, size, relation | `t3_win_get_abs_x`, `t3_win_get_abs_y`, `t3_win_move`, `t3_win_resize` |
| Line backing store | `src/window_paint.c` | per line: first column, width, blocks of bytes; the painting position; the cached offset of the last write | `t3_win_addnstr` and its relatives, `t3_win_clrtoeol`, `t3_win_clrtobot`, `t3_win_set_paint`, the cutting of lines by `t3_win_resize` |
| Refresh of a line | `src/window_paint.c` | `shown` per window; the terminal window | `_t3_win_refresh_term_line`, `t3_win_at_location`, `t3_win_show`, `t3_win_hide` |
| Terminal update | `src/terminal.c` | the lines the terminal is believed to show, the current attributes, the cursor | `t3_term_update`, `t3_term_redraw`, `t3_term_resize`, `t3_term_set_cursor`, `t3_term_update_cursor` |
| Attributes | `src/terminal.c`, `src/window_paint.c` | the map from attribute sets to small numbers, the attributes of the terminal | `_t3_map_attr`, `_t3_get_attr`, `_t3_set_attrs`, `t3_term_combine_attrs` |
| Output | `src/convert_output.c` | the output buffer, the converter | `t3_term_putc`, `t3_term_putn`, `_t3_output_buffer_print` |
| Input and detection | `src/input.c`, `src/terminal.c` | one stored key, the parser of position reports, the number of reports seen, the detected encoding, widths and size | `t3_term_get_keychar`, `t3_term_unget_keychar`, the size detection of `t3_term_resize` |
| Start and end | `src/terminal_init.c` | what has been allocated and set up, the control strings, the saved settings of the terminal | `t3_term_init`, `t3_term_restore`, `t3_term_deinit` |
| UTF-8 and widths | `src/utf8.c` | none | `t3_utf8_get`, `t3_utf8_put`, `t3_utf8_wcwidth` |

How they interact: a client calls the window functions; the tree decides the
order in which windows cover each other and the placement where they are; the
refresh walks the tree from back to front and copies their lines, clipped, into
the terminal window, which is a window with a backing store like any other; the
update compares that line with the one before and prints the difference through
the output buffer.  Reading keys may, as a side effect, parse the terminal's
answers to the questions asked by `t3_term_init` and make the next update redraw
everything.  There is one thread; the one exception the source allows for is a
client that calls `t3_term_get_keychar` on a thread of its own
(`src/terminal.c:154`).

What is hard in each part, and what makes it correct:

* **Tree.** Seven operations edit shared pointers and three kinds of references;
  recursions over the references end only if no sequence of calls closes a loop;
  `t3_win_del` edits the list it walks; `t3_win_new` can fail after the window is
  in a list.  Correct: no loops, no freed parent and no freed
  anchor but where the client deleted it, lists that are consistent, complete and sorted.
* **Placement.** Nine points of a window against nine of its anchor on two axes,
  restricted to another window.  Correct: the points meet; the window is inside
  the one it is restricted to when it fits.
* **Backing store.** Writes over double-width characters cut them in half at
  either end; a cached byte offset skips to the middle of the line.  Correct:
  every cell holds what was written there last.
* **Refresh.** Clipping, hidden windows, overlap.  Correct: every cell shows the
  topmost shown window there.
* **Update.** The difference is printed against a belief about the terminal, with
  some output buffered and some not.  Correct: after it the terminal shows the
  new lines.
* **Input.** Answers of the terminal carry no identification and can be late or
  missing.  Correct: the detection ends, no key is lost, no report is taken for
  the answer to another question.
* **Attributes.** A terminal changes them one by one, some only by resetting all,
  colours together.  Correct: it prints with the attributes the library believes.
* **Start and end.** Failures halfway, and starting again after an end.  Correct:
  the terminal is given back as it was found.
* **Cursor.** Remembered, moved away by printing and clearing, hidden in between.
  Correct: it is never taken to be in place when it is not.

`PROJECT.json` lists the places where these bite, with the properties that watch
them, under `hazards`.

## 2. Modules

| Module | Models |
|---|---|
| `WindowTree` | the window tree with its pointers, as in `window.c` |
| `WindowStack` | the abstract tree: a sequence of windows per parent, no pointers |
| `MCWindowTree` | instances for TLC; `ImplementsWindowStack`, the mapping from pointers to sequences |
| `WindowTreeProofs` | theorems about `WindowTree` |
| `WindowGeometry`, `MCWindowGeometry` | the placement |
| `WindowGeometryProofs` | theorems about `WindowGeometry` |
| `Sums` | the sum of the first widths or sizes of a line; used by `LinePaint` and `TermUpdate` |
| `Counting` | lemmas about numbers, sums, and functions given step by step |
| `LinePaint` | the lines of a window and the cached offset |
| `PaintedCells` | the abstract window: a grid of cells |
| `MCLinePaint` | instances; `PaintsCells`, the mapping from lines to cells |
| `LinePaintProofs` | theorems about `LinePaint` |
| `Refresh`, `MCRefresh` | the drawing of a terminal line from all windows; extends `LinePaint` |
| `RefreshProofs` | theorems about `Refresh` |
| `TermUpdate`, `MCTermUpdate` | the printing of differences and the terminal they are printed on |
| `TermUpdateProofs` | theorems about `TermUpdate` |
| `Input`, `MCInput` | keys, position reports and detection, with the terminal, its user and the updating thread |
| `InputProofs` | theorems about `Input`: the screen is up to date; which reports are found, and that they are taken for the right answer |
| `Attributes` | what is taken from the description of a terminal, and the changing of attributes |
| `Session`, `MCSession` | start, end and failures on several terminals, with cursor and attributes; extends `Attributes` |
| `SessionProofs` | theorems about `Session` and `Attributes` |

In several modules a definition is preceded by one whose name starts with
`Wrong`.  It is the same operator with one plausible mistake and is used by
nothing; put in the place of the definition it makes the run named for it in
`PROJECT.json` (`mutants`) fail, which shows that the property does watch this
code.

### The tree: `WindowTree` and `WindowStack`

`list` holds the `next` and `prev` of every window and the `head` and `tail` of
every parent; the windows without parent hang from `head[Null]`, the globals of
the code.  `Insert` and `Remove` are `insert_window` and `_t3_remove_window` as
functions on those pointers.  The search loop of `insert_window` is
`SearchEndsAt`: the pointer it stops at lies in every set that holds the head and
is closed under going past a window that is above the new one.  Should the
pointers have a ring without such a window, no stopping place exists; `SearchEnds`
says that it always does, and only one.  `HasLoops` has the same form: the recursion finds `start` exactly when
`start` lies in every set closed under the three references.  Both forms avoid
recursion, so that the proofs can use them.

`New`, `NewFails`, `SetParent`, `SetAnchor`, `SetDepth`, `SetRestrict` are the
calls.  `t3_win_del` is `DelBegin`, one `DelChild` per iteration of its loop, and
`DelFree`, so that the properties also hold at every iteration; nothing else runs
in between (`deleting`).  That the loop ends is `DelGivesAwayChildren`, an action
property: each iteration leaves the window with fewer children than before.
The code does not look for windows that are anchored or
restricted to the deleted one, as a FIXME at `src/window.c:345` says, and neither does
the model: such a window keeps its reference, which dangles from `DelFree` on.
`NoDangling` says that this is the only way for a reference to dangle.  What comes after is
undefined in C as soon as the reference is followed; the model goes on as if nothing
had happened, but for one thing: `New` does not hand out again the window such a
reference leads to (`ReferredTo`), as an allocator might, because the pointer would then
lead to another window.  The terminal window can restrict windows and is in no list.

`WindowStack` says the same without pointers: a window goes in front of the
siblings of its own depth, a reference is refused exactly when it closes a cycle,
a failed creation changes nothing.  One consequence a reader may not expect:
`t3_win_del` gives the children away from the front, each going in front of the
windows of its depth, so that children of equal depth end up in reverse order.

### The placement: `WindowGeometry`

`AbsPosition` computes one axis for all windows, following anchors, parents and
restrict windows as `t3_win_get_abs_x` and `t3_win_get_abs_y` do; the two differ
only in which case labels belong to the far edge and to the middle
(`FarEdge`, `Middle`).  The references are loop-free structures, fixed in a
behaviour; that they are loop-free is `NoLoops` of `WindowTree`, here an assumption
(`StructuresAssumption`).  Moving, resizing
and changing the relation are actions.  `PointsMeet` states the intention from a
table of its own (`Halves`).

### The lines: `LinePaint` and `PaintedCells`

A block is a character with its attribute, its width and a number of zero-width
characters; sizes in bytes matter to the cached offset and are kept
(`BytesOf`), the bytes themselves are not.  `WriteBlocks` is `_win_write_blocks`, with
the space it leaves for a double-width character at the last column; `WriteFitting` has
its four cases (empty line, after, before and over the existing characters).
`AddZerowidth` is `_win_add_zerowidth`, `ClearToEol` is `t3_win_clrtoeol`, including its
reading of the block width before the offset is advanced and its keeping of the cached
position.  An offset that is not the start of a block would be read as
arbitrary bytes: then `damaged` becomes true, the behaviour ends, and
`NeverDamaged` reports it.  What a client does with its window is its `client`: one
value of `Clients` per behaviour.  `Careful` clients are those for which
`t3_win_clrtoeol` does what it should (finding 2): their characters all have one width
and one size (`OneSize`), or they clear whole lines and do not make the window narrower
(`WholeLines`).

`PaintedCells` is what a user of the library expects: cells, and double-width
characters that become a space when one half is written over.  Memory is assumed
to be available, and the characters that join with their neighbour
(conjoining Jamo, the zero-width non-joiner) are left out.

### The refresh: `Refresh`

`stack` has the lists of `WindowStack`, `place` the positions that
`WindowGeometry` may compute, `content` lines as `LinePaint` leaves them; the
variables of `LinePaint` itself are the terminal window, into which
`RefreshLine(row)` paints (`_t3_win_refresh_term_line`).  `PreviousWindow` and
`Climb` are the two loops of `get_previous_window`, `Visited` the order they give;
`DrawWindow` is the body of the loop: the lead before the text, the text from the
clipping edge on, the rest after it, with a double-width character at either edge
cut into a space; `FillLine` is the background of the terminal.  `Show`, `Hide`,
`SetDefaultAttrs` and `SetTerminalAttrs` are the calls that change what is seen.
`AtLocation` is `t3_win_at_location`.

The abstract description does not know an order of painting: `Owner` is the
foremost shown window that paints a cell, `Expected` what the cell shows.
`ShowsForemost` compares the two for every cell of the line.

### The update: `TermUpdate`

`lines` is the terminal window, `screen` the cells of the terminal itself, which
is not part of the library: printing puts characters, a double-width character
loses its other half when one is written over, erasing to the end of the line
uses the current attributes on a terminal that has `bce`; what is printed beyond
the last column is lost.  `Update(new)` draws the lines one after the other as
the row loop of `t3_term_update` does: `Begin` (spaces where the line now starts
later), `Round` (skip what is the same unless it is short, print what differs),
`Erase` (the rest of a longer line); `pen` has the attributes with which the drawing of
each row begins.  `s.last` is the column in which the code
believes the cursor to be and `s.at` the one it is in; they differ because
characters go through a buffer (`s.waiting`) while cursor movements and erasing
do not.  The new lines are arbitrary lines that the refresh can make, one per row.
The terminal shows what it should as long as nothing else writes to it; the
cursor after the update is in `Session`, line-drawing characters and user callbacks are
left out.

### The input: `Input`

The terminal (`Answer`, `AnswerSize`) and its user (`Type`, `ResizeTerminal`) are
external: they put characters on `wire`, in the order in which the questions were
asked but mixed with what is typed.  `ReadChar` is `t3_term_get_keychar` with
`parse_position_reports`, `process_position_report` and the tests of
`terminal_detection.h` and `generated/capability_test.h`; every report is taken for
the answer to the question after the last one (`reportNr`).  `GetStored` and `Unget`
share `storedKey`.  `UpdateBegin` and `UpdateEnd` are the two ends of the part of
`t3_term_update` that puts the detection into effect; they are separate actions
because a client may read on a thread of its own, so that any reading may come
between.  The thread that updates the terminal also handles its changes of size
(`TermResize`); without `ioctl` these are asked of the terminal.  What the terminal can
show is a level: tests are ordered, and each raises the level by one.  Numbers
are one character on `wire`.  A read that times out or fails changes nothing and is no
action.

`disturbed`, `hidden`, `forged`, `missed`, `endReturned` and `warned` are not in the code; they
record what the properties speak of, see section 3.  Neither is the field `heard` of a
character.  After an escape the parser takes any character but `[` for the end of what might have
been a report (`src/input.c:165`), also the escape that starts a real one: a report sent
right after a typed escape is lost.  Of several escapes in a row every second one is
the start of something, so that a report is lost after an odd number of them.
`Masked` says that what is sent next will not be heard for this reason, `hidden` counts the reports
of which this is true, and `forged` the keys that are taken for a report.

### Attributes and the time on a terminal: `Attributes` and `Session`

A control string is known by its kind: absent, the one of the ANSI standard, one
of the terminal's own, or one that in fact resets all attributes.
`InitSequences` is `init_sequences` with `detect_ansi`; `SetAttrs` is `_t3_set_attrs` with
its three ways (all off, one by one with the terminal's strings, one ANSI string).
It works on a pair: `attrs`, what the library remembers, and `pen`, how the terminal
prints, on which each string has its own effect.

`TermInit(x, fails)` is `t3_term_init` on terminal `x` in which the call named `fails`
fails; `Calls` is their order, and each effect depends on whether its call was
reached, so that what a failed call leaves behind is there for the next.
`Restore` and `Deinit` are `t3_term_restore` and `t3_term_deinit`.  What the latter does not
reset (`detected`, `known`) stays.  `enabled` has the terminals that were sent enacs, by
`init_sequences` and so before the calls that may still fail; nothing is ever sent that takes it
back.  A terminal that is sent strings taken from another
one's description prints as `Garbled`, of which nothing is claimed.

`cursor` is what the library remembers of the cursor, `wanted` what the client has asked
for, `device[file].at` and `.shown` where it is.  `Update(a, b)` is the end of
`t3_term_update` after a cell was printed with attributes `a` over the window's `b`,
`UpdateCursor` is `t3_term_update_cursor`, which shows or hides the cursor only where that changes
something, and `Redraw` is `t3_term_redraw`.  One column stands for
a position: the code treats line and column alike.

## 3. Runs

| Run | Question | Bounds | States |
|---|---|---|---|
| `tree` | Do the pointers stay consistent and implement the sequences, whatever the calls, and does `t3_win_del` end? | 3 windows, depths 0 and 1, two relations; symmetric windows | 109 086 |
| `geometry` | Do the points meet, and is a window kept inside the terminal? | 2 windows, all 81 relations, offsets -2 and 3, sizes 1 and 4 | 167 936 |
| `geometry_restrict` | Is a window kept inside another window? *No* (finding 1). | as above, restricted to the other window | |
| `paint` | Do writes, combining characters, clearing and resizing do what the cells say? | a client with single and double width on one line of 4 cells, up to 2 characters per write, 1 mark; and one with single width on 1 or 2 lines of 2 or 3 cells | 74 598 |
| `paint_clear` | Does the cached position stay within the line? *No* (finding 2). | one client with combining characters that clears, one line of 3 cells | |
| `refresh` | Does every cell show the foremost window, does a click find it, and is nothing miscounted but as in finding 4? | 3 windows in 3 trees, 3 positions for one and 2 for another, with ancestors that have no column in common among them; each shown or not, with background or not | 107 136 |
| `refresh_clip` | Also for a window of which no column, or no text, is inside its ancestors? *No* (finding 4). | the same | |
| `update` | Does printing the differences show the new line? | all pairs of lines of up to 4 cells, with colour and double width; 1 or 2 rows; 3 kinds of terminal | 570 |
| `update_shown` | Also for a line that becomes shorter or starts later? *No* (finding 3). | one line of 4 cells | |
| `input` | Which reports are lost, does detection end, and does it take effect on time? | 3 terminals, 2 locales, 2 sizes, with and without `ioctl`; 1 key typed and 1 escape more right after an escape, 1 pushed back, 1 change of size | 743 280 |
| `session` | Are attributes and cursor what the library believes, and is the terminal given back? | 7 descriptions, 5 programs, failures of 7 calls | 210 068 |
| `session_cursor` | Is the cursor in place after redrawing and moving it? *No* (finding 5). | one xterm, a program that does both | |

Why these bounds are enough to be interesting:

* *tree*: three windows give chains and siblings together, a window in the middle of a
  list, and loops of length three through different kinds of references; two
  depths give equal and different ones.
* *geometry*: one size is smaller and one is larger than the distance to the edge, odd
  and even sizes make the halves round, and windows overhang the screen on both
  sides.
* *paint*, *update*: four cells hold two double-width characters, so that a write can
  cut one at each end; three equal characters and one that differs reach the limit
  below which `t3_term_update` prints equal characters again.  In `Clients`, `.run` bounds
  the characters of one write, `.marks` the zero-width characters on one character,
  and `.clears` the columns at which a client clears.
* *refresh*: a chain of three clips twice; two siblings in a parent cover each other; a
  family in front of a single window makes the search for the previous window climb.
  The windows reach beyond the terminal on both sides, above it, and beyond each
  other, so far that nothing of a window is inside its ancestors: they have no
  column in common with each other (`mid` at -4 in `rear` at 1) or with the terminal.
* *input*: `MaxKeys`, `MaxUngets`, `MaxResizes` bound how often a user types, a client pushes
  back and the size changes, `MaxEscapes` how many escapes may be typed in addition right after
  an escape, so that a report comes after one and after two of them; `MaxWire` lets the terminal send only while at most so many
  characters wait, which still lets a key come directly before, between and after any two reports.  The keys are a plain
  one, an escape, an arrow key, and F3 with a modifier, which xterm sends as a report.
  The Unicode terminal stops in the middle of the levels.
* *session*: the descriptions are an xterm, a Linux console, ANSI colours with other
  strings, a vt100 without colours, a terminal with all strings its own, one that
  cannot reset its attributes, and one too limited to be used.  `.loads` bounds how
  often a description is read: twice takes a program to a second terminal and back.

**What the properties leave out.**  Some speak only of part of the states, each for a reason:

* The clients of `paint` are `Careful` (finding 2): where both widths are mixed, or characters
  have combining ones, only whole lines are cleared.  `PaintsCells` would fail on the first
  other call and show nothing else.
* `LongerLinesShown` and `NothingLeftOver` speak of lines that start no later than they
  did and that were shown right before, and `update` stops where they no longer are
  (`AllShown`, a constraint), because of finding 3.
* `ShowsForemostText` leaves out rows as in finding 4 (`Misdrawn`): a window with a background
  whose text ends to the left of its ancestors, or one whose ancestors and the terminal have
  no column in common.  `MiscountsOnlyApart` is about the latter, and leaves out nothing.
* `NoReportLost` leaves out nothing: it says which reports are lost and how many are
  made up, by `hidden` and `forged`.
* `NeverOverestimates`, `OutputUnderstood` and `SizeFollows` end where `disturbed` is true: a
  key was typed that is itself a report (F3 with a modifier), or a report was sent right after
  an escape.  From then on answers are taken for those of other questions.  No parser could tell the first
  from a report; the second this parser loses after an odd number of escapes, where another
  one would have read it (`src/input.c:165`).
* `DetectionEnds` ends where more reports were lost than came in addition: the code waits
  for as many reports as there are tests, and only F3 and the report of the size make up
  for a lost one.  That the client is told leaves out the runs in which it pushed back
  the `R` that ended the detection (`endReturned`), which overwrites the warning
  (`src/input.c:292`).
* `SizeFollows` also ends where `missed` is true: the size changed after the terminal had answered
  and before the answer was used.  `t3_term_resize` asks no second time then.
* `ShowsAttrs` leaves out bold and dim where one of them is ANSI (`Blurred`): the two end
  together, and the code does not tell them apart.
* `CursorFollows` is about terminals that can hide the cursor; for the others
  `t3_term_update` makes no attempt.

Deadlock is checked except in `paint_clear`, which ends in states with no further step
once a bad offset has been used, in `input`, which ends when the terminal has answered
and the bounds are used up, and in `session`, where a program that may read no further
description is over.

Which properties a run checks, in words, is said above each definition.  The
refinements are `ImplementsWindowStack` (every step of the pointers is a step of the
sequences or leaves them alone) and `PaintsCells` (the same for lines and cells).
`NoDangling`, `FailedNewIsInvisible`, `DelGivesAwayChildren`, `ShowsForemostText`,
`MiscountsOnlyApart`, `FillsTheLine`, `LongerLinesShown` and `NothingLeftOver` are action properties: what one step may do.  `DetectionEnds` and `SizeFollows` are liveness properties.

**Fairness.**  Only `Input` needs it.  `FairSpec` has weak fairness on `Answer` and
`AnswerSize` (a terminal answers what it is asked; one that does not is never detected,
which the code accepts), on `GetStored` and `ReadChar` (a client reads keys as long as there
are any), on `UpdateBegin` and `UpdateEnd` (it updates the terminal, and an update once
begun runs on), and on `TermResize` (it answers `SIGWINCH`).  Users need not type, resize or
push back anything, so those actions are not fair.

## 4. Findings

1. `t3_win_get_abs_x` and `t3_win_get_abs_y` move a window that starts before the
   window it is restricted to to position 0 instead of to the edge of that window
   (`src/window.c:534`).  Harmless for the terminal, which is at 0; wrong for any
   other window.  Run `geometry_restrict`.
2. `t3_win_clrtoeol` keeps the position cached for what it has cut off
   (`src/window_paint.c:1199`), where the search of the next write relies on it being
   within the line (lines 682-686; `_win_write_blocks` itself resets it where it replaces a
   line, lines 524-527).  When the line is extended again by characters of fewer bytes, the
   search starts beyond its end or in the middle of a block.  Run `paint_clear`.
   The same function has a second mistake, which comes before any property of `LinePaint`
   is of use: its search for the place to cut adds the width of the wrong block (line
   1196), so that with characters of both widths it cuts at the wrong one.
   `PaintsCells` with the clients `MixedClearing` of `MCLinePaint` shows it.
3. A line that becomes shorter is erased from where the cursor happens to be, not
   from the end of the new line (`src/terminal.c:826`): of `aa` shortened to `a`
   nothing is left on the screen.  And a line that starts further to the right than it
   did can be printed too far to the right, with the old text still on the screen:
   spaces are buffered, and the cursor is moved past them before they are printed
   (`src/terminal.c:752`).  Run `update_shown`.
4. The condition by which `_t3_win_refresh_term_line` skips lines that are "fully clipped by the
   parent window" looks at the two edges one by one (`src/window_paint.c:1076`).  Where the
   ancestors of a window and the terminal have no column in common, its left edge is to the
   right of its right one, and a line between them is not skipped: a window with a
   background then has a negative number of spaces drawn (lines 1097, 1110 and 1143), and of
   the negative count `count & 7` blocks are written of which one was set
   (line 989).  This is the trace of the run `refresh_clip`.  And the condition compares the
   end of the text with the left edge: a line whose text ends before it is skipped
   also where the window has a background that reaches into the parent.
5. `t3_term_redraw` marks the position of the cursor as wrong by adding one to the
   column; a client that then moves the cursor to just that column finds it at the
   top left corner (`src/terminal.c:885`).  Run `session_cursor`.

What else was met while modelling, and leads to undefined behaviour or to nothing a
property here could say, is in the notes of `hazards` in `PROJECT.json`.

## 5. Proofs

### The tree

`WindowTreeProofs` proves, for any set of windows, any depths and any relations:
`TypeCorrect`, `NeverLoops`, `AnchorWhereNeeded`, `NeverDangling`, `ListsWellFormed`,
`LettingGoSuffices`, `FailedNewUndone`, `ChildrenGivenAway` and `SearchesEnd`.  They assume the named assumptions of
`WindowTree`: `NULL` and the terminal are not windows, depths are integers, 0 is
one of them, and TOPLEFT is a relation.

All rest on one inductive invariant, `IInv`: `TypeOK`, `NoLoops`, `RelationNeedsAnchor`,
`ListsAgree`, and in addition `NothingLeftBehind`.  Why more than the properties is needed:

* Lists are about allocated windows, so that the parents of these have to be: the
  first conjunct.  Freeing a window keeps it because the list of its children is
  empty and lists are complete (`ListsAgree`, in lemma `EmptyListNoChildren`).
* A new window cannot close a loop because it refers to its parent only and nothing
  refers to it: no allocated window by the guard of `New`, no other by the second conjunct.
* A window put into a list must not carry pointers from an earlier life: the third
  conjunct.

The argument: `NoLoopThroughNewRef` shows that a set in which every window refers
to another of the set, after a reference was added, contains a path back, which
is what `has_loops` tests.  `RemoveKeepsLists`, `SearchFindsPlace` and
`InsertKeepsLists` show that the two list functions keep the list invariant, and
that the search ends at a place before which everything is above the window.
Each action then has a lemma `...KeepsIInv`; `NextKeepsIInv` puts them together.
"No ring" and "no loop" are stated with sets (every non-empty set of windows has
one whose reference leaves the set), which needs neither recursion nor finiteness.
`NeverDangling` says of each call which references it adds, which are to allocated windows,
and that only `DelFree` frees memory (`DanglesOnlyWhenFreed`).
`LettingGoSuffices` draws the conclusion for a client: one that anchors and restricts
nothing to a window any more when it deletes it never has a reference to freed memory.
`ChildrenGivenAway` uses that a child given to no parent has one reference less, so that
no loop can be found and `t3_win_set_parent` cannot refuse; `SearchesEnd` that a list
without rings is passed as a whole when nothing stops the search, and with it its
tail, after which comes `NULL`.

### The input

The first part of `InputProofs` proves, for any terminals, locales, sizes, keys and bounds,
`ScreenIsUpToDate`: with no update due, the screen was printed with what is known now.
`BeliefInv` says that only the two encodings that have levels are believed to have any;
lemma `Learns` that every report adds to what is believed.  `ScreenInv` says that before the
end of the detection the screen shows no more than is believed, so that nothing was
learned where `NeedsRedraw` asks for nothing, and what the flag means while an update is
under way.

The second part proves how many reports are found, that these, which do not say what they answer,
are taken for the right question where nothing is disturbed, and what follows from it:

* `ReportsAreFound`: `NoReportLost`, whatever is typed.  `Tally` is that equation, with the reports on
  the wire counted by the cardinality of the positions of `R` (`Count`), together with `Legible`: how the
  line looks to the parser in its state.  `EscapeFits` says of every escape whether the parser will
  be at the start or right after another escape when it comes, `ReportFits` of every `R` that the
  characters before it are those of a report, as many as are still on the wire, and that the parser
  has read the others or is at the start, as the report is heard or not.  Reading a character keeps this
  (`LegibleRead`, `ReadingTallies`), and so does whatever is sent (`LegibleSent`, `SentTally`).
* `Ordered` goes further where nothing is `disturbed`: the reports on the wire are the answers to the
  questions from `reportNr` on.  Reading keeps it (`ReadInOrder`), and so do keys (`KeyInOrder`)
  and reports (`ReportInOrder`).
* `AbilitiesAreReal`: `NeverOverestimates`.  By `RightQuestion` every column is that of the
  question it is taken for; `Known` says what is then known after so many reports.
* `EncodingIsUnderstood`: `OutputUnderstood`.  After two reports the encoding is known, and
  `CharsetInv` says which converter is in use before, while and after an update puts
  it into effect.
* `InputTyped`: `TypeOK`.

The proofs of the first part assume nothing of the constants; those of the second the types of
`Kinds`, `Sizes` and `Keys`, and that a terminal for GB 18030 has its combining characters, which
`terminal_detection.h` takes for granted without a question.  None assumes fairness.

### The placement

`WindowGeometryProofs` proves, for any number of windows and any loop-free references:

* `AnchoredPointsMeet`: `PointsMeet`, over any chain of anchors.
* `RestrictedWindowsInside`: `InsideTerminal`.

`PlaceInv` types the state and keeps what the assumptions say of the references.  The
position of a window is a recursive function, which TLA+ defines by choosing: nothing can be
said of it before some function is known to satisfy its equation.  The lemmas show this
without induction: a set of windows that refer only to each other can be extended by one more
whose references it holds, the union of all sets that have such a function has one, and
were it not all of them, there would be one more window to add, by `StructuresAssumption`.
With that, each position satisfies its equation (`Placed`), and both theorems are arithmetic
on halves and edges.

### The lines of a window

`LinePaintProofs` proves, for any characters, attributes, sizes and clients that are
`Careful`:

* `LineTypes`: `TypeOK`.
* `LineWidths`: `WidthMatchesData`, the width kept for a line is that of its data.
* `SearchesFind`: `NeverDamaged`, each search is entered at the start of a block and finds
  one.

All rest on `LineInv` (`LinesInOrder`).  What it adds is `CacheFits`: the cached position, where
it belongs to a line of the window, is the start of one of its blocks, and the cached width is the
column of that start.  Writing keeps this in each of the four cases, because a write that changes
anything before the cached position forgets or moves it.  The lines on which clearing would break it are kept
out by `Careful`: with characters of one size, a position beyond the cut end
becomes the start of a block again as soon as the line reaches it, and this is what `LineInv`
says then; with whole lines, it is reset when the next character is written.  The work is in
sums: how the cells and bytes of the first blocks of a line depend on what
is put in, taken out and replaced.  Those lemmas are in `Counting`.

### The order of the windows

`RefreshProofs` proves, for any number of windows, in trees of any shape, of any sizes and at any
places:

* `DrawnBackToFront`: the windows that `get_previous_window` gives one after the other
  (`Visited`) are the shown ones, all of them, each after every window that it is in front of.
* `ClicksFindForemost`: `FindsForemost`.

They assume of the lists what `WindowTree` is proved to keep (`ListsWellFormed`, `NeverLoops`), said
of sequences: each window is in one list, once, and no window is its own ancestor
(`StacksAssumption`); and that there are finitely many windows.  The invariant `TreeInv` is only
that, since drawing does not change the tree; the work is in what the iteration does with
it.  `FromTheTop` is induction along the parents; with it `ParentsRecursion` gives the recursive
functions behind `Ancestors` and `Climb` a solution, so that they satisfy their equations.
`PathIsChain` and `OneChild` make `InFront` an order (`InFrontOfAll`, `NotInFrontOfItself`).
`ClimbFinds` is the heart: the loop that climbs from a window finds the rearmost of
the shown windows on its front side, whether the window itself is shown or not; `LastFinds` says the
same of going down to the last child, so that the next window visited is the one right in front
(`PreviousFinds`).  `InOrder` keeps, for each place of the iteration, that what was not visited is in
front; were a window still missing after as many places as there are windows, there would be
one window too many (`AllVisited`).  What is left for `t3_win_at_location` is that its four bounds
mean what they say (`CellMeans`).

### The update of the terminal

`TermUpdateProofs` proves, for lines of any length, any characters and sizes:

* `OnlyWhatWasAsked`: `TypeOK`.
* `LongerLinesDrawnRight`: `LongerLinesShown`.
* `ErasedAfterLines`: `NothingLeftOver`.

The invariant `UpdateInv` types the terminal.  The two action properties need an invariant of
the loop that draws a line, `DrawingOver`: the row is the new line up to the blocks
passed and the old one from there on (`Partly`), except for the other half of a character cut in two;
the cursor is not past that place, and where the code believes it to be if the code
believes it to be there.  Skipping blocks keeps this because they are the same in the same columns,
printing because it begins where the cursor is or has been moved to.  That the new line
starts no later (`StartsNoLater`) is where it is needed that nothing waits in the buffer: with
spaces waiting the invariant is false from the start, which is finding 3.  The loop is a
recursive function on the number of rounds; `Recursion` in `Counting` gives its
existence, and `DrawEnds` what holds after the last round, since each round passes at least one block.

### The time on a terminal

`SessionProofs` proves, for any terminals, programs, attributes and failures:

* `SessionTyped`: `TypeOK`.  `Typing` is stronger: it types every field of the
  terminals, of the attributes and of the strings in use.
* `TerminalGivenBack`, for descriptions with a string that resets the attributes (the
  hypothesis `Resets`): a terminal not in use is as it was found.  `AttributesKnown` says
  that while the library believes in normal attributes the terminal prints normally,
  `CursorReturns` that a hidden cursor is remembered as hidden.  On a terminal that cannot
  reset, attributes that cannot be turned off stay; TLC checks the one of the run.
* `CursorIsThere`, for programs that do not both redraw and move the cursor (the
  hypothesis `Careful`, made necessary by finding 5): `CursorFollows`.  `RedrawsAtHome` says that
  such a program has the cursor in one column only, so that the mark left by
  `t3_term_redraw` is never a column it asks for; `CursorKnown` what the terminal does with its
  cursor whenever the library believes it in place.
* `AttributesAreShown`, for descriptions that can reset (`Resets`) and are `Coherent` (a string
  that ends both underlining and the alternate character set is the end of either; where colours can
  be taken back they can be set): `ShowsAttrs`, with its part about enacs
  (`AlternateStep`).  It needs no strengthening of its own beyond `Typing` and `BackInv`.
  `Fitting` collects what `init_sequences` ensures of the settings; `SetShows` goes through
  `_t3_set_attrs` step by step: after resetting nothing in the mask is left to turn off
  (`ResetShows`), so that the strings sent one by one end nothing else (`ChangeShows`), op never
  leaves the other colour unset (`ColoursShow`), and the ANSI string does what is left
  (`AnsiShows`).  A terminal in use with the strings of another one is only ever asked for what it
  already has (`SetSame`), or is `Garbled`.

They assume the named assumptions of `Session`: the descriptions and attributes have
their types, `Null` is none of the devices, 0 is a column.

### Only model-checked

* The liveness properties of `Input`: the provers do not reach fairness.
* The refinements `ImplementsWindowStack` and `PaintsCells`.  Their mappings build sequences by
  following lists and by joining blocks; `Recursion` makes such functions accessible to
  proofs, but the steps are still to be shown.
* Of `Refresh`, what the cells of a line show: `ShowsForemostText`, `MiscountsOnlyApart` and
  `FillsTheLine`.  The order in which the windows are drawn is proved; what each leaves of the
  others is not.
* What the hypotheses leave out: terminals that cannot reset their attributes, and clients that are not
  `Careful`, of which the runs of the findings show what goes wrong.

Induction over numbers is had from the least element of a set of numbers
(`InductionOnSet` in `Counting`, from the well-foundedness of `<`), stated for sets, since a
lemma that takes a predicate could not be used.

## 6. Not modelled, and what is left

Not modelled for good: the generated character tables, `utf8.c` (conversions without
state), the wrappers of the curses interface, error texts and logging, the conversion by
libtranscript and libunistring, the parsing of terminfo strings and of the parts of
`T3WINDOW_OPTS` other than `ansi=off`.  Terminals that set colours only in pairs are in
`Attributes`, but no instance has one.

Left:

1. Running out of memory while painting and in `t3_win_resize`: one allocation failing at a
   time, with the line as it was before.
2. The map from attributes to the numbers stored in lines (`_t3_map_attr`), which is freed
   by `t3_term_deinit` while windows keep the numbers.
3. Line-drawing characters with their fallbacks and user callbacks in
   `t3_term_update`, and the replacing of characters the terminal cannot show.
