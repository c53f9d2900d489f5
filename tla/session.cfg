SPECIFICATION Spec
CONSTANTS
    Null = Null
    Devices = {"xterm", "linux", "mixture", "vt100", "own", "bare", "limited"}
    Describes <- MCDescribes
    Programs = {"coloured", "plain", "moving", "leaving", "redrawing"}
    Does <- MCDoes
    Failures = {"open", "sequences", "size", "charset", "window", "data", "mode"}
CHECK_DEADLOCK FALSE \* a program ends
INVARIANTS TypeOK ShowsAttrs GivenBack CursorFollows
