SPECIFICATION Spec
CONSTANTS
    Null = Null
    Devices = {"xterm"}
    Describes <- MCDescribes
    Programs = {"both"}
    Does <- MCDoes
    Failures = {}
INVARIANTS CursorFollows
