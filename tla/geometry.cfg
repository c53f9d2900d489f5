SPECIFICATION Spec
CONSTANTS
    base = base
    win = win
    Terminal = Terminal
    Null = Null
    Windows <- TwoWindows
    Structures <- TwoWindowStructures
    Restricts = {Null, Terminal}
    Offsets <- NearAndFar
    Sizes = {1, 4}
    ScreenSize <- Screen
INVARIANTS PointsMeet InsideTerminal
