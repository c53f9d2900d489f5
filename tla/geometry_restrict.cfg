SPECIFICATION Spec
CONSTANTS
    base = base
    win = win
    Terminal = Terminal
    Null = Null
    Windows <- TwoWindows
    Structures <- TwoWindowStructures
    Restricts = {base}
    Offsets = {0, 3}
    Sizes = {1, 4}
    ScreenSize <- Screen
INVARIANTS InsideRestriction
