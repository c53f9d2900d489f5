SPECIFICATION FairSpec
CONSTANTS
    Kinds <- SomeKinds
    Codesets = {"utf8", "latin1"}
    Sizes <- TwoSizes
    StaticSize <- Static
    Keys = {"key", "esc", "arrow", "f3"}
    UngetChars = {"key", "R"}
    MaxKeys = 1
    MaxEscapes = 1
    MaxUngets = 1
    MaxResizes = 1
    MaxWire = 1
INVARIANTS TypeOK  NeverOverestimates OutputUnderstood ScreenUpToDate
PROPERTIES DetectionEnds SizeFollows
CHECK_DEADLOCK FALSE
