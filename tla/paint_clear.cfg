SPECIFICATION Spec
CONSTANTS
    Chars = {"space", "narrow", "wide"}
    Space = "space"
    CharWidth <- WidthOfChar
    CharBytes <- BytesOfChar
    Attrs = {"a"}
    DefaultAttr = "default"
    Clients <- UnevenClearing
INVARIANTS CachedPosInLine
CHECK_DEADLOCK FALSE
