SPECIFICATION Spec
CONSTANTS
    Chars = {"space", "narrow", "wide"}
    Space = "space"
    CharWidth <- WidthOfChar
    CharBytes <- BytesOfChar
    Attrs = {"a"}
    DefaultAttr = "default"
    Clients <- CarefulClients
INVARIANTS TypeOK WidthMatchesData NeverDamaged
PROPERTIES PaintsCells
