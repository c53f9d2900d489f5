SPECIFICATION Spec
CONSTANTS
    Glyphs <- NarrowGlyphs
    Space = "space"
    Plain = "plain"
    ForegroundOnly = {"plain"}
    Sizes <- OneLine
    Capabilities <- UsualTerminal
PROPERTIES LinesShown
