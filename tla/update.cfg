SPECIFICATION Spec
CONSTANTS
    Glyphs <- MixedGlyphs
    Space = "space"
    Plain = "plain"
    ForegroundOnly = {"plain"}
    Sizes <- SmallSizes
    Capabilities <- Terminals
CONSTRAINT AllShown
INVARIANTS TypeOK
PROPERTIES LongerLinesShown NothingLeftOver
