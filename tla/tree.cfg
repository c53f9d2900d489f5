SPECIFICATION Spec
CONSTANTS
    Windows = {w1, w2, w3}
    Terminal = Terminal
    Null = Null
    Depths = {0, 1}
    TopLeft = TopLeft
    Relations = {TopLeft, Other}
SYMMETRY Symmetry
INVARIANTS TypeOK NoLoops RelationNeedsAnchor ListsAgree SearchEnds
PROPERTIES NoDangling FailedNewIsInvisible DelGivesAwayChildren ImplementsWindowStack
