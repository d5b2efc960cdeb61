SPECIFICATION Spec
CONSTANTS
    p1 = p1
    p2 = p2
    p3 = p3
    p4 = p4
    Tables <- MCTables
    DeckRanks <- MCDeckRanks
    nbOfCopies = 3
SYMMETRY MCSymmetry
INVARIANTS
    TypeOK
    PointsAreTheBestTotal
    TallyAgreesWithLoops
    ShoeLasts
PROPERTIES
    BustIsFinal
CHECK_DEADLOCK FALSE
