SPECIFICATION Spec
CONSTANTS
    elementA = elementA
    elementB = elementB
    Ids = {elementA, elementB}
    RootId = RootId
    NoId = NoId
    Models = {model}
    LeafSeverities <- MCLeafSeverities
    MaxDiagnostics = 4
    MaxChildren = 2
SYMMETRY MCSymmetry
INVARIANTS
    TypeOK
    LabelIsWorstLeaf
    MarkersAreCurrent
