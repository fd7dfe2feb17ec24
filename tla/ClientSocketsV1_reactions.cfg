SPECIFICATION Spec
CONSTANTS
    modelA = modelA
    modelB = modelB
    listener1 = listener1
    listener2 = listener2
    Uris = {modelA, modelB}
    Listeners = {listener1, listener2}
    NoUri = NoUri
    NoListener = NoListener
    MaxSockets = 3
    Strictness = {TRUE, FALSE}
    Reactions = {"none", "resubscribe"}
    Patient = FALSE
INVARIANTS
    EntryIsNewest
PROPERTIES
    StaleOnlyByRefusedListener
SYMMETRY Symmetry
