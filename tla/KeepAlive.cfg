SPECIFICATION KeepAliveSpec
CONSTANTS
    modelA = modelA
    modelB = modelB
    listener1 = listener1
    listener2 = listener2
    Uris = {modelA, modelB}
    Listeners = {listener1, listener2}
    NoUri = NoUri
    NoListener = NoListener
    MaxSockets = 3
    KeptUri = modelA
    MaxIntervals = 2
    Strictness = {TRUE, FALSE}
INVARIANTS
    IntervalHasEntry
    EntryIsNewest
    StrandedOnlyBySuccessor
SYMMETRY Symmetry
