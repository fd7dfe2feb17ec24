SPECIFICATION BackendSpec
CONSTANTS
    modelA = modelA
    modelB = modelB
    listener1 = listener1
    listener2 = listener2
    Uris = {modelA, modelB}
    Listeners = {listener1, listener2}
    NoUri = NoUri
    NoListener = NoListener
    MaxSockets = 2
    Strictness = {TRUE}
INVARIANTS
    SelfSubscribed
CHECK_DEADLOCK FALSE
