SPECIFICATION FairSpec
CONSTANTS
    modelA = modelA
    modelB = modelB
    listener1 = listener1
    listener2 = listener2
    Uris = {modelA, modelB}
    Listeners = {listener1}
    NoUri = NoUri
    NoListener = NoListener
    MaxSockets = 3
    Strictness = {TRUE}
INVARIANTS
    TypeOK
    LiveSocketIsRegistered
PROPERTIES
    UnsubscribeSilences
    KeepsPromise
