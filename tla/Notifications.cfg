SPECIFICATION NotificationSpec
CONSTANTS
    model = model
    listener = listener
    Uris = {model}
    SharedUri = model
    Listeners = {listener}
    NoUri = NoUri
    NoListener = NoListener
    MaxSockets = 2
    Strictness = {TRUE, FALSE}
    NumSubscribers = 2
    Requesters = {1}
    OtherMessages <- MCOtherMessages
    MaxChanges = 2
INVARIANTS
    NotificationTypeOK
    FollowsServer
    UpdatesReachBothApis
    ListenersAgree
    GuardsRecogniseEvents
    MenuPrintsAllButText
PROPERTIES
    FollowsHistory
CHECK_DEADLOCK FALSE
