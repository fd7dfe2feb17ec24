SPECIFICATION Spec
CONSTANTS
    Elements <- MCElements
    Formats <- MCFormats
    Models <- MCModels
    Bodies <- MCBodies
    AnswerData <- MCAnswerData
    Options <- MCOptions
    AsJson <- Convert
INVARIANTS
    CallsTypeOK
    OptionsHonoured
    BodyInDeclaredFormat
    CallArrives
    CallerToldTruth
    RemovesWhatWasMeant
    ModelsPatchedRight
