\* One call on either pipeline, and its end: the system stops.
CONSTANTS
    MaxTurns = 2
    MaxUtterances = 2
    MaxSentences = 2
    MaxFailures = 2
SPECIFICATION VoiceCallsFairSpec
INVARIANTS
    TypesOK
    OutcomeUnlessCut
    NoApologyAfterSuccess
    SpokenInOrder
PROPERTIES
    WholeCallAnalysed
    HoldKept
    CallEnds
    TurnsEnd
CHECK_DEADLOCK FALSE
