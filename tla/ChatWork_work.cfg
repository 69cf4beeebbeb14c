SPECIFICATION WorkFairSpec
CONSTANTS
    Requests = {r1}
    Callbacks = {1, 2}
    Relays = {1, 2}
    Bodies = {b1, statement}
    Statement = statement
    Checks = {1, 2}
    Timeout = 1
    Multiplier = 2
    Patient = TRUE
    PerOrder = 1
    SigHistory = 2
    MaxNow = 2
    MaxFaults = 1
    CrmTools = {a, b}
    LabelOf <- TheLabels
    MaxRounds = 2
    Budget = 1
    Ceiling = 1
    MinSlice = 1
    MaxCalls = 2
    MaxTurns = 2
    MaxInterims = 1
INVARIANTS
    WorkTypesOK
    OneHandoff
    ToldOnce
    DirectiveHonest
    AnswerWhole
PROPERTIES
    TimeoutsJust
    SubmittedIsSettled
    TurnAnswered
CHECK_DEADLOCK FALSE
