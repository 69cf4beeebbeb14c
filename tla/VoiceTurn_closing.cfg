\* One turn of one sentence that ends the call: the system stops.
SPECIFICATION TurnSpec
CONSTANTS
    MaxUtterances = 1
    MaxSentences = 1
    MaxFailures = 1
PROPERTY ClosingLineHeard
CHECK_DEADLOCK FALSE
