\* The customer reconnects while an agent is there.
SPECIFICATION Spec
CONSTANTS
    Conns = {c1}
    Agents = {a1}
    Declines = {}
    Jobs = {}
    Texts = {m1}
    End = End
    NoConn = NoConn
    MaxConnects = 2
    MaxReplies = 0
    MaxRestarts = 0
    AgentEnds = FALSE
PROPERTIES
    NoExpiryUnderAgent
CHECK_DEADLOCK FALSE
