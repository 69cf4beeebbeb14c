\* Two connections of the customer, an agent and a job that escalates. Customers
\* and agents may be gone for good, so the system may stop.
\* Three messages of one conversation of an outside platform, one failure, and a key that
\* expires once.
SPECIFICATION RoutingSpec
CONSTANTS
    Conns = {c1, c2}
    Agents = {a1}
    Declines = {}
    Jobs = {j1}
    Texts = {m1}
    End = End
    NoConn = NoConn
    MaxConnects = 2
    MaxReplies = 0
    MaxRestarts = 0
    AgentEnds = FALSE
    Messages = {1, 2, 3}
    NoSession = NoSession
    KeyTTL = 2
    MaxExtNow = 2
    MaxExtFaults = 1
SYMMETRY ConnAndTextSymmetry
INVARIANTS
    PushReachesNewest
    OneAddressee
    ConversationRemembered
CHECK_DEADLOCK FALSE
