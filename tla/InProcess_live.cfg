\* Chats: two connections, the agent may end the session; with one of them at a time also a
\* reply, a decline and a restart.
\* Config: two updates, two visits, one fault. Campaign: two leads with a number each, two
\* attempts, one call per window, one at a time. Customers, agents and visitors may be
\* gone for good, so the system may stop.
SPECIFICATION ProcessFairSpec
CONSTANTS
    Conns = {c1, c2}
    Agents = {a1}
    Declines = {d1}
    Jobs = {}
    Texts = {m1}
    End = End
    NoConn = NoConn
    MaxConnects = 2
    MaxReplies = 1
    MaxRestarts = 1
    AgentEnds = TRUE
    Updates = {u1, u2}
    Visits = {v1, v2}
    MaxConfigFaults = 1
    Nobody = Nobody
    Leads = {1, 2}
    PhoneOf <- ThePhones
    MaxAttempts = 2
    RetryInterval = 2
    CallsPerWindow = 1
    Window = 1
    PollCap = 2
    Semaphore = 1
INVARIANTS
    ProcessTypesOK
    UpdateTakesHold
    OneLoad
    LeadsAccounted
PROPERTIES
    HumanModeEnds
    CampaignEnds
CHECK_DEADLOCK FALSE
