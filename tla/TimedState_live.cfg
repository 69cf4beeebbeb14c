\* Outbox: one row, two pods, until long after the row's maximum age. Calls: one with every
\* request there is, or two with two requests in all, one fault. Handoff: three sockets on
\* two tokens of the session. Each of them comes to a stop.
SPECIFICATION TimedFairSpec
CONSTANTS
    r1 = r1
    r2 = r2
    p1 = p1
    p2 = p2
    Rows = {r1}
    NoRow = NoRow
    Pods = {p1, p2}
    Skew <- SkewedClocks
    Batch = 1
    RowTime = 1
    Lease = 3
    Backoff <- ShortBackoff
    MaxAge = 4
    PermanentThreshold = 2
    Retention = 6
    Horizon = 9
    Timely = TRUE
    Calls = {1, 2}
    Mixes <- TheMixes
    Deliveries = {1, 2}
    Registrations = {1, 2}
    Cap = 1
    MaxCallFaults = 1
    s1 = s1
    s2 = s2
    s3 = s3
    t1 = t1
    t2 = t2
    Sockets = {s1, s2, s3}
    Tokens = {t1, t2}
    TokenOf <- TheTokens
    Free = Free
    LockTTL = 4
    RenewEvery = 1
    MaxMissed = 1
    MaxLag = 1
INVARIANTS
    LeaseExclusive
    OneAgentPerRoom
    OneRecord
    CapHeld
    LockExclusive
PROPERTIES
    PendingSettles
    EveryCallCloses
    EndReachesVoice
    TokenUsableAgain
CHECK_DEADLOCK FALSE
