\* Deliveries of any length: passes outlive their leases and rows are claimed
\* twice. Only the fence protects the table. Time
\* stops at Horizon.
SPECIFICATION Spec
CONSTANTS
    r1 = r1
    r2 = r2
    p1 = p1
    p2 = p2
    Rows = {r1, r2}
    NoRow = NoRow
    Pods = {p1, p2}
    Skew <- OneClock
    Batch = 2
    RowTime = 1
    Lease = 3
    Backoff <- ShortBackoff
    MaxAge = 4
    PermanentThreshold = 2
    Retention = 2
    Horizon = 4
    Timely = FALSE
PROPERTIES
    NewerClaimKept
    ImplementsContract
CHECK_DEADLOCK FALSE
