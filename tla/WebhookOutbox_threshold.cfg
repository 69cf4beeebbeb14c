\* Claims abandoned before their delivery began still count as attempts.
SPECIFICATION Spec
CONSTANTS
    r1 = r1
    r2 = r2
    p1 = p1
    p2 = p2
    Rows = {r1}
    NoRow = NoRow
    Pods = {p1, p2}
    Skew <- SkewedClocks
    Batch = 1
    RowTime = 1
    Lease = 3
    Backoff <- ShortBackoff
    MaxAge = 12
    PermanentThreshold = 3
    Retention = 9
    Horizon = 10
    Timely = TRUE
PROPERTIES
    DeadOnlyAfterThreshold
CHECK_DEADLOCK FALSE
