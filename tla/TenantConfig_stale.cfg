\* One update of the tenant, a socket that is open already, and another visit; nothing fails.
SPECIFICATION ConfigSpec
CONSTANTS
    Updates = {u1}
    Visits = {v1, v2}
    MaxConfigFaults = 0
    Nobody = Nobody
INVARIANT NoStaleClient
CHECK_DEADLOCK FALSE
