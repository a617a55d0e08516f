CONSTANTS
    r1 = r1
    r2 = r2
    r3 = r3
    Threads = {r1, r2, r3}
    Lags = {1, 3}
    MaxLag = 2
    Unbounded = 9
    Interval = 2
    Uptime = 2
    MaxTime = 4
    MaxDepth = 2
    None = None
SPECIFICATION RouterSpec
INVARIANTS RouterTypeOK FreshLag ReadsOwnWrites
PROPERTY OneFetchPerInterval
SYMMETRY Alike
CHECK_DEADLOCK FALSE
