CONSTANTS
    t1 = t1
    t2 = t2
    w1 = w1
    w2 = w2
    c1 = c1
    c2 = c2
    Tasks = {t1}
    Delayed = {}
    Retries <- OneRetry
    Slots = {w1}
    Stoppers = {c1}
    None = None
    MaxCancels = 0
SPECIFICATION Spec
INVARIANT StartServes
CHECK_DEADLOCK FALSE
