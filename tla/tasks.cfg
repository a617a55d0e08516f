CONSTANTS
    t1 = t1
    t2 = t2
    w1 = w1
    w2 = w2
    c1 = c1
    c2 = c2
    Tasks = {t1, t2}
    Delayed = {t1}
    Retries <- OneRetry
    Slots = {w1, w2}
    Stoppers = {c1, c2}
    None = None
    MaxCancels = 1
SPECIFICATION Spec
INVARIANTS TypeOK StopDrains InOnePlace AttemptsReported
PROPERTIES TasksFinish StopReturns
CHECK_DEADLOCK FALSE
