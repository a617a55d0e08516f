CONSTANTS
    q1 = q1
    q2 = q2
    q3 = q3
    Requests = {q1, q2, q3}
    Limit = 2
    Window = 6
    Latency = 1
    Drift = 1
    Opening = 7
    Closing = 17
SPECIFICATION LimiterSpec
INVARIANTS LimiterInv LimitKept
PROPERTY RejectionsJustified
SYMMETRY Alike
CHECK_DEADLOCK FALSE
