CONSTANTS
    u1 = u1
    u2 = u2
    u3 = u3
    Users = {u1, u2, u3}
    MaxLocks = 4
    MaxFaults = 2
SPECIFICATION Spec
INVARIANTS LockInv Exclusion NoLeak
SYMMETRY Alike
CHECK_DEADLOCK FALSE
