CONSTANTS
    a = a
    b = b
    p1 = p1
    p2 = p2
    s1 = s1
    s2 = s2
    q1 = q1
    Procs = {p1}
    Threads = {a, b}
    ProcOf <- OneProcess
    Scopes = {s1, s2}
    Queries = {q1}
    ScopesOf <- AllScopes
    None = None
    MaxCommits = 1
    MaxTokens = 4
    MaxCalls = 1
    MaxFaults = 1
SPECIFICATION Spec
INVARIANTS NoFillAfterInvalidation BlockedKeysStayIndexed
SYMMETRY Interchangeable
