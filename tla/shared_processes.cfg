CONSTANTS
    a = a
    b = b
    p1 = p1
    p2 = p2
    s1 = s1
    s2 = s2
    q1 = q1
    Procs = {p1, p2}
    Threads = {p1, p2}
    ProcOf <- OneThreadEach
    Scopes = {s1}
    Queries = {q1}
    ScopesOf <- AllScopes
    None = None
    MaxCommits = 1
    MaxTokens = 3
    MaxCalls = 1
    MaxFaults = 1
SPECIFICATION Spec
INVARIANTS TypeOK HitIsFresh
PROPERTIES InstalledTokensAreNew KeepsContract
SYMMETRY Interchangeable
