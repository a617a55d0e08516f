CONSTANTS
    t1 = t1
    t2 = t2
    ma = ma
    mb = mb
    qa = qa
    qb = qb
    qab = qab
    Threads = {t1, t2}
    Models = {ma, mb}
    Queries = {qa, qb, qab}
    ModelsOf <- Joined
    None = None
    MaxSize = 2
    TTL = 2
    MaxCommits = 2
    MaxCalls = 1
    MaxTime = 2
    MaxUses = 4
SPECIFICATION Spec
INVARIANTS TypeOK StoredIsFresh StoredIsIndexed
PROPERTY EvictsLeastRecent
SYMMETRY Alike
CHECK_DEADLOCK FALSE
