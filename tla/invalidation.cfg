CONSTANTS
    article = article
    author = author
    tag = tag
    tagging = tagging
    c1 = c1
    c2 = c2
    Conns = {c1, c2}
    Models = {article, author, tag, tagging}
    Enabled = {article, tag}
    Links <- Library
    Queries <- Listings
    None = None
    MaxConnects = 3
    MaxCommits = 2
    MaxWrites = 2
    MaxDepth = 2
SPECIFICATION Spec
INVARIANTS TypeOK StaleOnlyWhileAnnounced OnlyCommittedRows RollbackIsSilent
SYMMETRY Alike
CHECK_DEADLOCK FALSE
