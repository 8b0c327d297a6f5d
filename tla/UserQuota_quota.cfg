SPECIFICATION FairSpec
CONSTANTS
    n1 = n1
    n2 = n2
    a = a
    b = b
    c = c
    t = t
    x = x
    r = r
    e = e
    s = s
    Node = {n1, n2}
    Op = {a, b, c, t, x}
    Kind <- QuotaKind
    Reader = {r}
    Editor = {e}
    Saver = {s}
    NodeOf <- QuotaNode
    Workload <- Together
    MayFail = TRUE
    MayCrash = TRUE
INVARIANTS
    TypeOK
    AppliedOnce
    CacheCountsOnce
PROPERTIES
    CacheConverges
