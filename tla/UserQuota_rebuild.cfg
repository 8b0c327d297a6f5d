SPECIFICATION Spec
CONSTANTS
    n1 = n1
    n2 = n2
    a = a
    b = b
    c = c
    t = t
    x = x
    r = r
    e = e
    s = s
    Node = {n1}
    Op = {a}
    Kind <- ChargeKind
    Reader = {r}
    Editor = {}
    Saver = {}
    NodeOf <- ChargeNode
    Workload <- Alone
    MayFail = FALSE
    MayCrash = FALSE
INVARIANTS
    RebuildDropsNothing
