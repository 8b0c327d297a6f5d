SPECIFICATION FairSpec
CONSTANTS
    e = e
    l = l
    n1 = n1
    be = be
    bl = bl
    x = x
    y = y
    a = a
    q = q
    Order = {e, l}
    Epay = {e}
    Node = {n1}
    Buyer = {be, bl}
    Notice = {x, y}
    Query = {q}
    Admin = {a}
    OrderOf <- OneOrder
    NodeOf <- OneNode
    Flaky = {y, a, q, bl}
    MayCrash = TRUE
CHECK_DEADLOCK FALSE
INVARIANTS
    TypeOK
    MutualExclusion
    EntryInUse
    CreditedOnce
PROPERTIES
    PaidCredited
    ImplementsMutex
