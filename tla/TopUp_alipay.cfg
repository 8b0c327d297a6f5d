SPECIFICATION Spec
CONSTANTS
    e = e
    l = l
    n1 = n1
    be = be
    bl = bl
    x = x
    y = y
    a = a
    q = q
    Order = {l}
    Epay = {}
    Node = {n1}
    Buyer = {bl}
    Notice = {y}
    Query = {q}
    Admin = {}
    OrderOf <- AlipayOrder
    NodeOf <- OneNode
    Flaky = {}
    MayCrash = FALSE
CHECK_DEADLOCK FALSE
INVARIANTS
    CreditedOnce
