SPECIFICATION Spec
CONSTANTS
    t1 = t1
    t2 = t2
    t3 = t3
    t4 = t4
    c1 = c1
    c2 = c2
    c3 = c3
    p1 = p1
    p2 = p2
    f1 = f1
    Channel = {c1, c2, c3}
    ChannelOf <- Channels
    Task = {t1, t2, t3, t4}
    Poller = {p1, p2}
    Fetcher = {f1}
    Platform <- Platforms
    Quota <- Prices
    Site <- Paid
INVARIANTS
    NeverOverRefunded
