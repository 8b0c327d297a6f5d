SPECIFICATION FairSpec
CONSTANTS
    f1 = f1
    f2 = f2
    t1 = t1
    m1 = m1
    g1 = g1
    e1 = e1
    r1 = r1
    tick = tick
    Channel = {c1}
    Key = {k1, k2}
    Failure = {f1, f2}
    Tester = {t1}
    Manager = {m1}
    Tagger = {g1}
    Tagged = {c1}
    Editor = {e1}
    Request = {r1}
    Ticker = {tick}
    Flaky = {}
    Site <- Simple
PROPERTIES
    CallsReturn
