SPECIFICATION FairSpec
CONSTANTS
    Request = {r1, r2}
    Pre = {2, 4}
    Actual = {0, 3}
    Wallet0 = 3
    Token0 = 3
    TokenUnlimited = FALSE
    TrustQuota = 2
    RetryTimes = 1
    MayFail = TRUE
    MayCrash = TRUE
INVARIANTS
    TypeOK
    SettledOrRefunded
    NeverOvercharged
    AccountedExactly
    OverdraftBounded
PROPERTIES
    RefundArrives
