SPECIFICATION BffSpec
CONSTANTS
    Tokens = {t1, t2, t3}
    Users = {u1}
    Requests = {r1}
    Browsers = {b1, b2}
    MaxLost = 1
    None = None
    Keep = Keep
SYMMETRY Symmetry
INVARIANTS
    BffTypeOK
    OneLiveTokenPerLogin
    AlarmTakesLoss
    JarIsLatest
PROPERTIES
    RefusedCookiesGo
    ImplementsLifecycle
