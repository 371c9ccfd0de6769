SPECIFICATION BffSpec
CONSTANTS
    Tokens = {t1, t2, t3}
    Users = {u1}
    Requests = {r1, r2}
    Browsers = {b1}
    MaxLost = 0
    None = None
    Keep = Keep
PROPERTIES
    ClosedForGood
