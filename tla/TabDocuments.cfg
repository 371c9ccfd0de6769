SPECIFICATION PolledSpec
CONSTANTS
    Users = {u1}
    Admins = {u1}
    Documents = {d1}
    Members = {m1}
    Tour <- AllPages
    MaxLogins = 1
    MaxCalls = 1
    Delayed = {"documents"}
    Refused = Refused
    None = None
INVARIANTS
    TabTypeOK
PROPERTIES
    TableNeverReverts
    ProcessingEnds
