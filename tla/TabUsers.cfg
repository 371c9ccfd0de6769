SPECIFICATION UsedSpec
CONSTANTS
    Users = {u1, u2}
    Admins = {u1}
    Documents = {d1}
    Members = {}
    Tour <- DocumentsPage
    MaxLogins = 2
    MaxCalls = 1
    Delayed = {}
    Refused = Refused
    None = None
PROPERTIES
    DeadSessionLeaves
    ForeignFades
