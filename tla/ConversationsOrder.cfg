SPECIFICATION Spec
CONSTANTS
    Turns = {t1, t2}
    Users = {u1}
    Convs = {c1}
    HistoryTurns = 2
    None = None
CHECK_DEADLOCK FALSE
INVARIANTS
    HistoryOldestFirst
