SPECIFICATION ChatSpec
CONSTANTS
    Turns = {t1, t2, t3}
    Users = {u1, u2}
    Me = u1
    Convs = {c1, c2}
    HistoryTurns = 1
    None = None
SYMMETRY Symmetry
INVARIANTS
    ChatTypeOK
    HistoryIsPrivate
    HistoryIsWholeTurns
    HistoryHasNoGaps
    NoOrphanConversation
    ShownIsSaved
PROPERTIES
    TwiceIsRefetched
