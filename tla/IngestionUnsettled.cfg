SPECIFICATION Spec
CONSTANTS
    Jobs = {j1}
    Workers = {w1, w2}
    Nodes = {n1}
    NodeOf <- OneNode
    ChunkIds = {c1}
    MaxAttempts = 2
    MaxFaults <- OneRedelivery
    None = None
PROPERTIES
    SettledIsFinal
