SPECIFICATION FairSpec
CONSTANTS
    Jobs = {j1}
    Workers = {w1, w2}
    Nodes = {n1, n2}
    NodeOf <- SlotPerNode
    ChunkIds = {c1}
    MaxAttempts = 2
    MaxFaults <- FleetFaults
    None = None
INVARIANTS
    NoDuplicateChunks
    ChunksBackedByVectors
    ReadyIsCitable
    StrandedOnlyByLoss
    
PROPERTIES
    CitableStaysCitable
    EveryUploadSettles
