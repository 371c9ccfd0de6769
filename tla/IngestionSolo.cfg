SPECIFICATION Spec
CONSTANTS
    Jobs = {j1, j2}
    Workers = {w1}
    Nodes = {n1}
    NodeOf <- OneNode
    ChunkIds = {c1}
    MaxAttempts = 2
    MaxFaults <- SoloFaults
    None = None
SYMMETRY JobSymmetry
INVARIANTS
    TypeOK
    StatusesAgree
    AttemptsWithinReclaims
    StrandedOnlyByLoss
PROPERTIES
    ImplementsLifecycle
    AttemptsNeverRewound
