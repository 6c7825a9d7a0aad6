CONSTANTS
    Peers = {p1, p2}
    MaxAttempts = 3
    MaxMutations = 2
SPECIFICATION Spec
CHECK_DEADLOCK FALSE
INVARIANTS UpdateInv
PROPERTY MutationAnnounced
