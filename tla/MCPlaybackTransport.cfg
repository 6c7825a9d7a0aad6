CONSTANTS
    e1 = e1
    e2 = e2
    u1 = u1
    u2 = u2
    None = None
    Entry <- MCEntry
    UriOf <- MCUriOf
    Restored <- MCRestored
    Gone = {}
    MaxCommands = 3
    MaxCalls = 2
    MaxAttempts = 1
    MaxList = 2
    MaxEvents = 1
SPECIFICATION Spec
CHECK_DEADLOCK FALSE
INVARIANTS PlayerFollows PreloadIsNext TransitionLoads
