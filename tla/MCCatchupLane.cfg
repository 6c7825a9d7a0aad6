CONSTANTS
    NumPeers = 2
    MaxRuntimes = 2
    MaxEvents = 3
    MaxFailures = 1
SPECIFICATION LaneSpec
CHECK_DEADLOCK FALSE
INVARIANTS LaneInv SignalHeld
PROPERTY SignalFetched
