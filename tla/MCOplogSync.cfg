\* A playlist and an item of it are created, edited and deleted on two devices; a session is cut off.
SPECIFICATION Spec
CONSTANTS
    x1 = x1
    p1 = p1
    i1 = i1
    Device <- TwoDevices
    Links <- BothWays
    Playlist = {p1}
    Item = {i1}
    Plain = {}
    PlaylistOf <- Contained
    MaxSeq = 2
    MaxTs = 2
    Quota <- Uneven
    OpRank <- MCOpRank
    BatchSize = 2
    MaxRounds = 1
    MaxAborts = 1
INVARIANTS TypeOK PrefixExact Converged
PROPERTY ClocksReplicatePrefixes
