\* Two devices install each other's checkpoints; a third member never answers, so nothing is compacted.
SPECIFICATION CSpec
CONSTANTS
    x1 = x1
    x2 = x2
    p1 = p1
    i1 = i1
    Device <- ThreeDevices
    Links <- BothWays
    Founders = {1, 2, 3}
    Admins = {1}
    Playlist = {}
    Item = {}
    Plain = {x1}
    PlaylistOf <- Contained
    MaxSeq = 2
    MaxTs = 2
    Quota <- Uneven
    OpRank <- MCOpRank
    BatchSize = 2
    MaxRounds = 1
    MaxAborts = 0
    Cutover = 9
    MaxPublishes = 2
    ByHand = {"publish", "compact"}
    Races = {}
INVARIANT PrefixExact
PROPERTY ClocksReplicatePrefixes
