\* Maintenance and an operator publish and compact one checkpoint; a device joins at any time, edits and catches up.
SPECIFICATION CFairSpec
CONSTANTS
    x1 = x1
    x2 = x2
    p1 = p1
    i1 = i1
    Device <- TwoDevices
    Links <- BothWays
    Founders = {1}
    Admins = {1}
    Playlist = {}
    Item = {}
    Plain = {x1}
    PlaylistOf <- Contained
    MaxSeq = 2
    MaxTs = 1
    Quota <- Uneven
    OpRank <- MCOpRank
    BatchSize = 2
    MaxRounds = 2
    MaxAborts = 1
    Cutover = 2
    MaxPublishes = 1
    ByHand = {"compact", "force"}
    Races = {}
INVARIANTS HistoryKept OpIdsAgree
PROPERTIES ClocksNeverGoBack MembersCaughtUp
