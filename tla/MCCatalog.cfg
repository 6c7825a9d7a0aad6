SPECIFICATION MCSpec
CONSTANTS
    p1 = p1
    p2 = p2
    r1 = r1
    r2 = r2
    top = top
    sub = sub
    tA = tA
    tB = tB
    uB = uB
    uC = uC
    wD = wD
    me = me
    you = you
    None = None
    Me = me
    Paths = {p1, p2}
    Remote = {r1, r2}
    Roots = {top, sub}
    FirstRoots = {top}
    Devices = {me, you}
    Tags = {tA, tB, uB, uC, wD}
    Under <- MCUnder
    Holds <- MCHolds
    TrackOf <- MCTrackOf
    AlbumOf <- MCAlbumOf
    ArtistOf <- MCArtistOf
    ClusterOf <- MCClusterOf
    FamilyOf <- MCFamilyOf
    Preferred <- MCPreferred
    FirstDisk <- MCDisk
    FirstFiles <- MCFiles
    Recordings = {"v1", "v2", "w"}
    Sources = {"s1", "s2", "s3", "s4"}
    Albums = {"a", "b"}
    Here = "here"
    LibraryOf <- MCLibraryOf
    Grade <- MCGrade
    VariantOf <- MCVariantOf
    OwnerOf <- MCOwnerOf
    Newness <- MCNewness
    AlbumCluster <- MCAlbumCluster
    TracksOf <- MCTracksOf
    AlbumGrade <- MCAlbumGrade
    Machines <- MCMachines
    Databases <- MCDatabases
    MaxEvents = 2
    MaxPasses = 2
    MaxFailures = 1
CHECK_DEADLOCK FALSE
INVARIANTS CatalogCurrent ChangesTold RowsFollowDisk AnswersAgree
PROPERTY UserDataKept
