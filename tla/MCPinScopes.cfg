\* One recording has a source file, one must be fetched; one scope is pinned.
SPECIFICATION MCSpec
CONSTANTS
    own = own
    far = far
    e1 = e1
    e2 = e2
    album = album
    None = None
    Rec = {own, far}
    Local = {own}
    Played = {far}
    p1 = p1
    Run = {p1}
    Encoder = {e1, e2}
    Scope = {album}
    Tracks <- Everything
    MaxEvents = 4
CHECK_DEADLOCK FALSE
INVARIANTS CacheSound PinnedBlobsKept PinsSettled
PROPERTY PinsFetched
