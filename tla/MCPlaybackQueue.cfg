SPECIFICATION Spec
CONSTANTS
    a = a
    b = b
    c = c
    Tracks = {a, b, c}
    Listing <- ThreeTracks
    Plain = {p1, p2, p3, p4, p5}
    Queued = {q1, q2}
    None = None
    MaxEvents = 3
CHECK_DEADLOCK FALSE
INVARIANTS PlansAgree PlaceKept CaughtUp
PROPERTY LatestIntentWins
