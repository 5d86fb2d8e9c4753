SPECIFICATION Spec
CONSTANTS
    m1 = m1
    m2 = m2
    m3 = m3
    c1 = c1
    c2 = c2
    c3 = c3
    c4 = c4
    None = None
    Media = {m1, m2, m3}
    Clips = {c1, c2, c3, c4}
    Content <- EachContent
    Match <- NeighbourMatch
    Quality <- RisingQuality
    Paths = {"selection", "atomic", "legacy"}
    Posts <- PathPosts
    First = c1
    MaxFaults = 1
INVARIANTS
    PopularityIsSupport
    ServedHasBytes
PROPERTIES
    ExpiredIsReclaimed
CHECK_DEADLOCK FALSE
