\* The triangle, two packets typed at A.  The clock runs past the
\* one-second window (SeenTTL = 0), so entries expire while copies are still
\* in flight, and the wall clock may be set back a second; the cache holds
\* both IDs, so nothing is evicted.
CONSTANTS
    A = A  B = B  C = C  D = D
    ab = ab  bc = bc  ca = ca  cd = cd  bd = bd
    Node = {A, B, C}
    Conn = {ab, bc, ca}
    Ends <- TriangleEnds
    Origins = {A}
    DefaultTTL <- TTL3
    RelayEnabled <- AllRelay
    Ids = {p1, p2}
    NoId = NoId
    Capacity = 2
    SeenTTL = 0
    PruneInterval = 0
    MaxTime = 1
    ClockSteps <- SetBack
SPECIFICATION Spec
CHECK_DEADLOCK FALSE
INVARIANTS TypeOK RedisplayOnlyAfterWindow NoEchoWithinWindow
SYMMETRY IdSymmetry
