\* Two packets from A and D flooding the triangle-with-tail; no clock, so only the
\* order in which copies arrive decides which TTL each node relays.
CONSTANTS
    A = A  B = B  C = C  D = D
    ab = ab  bc = bc  ca = ca  cd = cd  bd = bd
    Node = {A, B, C, D}
    Conn = {ab, bc, ca, cd}
    Ends <- TailEnds
    Origins = {A, D}
    DefaultTTL <- TTL3
    RelayEnabled <- AllRelay
    Ids = {p1, p2}
    NoId = NoId
    Capacity = 2
    SeenTTL = 2
    PruneInterval = 0
    MaxTime = 0
    ClockSteps = {}
SPECIFICATION Spec
CHECK_DEADLOCK FALSE
PROPERTIES Coverage
