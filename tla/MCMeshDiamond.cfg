\* Every hop distance is at most the TTL of 2, yet a copy that reaches B
\* the long way round (A-C-B, TTL 1 left) can arrive first.
CONSTANTS
    A = A  B = B  C = C  D = D
    ab = ab  bc = bc  ca = ca  cd = cd  bd = bd
    Node = {A, B, C, D}
    Conn = {ab, bc, ca, bd}
    Ends <- DiamondEnds
    Origins = {A}
    DefaultTTL <- TTL2
    RelayEnabled <- AllRelay
    Ids = {p1}
    NoId = NoId
    Capacity = 1
    SeenTTL = 2
    PruneInterval = 0
    MaxTime = 0
    ClockSteps = {}
SPECIFICATION Spec
CHECK_DEADLOCK FALSE
PROPERTIES Coverage
