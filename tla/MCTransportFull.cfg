CONSTANTS
    A = A
    B = B
    C = C
    ab = ab
    bc = bc
    ca = ca
    ab2 = ab2
    F = F
    fb = fb
    Node = {A, B, F}
    Conn = {ab, ab2, fb}
    Ends <- FullEnds
    DialOrder <- FullDials
    Slots = 2
    Msgs = {m1}
    BufCap = 3
    NoConn = NoConn
    Foreign = {F}
SPECIFICATION Spec
PROPERTIES DeliveredOrDropped
CHECK_DEADLOCK FALSE
