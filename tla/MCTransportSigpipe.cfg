CONSTANTS
    A = A
    B = B
    C = C
    ab = ab
    bc = bc
    ca = ca
    ab2 = ab2
    F = F
    fb = fb
    Node = {A, B, C}
    Conn = {ab, bc, ca}
    Ends <- RingEnds
    DialOrder <- RingDials
    Slots = 2
    Msgs = {m1, m2}
    BufCap = 3
    NoConn = NoConn
    Foreign = {}
SPECIFICATION Spec
INVARIANT NoSigpipeDeath
CHECK_DEADLOCK FALSE
