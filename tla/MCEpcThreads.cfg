\* Two terminals attach and detach once; two threads on each gateway port.
SPECIFICATION Spec
CONSTANTS
    UE <- MCTwoUE
    WorkersCount = 2
    S11Threads = {s1, s2}
    PgwThreads = {p1, p2}
    HssKey <- MCKeys
    HssRand <- MCRands
    MaxRounds = 1
    Nil = Nil
SYMMETRY ThreadSymmetry
INVARIANT OneCall
INVARIANT NoInterference
