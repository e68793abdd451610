\* Two S11 threads and terminals that attach again.
SPECIFICATION Spec
CONSTANTS
    UE <- MCTwoUE
    WorkersCount = 1
    S11Threads = {s1, s2}
    PgwThreads = {p1}
    HssKey <- MCKeys
    HssRand <- MCRands
    MaxRounds = 2
    Nil = Nil
INVARIANT
    SgwConsistent
