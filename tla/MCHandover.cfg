\* The handover next to terminal 0, which attaches and detaches, and terminal
\* 252, whose key differs from the HSS's; one worker serves all connections.
SPECIFICATION HoSpec
CONSTANTS
    UE <- MCTerminals
    WorkersCount = 1
    S11Threads = {s1}
    PgwThreads = {p1}
    HssKey <- MCWrongKey
    HssRand <- MCRands
    MaxRounds = 1
    Nil = Nil
INVARIANT OnlyAuthenticated
INVARIANT PathKept
PROPERTY HandoverCompletes
PROPERTY EveryoneServed
