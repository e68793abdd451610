\* Two terminals attach, detach and attach again; one thread per gateway port.
SPECIFICATION Spec
CONSTANTS
    UE <- MCTwoUE
    WorkersCount = 2
    S11Threads = {s1}
    PgwThreads = {p1}
    HssKey <- MCKeys
    HssRand <- MCRands
    MaxRounds = 2
    Nil = Nil
INVARIANTS
    TypeOK
    NoExit
    BearerConnected
    KeysAgree
    RanReadsExpected
    AnswersMatch
    SgwConsistent
    PgwConsistent
    NoResidue
PROPERTY
    ImplementsBearer
