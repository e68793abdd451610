\* STATE_LESS and NOCACHE: two terminals at once, each step on a replica of its own.
SPECIFICATION Spec
CONSTANTS
    m1 = m1
    m2 = m2
    s1 = s1
    s2 = s2
    p1 = p1
    p2 = p2
    None = None
    Broken = Broken
    UE = {1, 2}
    MmeReplica <- MCReplicas
    SgwReplica = {s1}
    PgwReplica = {p1}
    InitVal <- MCInitVal
    PgwHash <- MCPgwHash
    Binding = "STATE_LESS"
    NoCache = TRUE
    Rep = FALSE
    ErrCodes <- MCNoErr
    RetryLimitStep = 1
    RetryLimitFull = 2
    Crashing = {}
    MaxTries = 1
    MaxCrashes = 0
    MaxRestarts = 0
    MaxLosses = 0
    MaxPulls = 0
INVARIANT IdLeadsHome
INVARIANT BothServed
