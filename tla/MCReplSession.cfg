\* SESSION_BASED without faults: data packets fill caches while a terminal attaches
\* and detaches through changing replicas.
SPECIFICATION Spec
CONSTANTS
    m1 = m1
    m2 = m2
    s1 = s1
    s2 = s2
    p1 = p1
    p2 = p2
    None = None
    Broken = Broken
    UE = {1}
    MmeReplica <- MCReplicas
    SgwReplica = {s1, s2}
    PgwReplica = {p1, p2}
    InitVal <- MCInitVal
    PgwHash <- MCPgwHash
    Binding = "SESSION_BASED"
    NoCache = FALSE
    Rep = FALSE
    ErrCodes <- MCNoErr
    RetryLimitStep = 1
    RetryLimitFull = 2
    Crashing = {}
    MaxTries = 2
    MaxCrashes = 0
    MaxRestarts = 0
    MaxLosses = 0
    MaxPulls = 1
INVARIANT RequestsServed
INVARIANT Forwarded
