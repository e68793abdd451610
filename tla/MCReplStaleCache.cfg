\* STATE_LESS, no fault: an SGW replica that served only the create keeps its entries.
SPECIFICATION Spec
CONSTANTS
    m1 = m1
    m2 = m2
    s1 = s1
    s2 = s2
    p1 = p1
    p2 = p2
    None = None
    Broken = Broken
    UE = {1}
    MmeReplica <- MCReplicas
    SgwReplica = {s1, s2}
    PgwReplica = {p1, p2}
    InitVal <- MCInitVal
    PgwHash <- MCPgwHash
    Binding = "STATE_LESS"
    NoCache = FALSE
    Rep = FALSE
    ErrCodes <- MCNoErr
    RetryLimitStep = 1
    RetryLimitFull = 2
    Crashing = {}
    MaxTries = 1
    MaxCrashes = 0
    MaxRestarts = 0
    MaxLosses = 0
    MaxPulls = 0
INVARIANT Forwarded
