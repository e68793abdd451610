\* UE_BASED with REP: one attach, one MME or SGW replica crashes.
SPECIFICATION Spec
CONSTANTS
    m1 = m1
    m2 = m2
    s1 = s1
    s2 = s2
    p1 = p1
    p2 = p2
    None = None
    Broken = Broken
    UE = {1}
    MmeReplica <- MCReplicas
    SgwReplica = {s1, s2}
    PgwReplica = {p1, p2}
    InitVal <- MCInitVal
    PgwHash <- MCPgwHash
    Binding = "UE_BASED"
    NoCache = FALSE
    Rep = TRUE
    ErrCodes <- MCNoErr
    RetryLimitStep = 1
    RetryLimitFull = 2
    Crashing <- MCAll
    MaxTries = 1
    MaxCrashes = 1
    MaxRestarts = 0
    MaxLosses = 0
    MaxPulls = 0
INVARIANT SiblingsTakeOver
